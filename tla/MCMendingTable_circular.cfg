SPECIFICATION Spec
CONSTANTS
  Names = {x}
  Members = {m}
  TypedefNames = {}
  NamedRecords = {S}
  NamedEnums = {}
  Headers = {}
  INT = INT
  UINT = UINT
  VOID = VOID
  NoAlias = NoAlias
  MaxAliases = 2
  MaxTags = 2
  MaxConstants = 0
  MaxPointers = 1
  MaxSubscripts = 2
INVARIANT PointerCyclesAllowed
