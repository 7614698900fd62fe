SPECIFICATION Spec
CONSTANTS
  Names = {x}
  Members = {m}
  TypedefNames = {}
  NamedRecords = {S}
  NamedEnums = {E}
  Headers = {h}
  INT = INT
  UINT = UINT
  VOID = VOID
  NoAlias = NoAlias
  MaxAliases = 2
  MaxTags = 2
  MaxConstants = 1
  MaxPointers = 2
  MaxSubscripts = 2
INVARIANTS TypeOK AliasIdentifiesSymbol ReferencesResolve NoRecordContainsItself
PROPERTY LocksKept
