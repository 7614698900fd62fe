SPECIFICATION Spec
CONSTANTS
  Threads = {t1, t2}
  Kinds = {"alias"}
  MaxNames = 3
INVARIANT NamesUniqueInFile
CHECK_DEADLOCK FALSE
