SPECIFICATION FairSpec
CONSTANTS
  N = 2
  Sizes = {1, 2}
  ThreadOptions = {1}
  Hardware = 3
  None = None
INVARIANT SlotInRange
CHECK_DEADLOCK FALSE
