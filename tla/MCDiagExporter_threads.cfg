SPECIFICATION FairSpec
CONSTANTS
  N = 5
  Sizes = {2, 3}
  ThreadOptions = {0, 1, 3}
  Hardware = 2
  None = None
INVARIANTS TypeOK ResultsComplete LoadsWithinGreedyBound
PROPERTIES SlotWrittenOnce Ends
CHECK_DEADLOCK FALSE
