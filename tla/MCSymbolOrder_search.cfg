SPECIFICATION FairSpec
CONSTANTS
  Symbols = {a, b, r, s}
  Typedefs = {a, b}
  MaxEdges = 5
  Graphs <- MCGraphs
INVARIANTS TypeOK OrderIsSound RefusedOnlyIfCyclic DepthWithinSymbols
PROPERTY SearchEnds
