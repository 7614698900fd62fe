SPECIFICATION Spec
CONSTANTS
  int = int
  int128 = int128
  S = S
  pS = pS
  p128 = p128
  fn = fn
  vector = vector
  Null = Null
  MaxRuns = 2
  MaxDiags = 3
  Start <- MCStart
  Count <- MCCount
  UpperLimit = 13
  Types <- MCTypes
  Shape <- MCShape
  Diagnostics <- MCDiagnostics
  Mapping <- MCMapping
  IntWidth = 4
INVARIANTS CountsTell CleanMeansCompiles ResultOfThisRun DiagsAsReported TypesAsFresh
