SPECIFICATION FairSpec
CONSTANTS
  Diags <- MCDiags
  Errors <- MCErrors
  Unknown <- MCUnknown
  InSource <- MCInSource
  Unlocated <- MCUnlocated
  Reports <- MCReports
  Analyses <- MCAnalyses
  SelectDiagnostics <- MCSelectDiagnostics
  Invocations <- MCInvocations
  MaxTotalTime = 4
  MaxCallTime = 2
INVARIANTS TypeOK SuccessCompiles MendfileCurrent SizeReported UnknownCountedOnce IterationsWithinErrors IterationsWithinTime
PROPERTIES NeverMendedTwice Termination ImplementsMending
