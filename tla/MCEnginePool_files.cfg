SPECIFICATION FairSpec
CONSTANTS
  N = 2
  ThreadOptions = {1, 2}
  MaxUnknown = 1
INVARIANTS TypeOK RatiosWithinOne ReportExact ExportFindsReports RunningTaskKeepsDir FrequencySound
PROPERTY MainReturns
CHECK_DEADLOCK FALSE
