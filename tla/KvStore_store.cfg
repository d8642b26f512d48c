SPECIFICATION FairSpec
CONSTANTS
  NoJob = NoJob
  Key = {k1, k2}
  None = None
  Old = Old
  Foreign = Foreign
  Torn = Torn
  DiskFails = TRUE
  Reenter = TRUE
  MaxSaves = 2
  MaxReads = 1
  MaxLaunches = 2
CHECK_DEADLOCK FALSE
INVARIANTS TypeOK StoreIsMerge SavesSurviveShutdown
PROPERTY ReadsAreAnswered
