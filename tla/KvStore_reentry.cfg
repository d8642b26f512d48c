SPECIFICATION FairSpec
CONSTANTS
  NoJob = NoJob
  Key = {k1}
  None = None
  Old = Old
  Foreign = Foreign
  Torn = Torn
  DiskFails = FALSE
  Reenter = TRUE
  MaxSaves = 1
  MaxReads = 1
  MaxLaunches = 1
CHECK_DEADLOCK FALSE
PROPERTY ReadsAnsweredAfterReentry
