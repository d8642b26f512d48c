SPECIFICATION Spec
CONSTANTS
  NoJob = NoJob
  Key = {k1, k2}
  None = None
  Old = Old
  Foreign = Foreign
  Torn = Torn
  DiskFails = FALSE
  Reenter = FALSE
  MaxSaves = 1
  MaxReads = 1
  MaxLaunches = 1
CHECK_DEADLOCK FALSE
INVARIANT StoresStayApart
