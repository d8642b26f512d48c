SPECIFICATION FairSpec
CONSTANTS
  Path = {}
  Kinds = {}
  Delays = {0}
  MaxTimers = 2
  MaxCommands = 0
  MaxNow = 0
PROPERTIES ClearedStaysQuiet
