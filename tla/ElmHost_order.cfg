SPECIFICATION Spec
CONSTANTS
  Path = {}
  Kinds = {}
  Delays = {0, 1}
  MaxTimers = 2
  MaxCommands = 0
  MaxNow = 2
INVARIANTS TimersInDueOrder
