SPECIFICATION Spec
CONSTANTS
  Path = {}
  Kinds = {"program"}
  Delays = {0}
  MaxTimers = 1
  MaxCommands = 2
  MaxNow = 0
INVARIANTS CommandsBeforeView
