\* Three claims, none of which holds: list one at a time to see how it is broken.
SPECIFICATION Spec
CONSTANTS
  Controls = {"pause", "resume", "quit", "step", "input", "screenshot"}
  Steps = {1, 2}
  Times = {}
  Dts = {1, 2}
  QueueCap = 2
  MaxTime = 2
  MaxFrames = 3
INVARIANT AudioReachesHost
PROPERTIES PauseFreezes AudioSharesTickClock
