SPECIFICATION FairSpec
CONSTANTS
  Controls = {"pause", "resume", "quit", "step", "input", "screenshot", "set_time"}
  Steps = {1}
  Times = {1}
  Dts = {1}
  QueueCap = 2
  MaxTime = 1
  MaxFrames = 3
INVARIANTS TypeOK StepsEndOnFrame
PROPERTIES NoViewAfterQuit TicksNeverGoBack StepsAreTaken QuitEndsLoop
