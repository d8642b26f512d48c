SPECIFICATION FairSpec
CONSTANTS
  Path = {"f1"}
  Kinds = {"file", "audio", "program"}
  Delays = {1}
  MaxTimers = 2
  MaxCommands = 2
  MaxNow = 1
INVARIANTS TypeOK StartThenInOrder AnswersFindTheirRequest FramesRunNextFrame
PROPERTIES TimersFire RequestsAreAnswered
