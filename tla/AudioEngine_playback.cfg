\* One buffer, a clock of three frames, a fair audio thread.
CONSTANTS
  Ptr = {p1}
  NULL = NULL
  Url = {u1}
  NoUrl = NoUrl
  Group = {g1}
  Silent = Silent
  Controls = {"set", "volumeAt", "loop"}
  Loops = {FALSE}
  MaxDelay = 1
  MaxChunk = 2
  MaxFrames = 2
  MaxBatch = 1
  MaxQueue = 2
SPECIFICATION FairSpec
INVARIANT StartedStaysAudible
PROPERTY UnloadIsFreed
