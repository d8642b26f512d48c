\* set_volume_at on a sound scheduled for the future.
CONSTANTS
  Ptr = {p1, p2}
  NULL = NULL
  Url = {u1}
  NoUrl = NoUrl
  Group = {g1}
  Silent = Silent
  Controls = {"volumeAt"}
  Loops = {FALSE}
  MaxDelay = 1
  MaxChunk = 1
  MaxFrames = 1
  MaxBatch = 1
  MaxQueue = 2
SPECIFICATION Spec
INVARIANT NoEarlyStart
