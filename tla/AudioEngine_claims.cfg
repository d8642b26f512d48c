\* The same url loaded twice and unloaded once; vacated slots are reused.  With
\* -continue TLC reports how each claim is broken.
CONSTANTS
  Ptr = {p1, p2}
  NULL = NULL
  Url = {u1}
  NoUrl = NoUrl
  Group = {g1}
  Silent = Silent
  Controls = {}
  Loops = {FALSE}
  MaxDelay = 0
  MaxChunk = 1
  MaxFrames = 1
  MaxBatch = 1
  MaxQueue = 2
SPECIFICATION Spec
PROPERTIES UnloadUndoesLoad BufferIdsMonotonic
