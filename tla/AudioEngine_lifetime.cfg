\* Two addresses, two urls, one group: unload, reload and slot reuse while
\* commands and voices are in flight; time stands still.
CONSTANTS
  Ptr = {p1, p2}
  NULL = NULL
  Url = {u1, u2}
  NoUrl = NoUrl
  Group = {g1}
  Silent = Silent
  Controls = {"stop"}
  Loops = {TRUE}
  MaxDelay = 0
  MaxChunk = 1
  MaxFrames = 0
  MaxBatch = 2
  MaxQueue = 3
SPECIFICATION Spec
SYMMETRY Symmetry
INVARIANTS
  TypeOK
  NoDanglingBuffer
  SoleOwner
  UrlMapSound
  ReadyExactlyOnce
PROPERTY LifetimeSpec
