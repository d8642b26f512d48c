SPECIFICATION FairSpec
CONSTANTS
  NoJob = NoJob
  Texture = {t}
  f1 = f1
  f2 = f2
  i1 = i1
  i2 = i2
  Font = {f1, f2}
  Image = {i1, i2}
  Sound = {s}
  File = {p}
  ImagesOf <- SharedImage
  None = None
  MaxPerDrain = 2
  MaxLoads = 3
INVARIANTS TypeOK FontsAreBacked LatestLoadWins
PROPERTIES PipeSpec LoadsSettle ShutdownReturns
