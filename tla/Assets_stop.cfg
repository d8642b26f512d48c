SPECIFICATION FairSpec
CONSTANTS
  NoJob = NoJob
  Texture = {t}
  f1 = f1
  f2 = f2
  i1 = i1
  i2 = i2
  Font = {f1}
  Image = {i1}
  Sound = {}
  File = {}
  ImagesOf <- OneImage
  None = None
  MaxPerDrain = 1
  MaxLoads = 2
PROPERTY NoDecodeAfterStop
