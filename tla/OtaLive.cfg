SPECIFICATION FairSpec
PROPERTIES DownloadEnds
CONSTANTS
  Buf = 2
  Sector = 2
  Slot = 4
  ImageSize <- SmallImages
  Mtus = {3}
  MaxRepeat = 1
  SourceSets <- Any
  MaxStarts = 2
  MaxEnds = 1
  MaxAir = 2
  MaxCalls = 1
  Faults = TRUE
  CanLost = TRUE
CHECK_DEADLOCK FALSE
