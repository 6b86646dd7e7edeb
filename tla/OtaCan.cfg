SPECIFICATION Spec
PROPERTIES UpgradeOnlyComplete
CONSTANTS
  Buf = 2
  Sector = 4
  Slot = 8
  ImageSize <- TwoImages
  Mtus = {1, 3}
  MaxRepeat = 1
  SourceSets <- LteOnly
  MaxStarts = 2
  MaxEnds = 1
  MaxAir = 2
  MaxCalls = 2
  Faults = TRUE
  CanLost = TRUE
CHECK_DEADLOCK FALSE
