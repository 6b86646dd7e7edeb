SPECIFICATION Spec
INVARIANTS TypeOK CacheInStep
PROPERTIES UpgradeOnlyComplete
CONSTANTS
  Buf = 2
  Sector = 4
  Slot = 8
  ImageSize <- TwoImages
  Mtus = {1, 3}
  MaxRepeat = 1
  SourceSets <- EachAlone
  MaxStarts = 2
  MaxEnds = 1
  MaxAir = 2
  MaxCalls = 2
  Faults = TRUE
  CanLost = FALSE
CHECK_DEADLOCK FALSE
