SPECIFICATION Spec
CONSTANTS
  RecPerSector = 2
  RegionSectors = 2
  MaxRec = 7
  Faults = TRUE
INVARIANT StagingHasRoom
