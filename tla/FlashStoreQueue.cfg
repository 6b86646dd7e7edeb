SPECIFICATION Spec
CONSTANTS
  RecPerSector = 2
  RegionSectors = 3
  MaxRec = 9
  Faults = FALSE
PROPERTY ImplementsQueue
