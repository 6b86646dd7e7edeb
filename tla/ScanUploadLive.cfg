SPECIFICATION FairSpec
CONSTANTS
  TableMax <- OneEntry
  MaxRec <- BothSensors
  MaxAll = 3
  PacketMax = 1
  HeardMax = 1
  MaxReconfig = 1
  MaxOff = 0
  Lossy = FALSE
  Faults = TRUE
INVARIANTS OneUploadAtATime SessionsClosed ScanPausedIffUploading
PROPERTIES UploadsEnd
CHECK_DEADLOCK FALSE
