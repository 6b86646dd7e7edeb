SPECIFICATION Spec
CONSTANTS
  TableMax <- TwoEntries
  MaxRec <- ScanRecs
  MaxAll = 4
  PacketMax = 1
  HeardMax = 1
  MaxReconfig = 0
  MaxOff = 1
  Lossy = TRUE
  Faults = FALSE
INVARIANTS TypeOK StoredInTimeOrder LockStep
PROPERTIES SentAsAnnounced CommitsReceivedUnlessReconfigured
CHECK_DEADLOCK FALSE
