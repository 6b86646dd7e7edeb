SPECIFICATION FairSpec
CONSTANTS
  Sizes = {1, 3}
  MaxPart = 1
  MaxRetry = 1
  PacketCells = 2
  NotifyCells = 3
  BufCells = 4
  QueueLen = 2
  Width = 4
  MaxAsked = 2
  MaxFault = 1
  MaxConn = 1
INVARIANTS TypeOK NeverStuck NeverMixed CompletedReceived
PROPERTIES TransferEnds
CHECK_DEADLOCK FALSE
