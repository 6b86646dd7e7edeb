SPECIFICATION FairSpec
CONSTANTS
  Protocols = {TRUE, FALSE}
  Files = 2
  FileLen = 5
  SohSize = 1
  StxSize = 2
  SeqCount = 3
  HandshakeRetry = 2
  SendRetry = 2
  MaxFaults = 2
INVARIANTS TypeOK SavedInOrder OkComplete
PROPERTIES BothReturn
CHECK_DEADLOCK FALSE
