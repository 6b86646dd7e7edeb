SPECIFICATION FairSpec
CONSTANTS
  QueueLen = 2
  PendLen = 1
  RingLen = 1
  Reports = 1
  MaxCmd = 2
  MaxLines = 1
  MaxUpdates = 1
  MaxWakes = 2
  MaxFaults = 1
INVARIANTS TypeOK SemGuardsTransfer
PROPERTIES TransmitsInOrder UartSleeps
