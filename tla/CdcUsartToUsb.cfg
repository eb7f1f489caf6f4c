CONSTANTS
  Size = 4
  Values <- MCValues
  PacketSize = 2
  IndexSpan = 32
  MaxBytes = 5
  MaxChanges = 1
SPECIFICATION FairSpec
INVARIANTS DeliveredInOrder NothingLost BufferExclusive
PROPERTIES AllDelivered
CHECK_DEADLOCK FALSE
