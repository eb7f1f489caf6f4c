CONSTANTS
  Size = 4
  Values <- MCValues
  PacketSize = 2
  Piecemeal = FALSE
  IndexSpan = 32
  MaxPackets = 5
  MaxChanges = 0
SPECIFICATION FairSpec
PROPERTIES FullWaitEnds
CHECK_DEADLOCK FALSE
