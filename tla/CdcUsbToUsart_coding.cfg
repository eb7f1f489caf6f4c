CONSTANTS
  Size = 4
  Values <- MCValues
  PacketSize = 2
  Piecemeal = FALSE
  IndexSpan = 32
  MaxPackets = 5
  MaxChanges = 1
SPECIFICATION SpecCoding
INVARIANTS IndexInBuffer
CHECK_DEADLOCK FALSE
