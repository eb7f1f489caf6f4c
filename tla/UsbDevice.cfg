\* Control transfers of up to three packets, and of more bytes than the
\* buffer holds; bulk transfers of up to two full packets.
CONSTANTS
  Mps = 2
  BufferLen = 4
  Width = 7
  Asked = {2, 3, 4, 6}
  Offered = {1, 4}
  Packet = 2
  Room = 4
  Messages = 3

SPECIFICATION Spec

INVARIANT ControlExact
INVARIANT ControlProceeds
INVARIANT BulkExact
