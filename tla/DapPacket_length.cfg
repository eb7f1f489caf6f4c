\* Packets of one command, alone and in a DAP_ExecuteCommands.
CONSTANTS
  PacketCommands <- SomeCommands
  MaxCommands = 1
  PktSize = 24

SPECIFICATION PacketSpec

\* The response is sent.
CHECK_DEADLOCK FALSE

INVARIANT LengthOfResponse
