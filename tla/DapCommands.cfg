\* Each call of swd.c, each access of jtag.c, raw sequences, each DAP_Transfer and
\* DAP_TransferBlock of up to 3 requests, any sequence of settings, packets of one
\* command and of up to three in a DAP_ExecuteCommands, with a response full
\* after 24 bytes.
CONSTANTS
  Requests <- SomeRequests
  Words <- SomeWords
  Trns = {1, 3}
  Idles = {0, 2}
  Limits = {0, 2}
  Counts = {1, 2, 4}
  IrLens = {1, 4}
  IdleCycles = {0, 24}
  WaitLimits = {1}
  PacketCommands <- SomeCommands
  MaxCommands = 3
  PktSize = 24
  BitFields = {0, 1, 7, 8, 9, 63, 64, 100, 255}
  TransferRequests <- AllTransfers
  MaxTransfers = 3
  MatchRetries = {0, 1}
  Clocks = {0, 10000, 65536}
  IdleSettings = {255}
  RetrySettings = {300}
  TrnSettings = {4}

SPECIFICATION Spec

\* A call, an access, a command ends.
CHECK_DEADLOCK FALSE

INVARIANT InStep
INVARIANT TargetLeftIdle
INVARIANT DoneOnce
INVARIANT WaitIsRetried
INVARIANT ScansExact
INVARIANT SequenceExact
INVARIANT AnswersInOrder
INVARIANT ExecutedOnce
INVARIANT AbortIsClean
INVARIANT SettingsInForce
INVARIANT CommandsFound
INVARIANT AnswersFound
