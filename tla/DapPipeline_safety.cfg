CONSTANTS
  PacketCount = 2
  ReqBlocks = {q1, q2}
  ResBlocks = {s1, s2}
  Null = Null
  MaxTransfers = 2
  MaxRequests = 5
  MaxAborts = 1
  MaxConfigs = 1
SPECIFICATION Spec
SYMMETRY Blocks
INVARIANTS ReqOwnership ResOwnership DmaIsolation NoSpuriousAbort FlowControl MailboxesHaveRoom
PROPERTIES ServiceSpec
CHECK_DEADLOCK FALSE
