CONSTANTS
  PacketCount = 2
  ReqBlocks = {q1, q2}
  ResBlocks = {s1, s2}
  Null = Null
  MaxTransfers = 2
  MaxRequests = 2
  MaxAborts = 0
  MaxConfigs = 2
SPECIFICATION FairSpecAgain
PROPERTIES AnsweredOnceConfigured
CHECK_DEADLOCK FALSE
