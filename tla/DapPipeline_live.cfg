CONSTANTS
  PacketCount = 2
  ReqBlocks = {q1, q2}
  ResBlocks = {s1, s2}
  Null = Null
  MaxTransfers = 1
  MaxRequests = 4
  MaxAborts = 1
  MaxConfigs = 1
SPECIFICATION FairSpec
PROPERTIES AllAnswered KeepsAccepting OpensAgain
CHECK_DEADLOCK FALSE
