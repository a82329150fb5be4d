SPECIFICATION FairSpec
CONSTANTS
  Members = {1, 2}
  Quorum = 2
  NoOwner = NoOwner
  MaxTerm = 1
  MaxSessions = 1
  MaxCrashes = 0
  MaxLag = 1
  SessionLoss = FALSE
  RpcFaults = TRUE
  TimelyLeader = TRUE
PROPERTY
  QuorumStartsElection
CHECK_DEADLOCK FALSE
