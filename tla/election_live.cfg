SPECIFICATION FairSpec
CONSTANTS
  Members = {1, 2}
  Quorum = 2
  NoOwner = NoOwner
  MaxTerm = 2
  MaxSessions = 2
  MaxCrashes = 1
  MaxLag = 1
  SessionLoss = FALSE
  RpcFaults = FALSE
  TimelyLeader = TRUE
PROPERTIES
  EventuallyLed
  LockIsUsed
  ElectionsEnd
CHECK_DEADLOCK FALSE
