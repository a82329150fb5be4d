SPECIFICATION Spec
CONSTANTS
  Members = {1, 2}
  Quorum = 2
  NoOwner = NoOwner
  MaxTerm = 2
  MaxSessions = 2
  MaxCrashes = 0
  MaxLag = 1
  SessionLoss = TRUE
  RpcFaults = TRUE
  TimelyLeader = FALSE
INVARIANTS
  TypeOK
  LockClaims
  ExclusiveCoordinator
  DchecksHold
  UniqueTerms
PROPERTY
  LockTakenFromNobody
CHECK_DEADLOCK FALSE
