SPECIFICATION Spec
CONSTANTS
  Members = {1, 2, 3}
  Quorum = 2
  Writes = {w1}
  Versions = {0}
  MaxElections = 2
  MaxCrashes = 1
  MaxJoins = 0
  RpcFaults = FALSE
  DbFaults = FALSE
PROPERTY
  LeaderHasLatestState
CHECK_DEADLOCK FALSE
