SPECIFICATION Spec
CONSTANTS
  Members = {1, 2, 3}
  Quorum = 2
  Writes = {w1, w2, w3}
  Versions = {0}
  MaxElections = 1
  MaxCrashes = 1
  MaxJoins = 0
  RpcFaults = TRUE
  DbFaults = FALSE
SYMMETRY WriteSymmetry
INVARIANTS
  FunctionalPeersCurrent
  JournalsFollowLeader
CHECK_DEADLOCK FALSE
