SPECIFICATION FairSpec
CONSTANTS
  Members = {1, 2, 3}
  Quorum = 2
  Writes = {w1}
  Versions = {0, 1}
  MaxElections = 1
  MaxCrashes = 1
  MaxJoins = 1
  RpcFaults = TRUE
  DbFaults = TRUE
INVARIANTS
  TypeOK
  QuorumStateExact
  AckedOnQuorum
PROPERTIES
  ImplementsPromise
  EveryWriteAnswered
  SyncEnds
CHECK_DEADLOCK FALSE
