SPECIFICATION Spec
CONSTANTS
  Services = {s1, s2, s3, s4}
  VolumeServers = {s1, s2, s3, s4}
  Started = {s1}
  Names = {n1}
  Workers = {t1, t2}
  ReplicaFactor = 2
  MaxCalls = 7
  MaxCrashes = 1
  MaxLosses = 1
  KafkaFaults = TRUE
SYMMETRY TreeSymmetry
INVARIANTS
  TypeOK
  RingsWellFormed
  VolumesOnRings
  TreeFirst
  IdsFresh
  ReplicasOwned
CHECK_DEADLOCK FALSE
