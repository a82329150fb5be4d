SPECIFICATION FairSpec
CONSTANTS
  Services = {s1, s2}
  VolumeServers = {s1, s2}
  Started = {s1, s2}
  Names = {n1}
  Workers = {t1}
  ReplicaFactor = 2
  MaxCalls = 4
  MaxCrashes = 0
  MaxLosses = 0
  KafkaFaults = FALSE
PROPERTY
  ServersComeUp
CHECK_DEADLOCK FALSE
