SPECIFICATION FairSpec
CONSTANTS
  Services = {s1, d1}
  VolumeServers = {s1}
  Started = {s1}
  Names = {n1}
  Workers = {t1, t2}
  ReplicaFactor = 1
  MaxCalls = 4
  MaxCrashes = 1
  MaxLosses = 1
  KafkaFaults = TRUE
PROPERTIES
  CallsReturn
  AnnouncedReplicated
CHECK_DEADLOCK FALSE
