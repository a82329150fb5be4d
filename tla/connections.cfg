SPECIFICATION FairSpec
CONSTANTS
  Callers = {c1, c2}
  Local = {c2}
  Addrs = {a1, a2}
  MaxStarts = 2
  ZkFaults = TRUE
  KafkaFaults = TRUE
INVARIANTS
  TypeOK
  OnePromiseEach
PROPERTIES
  FetchGivesChannel
  CallsAnswered
  AnnouncementReconnects
CHECK_DEADLOCK FALSE
