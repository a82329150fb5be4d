SPECIFICATION Spec
CONSTANTS
  Callers = {c1, c2}
  Local = {c2}
  Addrs = {a1}
  MaxStarts = 1
  ZkFaults = FALSE
  KafkaFaults = FALSE
INVARIANT
  NoNullChannel
CHECK_DEADLOCK FALSE
