SPECIFICATION FairSpec
CONSTANTS
  t1 = t1
  t2 = t2
  l1 = l1
  Threads = {t1, t2}
  Listeners = {l1}
  Paths <- TwoPaths
  Trees <- TwoTrees
  Inputs <- MixedInputs
  AutoReconnect = TRUE
  ConnectTimeout = 1
  MaxCalls = 1
  MaxDrops = 1
  MaxExpiries = 1
  InitFaults = TRUE
INVARIANTS
  TypeOK
  ContextsBacked
PROPERTIES
  ResultsReported
  CallsReturn
  WatchNotified
  JoinsReturn
CHECK_DEADLOCK FALSE
