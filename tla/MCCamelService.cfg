SPECIFICATION FairSpec
CONSTANTS
  t1 = t1
  t2 = t2
  o1 = o1
  o2 = o2
  Threads <- MCThreads
  Ops = {o1, o2}
  NoOp = NoOp
  OwnOp <- MCOwnOp
  NoThread = NoThread
  MaxCalls = 3
  MaxCancels = 2
INVARIANTS TypeOK PortMatchesFlag OperationsOwned StatusIsTrue
PROPERTIES CancelFails CancelStops
CHECK_DEADLOCK FALSE
