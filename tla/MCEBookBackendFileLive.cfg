SPECIFICATION FairSpec
CONSTANTS
  i1 = i1  i2 = i2
  r1 = r1  r2 = r2
  v1 = v1  v2 = v2
  a = a  b = b  n = n
  ContactIds = {i1}
  VCards = {a, n}
  Matching = {a}
  NoCard = NoCard
  InitialThreshold = 2
  ThresholdMax = 3
  Bucket <- HashOne
  Requests = {r1}
  Views = {v1}
  MayDie = {v1}
  MaxRequests = 1
  MaxStarts = 2
INVARIANTS
  StopIsFinal
PROPERTIES
  StartReturnsIfAlive
  StopReturns
CHECK_DEADLOCK FALSE
