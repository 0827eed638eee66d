SPECIFICATION Spec
CONSTANTS
  i1 = i1  i2 = i2
  r1 = r1  r2 = r2
  v1 = v1  v2 = v2
  a = a  b = b  n = n
  ContactIds = {i1, i2}
  VCards = {a, n}
  Matching = {a}
  NoCard = NoCard
  InitialThreshold = 2
  ThresholdMax = 3
  Requests = {r1, r2}
  Views = {v1}
  MayDie = {}
  Bucket <- Hash
  MaxRequests = 2
  MaxStarts = 1
SYMMETRY Symm
INVARIANTS
  TypeOK
  SummaryFollowsDb
  PopulatedInSync
  NothingHeldBack
CHECK_DEADLOCK FALSE
