SPECIFICATION LdapSpec
CONSTANTS
  i1 = i1  i2 = i2  i3 = i3
  t1 = t1  t2 = t2
  a = a  b = b  n = n
  ContactIds = {i1, i2, i3}
  VCards = {a, b, n}
  Matching = {a, b}
  NoCard = NoCard
  InitialThreshold = 2
  ThresholdMax = 3
  Callers = {t1, t2}
  Thresholds <- NoThresholds
  MaxPending = 2
SYMMETRY Symm
INVARIANT FirstCardsNotHeldBack
