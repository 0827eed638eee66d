SPECIFICATION FairSpec
CONSTANTS
  x = x  y = y
  Items = {x, y}
  MaxTime = 3
  MaxWrites = 3
  MaxCrashes = 2
INVARIANTS
  TypeOK
  SummaryIsCurrent
  ChangesAreDirty
  DirtyHasTimeout
PROPERTIES
  SavedStaysSaved
  DirtyIsFlushed
CHECK_DEADLOCK FALSE
