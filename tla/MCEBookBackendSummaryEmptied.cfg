SPECIFICATION Spec
CONSTANTS
  x = x  y = y
  Items = {x, y}
  MaxTime = 3
  MaxWrites = 3
  MaxCrashes = 2
SYMMETRY Symm
INVARIANT LoadedIsNotOutOfDate
CHECK_DEADLOCK FALSE
