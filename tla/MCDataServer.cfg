SPECIFICATION FairSpec
CONSTANTS
  Clients = {c1, c2, c3}
  Books = {book}
  Calendars = {cal}
  None = None
  Unsupported = {c3}
  MaxSwitches = 1
INVARIANTS TypeOK ClientsServed ModeAgrees
PROPERTY QuitsWhenUnused
CHECK_DEADLOCK FALSE
