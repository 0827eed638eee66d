SPECIFICATION Spec
CONSTANTS
  Clients = {c1, c2, c3}
  Books = {book}
  Calendars = {cal}
  None = None
  Unsupported = {}
  MaxSwitches = 0
INVARIANT LiveClientsKeepCalendar
CHECK_DEADLOCK FALSE
