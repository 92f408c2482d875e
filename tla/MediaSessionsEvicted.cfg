SPECIFICATION Spec
CONSTANTS
  Players = {p1, p2}
  Sessions = {s1, s2}
  None = None
  MaxProcs = 1
  MaxSessions = 1
  HW = FALSE
PROPERTIES NoPlayerLosesItsSession
CHECK_DEADLOCK FALSE
