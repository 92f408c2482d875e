SPECIFICATION Spec
CONSTANTS
  Players = {p1, p2, p3}
  Sessions = {s1, s2}
  None = None
  MaxProcs = 2
  MaxSessions = 1
  HW = TRUE
INVARIANTS TypeOK CountersMatchRequests SessionsWithinLimit
PROPERTIES SweepSparesRequests
CHECK_DEADLOCK FALSE
SYMMETRY RequestSymmetry
