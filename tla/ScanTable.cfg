SPECIFICATION Spec
CONSTANTS
  c1 = c1
  c2 = c2
  b1 = b1
  b2 = b2
  b3 = b3
  None = None
  Callers <- OneCaller
  Bssids <- Bssids3
  MaxLevel = 3
  MaxAp = 2
  Channels = 2
  Kinds <- Plain
  UseSema = TRUE
  HandlerFirst = TRUE
  Faults = FALSE
  MaxCalls = 1
  MaxReports = 5
CHECK_DEADLOCK FALSE
SYMMETRY Symmetry3
INVARIANTS TypeOK TopN
