SPECIFICATION FairSpec
CONSTANTS
  c1 = c1
  c2 = c2
  b1 = b1
  b2 = b2
  b3 = b3
  None = None
  Callers <- TwoCallers
  Bssids <- OneBssid
  MaxLevel = 1
  MaxAp = 1
  Channels = 2
  Kinds <- BothKinds
  UseSema = FALSE
  HandlerFirst = FALSE
  Faults = TRUE
  MaxCalls = 3
  MaxReports = 1
CHECK_DEADLOCK FALSE
INVARIANTS BuffersSafe RunningOwned
PROPERTY ScanReported
