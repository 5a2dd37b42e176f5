SPECIFICATION Spec
CONSTANTS
  c1 = c1
  c2 = c2
  None = None
  Callers <- OneCaller
  Kinds <- Ssid
  Securities <- Wpa2Aes
  Blocking <- WaitOnly
  Reasons <- OneReason
  FullEvents <- NoneFull
  UseWorker = FALSE
  HandlerFirst = TRUE
  Faults = FALSE
  QueueSize = 2
  MaxRow = 2
  MaxCalls = 1
  MaxSem = 1
CHECK_DEADLOCK FALSE
PROPERTY KeyFailureReported
