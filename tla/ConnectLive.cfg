SPECIFICATION FairSpec
CONSTANTS
  c1 = c1
  c2 = c2
  None = None
  Callers <- TwoCallers
  Kinds <- Ssid
  Securities <- Wpa
  Blocking <- WaitOnly
  Reasons <- OneReason
  FullEvents <- ConnectFull
  UseWorker = FALSE
  HandlerFirst = TRUE
  Faults = FALSE
  QueueSize = 2
  MaxRow = 2
  MaxCalls = 1
  MaxSem = 1
CHECK_DEADLOCK FALSE
INVARIANTS TypeOK UserDataLive SemaLive HandlersOwned ConnectingOwned
PROPERTY ConnectReturns
