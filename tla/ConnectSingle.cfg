SPECIFICATION Spec
CONSTANTS
  c1 = c1
  c2 = c2
  None = None
  Callers <- OneCaller
  Kinds <- BothKinds
  Securities <- EverySec
  Blocking <- BothWays
  Reasons <- AllJoinReasons
  FullEvents <- NoneFull
  UseWorker = TRUE
  HandlerFirst = TRUE
  Faults = TRUE
  QueueSize = 2
  MaxRow = 2
  MaxCalls = 2
  MaxSem = 1
CHECK_DEADLOCK FALSE
INVARIANTS ErrorFlagHonest NothingKept
PROPERTY KeyFailureReported
