SPECIFICATION FairSpec
CONSTANTS
  sta1 = sta1
  sta2 = sta2
  None = None
  Other = Other
  Clients <- Two
  Local <- LocalOne
  PoolStart = 6
  PoolEnd = 8
  WordBits = 4
  Words = 2
  Renewals = TRUE
  InformIn <- Unbound
  Faults = TRUE
  MaxMishaps = 2
  QueueLen = 2
CHECK_DEADLOCK FALSE
INVARIANTS TypeOK LeaseKnown TablesAgree
PROPERTIES LeasesSpec Served
