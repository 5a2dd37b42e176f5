SPECIFICATION FairSpec
CONSTANTS
  w1 = w1
  w2 = w2
  h0 = h0
  h1 = h1
  h2 = h2
  None = None
  Writers <- TwoWriters
  Handlers <- ThreeHandlers
  Uses <- UsesOfEach
  Resident <- First
  OneShot <- Last
  Builds <- BothBuilds
  Faults = TRUE
  MaxRow = 2
  QueueSize = 2
  MaxEvents = 2
  MaxOps = 3
CHECK_DEADLOCK FALSE
INVARIANTS TypeOK BuffersOwned OwnData
PROPERTIES TableAtomic OrderSpec NoneSkipped ResidentHears
