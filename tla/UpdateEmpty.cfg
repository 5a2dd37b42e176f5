SPECIFICATION Spec
CONSTANTS
  None = None
  Updaters <- LocalOnly
  FileLen = 7
  SectorSize = 4
  ChunkMax = 6
  Headers <- SomeHeaders
  Words = 3
  Closes <- Nothing
  MaxUpdates = 1
  MaxMishaps = 1
CHECK_DEADLOCK FALSE
INVARIANT SignedIsVerified
