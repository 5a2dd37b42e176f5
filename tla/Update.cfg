SPECIFICATION Spec
CONSTANTS
  None = None
  Updaters <- Both
  FileLen = 7
  SectorSize = 4
  ChunkMax = 6
  Headers <- SomeHeaders
  Words = 3
  Closes <- Some
  MaxUpdates = 2
  MaxMishaps = 2
CHECK_DEADLOCK FALSE
INVARIANTS TypeOK SignedIsVerified SystemDataKept GoodIsTaken
PROPERTIES FlashExclusive
