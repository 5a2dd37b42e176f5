SPECIFICATION Spec
CONSTANTS
  Units = 6
  ChunkSize = 8
  IntSize = 4
  Sizes <- SomeSizes
INVARIANTS TypeOK FreeListExact SpaceExact
PROPERTY AllocatorSpec
