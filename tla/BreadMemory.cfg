SPECIFICATION Spec
CONSTANTS
  h1 = h1
  h2 = h2
  BlocksPerChunk = 2
  BlockSize = 2
  MaxChunks = 2
  HeapAddrs <- MCHeapAddrs
  Sizes = {1, 3}
  MaxRefcount = 2
  Thresholds <- MCThresholds
  ByteThresholds = {4}
  DefaultThreshold = 10
  DefaultByteThreshold = 100
  MaxAllocations = 4
  MaxBytes = 8
  MaxThreshold = 12
SYMMETRY Symmetry
INVARIANTS TypeOK MemoryAccounting CountAccounting ByteAccounting ReferencedIffTracked
PROPERTIES CollectionReclaimsNothing NoPendingCollection
CHECK_DEADLOCK FALSE
