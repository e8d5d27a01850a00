SPECIFICATION Spec
CONSTANTS
  b1 = b1
  b2 = b2
  c1 = c1
  c2 = c2
  c3 = c3
  c4 = c4
  Buffers <- MCBuffers
  Chunks <- MCChunks
  ChunkSize = 2
  PoolSize = 1
  Sizes <- MCSizes
  MaxBytes = 4
  ShortSend = FALSE
SYMMETRY Symmetric
INVARIANTS ChunkOwnedOnce LengthAgrees
PROPERTIES ImplementsByteQueue
CHECK_DEADLOCK FALSE
