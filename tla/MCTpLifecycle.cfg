CONSTANTS
  r1 = r1
  r2 = r2
  r3 = r3
  b1 = b1
  b2 = b2
  b3 = b3
  NULL = NULL
  Records <- MCRecords
  Buffers <- MCBuffers
  Lengths <- MCLengths
SYMMETRY Symmetry
SPECIFICATION Spec
INVARIANT EveryPointerLive
INVARIANT ExclusiveOwnership
