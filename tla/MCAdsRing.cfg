CONSTANTS
  N = 4
  MaxBlocks = 11

SPECIFICATION Spec

INVARIANT TypeOK
INVARIANT TimestampExact
INVARIANT EveryBlockCounted
INVARIANT OutstandingIntact
PROPERTY DecodedInOrder
PROPERTY EveryBlockLeaves

\* Once the device has stopped, the decoder waits for ever.
CHECK_DEADLOCK FALSE
