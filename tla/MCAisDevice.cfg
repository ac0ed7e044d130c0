CONSTANTS
  BLOCK_SIZE = 3
  N_BLOCKS = 2
  Kind = {"network", "file"}
  Lengths = {0, 1, 2, 5}
  MaxBytes = 16

SPECIFICATION Spec

INVARIANT TypeOK
INVARIANT FrontIntact
INVARIANT FileReadToTheEnd
PROPERTY DeviceStops

\* Stop returns.
CHECK_DEADLOCK FALSE
