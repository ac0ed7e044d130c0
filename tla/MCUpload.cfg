SPECIFICATION Spec
CONSTANTS
  Capacity = 5
  Blocks <- MCBlocks
  MaxSeconds = 1
  MaxBlocks = 2
  MaxFaults = 1
INVARIANT TypeOK
INVARIANT EveryFrameIsKept
PROPERTY RemovedIsOnServer
PROPERTY EveryFileLeaves
CHECK_DEADLOCK FALSE
