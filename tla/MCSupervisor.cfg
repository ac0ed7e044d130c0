CONSTANTS
  MaxSignals = 2
  MaxChanges = 3

SPECIFICATION Spec

INVARIANT TypeOK
INVARIANT ZombiesAreCollected
INVARIANT LeavesLast
INVARIANT UploadOutlivesWorker
PROPERTY UploadFollowsWorker
PROPERTY CleanShutdown

\* The master waits for ever once a fork has failed, and all processes may end.
CHECK_DEADLOCK FALSE
