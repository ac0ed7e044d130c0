CONSTANTS
  v1 = v1
  v2 = v2
  v3 = v3
  v4 = v4
  Mmsi <- Vessels
  Unused = Unused
  N = 3
  M = 3
  Position <- Positions
  Report <- Reports
  MaxMessages = 8

SYMMETRY Symmetric

SPECIFICATION Spec

INVARIANT TypeOK
INVARIANT ListIntact
INVARIANT PathIsItsOwn
PROPERTY KeepsTheRecent

\* The last message has been received.
CHECK_DEADLOCK FALSE
