CONSTANTS
  Channels = {A, B}
  Talkers = {AI, BS}
  IDs = {id1, id2}
  CrcCheck = TRUE
  MaxWaiting = 3
  Counts <- MCCounts
  Numbers <- MCNumbers

SPECIFICATION NmeaSpec

SYMMETRY Symmetry

INVARIANT NmeaTypeOK
INVARIANT WaitingPartsAreAPrefix
INVARIANT SentMessageIsComplete
PROPERTY ImplementsParts
