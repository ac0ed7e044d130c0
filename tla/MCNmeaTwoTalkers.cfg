CONSTANTS
  Channels = {A}
  Talkers = {AI, BS}
  IDs = {id1, id2}
  CrcCheck = TRUE
  MaxWaiting = 3
  Counts <- MCCounts
  Numbers <- MCNumbers

SPECIFICATION NmeaSpec

INVARIANT SentMessageIsPure
