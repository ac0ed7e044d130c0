CONSTANTS
  N = 4
  MaxBlocks = 2

SPECIFICATION Spec

PROPERTY NoWaitForEndedReader

CHECK_DEADLOCK FALSE
