SPECIFICATION Spec
CONSTANTS
  Rates = {1}
  CommandCap = 1
  ResultCap = 1
  IqCap = 1
  MaxBlocks = 5
  MaxTypes = 1
PROPERTY ShutdownCompletes
CHECK_DEADLOCK FALSE
