SPECIFICATION Spec
CONSTANTS
  Rates <- MCRates
  CommandCap = 2
  ResultCap = 1
  IqCap = 1
  MaxBlocks = 4
  MaxTypes = 2
INVARIANT TypeOK NothingDangles KitOfItsModem
CHECK_DEADLOCK FALSE
