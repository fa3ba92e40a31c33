SPECIFICATION RunSpec
CONSTANTS
  MaxLostCalls = 0
  MaxRunCases = 1
CHECK_DEADLOCK FALSE
PROPERTIES
  NoRunLeftParked
