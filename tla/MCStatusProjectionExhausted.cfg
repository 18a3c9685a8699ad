CONSTANTS
  Budget = 1
  MaxRestarts = 1
  MaxMounts = 1
  MaxInFlight = 2
  MaxRejections = 0
SPECIFICATION ProjectionSpec
CHECK_DEADLOCK FALSE
PROPERTY ExhaustedViewIsFinal
