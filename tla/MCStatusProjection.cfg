\* One mount over a launch and its one restart.
CONSTANTS
  Budget = 1
  MaxRestarts = 1
  MaxMounts = 1
  MaxInFlight = 1
  MaxRejections = 0
SPECIFICATION ProjectionSpec
CHECK_DEADLOCK FALSE
INVARIANTS
  ProjectionTypeOK
  NoEventEscapes
