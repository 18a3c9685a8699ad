\* Two mounts, as under Strict Mode, and one rejected call over a launch that
\* fails or crashes and is given up.
CONSTANTS
  Budget = 0
  MaxRestarts = 0
  MaxMounts = 2
  MaxInFlight = 2
  MaxRejections = 1
SPECIFICATION FairProjectionSpec
CHECK_DEADLOCK FALSE
PROPERTIES
  SilentWhileDisposed
  InitializeSettles
