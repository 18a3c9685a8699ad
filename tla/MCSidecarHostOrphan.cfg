CONSTANTS
  MaxAttempts = 1
  MaxFailures = 1
SPECIFICATION Spec
INVARIANT NoOrphanedProcess
