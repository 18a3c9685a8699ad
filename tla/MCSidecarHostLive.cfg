\* One retry, two things that go wrong: a crash and one more.
CONSTANTS
  MaxAttempts = 1
  MaxFailures = 2
SPECIFICATION FairSpec
PROPERTIES
  FailureIsSettled
  ExitCompletes
