\* Two retries, three things that go wrong.
CONSTANTS
  MaxAttempts = 2
  MaxFailures = 3
SPECIFICATION Spec
INVARIANTS
  TypeOK
  SingleSupervisor
  AttemptsBounded
  ScheduleNeverRefused
  PendingHasTimer
  AtMostOneChild
  HandleMatchesState
  FailureIsAnswered
  RestartsStayDown
  QuietMeansAnnounced
PROPERTIES
  EventChain
  ExhaustedIsFinal
  LifecycleSpec
  RestartProtocolSpec
  FeedSpec
