SPECIFICATION Spec
CONSTANTS
  s1 = s1
  s2 = s2
  ui = ui
  Sidecars = {s1, s2}
  Clients = {ui}
  Capacity = 2
  Reports = {"a", "b"}
  AbsolutePaths = {"absolute"}
  SettingValues = {"default", "changed", "other"}
  DefaultValue = "default"
  RecentLimit = 1
  MaxFaults = 1
  EnrichFailures = {"TI_RATE_LIMITED", "INTERNAL_ERROR"}
  Situations <- MCSituations
INVARIANTS
  CommandsTypeOK
  StreamsOrdered
  AnswerMatchesEvents
  DuplicatesResolved
  TimelineTruthful
  FilesKept
PROPERTIES
  LedgerSpec
  CommandsAnswered
  StreamsCatchUp
CHECK_DEADLOCK FALSE
