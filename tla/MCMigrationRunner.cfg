\* Three runners, one fault.
CONSTANTS
  a = a
  b = b
  old = old
  Runners = {a, b, old}
  Versions <- MCVersions
  Statements <- MCStatements
  Latest <- MCLatest
  MaxFaults = 1
SPECIFICATION FairSpec
INVARIANTS
  TypeOK
  SchemaWhole
  ReadyMeansCurrent
  RefusedForCause
PROPERTIES
  HistorySpec
  EveryCallEnds
