SPECIFICATION Spec
CONSTANTS
  Lower <- MCLower
  KnownTlds = {"com", "net"}
  BadLabels = {"-bad"}
  Responses <- MCResponses
  TextContains <- MCTextContains
  FormulaNames = {"a"}
  Situations <- MCSituations
INVARIANTS
  EnrichmentAccounted
  UncheckedIsNotClean
  ScoreExplained
  TotalsAgree
CHECK_DEADLOCK FALSE
