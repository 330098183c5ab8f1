SPECIFICATION Spec
CONSTANTS
  Tests <- TestsDef
  Mandatory <- MandatoryDef
  Outcomes <- OutcomesDef
  Remediation <- RemediationDef
  Histories <- HistoriesDef
  MinRate = 350
  Validation = TRUE
  Window = 4
  MinObservations = 3
  FlakyRate = 500
  MaxFlaky = 0
  FailClosed = TRUE
  MaxRuns = 2
  MaxCommands = 7
  None = None
INVARIANT IndInv
INVARIANT ReadoutsAreOrdered
INVARIANT PublishedIsComplete
INVARIANT NothingToFixMeansPassed
PROPERTY FlakyIsJudgedByWindow
\* a job stops when it has uploaded or its gate has failed
CHECK_DEADLOCK FALSE
