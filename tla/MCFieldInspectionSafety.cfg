SPECIFICATION VisitFairSpec
CONSTANTS
  LastCheckpoint = 2
  Weight <- MCWeight
  Severity <- MCSeverity
  AllowsNa = {2}
  Sla <- MCSla
  LastVersion = 2
  LastDay = 1
  MaxAnswers = 3
  MaxEvents = 4
  MayDie = TRUE
CHECK_DEADLOCK FALSE
INVARIANTS SubmittedIsComplete NothingObservedIsLost FindingsAreThoseSigned
PROPERTIES RecordIsFinal SubmissionArrives SignedAsShown
