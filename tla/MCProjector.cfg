SPECIFICATION FairSpec
CONSTANTS
  Worker = {w1, w2}
  MaxEvents = 3
  BatchSize = 2
  MayCommitLate = FALSE
  Modes = {"alone", "crowded"}
CHECK_DEADLOCK FALSE
INVARIANTS NoneSkipped QuietModelIsReplay
PROPERTIES EventuallyApplied
