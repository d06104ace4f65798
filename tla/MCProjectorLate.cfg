SPECIFICATION Spec
CONSTANTS
  Worker = {w1}
  MaxEvents = 3
  BatchSize = 2
  MayCommitLate = TRUE
  Modes = {"crowded"}
CHECK_DEADLOCK FALSE
INVARIANT NoneSkipped
