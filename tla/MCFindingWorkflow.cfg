SPECIFICATION WorkflowFairSpec
CONSTANTS
  Command = {c1, c2}
  Sweeper = {s1, s2}
  Due = 1
  Grace = 2
  LastDay = 3
  MaxLog <- Logs
  Modes = {"alone", "crowded"}
CHECK_DEADLOCK FALSE
INVARIANTS ClosedWasVerified
PROPERTIES ClosedIsFinal EscalationNotified NeglectEnds
