SPECIFICATION FairSpec
CONSTANTS
  MaxRequest = 2
  MaxSends = 2
  MaxTries = 1
  Mishaps = 2
CHECK_DEADLOCK FALSE
INVARIANTS DecidedIsProven
PROPERTIES DecisionsStand Told
