SPECIFICATION FairSpec
CONSTANTS
  Device = {d1, d2}
  Request = {r1, r2}
  None = None
  MaxEvents = 3
  BatchSize = 2
  Now <- Readings
  Mishaps = 3
CHECK_DEADLOCK FALSE
INVARIANTS StoredInOrder ChainsStayApart
PROPERTIES PromiseSpec Delivered SyncEnds
