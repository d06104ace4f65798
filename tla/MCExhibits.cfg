SPECIFICATION FairSpec
CONSTANTS
  Exhibit = {x1, x2}
  Spoiled = {x2}
  PushBatch = 1
  EvidenceBatch = 2
  PullBatch = 1
  MaxFinding = 3
  MaxOver = 1
  MaxFails = 2
  MayDie = TRUE
  MayRebuild = TRUE
CHECK_DEADLOCK FALSE
INVARIANTS KeptIsReadable
PROPERTIES SoundIsUploaded StatusArrives
