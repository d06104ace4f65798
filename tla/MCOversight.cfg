SPECIFICATION FairSpec
CONSTANTS
  Inspection = {"i1"}
  Certificate = {"c1", "c2"}
  Person = {"ada", "sule"}
  RolesOf <- MCRolesOf
  Inspector = {"inspector1", "inspector2"}
  By <- MCBy
  RiskInput <- MCRiskInput
  MaxRequests = 2
  Validity = 0
  LastSerial = 1
  LastDay = 1
  MaxLog = 6
  MaxPlan = 2
  MaxAsides = 2
  Version = {v1, v2}
  First = v1
  Structure = {0, 1}
  Publisher = {p1}
  MaxEdits = 1
  None = None
CHECK_DEADLOCK FALSE
INVARIANTS CertifiedIsClear CompletedWasVisited ScoredAsInspected NeedIsSuggested
PROPERTY RevocationArrives
