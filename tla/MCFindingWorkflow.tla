------------------------- MODULE MCFindingWorkflow --------------------------
(* FindingWorkflow for TLC: due on day 1, two days of grace, three days.    *)
EXTENDS FindingWorkflow, TLC

Logs == ("alone" :> 5) @@ ("crowded" :> 3)
=============================================================================
