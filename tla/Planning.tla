------------------------------- MODULE Planning ------------------------------
(***************************************************************************)
(* The planned visits of one facility (console/planning.service.ts) and    *)
(* what the projector writes to them (projections/projector.service.ts).   *)
(*                                                                         *)
(* A plan is the sequence of the facility's assignments in the order they  *)
(* were created: who is to go, its status, and the inspection it is linked *)
(* to.  They are no projection: a rebuild leaves them alone.               *)
(***************************************************************************)
EXTENDS Naturals, Sequences

\* The status 'in_progress' of the schema is set nowhere.
AssignmentStatus == {"planned", "completed", "cancelled"}

Planned(to) == [to |-> to, status |-> "planned", visit |-> "none"]

\* createAssignment(): nothing is asked of the facility's other visits.
Add(plan, to) == Append(plan, Planned(to))

\* createAssignments(): a facility with a visit planned is refused.
AlreadyPlanned(plan) == \E a \in DOMAIN plan : plan[a].status = "planned"

\* cancelAssignment(): only while it is planned, linked to a visit or not.
MayCancel(plan, a) == plan[a].status = "planned"
Cancel(plan, a) == [plan EXCEPT ![a].status = "cancelled"]

-----------------------------------------------------------------------------
\* inspectionStarted(): the assignments a visit by this inspector may claim.
Claimable(plan, inspector) ==
  {a \in DOMAIN plan : /\ plan[a].status = "planned"
                       /\ plan[a].visit = "none"
                       /\ plan[a].to = inspector}

\* One of them is linked; which one, by date due and then by age, no property
\* tells apart.
Claimed(plan, inspector, i) ==
  IF Claimable(plan, inspector) = {} THEN {plan}
  ELSE {[plan EXCEPT ![a].visit = i] : a \in Claimable(plan, inspector)}

\* inspectionSubmitted(): the visit's assignment is done, cancelled or not.
Completed(plan, i) ==
  [a \in DOMAIN plan |->
     IF plan[a].visit = i THEN [plan[a] EXCEPT !.status = "completed"] ELSE plan[a]]

\* bootstrap(): the facility is in the inspector's bundle.
InBundle(plan, inspector) ==
  \E a \in DOMAIN plan : plan[a].status = "planned" /\ plan[a].to = inspector
=============================================================================
