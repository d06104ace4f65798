------------------------------ MODULE Findings ------------------------------
(***************************************************************************)
(* The corrective-action state machine of a finding                        *)
(* (packages/domain/src/finding-state.ts) and what the projector makes of  *)
(* the events about it (projector.service.ts, "finding").                  *)
(***************************************************************************)
EXTENDS Naturals

Statuses == {"open", "overdue", "escalated", "awaiting", "closed"}

\* The events about a finding; "none" is no event, and the status of no row.
Kinds == {"Raised", "BecameOverdue", "Escalated", "ClosureSubmitted",
          "ClosureRejected", "Closed"}

\* FINDING_TRANSITIONS.
Transitions ==
  [open      |-> {"awaiting", "overdue"},
   overdue   |-> {"awaiting", "escalated"},
   escalated |-> {"awaiting"},
   awaiting  |-> {"closed", "open"},
   closed    |-> {}]

CanTransition(from, to) == to \in Transitions[from]

\* Each finding handler of the projector is one guarded UPDATE: the statuses
\* its WHERE clause accepts, and the status it sets.
Accepts_RejectsClosed ==
  [Raised           |-> {"none"},
   BecameOverdue    |-> {"open"},
   Escalated        |-> {"open", "overdue"},
   ClosureSubmitted |-> {"open", "overdue", "escalated"},
   ClosureRejected  |-> {"awaiting", "closed"},
   Closed           |-> {"awaiting"}]
Accepts_ClosesOpen ==
  [Raised           |-> {"none"},
   BecameOverdue    |-> {"open"},
   Escalated        |-> {"open", "overdue"},
   ClosureSubmitted |-> {"open", "overdue", "escalated"},
   ClosureRejected  |-> {"awaiting"},
   Closed           |-> {"open", "awaiting"}]
Accepts ==
  [Raised           |-> {"none"},
   BecameOverdue    |-> {"open"},
   Escalated        |-> {"open", "overdue"},
   ClosureSubmitted |-> {"open", "overdue", "escalated"},
   ClosureRejected  |-> {"awaiting"},
   Closed           |-> {"awaiting"}]

Sets ==
  [Raised           |-> "open",
   BecameOverdue    |-> "overdue",
   Escalated        |-> "escalated",
   ClosureSubmitted |-> "awaiting",
   ClosureRejected  |-> "open",
   Closed           |-> "closed"]

\* The finding's row after one event: an UPDATE whose guard fails, and an
\* INSERT whose row exists, change nothing.
Project(k, status) == IF status \in Accepts[k] THEN Sets[k] ELSE status
=============================================================================
