---------------------------- MODULE MCProjector -----------------------------
(* Projector for TLC: two calls of applyPending() and a handful of events.   *)
EXTENDS Projector, TLC
=============================================================================
