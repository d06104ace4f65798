------------------------------ MODULE MCAccess ------------------------------
(* PinGate over Access for TLC: two people, one of them an inspector.       *)
EXTENDS PinGate
=============================================================================
