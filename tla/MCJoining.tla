------------------------------ MODULE MCJoining ------------------------------
(* Joining for TLC.                                                         *)
EXTENDS Joining
=============================================================================
