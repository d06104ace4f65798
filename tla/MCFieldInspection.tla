------------------------- MODULE MCFieldInspection --------------------------
(* Visit for TLC: a critical checkpoint of weight 1, and a minor one of      *)
(* weight 4 that may not apply.                                             *)
EXTENDS Visit

MCWeight == <<1, 4>>
MCSeverity == <<"critical", "minor">>
MCSla == [critical |-> 1, major |-> 2, minor |-> 3]
=============================================================================
