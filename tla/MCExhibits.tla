---------------------------- MODULE MCExhibits ------------------------------
(* Instances of Exhibits for TLC. *)
EXTENDS Exhibits
=============================================================================
