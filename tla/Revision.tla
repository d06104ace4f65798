------------------------------ MODULE Revision ------------------------------
(***************************************************************************)
(* What the versions of an instrument consist of and what a regulator is   *)
(* shown before publishing one (console/instruments.service.ts): the       *)
(* defaults a draft is written with, and the list of changes between a     *)
(* draft and the version in force.                                         *)
(*                                                                         *)
(* A structure has its two band thresholds, the titles of its sections and *)
(* its checkpoints by ref, <<section, ordinal>>: the tables' unique keys   *)
(* make that a function.  The version's label is not compared and is left  *)
(* out.                                                                    *)
(***************************************************************************)
\* input ?? otherwise; a field that was left out is {}
Or(given, otherwise) == IF given = {} THEN otherwise ELSE CHOOSE x \in given : TRUE

\* writeStructure
Written(drafted) ==
  [r \in DOMAIN drafted |->
     [promptEn       |-> drafted[r].promptEn,
      promptHa       |-> drafted[r].promptHa,
      weight         |-> Or(drafted[r].weight, 1),
      severityOnFail |-> Or(drafted[r].severityOnFail, "minor"),
      allowsNa       |-> Or(drafted[r].allowsNa, TRUE)]]

\* The structure createDraft stores.
Drafted(input) ==
  [bands       |-> <<Or(input.satisfactoryMin, 80), Or(input.needsImprovementMin, 60)>>,
   titles      |-> input.titles,
   checkpoints |-> Written(input.checkpoints)]

\* The structure replaceDraftStructure leaves: the thresholds stay.
Redrafted(structure, titles, checkpoints) ==
  [structure EXCEPT !.titles = titles, !.checkpoints = Written(checkpoints)]

-----------------------------------------------------------------------------
\* What the comparison looks at in a checkpoint.
Flatten(structure) ==
  [r \in DOMAIN structure.checkpoints |->
     [promptEn       |-> structure.checkpoints[r].promptEn,
      weight         |-> structure.checkpoints[r].weight,
      severityOnFail |-> structure.checkpoints[r].severityOnFail]]

Kept(from, to) == DOMAIN Flatten(from) \cap DOMAIN Flatten(to)

Moved(from, to, field) ==
  {[ref |-> r, before |-> Flatten(from)[r][field], after |-> Flatten(to)[r][field]] :
     r \in {q \in Kept(from, to) : Flatten(from)[q][field] # Flatten(to)[q][field]}}

\* The checkpoints of one that the other does not have, as they are listed.
OnlyIn(one, other) ==
  {[ref |-> r, promptEn |-> Flatten(one)[r].promptEn] :
     r \in DOMAIN Flatten(one) \ DOMAIN Flatten(other)}

\* diffStructures: what is listed under each kind of change
Changes(from, to) ==
  [bands_changed    |-> IF from.bands = to.bands THEN {}
                        ELSE {[before |-> from.bands, after |-> to.bands]},
   removed          |-> OnlyIn(from, to),
   added            |-> OnlyIn(to, from),
   reworded         |-> Moved(from, to, "promptEn"),
   reweighted       |-> Moved(from, to, "weight"),
   severity_changed |-> Moved(from, to, "severityOnFail")]

NoChanges ==
  [bands_changed |-> {}, removed |-> {}, added |-> {},
   reworded |-> {}, reweighted |-> {}, severity_changed |-> {}]

\* Against the version in force, if there is one.
PendingChanges(inForce, draft) ==
  IF inForce = {} THEN NoChanges ELSE Changes(CHOOSE v \in inForce : TRUE, draft)
=============================================================================
