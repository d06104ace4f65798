----------------------------- MODULE MCRegistry -----------------------------
(* Registry for TLC: two clerks, two licence numbers, sheets of two rows.   *)
EXTENDS Registry

CONSTANTS n1, n2

Line(number, good) == [number |-> number, good |-> good]

\* A whole sheet, one with a spoiled row above a good one of the same licence,
\* one that repeats a licence, and one whose look-up goes wrong.
TwoRowSheets ==
  {[rows |-> <<Line(n1, TRUE), Line(n2, TRUE)>>, blind |-> FALSE],
   [rows |-> <<Line(n1, FALSE), Line(n1, TRUE), Line(Missing, TRUE)>>, blind |-> FALSE],
   [rows |-> <<Line(n1, TRUE), Line(n1, TRUE)>>, blind |-> FALSE],
   [rows |-> <<Line(n2, TRUE)>>, blind |-> TRUE]}
=============================================================================
