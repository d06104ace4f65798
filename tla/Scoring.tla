------------------------------- MODULE Scoring ------------------------------
(***************************************************************************)
(* How an inspection is rated (packages/domain/src/scoring.ts).  The phone *)
(* and the projector call the same function, on answers and findings each  *)
(* keeps for itself.                                                       *)
(***************************************************************************)
EXTENDS Integers
LOCAL INSTANCE FiniteSetsExt

Severities == {"critical", "major", "minor"}
Answers == {"yes", "no", "na"}
Bands == {"satisfactory", "needs_improvement", "critical_issues"}

\* Hundredths of a percent, rounded half up; 0 where nothing was applicable.
Percent(yes, answered) ==
  IF answered = 0 THEN 0 ELSE (20000 * yes + answered) \div (2 * answered)

\* DEFAULT_BANDS, in hundredths; open holds the severities of open findings.
Band(percent, open) ==
  IF "critical" \in open \/ percent < 6000 THEN "critical_issues"
  ELSE IF "major" \in open \/ percent < 8000 THEN "needs_improvement"
  ELSE "satisfactory"

\* scoreInspection(): "na" and unanswered checkpoints count on neither side.
Score(answer, weight, open) ==
  LET Sum(S) == MapThenSumSet(LAMBDA c : weight[c], S)
      yes == Sum({c \in DOMAIN answer : answer[c] = "yes"})
      answered == Sum({c \in DOMAIN answer : answer[c] \in {"yes", "no"}})
      percent == Percent(yes, answered)
  IN  [percent |-> percent, band |-> Band(percent, open)]
=============================================================================
