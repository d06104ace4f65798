-------------------------------- MODULE Risk --------------------------------
(***************************************************************************)
(* How badly a facility needs a visit: packages/domain/src/risk.ts, by     *)
(* which the plan page orders its suggestions (planning.service.ts,        *)
(* riskSuggestions).  What may be missing is a set of at most one element. *)
(***************************************************************************)
EXTENDS Integers, Sequences, FiniteSetsExt

CONSTANT RiskInput  \* the facilities the ranking is looked at on

\* months since the last inspection, the bands of the last two, latest first,
\* findings not closed, those of them overdue, and days to the certificate's end.
RiskInputType(Months, Bands, Findings, Days) ==
  {in \in [months : {{}} \cup {{m} : m \in Months},
           bands : {<<>>} \cup {<<b>> : b \in Bands} \cup (Bands \X Bands),
           open : Findings, overdue : Findings,
           cert : {{}} \cup {{d} : d \in Days}] :
     (in.months = {} <=> in.bands = <<>>) /\ in.overdue <= in.open}

ASSUME RiskAssumption ==
  \A in \in RiskInput :
    /\ \A m \in in.months : m \in Nat /\ in.months = {m}
    /\ \A d \in in.cert : d \in Int /\ in.cert = {d}
    /\ in.open \in Nat /\ in.overdue \in Nat
    /\ in.months = {} <=> in.bands = <<>>
    /\ in.bands # <<>> =>
         Head(in.bands) \in {"satisfactory", "needs_improvement", "critical_issues"}

CycleTargetMonths == 12
Weights == [perMonthOverdue |-> 1, perMonthCap |-> 12, twoNeedsImprovement |-> 25,
            criticalIssues |-> 40, perOpenFinding |-> 8, perOverdueFinding |-> 12,
            certExpiringSoon |-> 15, certLapsed |-> 30, neverInspected |-> 60]
-----------------------------------------------------------------------------
\* Mutant: the months are not capped.
VisitPoints_Uncapped(in) ==
  IF in.months = {} THEN Weights.neverInspected
  ELSE Max({0, Max(in.months) - CycleTargetMonths}) * Weights.perMonthOverdue

VisitPoints(in) ==
  IF in.months = {} THEN Weights.neverInspected
  ELSE Min({Weights.perMonthCap,
            Max({0, Max(in.months) - CycleTargetMonths}) * Weights.perMonthOverdue})

RatingPoints(in) ==
  CASE in.bands # <<>> /\ Head(in.bands) = "critical_issues" -> Weights.criticalIssues
    [] in.bands = <<"needs_improvement", "needs_improvement">> -> Weights.twoNeedsImprovement
    [] OTHER -> 0

FindingPoints(in) ==
  in.open * Weights.perOpenFinding + in.overdue * Weights.perOverdueFinding

CertPoints(in) ==
  CASE in.cert # {} /\ Max(in.cert) < 0 -> Weights.certLapsed
    [] in.cert # {} /\ Max(in.cert) \in 0..30 -> Weights.certExpiringSoon
    [] OTHER -> 0

\* facilityRisk() of buildRiskSignals().
FacilityRisk(in) ==
  Min({100, VisitPoints(in) + RatingPoints(in) + FindingPoints(in) + CertPoints(in)})

\* riskSuggestions(): those with no signal are left out, the rest go by score.
\* The list is cut after limit rows (slice, 20 by default), which is left out: a
\* row that is suggested here is listed when fewer than limit score as much.
Suggested(in) == FacilityRisk(in) > 0
-----------------------------------------------------------------------------
\* a is at least as badly off as b, in each of the four respects.
LongerUnseen(a, b) == a.months = {} \/ (b.months # {} /\ Max(a.months) >= Max(b.months))
WorseRated(a, b) ==
  \/ a.bands = b.bands \/ a.months = {}
  \/ b.bands # <<>> /\ \/ Head(a.bands) = "critical_issues"
                       \/ Head(b.bands) = "satisfactory"
WorseFindings(a, b) == a.open >= b.open /\ a.overdue >= b.overdue
SoonerLapsed(a, b) == a.cert = b.cert \/ (a.cert # {} /\ b.cert # {} /\ Max(a.cert) <= Max(b.cert))

Worse(a, b) ==
  LongerUnseen(a, b) /\ WorseRated(a, b) /\ WorseFindings(a, b) /\ SoonerLapsed(a, b)

\* No facility is suggested behind one that is better off in every respect; one
\* never inspected comes before any that was, however long ago and however rated.
RanksByNeed ==
  \A a \in RiskInput, b \in RiskInput : Worse(a, b) => FacilityRisk(a) >= FacilityRisk(b)
=============================================================================
