----------------------------- MODULE MCOversight -----------------------------
(* Oversight for TLC.  A certificate runs out with the day it is issued, so  *)
(* a day here stands for as long as one is valid.                            *)
EXTENDS Oversight, Revision, TLC

MCRolesOf ==
  "ada" :> {"authorising_officer"} @@ "sule" :> {"desk_supervisor", "state_admin"}
MCBy == "i1" :> "inspector1"

\* Facilities on either side of each threshold of the ranking.
MCRiskInput ==
  RiskInputType({0, 12, 13, 100}, {"satisfactory", "needs_improvement", "critical_issues"},
                0..1, {-1, 0, 31})

\* Drafts of up to two checkpoints, with fields given and left out.
MCInput ==
  [satisfactoryMin : {{}, {90}}, needsImprovementMin : {{}}, titles : {"t"},
   checkpoints : UNION {[D -> [promptEn : {"a", "b"}, promptHa : {"a"}, weight : {{}, {2}},
                               severityOnFail : {{}, {"major"}}, allowsNa : {{}, {FALSE}}]] :
                          D \in SUBSET {<<1, 1>>, <<1, 2>>}}]
MCStructure == {Drafted(input) : input \in MCInput}
MCInForce == {s \in MCStructure : \A r \in DOMAIN s.checkpoints :
                s.checkpoints[r].promptEn = "a" /\ s.checkpoints[r].weight = 1}

\* The list is empty for the drafts that look the same to the comparison, which
\* are not only the version in force itself; without one it is empty.
ASSUME ListsWhatIsCompared ==
  /\ \A from \in MCInForce, to \in MCStructure :
       PendingChanges({from}, to) = NoChanges <=>
         from.bands = to.bands /\ Flatten(from) = Flatten(to)
  /\ \E from, to \in MCInForce : from # to /\ PendingChanges({from}, to) = NoChanges
  /\ \A to \in MCStructure : PendingChanges({}, to) = NoChanges

\* Replacing a draft's structure keeps its thresholds and makes it what it
\* would have been had it been created so.
ASSUME RedraftedAsDrafted ==
  \A s \in MCInForce, input \in MCInput :
    LET redrafted == Redrafted(s, input.titles, input.checkpoints)
    IN  redrafted = [Drafted(input) EXCEPT !.bands = s.bands]
=============================================================================
