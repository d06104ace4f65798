--------------------------- MODULE FieldInspection --------------------------
(***************************************************************************)
(* One inspection, on the phone that conducts it and in the rows the       *)
(* console shows (packages/field-core/src/inspection.ts, and the handlers  *)
(* of projector.service.ts for its events).                                *)
(*                                                                         *)
(* The phone authors events and keeps its own rows, one statement at a     *)
(* time, and may stop between two of them; the outbox survives.  Events    *)
(* reach the projector in authoring order, as DeviceSync and Projector     *)
(* show, and are applied some time later.                                  *)
(***************************************************************************)
EXTENDS Scoring, Sequences, FiniteSets

CONSTANTS
  LastCheckpoint,  \* checkpoints are 1..LastCheckpoint, in compareRefs order
  Weight,          \* weight of each checkpoint
  Severity,        \* severityOnFail of each
  AllowsNa,        \* those that accept N/A
  Sla,             \* DEFAULT_SLA: days until due, for each severity
  LastVersion,     \* bound: the last instrument version published
  LastDay,         \* bound: the last day
  MaxAnswers,      \* bound: events of answers
  MaxEvents,       \* bound: no submission begins beyond this length of the outbox
  MayDie           \* may the phone stop between two statements?

Checkpoint == 1..LastCheckpoint

ASSUME InspectionAssumption ==
  /\ LastCheckpoint \in Nat \ {0} /\ LastVersion \in Nat \ {0}
  /\ LastDay \in Nat /\ MaxAnswers \in Nat /\ MaxEvents \in Nat
  /\ MayDie \in BOOLEAN
  /\ Weight \in [Checkpoint -> Nat \ {0}]
  /\ Severity \in [Checkpoint -> Severities] /\ AllowsNa \subseteq Checkpoint
  /\ Sla \in [Severities -> Nat]

VARIABLES
  day,        \* today
  inForce,    \* the instrument version in force at the gateway
  \* the phone
  held,       \* the version in instrument_version_local, 0 for none
  visit,      \* local_inspection.status
  bound,      \* the version the inspection is bound to
  answers,    \* local_response
  outbox,     \* the inspection's events, in authoring order
  doing,      \* what the app is in the middle of
  torn,       \* history: was start() or submit() cut short?
  \* the projection
  seen,       \* how many of the events are projected
  row,        \* inspection.status, "none" where there is no row
  responses,  \* checkpoint_response
  findings,   \* finding
  rating      \* inspection.rating_percent and rating_band

phone == <<held, visit, bound, answers, outbox, doing, torn>>
projection == <<seen, row, responses, findings, rating>>
vars == <<day, inForce, held, visit, bound, answers, outbox, doing, torn,
          seen, row, responses, findings, rating>>

-----------------------------------------------------------------------------
NoScore == [percent |-> 0, band |-> "none"]
Unanswered == [c \in Checkpoint |-> "none"]

Event(kind) == [kind |-> kind, ref |-> 0, answer |-> "none", num |-> 0,
                day |-> doing.day, score |-> NoScore, signed |-> Unanswered]
Idle == [at |-> "idle", ref |-> 0, answer |-> "none", left |-> {}, num |-> 0,
         day |-> 0]

\* provisionalFindings(): from the answers as they are now, not as they were.
Adverse_EverNo == {c \in Checkpoint :
  \E i \in 1..Len(outbox) : outbox[i].ref = c /\ outbox[i].answer = "no"}
Adverse == {c \in Checkpoint : answers[c] = "no"}

\* rating(): every provisional finding is open.
PhoneScore == Score(answers, Weight, {Severity[c] : c \in Adverse})

\* version(): the bound version must still be on the phone.
VersionHeld == bound = held

\* The next of the findings being raised, in checklist order.
IsNext(c, S) == c \in S /\ \A d \in S : c <= d

Init ==
  /\ day = 0 /\ inForce = 1
  /\ held = 0 /\ visit = "none" /\ bound = 0 /\ answers = Unanswered
  /\ outbox = <<>> /\ doing = Idle /\ torn = FALSE
  /\ seen = 0 /\ row = "none" /\ responses = Unanswered
  /\ findings = {} /\ rating = NoScore

-----------------------------------------------------------------------------
(* Days pass, and a new version of the instrument comes into force.         *)
Tick ==
  /\ day < LastDay
  /\ day' = day + 1
  /\ UNCHANGED inForce /\ UNCHANGED phone /\ UNCHANGED projection

Publish ==
  /\ inForce < LastVersion
  /\ inForce' = inForce + 1
  /\ UNCHANGED day /\ UNCHANGED phone /\ UNCHANGED projection

\* replaceInstrumentVersions(): what was held is deleted, then the version in
\* force is inserted, unless the phone stops in between.
Bootstrap ==
  /\ doing.at = "idle"
  /\ held' = inForce \/ (MayDie /\ held' = 0)
  /\ UNCHANGED <<day, inForce, visit, bound, answers, outbox, doing, torn>>
  /\ UNCHANGED projection

-----------------------------------------------------------------------------
(* start(): the local row, then the event.                                  *)
Start ==
  /\ doing.at = "idle" /\ visit = "none" /\ held # 0
  /\ visit' = "in_progress" /\ bound' = held
  /\ doing' = [Idle EXCEPT !.at = "starting"]
  /\ UNCHANGED <<day, inForce, held, answers, outbox, torn>>
  /\ UNCHANGED projection

AuthorStarted ==
  /\ doing.at = "starting"
  /\ outbox' = Append(outbox, Event("Started"))
  /\ doing' = Idle
  /\ UNCHANGED <<day, inForce, held, visit, bound, answers, torn>>
  /\ UNCHANGED projection

(* recordResponse(): the event, then the local row.  The status of the      *)
(* inspection is not asked for.                                             *)
\* Mutant: the row before the event, so that the end of the app leaves the row.
AuthorAnswer_RowFirst(c, a) ==
  /\ doing.at = "idle" /\ visit # "none" /\ VersionHeld
  /\ Cardinality({i \in 1..Len(outbox) : outbox[i].kind = "Answered"}) < MaxAnswers
  /\ a = "na" => c \in AllowsNa
  /\ answers' = [answers EXCEPT ![c] = a]
  /\ UNCHANGED <<day, inForce, held, visit, bound, outbox, doing, torn>>
  /\ UNCHANGED projection
AuthorAnswer(c, a) ==
  /\ doing.at = "idle" /\ visit # "none" /\ VersionHeld
  /\ Cardinality({i \in 1..Len(outbox) : outbox[i].kind = "Answered"}) < MaxAnswers
  /\ a = "na" => c \in AllowsNa
  /\ outbox' = Append(outbox, [Event("Answered") EXCEPT !.ref = c, !.answer = a])
  /\ doing' = [Idle EXCEPT !.at = "answering", !.ref = c, !.answer = a]
  /\ UNCHANGED <<day, inForce, held, visit, bound, answers, torn>>
  /\ UNCHANGED projection

StoreAnswer ==
  /\ doing.at = "answering"
  /\ answers' = [answers EXCEPT ![doing.ref] = doing.answer]
  /\ doing' = Idle
  /\ UNCHANGED <<day, inForce, held, visit, bound, outbox, torn>>
  /\ UNCHANGED projection

(* submit(): checks, one event for each finding, the event of the           *)
(* submission, the local row.  The inspector signed on day d.               *)
BeginSubmit(d) ==
  /\ d \in 0..day
  /\ doing.at = "idle" /\ visit = "in_progress" /\ VersionHeld
  /\ Len(outbox) <= MaxEvents
  /\ \A c \in Checkpoint : answers[c] # "none"
  /\ doing' = [Idle EXCEPT !.at = "raising", !.left = Adverse, !.day = d]
  /\ UNCHANGED <<day, inForce, held, visit, bound, answers, outbox, torn>>
  /\ UNCHANGED projection

\* The number in CA-<inspection>-<number>.
Number_Constant == 1
Number == doing.num + 1

RaiseFinding(c) ==
  /\ doing.at = "raising" /\ IsNext(c, doing.left)
  /\ outbox' = Append(outbox, [Event("Raised") EXCEPT !.ref = c, !.num = Number])
  /\ doing' = [doing EXCEPT !.left = @ \ {c}, !.num = Number]
  /\ UNCHANGED <<day, inForce, held, visit, bound, answers, torn>>
  /\ UNCHANGED projection

\* "signed" stands for what the two people were shown: the payload has the
\* rating and the number of findings.
AuthorSubmitted_Early ==
  /\ doing.at = "raising"
  /\ outbox' = Append(outbox, [Event("Submitted") EXCEPT
                                 !.score = PhoneScore, !.signed = answers])
  /\ doing' = [Idle EXCEPT !.at = "marking"]
  /\ UNCHANGED <<day, inForce, held, visit, bound, answers, torn>>
  /\ UNCHANGED projection
AuthorSubmitted ==
  /\ doing.at = "raising" /\ doing.left = {}
  /\ outbox' = Append(outbox, [Event("Submitted") EXCEPT
                                 !.score = PhoneScore, !.signed = answers])
  /\ doing' = [Idle EXCEPT !.at = "marking"]
  /\ UNCHANGED <<day, inForce, held, visit, bound, answers, torn>>
  /\ UNCHANGED projection

MarkSubmitted ==
  /\ doing.at = "marking"
  /\ visit' = "submitted" /\ doing' = Idle
  /\ UNCHANGED <<day, inForce, held, bound, answers, outbox, torn>>
  /\ UNCHANGED projection

\* The app is killed, or the signer fails, between two statements.
Interrupt ==
  /\ MayDie /\ doing.at # "idle"
  /\ torn' = (torn \/ doing.at # "answering")
  /\ doing' = Idle
  /\ UNCHANGED <<day, inForce, held, visit, bound, answers, outbox>>
  /\ UNCHANGED projection

-----------------------------------------------------------------------------
(* The projector: the next event, in one transaction.  A handler that       *)
(* throws is tried again for ever, which here is a step that cannot happen. *)
Projects(kind) == seen < Len(outbox) /\ outbox[seen + 1].kind = kind

ProjectStarted ==
  /\ Projects("Started")
  /\ seen' = seen + 1
  /\ row' = IF row = "none" THEN "in_progress" ELSE row
  /\ UNCHANGED <<responses, findings, rating>>

\* ON CONFLICT (inspection_id, checkpoint_ref) DO NOTHING; nothing is inserted
\* for an inspection that has no row.
ResponsesAfter_LastWins(e) ==
  IF row = "none" THEN responses ELSE [responses EXCEPT ![e.ref] = e.answer]
ResponsesAfter(e) ==
  IF row = "none" \/ responses[e.ref] # "none" THEN responses
  ELSE [responses EXCEPT ![e.ref] = e.answer]

ProjectAnswered ==
  /\ Projects("Answered")
  /\ seen' = seen + 1
  /\ responses' = ResponsesAfter(outbox[seen + 1])
  /\ UNCHANGED <<row, findings, rating>>

\* The row refers to its inspection and its reference is unique: an event that
\* breaks either constraint throws.  Every FindingRaised has an id of its own,
\* so ON CONFLICT (id) is for an event that is projected again.
FindingRow(e, i) ==
  [id |-> i, num |-> e.num, ref |-> e.ref, created |-> day,
   due |-> e.day + Sla[Severity[e.ref]]]

ProjectRaised ==
  /\ Projects("Raised") /\ row # "none"
  /\ \A f \in findings : f.num # outbox[seen + 1].num
  /\ seen' = seen + 1
  /\ findings' = findings \cup {FindingRow(outbox[seen + 1], seen + 1)}
  /\ UNCHANGED <<row, responses, rating>>

\* recomputeRating(): the rows the projection has, none of them closed yet.
ServerScore == Score(responses, Weight, {Severity[f.ref] : f \in findings})

\* A finding dated after the signature is dated back to it, and its due date
\* moves by as much.
Dated(f, e) ==
  IF f.created <= e.day THEN f
  ELSE [f EXCEPT !.created = e.day, !.due = e.day + (f.due - f.created)]

ProjectSubmitted ==
  /\ Projects("Submitted")
  /\ seen' = seen + 1
  /\ row' = IF row = "none" THEN "none" ELSE "submitted"
  /\ rating' = IF row = "none" THEN rating ELSE ServerScore
  /\ findings' = {Dated(f, outbox[seen + 1]) : f \in findings}
  /\ UNCHANGED responses

Project ==
  /\ ProjectStarted \/ ProjectAnswered \/ ProjectRaised \/ ProjectSubmitted
  /\ UNCHANGED <<day, inForce>> /\ UNCHANGED phone

-----------------------------------------------------------------------------
Next ==
  \/ Tick \/ Publish \/ Bootstrap \/ Start \/ AuthorStarted
  \/ \E c \in Checkpoint, a \in Answers : AuthorAnswer(c, a)
  \/ StoreAnswer \/ \E d \in 0..day : BeginSubmit(d)
  \/ \E c \in Checkpoint : RaiseFinding(c)
  \/ AuthorSubmitted \/ MarkSubmitted \/ Interrupt \/ Project

Spec == Init /\ [][Next]_vars

\* What is authored is pushed and projected in the end (Delivered of DeviceSync,
\* EventuallyApplied of Projector).
FairSpec == Spec /\ WF_vars(Project)

-----------------------------------------------------------------------------
(* Properties *)

Stages == {"idle", "starting", "answering", "raising", "marking"}
AnswersOrNone == Answers \cup {"none"}
Scores == [percent : 0..10000, band : Bands \cup {"none"}]

EventType ==
  [kind : {"Started", "Answered", "Raised", "Submitted"},
   ref : Checkpoint \cup {0}, answer : AnswersOrNone, num : Nat,
   day : 0..LastDay, score : Scores, signed : [Checkpoint -> AnswersOrNone]]

\* The variables have the shapes their comments say.
TypeOK ==
  /\ day \in 0..LastDay /\ inForce \in 1..LastVersion
  /\ held \in 0..LastVersion /\ bound \in 0..LastVersion
  /\ visit \in {"none", "in_progress", "submitted"}
  /\ answers \in [Checkpoint -> AnswersOrNone]
  /\ outbox \in Seq(EventType)
  /\ doing \in [at : Stages, ref : Checkpoint \cup {0}, answer : AnswersOrNone,
                left : SUBSET Checkpoint, num : Nat, day : 0..LastDay]
  /\ torn \in BOOLEAN
  /\ seen \in 0..Len(outbox)
  /\ row \in {"none", "in_progress", "submitted"}
  /\ responses \in [Checkpoint -> AnswersOrNone]
  /\ findings \subseteq [id : 1..Len(outbox), num : Nat, ref : Checkpoint,
                         created : 0..LastDay, due : Int]
  /\ rating \in Scores

\* The submission the console shows: the last one projected.
Signed ==
  LET i == CHOOSE j \in 1..seen :
             /\ outbox[j].kind = "Submitted"
             /\ \A k \in j + 1..seen : outbox[k].kind # "Submitted"
  IN  outbox[i]

FindingRefs == {f.ref : f \in findings}
SignedAdverse == {c \in Checkpoint : Signed.signed[c] = "no"}

\* A submitted inspection has a response for every checkpoint, although the
\* phone may have stopped between an answer's event and its own row, and counts
\* its own rows (inspection.ts:203-213, 284-290).
SubmittedIsComplete ==
  row = "submitted" => \A c \in Checkpoint : responses[c] # "none"

\* No adverse answer that was signed for is without its finding, whatever was
\* cut short and begun again (inspection.ts:268-272, "nothing is lost").
NothingObservedIsLost == row = "submitted" => SignedAdverse \subseteq FindingRefs

\* An answer that was corrected leaves no finding: those of the console are the
\* ones that were signed, once each (inspection.ts:235-242).
FindingsAreThoseSigned ==
  row = "submitted" /\ ~torn =>
    /\ FindingRefs = SignedAdverse
    /\ Cardinality(findings) = Cardinality(SignedAdverse)

\* "An inspection is immutable once submitted": what the console shows of it
\* stays as it is, although the phone can still author answers for it
\* (inspection.ts:275-278; recordResponse does not look at the status).
RecordIsFinal ==
  [][row = "submitted" /\ ~torn
       => UNCHANGED <<row, responses, findings, rating>>]_vars

\* A submission the phone takes for done reaches the console, unless an earlier
\* start() or submit() of it was cut short (inspection.ts:268-272).
SubmissionArrives == visit = "submitted" ~> (row = "submitted" \/ torn)
=============================================================================
