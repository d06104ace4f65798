------------------------ MODULE FieldInspectionProofs -----------------------
(***************************************************************************)
(* What holds of an inspection for any number of checkpoints, versions,    *)
(* days and answers: the console shows a submitted one with an answer for  *)
(* every checkpoint and a finding for every adverse answer, wherever the   *)
(* app was stopped; where no call was cut short, what it shows does not    *)
(* change any more and its findings are those that were signed.  The       *)
(* screens conduct an inspection as FieldInspection says, so that all of   *)
(* this holds on them, and what is signed is what was shown.               *)
(***************************************************************************)
EXTENDS Visit, FiniteSetTheorems, TLAPS

-----------------------------------------------------------------------------
(* The inductive invariant.                                                *)

\* c is answered by one of the first n events.
AnsweredIn(c, n) ==
  \E i \in 1..n : /\ i <= Len(outbox) /\ outbox[i].kind = "Answered"
                  /\ outbox[i].ref = c /\ outbox[i].answer # "none"

DoingRec ==
  [at : Stages, ref : Checkpoint \cup {0}, answer : AnswersOrNone,
   left : SUBSET Checkpoint, num : Nat, day : 0..LastDay]

Shape ==
  /\ \E S : outbox \in Seq(S)
  /\ answers \in [Checkpoint -> AnswersOrNone]
  /\ responses \in [Checkpoint -> AnswersOrNone]
  /\ doing \in DoingRec
  /\ day \in 0..LastDay
  /\ seen \in 0..Len(outbox)
  /\ row \in {"none", "in_progress", "submitted"}

\* The phone's rows are behind its events, never ahead of them.
RowsFollowEvents ==
  /\ \A c \in Checkpoint : answers[c] # "none" => AnsweredIn(c, Len(outbox))
  /\ doing.at = "answering" =>
       /\ doing.ref \in Checkpoint /\ doing.answer \in Answers
       /\ AnsweredIn(doing.ref, Len(outbox))
  /\ doing.at = "raising" => \A c \in Checkpoint : answers[c] # "none"

\* An answer is one, to a checkpoint of the instrument.
AnswersAreAnswers ==
  \A i \in 1..Len(outbox) :
    outbox[i].kind = "Answered" =>
      outbox[i].ref \in Checkpoint /\ outbox[i].answer \in Answers

\* A visit begins with the event that says so, if there is one at all.
StartedFirst ==
  /\ visit = "none" => doing.at = "idle"
  /\ visit = "none" \/ doing.at = "starting" => outbox = <<>>
  /\ \A i \in 1..Len(outbox) : outbox[i].kind = "Started" => i = 1

\* What a submission was authored after.
SubmittedAfterAnswers ==
  \A i \in 1..Len(outbox) :
    outbox[i].kind = "Submitted" => \A c \in Checkpoint : AnsweredIn(c, i)

\* The rows of the console, where there is one for the inspection, hold every
\* answer projected so far.
ResponsesKept ==
  row # "none" =>
    /\ seen >= 1
    /\ \A c \in Checkpoint : AnsweredIn(c, seen) => responses[c] # "none"

\* The console shows a submission that it has projected.
SubmittedWasSeen ==
  row = "submitted" => \E i \in 1..seen : outbox[i].kind = "Submitted"

CompleteInv ==
  /\ Shape /\ RowsFollowEvents /\ AnswersAreAnswers /\ StartedFirst
  /\ SubmittedAfterAnswers /\ ResponsesKept /\ SubmittedWasSeen

-----------------------------------------------------------------------------
(* Sequences.                                                              *)

LEMMA AppendFacts ==
  ASSUME NEW S, NEW s \in Seq(S), NEW e
  PROVE  /\ Append(s, e) \in Seq(S \cup {e})
         /\ Len(s) \in Nat
         /\ Len(Append(s, e)) = Len(s) + 1
         /\ \A i \in 1..Len(s) : Append(s, e)[i] = s[i]
         /\ Append(s, e)[Len(s) + 1] = e
<1>1. s \in Seq(S \cup {e}) /\ e \in S \cup {e}
  OBVIOUS
<1> QED
  BY <1>1

\* An event appended takes no answer away, and adds its own.
LEMMA Authored ==
  ASSUME Shape, NEW e, outbox' = Append(outbox, e)
  PROVE  /\ \E S : outbox' \in Seq(S)
         /\ Len(outbox) \in Nat
         /\ Len(outbox') = Len(outbox) + 1
         /\ \A i \in 1..Len(outbox) : outbox'[i] = outbox[i]
         /\ outbox'[Len(outbox) + 1] = e
         /\ \A c, n : AnsweredIn(c, n) => AnsweredIn(c, n)'
         /\ \A c : \A n \in 0..Len(outbox) : AnsweredIn(c, n)' => AnsweredIn(c, n)
         /\ \A c : AnsweredIn(c, Len(outbox)) => AnsweredIn(c, Len(outbox))'
<1>1. PICK S : outbox \in Seq(S)
  BY DEF Shape
<1>2. /\ outbox' \in Seq(S \cup {e}) /\ Len(outbox) \in Nat
      /\ Len(outbox') = Len(outbox) + 1
      /\ \A i \in 1..Len(outbox) : outbox'[i] = outbox[i]
      /\ outbox'[Len(outbox) + 1] = e
  BY <1>1, AppendFacts
<1>3. \A c, n : AnsweredIn(c, n) => AnsweredIn(c, n)'
  BY <1>2 DEF AnsweredIn
<1>4. \A c : \A n \in 0..Len(outbox) : AnsweredIn(c, n)' => AnsweredIn(c, n)
  BY <1>2 DEF AnsweredIn
<1>5. \A c : AnsweredIn(c, Len(outbox)) => AnsweredIn(c, Len(outbox))'
  BY <1>2 DEF AnsweredIn
<1> QED
  BY <1>2, <1>3, <1>4, <1>5

LEMMA IdleFacts ==
  /\ Idle \in DoingRec /\ Idle.at = "idle"
  /\ \A s \in Stages : /\ [Idle EXCEPT !.at = s] \in DoingRec
                      /\ [Idle EXCEPT !.at = s].at = s
  /\ \A n \in 0..LastDay : \A S \in SUBSET Checkpoint :
       LET d == [Idle EXCEPT !.at = "raising", !.left = S, !.day = n]
       IN  d \in DoingRec /\ d.at = "raising"
<1>1. Idle = [at |-> "idle", ref |-> 0, answer |-> "none", left |-> {}, num |-> 0,
              day |-> 0]
  BY DEF Idle
<1>2. 0 \in 0..LastDay
  BY InspectionAssumption
<1>3. /\ Idle \in DoingRec /\ Idle.at = "idle"
      /\ \A s \in Stages : /\ [Idle EXCEPT !.at = s] \in DoingRec
                          /\ [Idle EXCEPT !.at = s].at = s
  BY <1>1, <1>2 DEF DoingRec, Stages, AnswersOrNone
<1>4. ASSUME NEW n \in 0..LastDay, NEW S \in SUBSET Checkpoint
      PROVE  LET d == [Idle EXCEPT !.at = "raising", !.left = S, !.day = n]
             IN  d \in DoingRec /\ d.at = "raising"
  <2> DEFINE x == [Idle EXCEPT !.at = "raising"]
             y == [x EXCEPT !.left = S]
             z == [y EXCEPT !.day = n]
  <2>1. x \in DoingRec /\ x.at = "raising"
    BY <1>3 DEF Stages
  <2> HIDE DEF x
  <2>2. y \in DoingRec /\ y.at = "raising"
    BY <2>1 DEF DoingRec
  <2> HIDE DEF y
  <2>3. z \in DoingRec /\ z.at = "raising"
    BY <2>2 DEF DoingRec
  <2> HIDE DEF z
  <2>4. z = [Idle EXCEPT !.at = "raising", !.left = S, !.day = n]
    BY DEF x, y, z
  <2> QED
    BY <2>3, <2>4
<1> QED
  BY <1>3, <1>4

LEMMA AnsweringFacts ==
  ASSUME NEW c \in Checkpoint, NEW a \in Answers,
         doing' = [Idle EXCEPT !.at = "answering", !.ref = c, !.answer = a]
  PROVE  /\ doing' \in DoingRec /\ doing'.at = "answering"
         /\ doing'.ref = c /\ doing'.answer = a
<1> DEFINE x == [Idle EXCEPT !.at = "answering"]
           y == [x EXCEPT !.ref = c]
           z == [y EXCEPT !.answer = a]
<1>1. x \in DoingRec /\ x.at = "answering"
  BY IdleFacts DEF Stages
<1>2. doing' = z
  BY DEF x, y, z
<1> HIDE DEF x
<1>3. y \in DoingRec /\ y.at = "answering" /\ y.ref = c
  BY <1>1 DEF DoingRec
<1> HIDE DEF y
<1>4. z \in DoingRec /\ z.at = "answering" /\ z.ref = c /\ z.answer = a
  BY <1>3 DEF DoingRec, AnswersOrNone
<1> QED
  BY <1>2, <1>4

-----------------------------------------------------------------------------
(* The invariant holds in every reachable state.                           *)

LEMMA CompleteInit == ASSUME Init PROVE CompleteInv
<1> USE InspectionAssumption DEF Init, Unanswered, Idle
<1>1. Shape
  <2>1. outbox \in Seq({})
    OBVIOUS
  <2> QED
    BY <2>1 DEF Shape, AnswersOrNone, Answers, Stages, DoingRec
<1> QED
  BY <1>1 DEF CompleteInv, RowsFollowEvents, AnswersAreAnswers, StartedFirst,
              SubmittedAfterAnswers, ResponsesKept, SubmittedWasSeen

\* What an authoring step keeps, whatever it authors, if a submission is of
\* answered checkpoints and the beginning comes first.
LEMMA AuthoredKeeps ==
  ASSUME CompleteInv, NEW e, outbox' = Append(outbox, e), UNCHANGED projection,
         UNCHANGED <<answers, day>>,
         e.kind = "Submitted" => \A c \in Checkpoint : answers[c] # "none",
         e.kind = "Started" => outbox = <<>>,
         e.kind = "Answered" => e.ref \in Checkpoint /\ e.answer \in Answers
  PROVE  /\ \E S : outbox' \in Seq(S)
         /\ answers' \in [Checkpoint -> AnswersOrNone]
         /\ responses' \in [Checkpoint -> AnswersOrNone]
         /\ day' \in 0..LastDay
         /\ seen' \in 0..Len(outbox')
         /\ row' \in {"none", "in_progress", "submitted"}
         /\ \A c \in Checkpoint : answers'[c] # "none" => AnsweredIn(c, Len(outbox))'
         /\ \A i \in 1..Len(outbox') : outbox'[i].kind = "Started" => i = 1
         /\ AnswersAreAnswers' /\ SubmittedAfterAnswers'
         /\ ResponsesKept' /\ SubmittedWasSeen'
<1> USE DEF CompleteInv
<1>1. /\ \E S : outbox' \in Seq(S)
      /\ Len(outbox) \in Nat
      /\ Len(outbox') = Len(outbox) + 1
      /\ \A i \in 1..Len(outbox) : outbox'[i] = outbox[i]
      /\ outbox'[Len(outbox) + 1] = e
      /\ \A c, n : AnsweredIn(c, n) => AnsweredIn(c, n)'
      /\ \A c : \A n \in 0..Len(outbox) : AnsweredIn(c, n)' => AnsweredIn(c, n)
      /\ \A c : AnsweredIn(c, Len(outbox)) => AnsweredIn(c, Len(outbox))'
  BY Authored
<1>2. \A c \in Checkpoint : answers'[c] # "none" => AnsweredIn(c, Len(outbox))'
  BY <1>1 DEF RowsFollowEvents
<1>3. \A i \in 1..Len(outbox') : outbox'[i].kind = "Started" => i = 1
  BY <1>1 DEF StartedFirst
<1>4. SubmittedAfterAnswers'
  <2> SUFFICES ASSUME NEW i \in 1..Len(outbox'), outbox'[i].kind = "Submitted",
                      NEW c \in Checkpoint
               PROVE  AnsweredIn(c, i)'
    BY DEF SubmittedAfterAnswers
  <2>1. CASE i <= Len(outbox)
    BY <1>1, <2>1 DEF SubmittedAfterAnswers
  <2>2. CASE i = Len(outbox) + 1
    <3>1. AnsweredIn(c, Len(outbox))'
      BY <1>1, <2>2 DEF RowsFollowEvents
    <3> QED
      BY <1>1, <2>2, <3>1 DEF AnsweredIn
  <2> QED
    BY <1>1, <2>1, <2>2
<1>5. ResponsesKept'
  BY <1>1 DEF ResponsesKept, projection, Shape
<1>6. SubmittedWasSeen'
  BY <1>1 DEF SubmittedWasSeen, projection, Shape
<1>7. AnswersAreAnswers'
  BY <1>1 DEF AnswersAreAnswers
<1> QED
  BY <1>1, <1>2, <1>3, <1>4, <1>5, <1>6, <1>7 DEF Shape, projection

\* Steps of the phone that author nothing.
LEMMA QuietKeeps ==
  ASSUME CompleteInv, UNCHANGED <<outbox, answers, day>>, UNCHANGED projection
  PROVE  /\ \E S : outbox' \in Seq(S)
         /\ answers' \in [Checkpoint -> AnswersOrNone]
         /\ responses' \in [Checkpoint -> AnswersOrNone]
         /\ day' \in 0..LastDay
         /\ seen' \in 0..Len(outbox')
         /\ row' \in {"none", "in_progress", "submitted"}
         /\ \A c, n : AnsweredIn(c, n)' <=> AnsweredIn(c, n)
         /\ \A c : AnsweredIn(c, Len(outbox))' <=> AnsweredIn(c, Len(outbox))
         /\ AnswersAreAnswers' /\ SubmittedAfterAnswers'
         /\ ResponsesKept' /\ SubmittedWasSeen'
BY DEF CompleteInv, Shape, AnsweredIn, AnswersAreAnswers, SubmittedAfterAnswers,
       ResponsesKept, SubmittedWasSeen, projection

LEMMA StartComplete == ASSUME CompleteInv, Start PROVE CompleteInv'
<1>1. UNCHANGED <<outbox, answers, day>> /\ UNCHANGED projection
  BY DEF Start
<1>2. Shape'
  <2>1. doing' \in DoingRec
    BY IdleFacts DEF Start, Stages
  <2> QED
    BY <1>1, <2>1, QuietKeeps DEF Shape
<1>3. doing'.at = "starting" /\ visit' # "none" /\ outbox' = <<>>
  BY DEF Start, Idle, CompleteInv, StartedFirst
<1>4. RowsFollowEvents' /\ StartedFirst'
  BY <1>1, <1>3, QuietKeeps DEF RowsFollowEvents, StartedFirst, CompleteInv
<1> QED
  BY <1>1, <1>2, <1>4, QuietKeeps DEF CompleteInv

LEMMA AuthorStartedComplete == ASSUME CompleteInv, AuthorStarted PROVE CompleteInv'
<1> DEFINE e == Event("Started")
<1>1. /\ outbox' = Append(outbox, e) /\ UNCHANGED projection
      /\ UNCHANGED <<answers, day>> /\ e.kind = "Started" /\ outbox = <<>>
      /\ visit' # "none" /\ doing' = Idle /\ doing'.at = "idle"
  BY DEF AuthorStarted, Event, Idle, CompleteInv, StartedFirst
<1> HIDE DEF e
<1>2. Shape'
  BY <1>1, AuthoredKeeps, IdleFacts DEF Shape
<1>3. RowsFollowEvents' /\ StartedFirst'
  BY <1>1, AuthoredKeeps DEF RowsFollowEvents, StartedFirst
<1> QED
  BY <1>1, <1>2, <1>3, AuthoredKeeps DEF CompleteInv

LEMMA AuthorAnswerComplete ==
  ASSUME CompleteInv, NEW c \in Checkpoint, NEW a \in Answers, AuthorAnswer(c, a)
  PROVE  CompleteInv'
<1> DEFINE e == [Event("Answered") EXCEPT !.ref = c, !.answer = a]
<1>1. /\ outbox' = Append(outbox, e) /\ UNCHANGED projection
      /\ UNCHANGED <<answers, day>> /\ visit' # "none"
      /\ doing' = [Idle EXCEPT !.at = "answering", !.ref = c, !.answer = a]
  BY DEF AuthorAnswer
<1>2. e.kind = "Answered" /\ e.ref = c /\ e.answer = a
  BY DEF Event
<1>3. /\ doing'.at = "answering" /\ doing'.ref = c /\ doing'.answer = a
      /\ doing' \in DoingRec
  BY <1>1, AnsweringFacts
<1> HIDE DEF e
<1>4. Shape'
  BY <1>1, <1>2, <1>3, AuthoredKeeps DEF Shape
<1>5. AnsweredIn(c, Len(outbox))'
  BY <1>1, <1>2, Authored DEF AnsweredIn, Answers, CompleteInv
<1>6. RowsFollowEvents' /\ StartedFirst'
  BY <1>1, <1>2, <1>3, <1>5, AuthoredKeeps DEF RowsFollowEvents, StartedFirst
<1> QED
  BY <1>1, <1>2, <1>4, <1>6, AuthoredKeeps DEF CompleteInv

LEMMA StoreAnswerComplete == ASSUME CompleteInv, StoreAnswer PROVE CompleteInv'
<1>1. /\ UNCHANGED <<outbox, day>> /\ UNCHANGED projection /\ visit' = visit
      /\ doing.ref \in Checkpoint /\ doing.answer \in AnswersOrNone
      /\ AnsweredIn(doing.ref, Len(outbox)) /\ visit # "none"
      /\ answers' = [answers EXCEPT ![doing.ref] = doing.answer]
      /\ doing' = Idle /\ doing'.at = "idle"
  BY DEF StoreAnswer, CompleteInv, RowsFollowEvents, StartedFirst, AnswersOrNone, Idle
<1>2. \A c, n : AnsweredIn(c, n)' <=> AnsweredIn(c, n)
  BY <1>1 DEF AnsweredIn
<1>3. Shape'
  BY <1>1, IdleFacts DEF CompleteInv, Shape, projection
<1>4. \A c \in Checkpoint : answers'[c] # "none" => AnsweredIn(c, Len(outbox))'
  BY <1>1 DEF CompleteInv, RowsFollowEvents, Shape, AnsweredIn
<1>5. RowsFollowEvents' /\ StartedFirst'
  BY <1>1, <1>4 DEF CompleteInv, RowsFollowEvents, StartedFirst
<1>6. /\ AnswersAreAnswers' /\ SubmittedAfterAnswers'
      /\ ResponsesKept' /\ SubmittedWasSeen'
  BY <1>1, <1>2 DEF CompleteInv, AnswersAreAnswers, SubmittedAfterAnswers,
                    ResponsesKept, SubmittedWasSeen, projection
<1> QED
  BY <1>3, <1>5, <1>6 DEF CompleteInv

LEMMA BeginSubmitComplete ==
  ASSUME CompleteInv, NEW n \in 0..day, BeginSubmit(n) PROVE CompleteInv'
<1>1. /\ UNCHANGED <<outbox, answers, day>> /\ UNCHANGED projection /\ visit' = visit
      /\ \A c \in Checkpoint : answers[c] # "none"
      /\ visit # "none"
  BY DEF BeginSubmit
<1>2. doing' \in DoingRec /\ doing'.at = "raising"
  <2> DEFINE d == [Idle EXCEPT !.at = "raising", !.left = Adverse, !.day = n]
  <2>1. Adverse \in SUBSET Checkpoint /\ n \in 0..LastDay
    BY InspectionAssumption DEF Adverse, CompleteInv, Shape
  <2>2. d \in DoingRec /\ d.at = "raising"
    BY <2>1, IdleFacts, Zenon
  <2> QED
    BY <2>2 DEF BeginSubmit
<1>3. Shape'
  BY <1>1, <1>2, QuietKeeps DEF Shape
<1>4. RowsFollowEvents' /\ StartedFirst'
  BY <1>1, <1>2, QuietKeeps DEF CompleteInv, RowsFollowEvents, StartedFirst
<1> QED
  BY <1>1, <1>3, <1>4, QuietKeeps DEF CompleteInv

LEMMA RaiseFindingComplete ==
  ASSUME CompleteInv, NEW c \in Checkpoint, RaiseFinding(c) PROVE CompleteInv'
<1> DEFINE e == [Event("Raised") EXCEPT !.ref = c, !.num = Number]
<1>1. /\ outbox' = Append(outbox, e) /\ UNCHANGED projection
      /\ UNCHANGED <<answers, day>> /\ visit' = visit /\ visit # "none"
      /\ doing.at = "raising" /\ e.kind = "Raised"
      /\ \A b \in Checkpoint : answers[b] # "none"
  BY DEF RaiseFinding, Event, CompleteInv, StartedFirst, RowsFollowEvents
<1>2. doing' \in DoingRec /\ doing'.at = "raising"
  <2> DEFINE x == [doing EXCEPT !.left = @ \ {c}]
             y == [x EXCEPT !.num = Number]
  <2>1. doing \in DoingRec
    BY DEF CompleteInv, Shape
  <2>2. x \in DoingRec /\ x.at = "raising"
    BY <1>1, <2>1 DEF DoingRec
  <2>3. Number \in Nat
    BY <2>1 DEF DoingRec, Number
  <2>4. doing' = y
    BY DEF RaiseFinding, x, y
  <2> HIDE DEF x
  <2>5. y \in DoingRec /\ y.at = "raising"
    BY <2>2, <2>3 DEF DoingRec
  <2> QED
    BY <2>4, <2>5
<1> HIDE DEF e
<1>3. Shape'
  BY <1>1, <1>2, AuthoredKeeps DEF Shape
<1>4. RowsFollowEvents' /\ StartedFirst'
  BY <1>1, <1>2, AuthoredKeeps DEF RowsFollowEvents, StartedFirst
<1> QED
  BY <1>1, <1>3, <1>4, AuthoredKeeps DEF CompleteInv

LEMMA AuthorSubmittedComplete ==
  ASSUME CompleteInv, AuthorSubmitted PROVE CompleteInv'
<1> DEFINE e == [Event("Submitted") EXCEPT !.score = PhoneScore, !.signed = answers]
<1>1. /\ outbox' = Append(outbox, e) /\ UNCHANGED projection
      /\ UNCHANGED <<answers, day>> /\ visit' = visit /\ visit # "none"
      /\ \A c \in Checkpoint : answers[c] # "none"
  BY DEF AuthorSubmitted, CompleteInv, StartedFirst, RowsFollowEvents
<1>2. e.kind = "Submitted"
  BY DEF Event
<1>3. doing' \in DoingRec /\ doing'.at = "marking"
  BY IdleFacts DEF AuthorSubmitted, Stages
<1> HIDE DEF e
<1>4. Shape'
  BY <1>1, <1>2, <1>3, AuthoredKeeps DEF Shape
<1>5. RowsFollowEvents' /\ StartedFirst'
  BY <1>1, <1>2, <1>3, AuthoredKeeps DEF RowsFollowEvents, StartedFirst
<1> QED
  BY <1>1, <1>2, <1>4, <1>5, AuthoredKeeps DEF CompleteInv

\* MarkSubmitted and Interrupt end a call.
LEMMA EndComplete ==
  ASSUME CompleteInv, MarkSubmitted \/ Interrupt PROVE CompleteInv'
<1>1. /\ UNCHANGED <<outbox, answers, day>> /\ UNCHANGED projection
      /\ doing.at # "idle" /\ visit # "none" /\ visit' # "none" /\ doing' = Idle
  BY DEF MarkSubmitted, Interrupt, CompleteInv, StartedFirst
<1>2. Shape'
  BY <1>1, IdleFacts, QuietKeeps DEF Shape
<1>3. RowsFollowEvents' /\ StartedFirst'
  BY <1>1, IdleFacts, QuietKeeps DEF CompleteInv, RowsFollowEvents, StartedFirst
<1> QED
  BY <1>1, <1>2, <1>3, QuietKeeps DEF CompleteInv

\* Days, versions and bootstraps touch nothing the invariant is about but the day.
LEMMA OutsideComplete ==
  ASSUME CompleteInv, Tick \/ Publish \/ Bootstrap \/ UNCHANGED vars
  PROVE  CompleteInv'
<1>1. /\ UNCHANGED <<outbox, answers, doing, visit>> /\ UNCHANGED projection
      /\ day' \in 0..LastDay
  BY InspectionAssumption
     DEF Tick, Publish, Bootstrap, phone, projection, vars, CompleteInv, Shape
<1> QED
  BY <1>1 DEF CompleteInv, Shape, RowsFollowEvents, StartedFirst, AnsweredIn,
              AnswersAreAnswers, SubmittedAfterAnswers, ResponsesKept,
              SubmittedWasSeen, projection

\* The projector moves on by one event.
LEMMA ProjectComplete == ASSUME CompleteInv, Project PROVE CompleteInv'
<1> DEFINE e == outbox[seen + 1]
<1>1. /\ UNCHANGED <<day, outbox, answers, doing, visit>>
      /\ seen' = seen + 1 /\ seen \in Nat /\ Len(outbox) \in Nat /\ seen < Len(outbox)
  BY DEF Project, ProjectStarted, ProjectAnswered, ProjectRaised, ProjectSubmitted,
         Projects, phone, CompleteInv, Shape
<1>2. \A c, n : AnsweredIn(c, n)' <=> AnsweredIn(c, n)
  BY <1>1 DEF AnsweredIn
<1>3. /\ RowsFollowEvents' /\ AnswersAreAnswers'
      /\ StartedFirst' /\ SubmittedAfterAnswers'
  BY <1>1, <1>2 DEF CompleteInv, RowsFollowEvents, AnswersAreAnswers, StartedFirst,
                    SubmittedAfterAnswers, AnsweredIn
<1>4. \A c : AnsweredIn(c, seen + 1)
        <=> \/ AnsweredIn(c, seen)
            \/ e.kind = "Answered" /\ e.ref = c /\ e.answer # "none"
  BY <1>1 DEF AnsweredIn
<1>5. /\ \E S : outbox' \in Seq(S)
      /\ answers' \in [Checkpoint -> AnswersOrNone]
      /\ doing' \in DoingRec /\ day' \in 0..LastDay
      /\ seen' \in 0..Len(outbox')
  BY <1>1 DEF CompleteInv, Shape
<1>6. CASE ProjectStarted
  <2>1. e.kind = "Started" /\ seen = 0 /\ row' \in {"none", "in_progress", "submitted"}
        /\ responses' = responses
    BY <1>1, <1>6 DEF ProjectStarted, Projects, CompleteInv, StartedFirst, Shape
  <2>2. row = "none" /\ row' = "in_progress"
    BY <2>1, <1>6 DEF ProjectStarted, CompleteInv, ResponsesKept
  <2>3. \A c : ~AnsweredIn(c, seen + 1)
    BY <1>1, <2>1 DEF AnsweredIn
  <2>4. ResponsesKept' /\ SubmittedWasSeen'
    BY <1>1, <1>2, <2>1, <2>2, <2>3 DEF ResponsesKept, SubmittedWasSeen
  <2>5. Shape'
    BY <1>5, <2>1 DEF Shape, CompleteInv
  <2> QED
    BY <1>3, <2>4, <2>5 DEF CompleteInv
<1>7. CASE ProjectAnswered
  <2>1. row' = row /\ responses' = ResponsesAfter(e)
    BY <1>7 DEF ProjectAnswered
  <2>2. e.ref \in Checkpoint /\ e.answer \in Answers /\ e.answer # "none"
    BY <1>1, <1>7 DEF ProjectAnswered, Projects, CompleteInv, AnswersAreAnswers, Answers
  <2>3. responses \in [Checkpoint -> AnswersOrNone]
    BY DEF CompleteInv, Shape
  <2> HIDE DEF e
  <2>4. /\ responses' \in [Checkpoint -> AnswersOrNone]
        /\ \A c \in Checkpoint : responses[c] # "none" => responses'[c] # "none"
        /\ row # "none" => responses'[e.ref] # "none"
    BY <2>1, <2>2, <2>3 DEF ResponsesAfter, AnswersOrNone
  <2>5. ResponsesKept' /\ SubmittedWasSeen'
    BY <1>1, <1>2, <1>4, <2>1, <2>4 DEF CompleteInv, ResponsesKept, SubmittedWasSeen
  <2>6. Shape'
    BY <1>5, <2>1, <2>4 DEF Shape, CompleteInv
  <2> QED
    BY <1>3, <2>5, <2>6 DEF CompleteInv
<1>8. CASE ProjectRaised
  <2>1. row' = row /\ responses' = responses /\ e.kind = "Raised"
    BY <1>8 DEF ProjectRaised, Projects
  <2>2. ResponsesKept' /\ SubmittedWasSeen'
    BY <1>1, <1>2, <1>4, <2>1 DEF CompleteInv, ResponsesKept, SubmittedWasSeen
  <2>3. Shape'
    BY <1>5, <2>1 DEF Shape, CompleteInv
  <2> QED
    BY <1>3, <2>2, <2>3 DEF CompleteInv
<1>9. CASE ProjectSubmitted
  <2>1. /\ row' = IF row = "none" THEN "none" ELSE "submitted"
        /\ responses' = responses /\ e.kind = "Submitted"
    BY <1>9 DEF ProjectSubmitted, Projects
  <2>2. ResponsesKept' /\ SubmittedWasSeen'
    BY <1>1, <1>2, <1>4, <2>1 DEF CompleteInv, ResponsesKept, SubmittedWasSeen
  <2>3. Shape'
    BY <1>5, <2>1 DEF Shape, CompleteInv
  <2> QED
    BY <1>3, <2>2, <2>3 DEF CompleteInv
<1> QED
  BY <1>6, <1>7, <1>8, <1>9 DEF Project

LEMMA CompleteNext == ASSUME CompleteInv, [Next]_vars PROVE CompleteInv'
BY OutsideComplete, StartComplete, AuthorStartedComplete, AuthorAnswerComplete,
   StoreAnswerComplete, BeginSubmitComplete, RaiseFindingComplete,
   AuthorSubmittedComplete, EndComplete, ProjectComplete
   DEF Next

\* A submission is of checkpoints that are all answered, and its answers are
\* projected before it.
LEMMA CompleteImplies == ASSUME CompleteInv PROVE SubmittedIsComplete
<1> SUFFICES ASSUME row = "submitted", NEW c \in Checkpoint PROVE responses[c] # "none"
  BY DEF SubmittedIsComplete
<1>1. PICK i \in 1..seen : outbox[i].kind = "Submitted"
  BY DEF CompleteInv, SubmittedWasSeen
<1>2. AnsweredIn(c, i)
  BY <1>1 DEF CompleteInv, SubmittedAfterAnswers, Shape
<1>3. AnsweredIn(c, seen)
  BY <1>2 DEF AnsweredIn, CompleteInv, Shape
<1> QED
  BY <1>3 DEF CompleteInv, ResponsesKept

\* A submitted inspection has a response for every checkpoint, wherever the app
\* was stopped and however often an answer was corrected (inspection.ts:284-290).
THEOREM SubmittedIsCompleteTheorem == Spec => []SubmittedIsComplete
<1>1. Init => CompleteInv
  BY CompleteInit
<1>2. CompleteInv /\ [Next]_vars => CompleteInv'
  BY CompleteNext
<1>3. CompleteInv => SubmittedIsComplete
  BY CompleteImplies
<1> QED
  BY <1>1, <1>2, <1>3, PTL DEF Spec

-----------------------------------------------------------------------------
(* What follows a submission.                                              *)

\* After a submission the phone has taken it for done, or is about to, and has
\* authored nothing but answers.
OnlyAnswersFollow ==
  \A i \in 1..Len(outbox) :
    outbox[i].kind = "Submitted" =>
      /\ visit = "submitted" \/ doing.at = "marking"
      /\ \A j \in i + 1..Len(outbox) : outbox[j].kind = "Answered"

RaisingInProgress == doing.at = "raising" => visit = "in_progress"

FinalInv == CompleteInv /\ RaisingInProgress /\ (torn \/ OnlyAnswersFollow)

LEMMA FinalInit == ASSUME Init PROVE FinalInv
<1>1. OnlyAnswersFollow /\ RaisingInProgress
  BY DEF OnlyAnswersFollow, RaisingInProgress, Init, Idle
<1> QED
  BY <1>1, CompleteInit DEF FinalInv

\* An answer may follow a submission, anything else only where there is none.
LEMMA AuthoredLast ==
  ASSUME CompleteInv, OnlyAnswersFollow, NEW e, outbox' = Append(outbox, e),
         visit' = visit, doing.at # "marking",
         e.kind = "Answered" \/ visit = "in_progress" \/ outbox = <<>>,
         e.kind = "Submitted" => doing'.at = "marking"
  PROVE  OnlyAnswersFollow'
<1>1. /\ Len(outbox) \in Nat
      /\ Len(outbox') = Len(outbox) + 1
      /\ \A i \in 1..Len(outbox) : outbox'[i] = outbox[i]
      /\ outbox'[Len(outbox) + 1] = e
  BY Authored DEF CompleteInv
<1>2. ASSUME NEW i \in 1..Len(outbox'), outbox'[i].kind = "Submitted"
      PROVE  /\ visit' = "submitted" \/ doing'.at = "marking"
             /\ \A j \in i + 1..Len(outbox') : outbox'[j].kind = "Answered"
  <2>1. CASE i \in 1..Len(outbox)
    <3>1. visit = "submitted" /\ e.kind = "Answered"
      BY <1>1, <1>2, <2>1 DEF OnlyAnswersFollow
    <3> QED
      BY <1>1, <1>2, <2>1, <3>1 DEF OnlyAnswersFollow
  <2>2. CASE i = Len(outbox) + 1
    BY <1>1, <1>2, <2>2
  <2> QED
    BY <1>1, <2>1, <2>2
<1> QED
  BY <1>2 DEF OnlyAnswersFollow

LEMMA RaisingNext ==
  ASSUME CompleteInv, RaisingInProgress, [Next]_vars PROVE RaisingInProgress'
<1>1. CASE UNCHANGED <<doing, visit>>
  BY <1>1 DEF RaisingInProgress
<1>2. CASE Start \/ AuthorStarted \/ StoreAnswer \/ AuthorSubmitted
             \/ MarkSubmitted \/ Interrupt
  <2>1. doing'.at # "raising"
    BY <1>2, IdleFacts DEF Start, AuthorStarted, StoreAnswer, AuthorSubmitted,
                           MarkSubmitted, Interrupt, Stages
  <2> QED
    BY <2>1 DEF RaisingInProgress
<1>3. ASSUME NEW c \in Checkpoint, NEW a \in Answers, AuthorAnswer(c, a)
      PROVE  RaisingInProgress'
  <2>1. doing'.at # "raising"
    BY <1>3, AnsweringFacts DEF AuthorAnswer
  <2> QED
    BY <2>1 DEF RaisingInProgress
<1>4. ASSUME NEW n \in 0..day, BeginSubmit(n) PROVE RaisingInProgress'
  BY <1>4 DEF BeginSubmit, RaisingInProgress
<1>5. ASSUME NEW c \in Checkpoint, RaiseFinding(c) PROVE RaisingInProgress'
  BY <1>5 DEF RaiseFinding, RaisingInProgress
<1> QED
  BY <1>1, <1>2, <1>3, <1>4, <1>5 DEF Next, Tick, Publish, Bootstrap, Project, vars, phone

\* Whatever is not cut short keeps it so.
LEMMA OnlyAnswersNext ==
  ASSUME CompleteInv, RaisingInProgress, OnlyAnswersFollow, [Next]_vars,
         ~(Interrupt /\ doing.at # "answering")
  PROVE  OnlyAnswersFollow'
<1>1. CASE UNCHANGED <<outbox, doing, visit>>
  BY <1>1 DEF OnlyAnswersFollow
<1>2. CASE Start
  <2>1. outbox' = <<>>
    BY <1>2 DEF Start, CompleteInv, StartedFirst
  <2> QED
    BY <2>1 DEF OnlyAnswersFollow
<1>3. CASE AuthorStarted
  <2>1. /\ outbox' = Append(outbox, Event("Started")) /\ outbox = <<>>
        /\ doing.at = "starting" /\ visit' = visit
    BY <1>3 DEF AuthorStarted, CompleteInv, StartedFirst
  <2>2. Event("Started").kind = "Started"
    BY DEF Event
  <2> QED
    BY <2>1, <2>2, AuthoredLast
<1>4. ASSUME NEW c \in Checkpoint, NEW a \in Answers, AuthorAnswer(c, a)
      PROVE  OnlyAnswersFollow'
  <2> DEFINE e == [Event("Answered") EXCEPT !.ref = c, !.answer = a]
  <2>1. e.kind = "Answered"
    BY DEF Event
  <2>2. outbox' = Append(outbox, e) /\ visit' = visit /\ doing.at = "idle"
    BY <1>4 DEF AuthorAnswer
  <2> HIDE DEF e
  <2> QED
    BY <2>1, <2>2, AuthoredLast
<1>5. CASE StoreAnswer \/ (\E n \in 0..day : BeginSubmit(n)) \/ Interrupt
  <2>1. UNCHANGED <<outbox, visit>> /\ doing.at # "marking"
    BY <1>5 DEF StoreAnswer, BeginSubmit, Interrupt
  <2> QED
    BY <2>1 DEF OnlyAnswersFollow
<1>6. ASSUME NEW c \in Checkpoint, RaiseFinding(c) PROVE OnlyAnswersFollow'
  <2> DEFINE e == [Event("Raised") EXCEPT !.ref = c, !.num = Number]
  <2>1. e.kind = "Raised"
    BY DEF Event
  <2>2. /\ outbox' = Append(outbox, e) /\ visit' = visit
        /\ doing.at = "raising" /\ visit = "in_progress"
    BY <1>6 DEF RaiseFinding, RaisingInProgress
  <2> HIDE DEF e
  <2> QED
    BY <2>1, <2>2, AuthoredLast
<1>7. CASE AuthorSubmitted
  <2> DEFINE e == [Event("Submitted") EXCEPT !.score = PhoneScore, !.signed = answers]
  <2>1. doing'.at = "marking"
    BY <1>7, IdleFacts DEF AuthorSubmitted, Stages
  <2>2. /\ outbox' = Append(outbox, e) /\ visit' = visit
        /\ doing.at = "raising" /\ visit = "in_progress"
    BY <1>7 DEF AuthorSubmitted, RaisingInProgress
  <2> HIDE DEF e
  <2> QED
    BY <2>1, <2>2, AuthoredLast
<1>8. CASE MarkSubmitted
  <2>1. outbox' = outbox /\ visit' = "submitted"
    BY <1>8 DEF MarkSubmitted
  <2> QED
    BY <2>1 DEF OnlyAnswersFollow
<1> QED
  BY <1>1, <1>2, <1>3, <1>4, <1>5, <1>6, <1>7, <1>8
     DEF Next, Tick, Publish, Bootstrap, Project, vars, phone

LEMMA TornStays == ASSUME [Next]_vars, torn PROVE torn'
BY DEF Next, Tick, Publish, Bootstrap, Start, AuthorStarted, AuthorAnswer,
       StoreAnswer, BeginSubmit, RaiseFinding, AuthorSubmitted, MarkSubmitted,
       Interrupt, Project, vars, phone

LEMMA FinalNext == ASSUME FinalInv, [Next]_vars PROVE FinalInv'
<1>1. CompleteInv' /\ RaisingInProgress'
  BY CompleteNext, RaisingNext DEF FinalInv
<1>2. CASE torn
  BY <1>1, <1>2, TornStays DEF FinalInv
<1>3. CASE Interrupt /\ doing.at # "answering"
  <2>1. torn'
    BY <1>3, Zenon DEF Interrupt
  <2> QED
    BY <1>1, <2>1 DEF FinalInv
<1>4. CASE OnlyAnswersFollow /\ ~(Interrupt /\ doing.at # "answering")
  BY <1>1, <1>4, OnlyAnswersNext DEF FinalInv
<1> QED
  BY <1>2, <1>3, <1>4 DEF FinalInv

\* What comes after a projected submission is an answer to a checkpoint that
\* already has one.
LEMMA FinalStep ==
  ASSUME FinalInv, [Next]_vars, row = "submitted", ~torn
  PROVE  UNCHANGED <<row, responses, findings, rating>>
<1>1. CASE UNCHANGED projection
  BY <1>1 DEF projection
<1>2. CASE Project
  <2> DEFINE e == outbox[seen + 1]
  <2>1. seen \in Nat /\ Len(outbox) \in Nat /\ seen < Len(outbox)
    BY <1>2 DEF Project, ProjectStarted, ProjectAnswered, ProjectRaised,
                ProjectSubmitted, Projects, FinalInv, CompleteInv, Shape
  <2>2. PICK i \in 1..seen : outbox[i].kind = "Submitted"
    BY DEF FinalInv, CompleteInv, SubmittedWasSeen
  <2>3. e.kind = "Answered"
    <3>1. OnlyAnswersFollow
      BY Zenon DEF FinalInv
    <3> QED
      BY <2>1, <2>2, <3>1 DEF OnlyAnswersFollow
  <2>4. ProjectAnswered
    BY <1>2, <2>3 DEF Project, ProjectStarted, ProjectRaised, ProjectSubmitted, Projects
  <2>5. e.ref \in Checkpoint
    BY <2>1, <2>3 DEF FinalInv, CompleteInv, AnswersAreAnswers
  <2>6. responses[e.ref] # "none"
    BY <2>5, CompleteImplies DEF FinalInv, SubmittedIsComplete
  <2> QED
    BY <2>4, <2>6 DEF ProjectAnswered, ResponsesAfter
<1>3. Project \/ UNCHANGED projection
  BY DEF Next, Tick, Publish, Bootstrap, Start, AuthorStarted, AuthorAnswer,
         StoreAnswer, BeginSubmit, RaiseFinding, AuthorSubmitted, MarkSubmitted,
         Interrupt, vars, projection
<1> QED
  BY <1>1, <1>2, <1>3

\* A submitted inspection is immutable: what the console shows of it stays as it
\* is, although answers can still be recorded for it (inspection.ts:275-278).
THEOREM RecordIsFinalTheorem == Spec => RecordIsFinal
<1>1. Init => FinalInv
  BY FinalInit
<1>2. FinalInv /\ [Next]_vars => FinalInv'
  BY FinalNext
<1>3. FinalInv /\ [Next]_vars
        => [row = "submitted" /\ ~torn
              => UNCHANGED <<row, responses, findings, rating>>]_vars
  BY FinalStep
<1> QED
  BY <1>1, <1>2, <1>3, PTL DEF Spec, RecordIsFinal

-----------------------------------------------------------------------------
(* Nothing observed is lost.                                               *)

\* c has a finding among the first n events.
RaisedIn(c, n) ==
  \E i \in 1..n : i <= Len(outbox) /\ outbox[i].kind = "Raised" /\ outbox[i].ref = c

FindingRec ==
  [id : Nat, num : Nat, ref : Checkpoint, created : Nat, due : Int]

FindingsShape ==
  /\ findings \subseteq FindingRec
  /\ \A i \in 1..Len(outbox) :
       /\ outbox[i].kind = "Raised" =>
            outbox[i].ref \in Checkpoint /\ outbox[i].num \in Nat /\ outbox[i].day \in Nat
       /\ outbox[i].kind = "Submitted" => outbox[i].day \in Nat

\* What submit() still has to raise, and what it has raised when it is done.
RaisedSoFar ==
  doing.at = "raising" =>
    \A c \in Checkpoint :
      answers[c] = "no" => c \in doing.left \/ RaisedIn(c, Len(outbox))

SignedAreRaised ==
  \A i \in 1..Len(outbox) :
    outbox[i].kind = "Submitted" =>
      \A c \in Checkpoint : outbox[i].signed[c] = "no" => RaisedIn(c, i)

RaisedAreRows == \A c \in Checkpoint : RaisedIn(c, seen) => c \in FindingRefs

\* One of the submissions projected is the last.
OneIsLast ==
  row = "submitted" =>
    \E i \in 1..seen : /\ outbox[i].kind = "Submitted"
                      /\ \A k \in i + 1..seen : outbox[k].kind # "Submitted"

RaisedInv ==
  /\ CompleteInv /\ FindingsShape /\ RaisedSoFar
  /\ SignedAreRaised /\ RaisedAreRows /\ OneIsLast

LEMMA RaisedInit == ASSUME Init PROVE RaisedInv
<1>1. outbox = <<>> /\ findings = {} /\ seen = 0 /\ row = "none" /\ doing.at = "idle"
  BY DEF Init, Idle
<1>2. FindingsShape /\ SignedAreRaised
  BY <1>1 DEF FindingsShape, SignedAreRaised
<1>3. RaisedSoFar /\ RaisedAreRows /\ OneIsLast
  BY <1>1 DEF RaisedSoFar, RaisedAreRows, OneIsLast, RaisedIn
<1> QED
  BY <1>2, <1>3, CompleteInit DEF RaisedInv

\* What an authoring step keeps, if a finding is a finding and a submission has
\* all of its own before it.
LEMMA AuthoredRaised ==
  ASSUME RaisedInv, NEW e, outbox' = Append(outbox, e), UNCHANGED projection,
         e.kind = "Raised" => e.ref \in Checkpoint /\ e.num \in Nat /\ e.day \in Nat,
         e.kind = "Submitted" =>
           /\ e.day \in Nat
           /\ \A c \in Checkpoint : e.signed[c] = "no" => RaisedIn(c, Len(outbox))
  PROVE  /\ FindingsShape' /\ SignedAreRaised' /\ RaisedAreRows' /\ OneIsLast'
         /\ \A c : RaisedIn(c, Len(outbox)) => RaisedIn(c, Len(outbox))'
         /\ e.kind = "Raised" => RaisedIn(e.ref, Len(outbox))'
<1>1. /\ Len(outbox) \in Nat
      /\ Len(outbox') = Len(outbox) + 1
      /\ \A i \in 1..Len(outbox) : outbox'[i] = outbox[i]
      /\ outbox'[Len(outbox) + 1] = e
      /\ seen \in 0..Len(outbox)
  BY Authored DEF RaisedInv, CompleteInv, Shape
<1>2. \A c, n : RaisedIn(c, n) => RaisedIn(c, n)'
  BY <1>1 DEF RaisedIn
<1>3. \A c : \A n \in 0..Len(outbox) : RaisedIn(c, n)' => RaisedIn(c, n)
  BY <1>1 DEF RaisedIn
<1>4. \A c : RaisedIn(c, Len(outbox)) => RaisedIn(c, Len(outbox))'
  BY <1>1 DEF RaisedIn
<1>5. e.kind = "Raised" => RaisedIn(e.ref, Len(outbox))'
  BY <1>1 DEF RaisedIn
<1>6. FindingsShape'
  BY <1>1 DEF RaisedInv, FindingsShape, projection
<1>7. SignedAreRaised'
  <2> SUFFICES ASSUME NEW i \in 1..Len(outbox'), outbox'[i].kind = "Submitted",
                      NEW c \in Checkpoint, outbox'[i].signed[c] = "no"
               PROVE  RaisedIn(c, i)'
    BY DEF SignedAreRaised
  <2>1. CASE i <= Len(outbox)
    BY <1>1, <1>2, <2>1 DEF RaisedInv, SignedAreRaised
  <2>2. CASE i = Len(outbox) + 1
    <3>1. RaisedIn(c, Len(outbox))'
      BY <1>1, <1>4, <2>2
    <3> QED
      BY <1>1, <2>2, <3>1 DEF RaisedIn
  <2> QED
    BY <1>1, <2>1, <2>2
<1>8. RaisedAreRows'
  BY <1>1, <1>3 DEF RaisedInv, RaisedAreRows, FindingRefs, projection
<1>9. OneIsLast'
  BY <1>1 DEF RaisedInv, OneIsLast, projection
<1> QED
  BY <1>4, <1>5, <1>6, <1>7, <1>8, <1>9

\* Every other step of the phone, and those that do not touch it.
LEMMA QuietRaised ==
  ASSUME RaisedInv, UNCHANGED outbox, UNCHANGED projection
  PROVE  /\ FindingsShape' /\ SignedAreRaised' /\ RaisedAreRows' /\ OneIsLast'
         /\ \A c : RaisedIn(c, Len(outbox)) => RaisedIn(c, Len(outbox))'
<1>1. \A c, n : RaisedIn(c, n)' <=> RaisedIn(c, n)
  BY DEF RaisedIn
<1>2. \A c : RaisedIn(c, Len(outbox)) => RaisedIn(c, Len(outbox))'
  BY DEF RaisedIn
<1> QED
  BY <1>1, <1>2 DEF RaisedInv, FindingsShape, SignedAreRaised, RaisedAreRows,
                    OneIsLast, FindingRefs, projection

\* Steps that leave no call to submit() in progress, or do not touch it.
LEMMA OtherRaised ==
  ASSUME RaisedInv, CompleteInv', UNCHANGED outbox, UNCHANGED projection,
         doing'.at # "raising" \/ UNCHANGED <<doing, answers>>
  PROVE  RaisedInv'
<1>1. RaisedSoFar'
  <2>1. CASE doing'.at # "raising"
    BY <2>1 DEF RaisedSoFar
  <2>2. CASE UNCHANGED <<doing, answers>>
    BY <2>2, QuietRaised DEF RaisedInv, RaisedSoFar
  <2> QED
    BY <2>1, <2>2
<1> QED
  BY <1>1, QuietRaised DEF RaisedInv

LEMMA AuthorRaised ==
  ASSUME RaisedInv, CompleteInv',
         AuthorStarted \/ \E c \in Checkpoint, a \in Answers : AuthorAnswer(c, a)
  PROVE  RaisedInv'
<1>1. ASSUME NEW e, outbox' = Append(outbox, e), UNCHANGED projection,
             e.kind \in {"Started", "Answered"}, doing'.at # "raising"
      PROVE  RaisedInv'
  <2>1. RaisedSoFar'
    BY <1>1 DEF RaisedSoFar
  <2> QED
    BY <1>1, <2>1, AuthoredRaised DEF RaisedInv
<1>2. CASE AuthorStarted
  <2>1. /\ outbox' = Append(outbox, Event("Started")) /\ UNCHANGED projection
        /\ doing'.at = "idle"
    BY <1>2 DEF AuthorStarted, Idle
  <2>2. Event("Started").kind = "Started"
    BY DEF Event
  <2> QED
    BY <1>1, <2>1, <2>2
<1>3. ASSUME NEW c \in Checkpoint, NEW a \in Answers, AuthorAnswer(c, a)
      PROVE  RaisedInv'
  <2> DEFINE e == [Event("Answered") EXCEPT !.ref = c, !.answer = a]
  <2>1. e.kind = "Answered"
    BY DEF Event
  <2>2. outbox' = Append(outbox, e) /\ UNCHANGED projection /\ doing'.at = "answering"
    BY <1>3, AnsweringFacts DEF AuthorAnswer
  <2> HIDE DEF e
  <2> QED
    BY <1>1, <2>1, <2>2
<1> QED
  BY <1>2, <1>3

LEMMA BeginSubmitRaised ==
  ASSUME RaisedInv, CompleteInv', NEW n \in 0..day, BeginSubmit(n)
  PROVE  RaisedInv'
<1>1. /\ UNCHANGED <<outbox, answers>> /\ UNCHANGED projection
      /\ doing'.left = {c \in Checkpoint : answers[c] = "no"}
  BY DEF BeginSubmit, Idle, Adverse
<1>2. RaisedSoFar'
  BY <1>1 DEF RaisedSoFar
<1> QED
  BY <1>1, <1>2, QuietRaised DEF RaisedInv

LEMMA RaiseFindingRaised ==
  ASSUME RaisedInv, CompleteInv', NEW c \in Checkpoint, RaiseFinding(c)
  PROVE  RaisedInv'
<1> DEFINE e == [Event("Raised") EXCEPT !.ref = c, !.num = Number]
<1>1. doing \in DoingRec /\ LastDay \in Nat
  BY InspectionAssumption DEF RaisedInv, CompleteInv, Shape
<1>2. /\ outbox' = Append(outbox, e) /\ UNCHANGED projection /\ answers' = answers
      /\ doing.at = "raising" /\ doing' = [doing EXCEPT !.left = @ \ {c}, !.num = Number]
  BY DEF RaiseFinding
<1>3. doing'.left = doing.left \ {c}
  <2> DEFINE x == [doing EXCEPT !.left = @ \ {c}]
             y == [x EXCEPT !.num = Number]
  <2>1. x.left = doing.left \ {c} /\ x \in DoingRec
    BY <1>1 DEF DoingRec
  <2>2. doing' = y
    BY <1>2 DEF x, y
  <2> HIDE DEF x
  <2> QED
    BY <2>1, <2>2 DEF DoingRec
<1>4. e.kind = "Raised" /\ e.ref = c /\ e.num = Number /\ e.day = doing.day
  BY DEF Event
<1>5. Number \in Nat /\ doing.day \in Nat
  BY <1>1 DEF Number, DoingRec
<1> HIDE DEF e
<1>6. /\ FindingsShape' /\ SignedAreRaised' /\ RaisedAreRows' /\ OneIsLast'
      /\ \A b : RaisedIn(b, Len(outbox)) => RaisedIn(b, Len(outbox))'
      /\ RaisedIn(c, Len(outbox))'
  BY <1>2, <1>4, <1>5, AuthoredRaised
<1>7. RaisedSoFar'
  BY <1>2, <1>3, <1>6 DEF RaisedInv, RaisedSoFar
<1> QED
  BY <1>6, <1>7 DEF RaisedInv

LEMMA AuthorSubmittedRaised ==
  ASSUME RaisedInv, CompleteInv', AuthorSubmitted PROVE RaisedInv'
<1> DEFINE e == [Event("Submitted") EXCEPT !.score = PhoneScore, !.signed = answers]
<1>1. doing \in DoingRec /\ LastDay \in Nat
  BY InspectionAssumption DEF RaisedInv, CompleteInv, Shape
<1>2. /\ outbox' = Append(outbox, e) /\ UNCHANGED projection
      /\ doing.at = "raising" /\ doing.left = {} /\ doing'.at = "marking"
  BY DEF AuthorSubmitted, Idle
<1>3. e.kind = "Submitted" /\ e.signed = answers /\ e.day = doing.day
  BY DEF Event
<1>4. doing.day \in Nat
  BY <1>1 DEF DoingRec
<1> HIDE DEF e
<1>5. \A c \in Checkpoint : e.signed[c] = "no" => RaisedIn(c, Len(outbox))
  BY <1>2, <1>3 DEF RaisedInv, RaisedSoFar
<1>6. RaisedSoFar'
  BY <1>2 DEF RaisedSoFar
<1> QED
  BY <1>2, <1>3, <1>4, <1>5, <1>6, AuthoredRaised DEF RaisedInv

\* Dating a finding back changes its dates only.
LEMMA DatedFacts ==
  ASSUME NEW f \in FindingRec, NEW e, e.day \in Nat
  PROVE  Dated(f, e) \in FindingRec /\ Dated(f, e).ref = f.ref /\ Dated(f, e).id = f.id
<1>1. CASE f.created <= e.day
  BY <1>1 DEF Dated
<1>2. CASE ~(f.created <= e.day)
  <2> DEFINE x == [f EXCEPT !.created = e.day]
             y == [x EXCEPT !.due = e.day + (f.due - f.created)]
  <2>1. x \in FindingRec /\ x.ref = f.ref /\ x.id = f.id
    BY DEF FindingRec
  <2>2. Dated(f, e) = y
    BY <1>2 DEF Dated, x, y
  <2>3. e.day + (f.due - f.created) \in Int
    BY DEF FindingRec
  <2> HIDE DEF x
  <2>4. y \in FindingRec /\ y.ref = f.ref /\ y.id = f.id
    BY <2>1, <2>3 DEF FindingRec
  <2> QED
    BY <2>2, <2>4
<1> QED
  BY <1>1, <1>2

LEMMA ProjectRaisedInv == ASSUME RaisedInv, CompleteInv', Project PROVE RaisedInv'
<1> DEFINE e == outbox[seen + 1]
<1>1. /\ UNCHANGED <<day, outbox, answers, doing, visit>>
      /\ seen' = seen + 1 /\ seen \in Nat /\ Len(outbox) \in Nat /\ seen < Len(outbox)
      /\ day \in Nat
  BY InspectionAssumption
     DEF Project, ProjectStarted, ProjectAnswered, ProjectRaised, ProjectSubmitted,
         Projects, phone, RaisedInv, CompleteInv, Shape
<1>2. /\ \A c, n : RaisedIn(c, n)' <=> RaisedIn(c, n)
      /\ \A c : RaisedIn(c, Len(outbox)) => RaisedIn(c, Len(outbox))'
  BY <1>1 DEF RaisedIn
<1>3. RaisedSoFar' /\ SignedAreRaised'
  BY <1>1, <1>2 DEF RaisedInv, RaisedSoFar, SignedAreRaised
<1>4. \A c : RaisedIn(c, seen + 1)
        => RaisedIn(c, seen) \/ (e.kind = "Raised" /\ e.ref = c)
  BY <1>1 DEF RaisedIn
<1>5. CASE ProjectStarted \/ ProjectAnswered
  <2>1. /\ findings' = findings /\ e.kind \in {"Started", "Answered"}
        /\ row' = "submitted" => row = "submitted"
    BY <1>5 DEF ProjectStarted, ProjectAnswered, Projects
  <2>2. RaisedAreRows'
    BY <1>1, <1>2, <1>4, <2>1 DEF RaisedInv, RaisedAreRows, FindingRefs
  <2>3. OneIsLast'
    BY <1>1, <2>1 DEF RaisedInv, OneIsLast
  <2> QED
    BY <1>1, <1>3, <2>1, <2>2, <2>3 DEF RaisedInv, FindingsShape
<1>6. CASE ProjectRaised
  <2> DEFINE r == FindingRow(e, seen + 1)
  <2>1. /\ findings' = findings \cup {r} /\ e.kind = "Raised" /\ row' = row
    BY <1>6 DEF ProjectRaised, Projects
  <2>2. e.ref \in Checkpoint /\ e.num \in Nat /\ e.day \in Nat
    BY <1>1, <2>1 DEF RaisedInv, FindingsShape
  <2>3. Sla[Severity[e.ref]] \in Nat
    BY <2>2, InspectionAssumption
  <2>4. r \in FindingRec /\ r.ref = e.ref
    BY <1>1, <2>2, <2>3 DEF FindingRow, FindingRec
  <2> HIDE DEF r
  <2>5. RaisedAreRows'
    BY <1>1, <1>2, <1>4, <2>1, <2>4 DEF RaisedInv, RaisedAreRows, FindingRefs
  <2>6. OneIsLast'
    BY <1>1, <2>1 DEF RaisedInv, OneIsLast
  <2> QED
    BY <1>1, <1>3, <2>1, <2>4, <2>5, <2>6 DEF RaisedInv, FindingsShape
<1>7. CASE ProjectSubmitted
  <2>1. findings' = {Dated(f, e) : f \in findings} /\ e.kind = "Submitted"
    BY <1>7 DEF ProjectSubmitted, Projects
  <2>2. e.day \in Nat
    BY <1>1, <2>1 DEF RaisedInv, FindingsShape
  <2>3. \A f \in findings : Dated(f, e) \in FindingRec /\ Dated(f, e).ref = f.ref
    BY <2>2, DatedFacts DEF RaisedInv, FindingsShape
  <2> HIDE DEF e
  <2>4. findings' \subseteq FindingRec /\ FindingRefs \subseteq FindingRefs'
    BY <2>1, <2>3 DEF FindingRefs
  <2> USE DEF e
  <2>5. RaisedAreRows'
    BY <1>1, <1>2, <1>4, <2>1, <2>4 DEF RaisedInv, RaisedAreRows
  <2>6. OneIsLast'
    BY <1>1, <2>1 DEF OneIsLast
  <2> QED
    BY <1>1, <1>3, <2>4, <2>5, <2>6 DEF RaisedInv, FindingsShape
<1> QED
  BY <1>5, <1>6, <1>7 DEF Project

LEMMA RaisedNext == ASSUME RaisedInv, [Next]_vars PROVE RaisedInv'
<1>1. CompleteInv'
  BY CompleteNext DEF RaisedInv
<1>2. CASE Tick \/ Publish \/ Bootstrap \/ UNCHANGED vars
  BY <1>1, <1>2, OtherRaised DEF Tick, Publish, Bootstrap, vars, phone, projection
<1>3. CASE Start \/ StoreAnswer \/ MarkSubmitted \/ Interrupt
  <2>1. UNCHANGED outbox /\ UNCHANGED projection /\ doing'.at # "raising"
    BY <1>3 DEF Start, StoreAnswer, MarkSubmitted, Interrupt, Idle
  <2> QED
    BY <1>1, <2>1, OtherRaised
<1> QED
  BY <1>1, <1>2, <1>3, AuthorRaised, BeginSubmitRaised, RaiseFindingRaised,
     AuthorSubmittedRaised, ProjectRaisedInv
     DEF Next

\* The submission the console shows was authored after its findings, and they
\* are projected before it.
LEMMA RaisedImplies == ASSUME RaisedInv PROVE NothingObservedIsLost
<1> SUFFICES ASSUME row = "submitted", NEW c \in SignedAdverse PROVE c \in FindingRefs
  BY DEF NothingObservedIsLost
<1> DEFINE Last(j) == /\ outbox[j].kind = "Submitted"
                      /\ \A k \in j + 1..seen : outbox[k].kind # "Submitted"
           i == CHOOSE j \in 1..seen : Last(j)
<1>1. \E j \in 1..seen : Last(j)
  BY DEF RaisedInv, OneIsLast
<1>2. i \in 1..seen /\ Last(i)
  BY <1>1
<1>3. Signed = outbox[i]
  BY DEF Signed
<1> HIDE DEF i
<1>4. c \in Checkpoint /\ outbox[i].signed[c] = "no" /\ outbox[i].kind = "Submitted"
  BY <1>2, <1>3 DEF SignedAdverse
<1>5. seen \in Nat /\ seen <= Len(outbox) /\ Len(outbox) \in Nat
  BY DEF RaisedInv, CompleteInv, Shape
<1>6. RaisedIn(c, i)
  BY <1>2, <1>4, <1>5 DEF RaisedInv, SignedAreRaised
<1>7. RaisedIn(c, seen)
  BY <1>2, <1>5, <1>6 DEF RaisedIn
<1> QED
  BY <1>4, <1>7 DEF RaisedInv, RaisedAreRows

\* Every adverse answer that was signed has its finding on the console, whatever
\* was cut short and begun again (inspection.ts:268-272, "nothing is lost").
THEOREM NothingObservedIsLostTheorem == Spec => []NothingObservedIsLost
<1>1. Init => RaisedInv
  BY RaisedInit
<1>2. RaisedInv /\ [Next]_vars => RaisedInv'
  BY RaisedNext
<1>3. RaisedInv => NothingObservedIsLost
  BY RaisedImplies
<1> QED
  BY <1>1, <1>2, <1>3, PTL DEF Spec

-----------------------------------------------------------------------------
(* The findings of the console are the ones that were signed, once each.   *)

Submits(i) == outbox[i].kind = "Submitted"
Raises(i) == outbox[i].kind = "Raised"

\* Every row was raised by the event it is named after.
RowsAreRaised ==
  /\ \A f \in findings : f.id \in 1..seen /\ Raises(f.id) /\ outbox[f.id].ref = f.ref
  /\ \A f, g \in findings : f.id = g.id => f = g

\* Where no call was cut short, submit() is the only one that raises or submits,
\* and is called once.
NothingBefore ==
  visit # "submitted" /\ doing.at \notin {"raising", "marking"} =>
    \A i \in 1..Len(outbox) : ~Raises(i) /\ ~Submits(i)

\* What it has raised are adverse answers, and not those it has still to raise.
RaisedByNow ==
  doing.at = "raising" =>
    /\ \A c \in doing.left : answers[c] = "no"
    /\ \A i \in 1..Len(outbox) :
         ~Submits(i) /\ (Raises(i) => /\ outbox[i].ref \notin doing.left
                                      /\ answers[outbox[i].ref] = "no")

RaisedOnce ==
  \A i, j \in 1..Len(outbox) :
    Raises(i) /\ Raises(j) /\ outbox[i].ref = outbox[j].ref => i = j

RaisedAreSigned ==
  \A i, j \in 1..Len(outbox) :
    Submits(i) /\ Raises(j) => outbox[i].signed[outbox[j].ref] = "no"

Exact == NothingBefore /\ RaisedByNow /\ RaisedOnce /\ RaisedAreSigned

ExactInv == RaisedInv /\ RowsAreRaised /\ (torn \/ Exact)

LEMMA ExactInit == ASSUME Init PROVE ExactInv
<1>1. outbox = <<>> /\ findings = {} /\ doing.at = "idle"
  BY DEF Init, Idle
<1>2. NothingBefore /\ RaisedByNow /\ RaisedOnce /\ RaisedAreSigned /\ RowsAreRaised
  BY <1>1 DEF NothingBefore, RaisedByNow, RaisedOnce, RaisedAreSigned, RowsAreRaised
<1> QED
  BY <1>2, RaisedInit DEF ExactInv, Exact

\* The rows of the projection stay those of events that were raised.
LEMMA RowsNext == ASSUME RaisedInv, RowsAreRaised, [Next]_vars PROVE RowsAreRaised'
<1>1. seen \in 0..Len(outbox) /\ Len(outbox) \in Nat
  BY DEF RaisedInv, CompleteInv, Shape
<1>2. CASE UNCHANGED projection
  <2>1. \A i \in 1..seen : outbox'[i] = outbox[i]
    <3>1. CASE outbox' = outbox
      BY <3>1
    <3>2. ASSUME NEW e, outbox' = Append(outbox, e)
          PROVE  \A i \in 1..seen : outbox'[i] = outbox[i]
      BY <1>1, <3>2, Authored DEF RaisedInv, CompleteInv
    <3> QED
      BY <3>1, <3>2
         DEF Next, Tick, Publish, Bootstrap, Start, AuthorStarted, AuthorAnswer,
             StoreAnswer, BeginSubmit, RaiseFinding, AuthorSubmitted, MarkSubmitted,
             Interrupt, Project, vars, phone
  <2> QED
    BY <1>2, <2>1 DEF RowsAreRaised, Raises, projection
<1>3. CASE Project
  <2> DEFINE e == outbox[seen + 1]
  <2>1. outbox' = outbox /\ seen' = seen + 1
    BY <1>3 DEF Project, ProjectStarted, ProjectAnswered, ProjectRaised,
                ProjectSubmitted, phone
  <2>2. CASE ProjectStarted \/ ProjectAnswered
    <3>1. findings' = findings
      BY <2>2 DEF ProjectStarted, ProjectAnswered
    <3> QED
      BY <1>1, <2>1, <3>1 DEF RowsAreRaised, Raises
  <2>3. CASE ProjectRaised
    <3> DEFINE r == FindingRow(e, seen + 1)
    <3>1. /\ findings' = findings \cup {r} /\ e.kind = "Raised"
          /\ r.id = seen + 1 /\ r.ref = e.ref
      BY <2>3 DEF ProjectRaised, Projects, FindingRow
    <3> HIDE DEF r
    <3>2. ASSUME NEW f \in findings' PROVE f.id \in 1..seen' /\ Raises(f.id)' /\ outbox'[f.id].ref = f.ref
      BY <1>1, <2>1, <3>1 DEF RowsAreRaised, Raises
    <3>3. ASSUME NEW f \in findings', NEW g \in findings', f.id = g.id PROVE f = g
      BY <1>1, <3>1, <3>3 DEF RowsAreRaised
    <3> QED
      BY <3>2, <3>3 DEF RowsAreRaised
  <2>4. CASE ProjectSubmitted
    <3>1. findings' = {Dated(f, e) : f \in findings} /\ e.kind = "Submitted" /\ seen < Len(outbox)
      BY <2>4 DEF ProjectSubmitted, Projects
    <3>2. e.day \in Nat
      BY <1>1, <3>1 DEF RaisedInv, FindingsShape
    <3>3. \A f \in findings : Dated(f, e).ref = f.ref /\ Dated(f, e).id = f.id
      BY <3>2, DatedFacts DEF RaisedInv, FindingsShape
    <3> HIDE DEF e
    <3>4. ASSUME NEW f \in findings' PROVE f.id \in 1..seen' /\ Raises(f.id)' /\ outbox'[f.id].ref = f.ref
      BY <1>1, <2>1, <3>1, <3>3 DEF RowsAreRaised, Raises
    <3>5. ASSUME NEW f \in findings', NEW g \in findings', f.id = g.id PROVE f = g
      BY <3>1, <3>3, <3>5 DEF RowsAreRaised
    <3> QED
      BY <3>4, <3>5 DEF RowsAreRaised
  <2> QED
    BY <1>3, <2>2, <2>3, <2>4 DEF Project
<1>4. Project \/ UNCHANGED projection
  BY DEF Next, Tick, Publish, Bootstrap, Start, AuthorStarted, AuthorAnswer,
         StoreAnswer, BeginSubmit, RaiseFinding, AuthorSubmitted, MarkSubmitted,
         Interrupt, vars, projection
<1> QED
  BY <1>2, <1>3, <1>4

\* An event that neither raises nor submits, outside submit().
LEMMA OtherExact ==
  ASSUME Shape, Exact, NEW e, outbox' = Append(outbox, e),
         e.kind \notin {"Raised", "Submitted"}, visit' = visit,
         doing.at \notin {"raising", "marking"}, doing'.at # "raising"
  PROVE  Exact'
<1>1. /\ Len(outbox) \in Nat /\ Len(outbox') = Len(outbox) + 1
      /\ \A i \in 1..Len(outbox) : outbox'[i] = outbox[i]
      /\ outbox'[Len(outbox) + 1] = e
  BY Authored
<1>2. \A i \in 1..Len(outbox') :
        /\ Raises(i)' => i \in 1..Len(outbox) /\ Raises(i) /\ outbox'[i] = outbox[i]
        /\ Submits(i)' => i \in 1..Len(outbox) /\ Submits(i) /\ outbox'[i] = outbox[i]
  BY <1>1 DEF Raises, Submits
<1>3. NothingBefore'
  BY <1>2 DEF Exact, NothingBefore
<1>4. RaisedByNow'
  BY DEF RaisedByNow
<1>5. RaisedOnce' /\ RaisedAreSigned'
  BY <1>2 DEF Exact, RaisedOnce, RaisedAreSigned
<1> QED
  BY <1>3, <1>4, <1>5 DEF Exact

\* Steps that author nothing.
LEMMA QuietExact ==
  ASSUME Exact, UNCHANGED outbox,
         \/ UNCHANGED <<doing, answers, visit>>
         \/ doing'.at # "raising"
              /\ (doing.at \in {"raising", "marking"} => visit' = "submitted")
              /\ (visit = "submitted" => visit' = "submitted")
  PROVE  Exact'
<1>1. \A i : (Raises(i)' <=> Raises(i)) /\ (Submits(i)' <=> Submits(i))
  BY DEF Raises, Submits
<1>2. RaisedOnce' /\ RaisedAreSigned'
  BY <1>1 DEF Exact, RaisedOnce, RaisedAreSigned
<1>3. NothingBefore' /\ RaisedByNow'
  BY <1>1 DEF Exact, NothingBefore, RaisedByNow
<1> QED
  BY <1>2, <1>3 DEF Exact

LEMMA BeginSubmitExact ==
  ASSUME Exact, NEW n \in 0..day, BeginSubmit(n) PROVE Exact'
<1>1. /\ UNCHANGED <<outbox, answers>> /\ visit = "in_progress" /\ doing.at = "idle"
      /\ doing'.at = "raising"
      /\ doing'.left = {c \in Checkpoint : answers[c] = "no"}
  BY DEF BeginSubmit, Idle, Adverse
<1>2. \A i \in 1..Len(outbox') : ~Raises(i)' /\ ~Submits(i)'
  BY <1>1 DEF Exact, NothingBefore, Raises, Submits
<1>3. NothingBefore' /\ RaisedByNow' /\ RaisedOnce' /\ RaisedAreSigned'
  BY <1>1, <1>2 DEF NothingBefore, RaisedByNow, RaisedOnce, RaisedAreSigned
<1> QED
  BY <1>3 DEF Exact

\* The finding raised is of an adverse answer that had none.
LEMMA RaiseFindingExact ==
  ASSUME Shape, Exact, NEW c \in Checkpoint, RaiseFinding(c) PROVE Exact'
<1> DEFINE e == [Event("Raised") EXCEPT !.ref = c, !.num = Number]
<1>1. doing \in DoingRec
  BY DEF Shape
<1>2. /\ outbox' = Append(outbox, e) /\ answers' = answers
      /\ doing.at = "raising" /\ doing' = [doing EXCEPT !.left = @ \ {c}, !.num = Number]
      /\ c \in doing.left
  BY DEF RaiseFinding, IsNext
<1>3. doing'.left = doing.left \ {c} /\ doing'.at = "raising"
  <2> DEFINE x == [doing EXCEPT !.left = @ \ {c}]
             y == [x EXCEPT !.num = Number]
  <2>1. x.left = doing.left \ {c} /\ x \in DoingRec /\ x.at = "raising"
    BY <1>1, <1>2 DEF DoingRec
  <2>2. doing' = y
    BY <1>2 DEF x, y
  <2> HIDE DEF x
  <2> QED
    BY <2>1, <2>2 DEF DoingRec
<1>4. e.kind = "Raised" /\ e.ref = c
  BY DEF Event
<1> HIDE DEF e
<1>5. /\ Len(outbox) \in Nat /\ Len(outbox') = Len(outbox) + 1
      /\ \A i \in 1..Len(outbox) : outbox'[i] = outbox[i]
      /\ outbox'[Len(outbox) + 1] = e
  BY <1>2, Authored
<1>6. \A i \in 1..Len(outbox') :
        /\ ~Submits(i)'
        /\ Raises(i)' => \/ i = Len(outbox) + 1 /\ outbox'[i].ref = c
                         \/ /\ i \in 1..Len(outbox) /\ Raises(i) /\ outbox'[i] = outbox[i]
                            /\ outbox[i].ref \notin doing.left
                            /\ answers[outbox[i].ref] = "no"
  BY <1>2, <1>4, <1>5 DEF Exact, RaisedByNow, Raises, Submits
<1>7. NothingBefore'
  BY <1>3 DEF NothingBefore
<1>8. RaisedByNow'
  BY <1>2, <1>3, <1>6 DEF Exact, RaisedByNow
<1>9. RaisedOnce'
  BY <1>2, <1>6 DEF Exact, RaisedOnce
<1>10. RaisedAreSigned'
  BY <1>6 DEF RaisedAreSigned
<1> QED
  BY <1>7, <1>8, <1>9, <1>10 DEF Exact

\* What is signed is what the findings were raised from.
LEMMA AuthorSubmittedExact ==
  ASSUME Shape, Exact, AuthorSubmitted PROVE Exact'
<1> DEFINE e == [Event("Submitted") EXCEPT !.score = PhoneScore, !.signed = answers]
<1>1. /\ outbox' = Append(outbox, e) /\ doing.at = "raising" /\ doing'.at = "marking"
  BY DEF AuthorSubmitted, Idle
<1>2. e.kind = "Submitted" /\ e.signed = answers
  BY DEF Event
<1> HIDE DEF e
<1>3. /\ Len(outbox) \in Nat /\ Len(outbox') = Len(outbox) + 1
      /\ \A i \in 1..Len(outbox) : outbox'[i] = outbox[i]
      /\ outbox'[Len(outbox) + 1] = e
  BY <1>1, Authored
<1>4. \A i \in 1..Len(outbox') :
        /\ Submits(i)' => outbox'[i] = e
        /\ Raises(i)' => /\ i \in 1..Len(outbox) /\ Raises(i) /\ outbox'[i] = outbox[i]
                         /\ answers[outbox[i].ref] = "no"
  BY <1>1, <1>2, <1>3 DEF Exact, RaisedByNow, Raises, Submits
<1>5. NothingBefore' /\ RaisedByNow'
  BY <1>1 DEF NothingBefore, RaisedByNow
<1>6. RaisedOnce'
  BY <1>4 DEF Exact, RaisedOnce
<1>7. RaisedAreSigned'
  BY <1>2, <1>4 DEF RaisedAreSigned
<1> QED
  BY <1>5, <1>6, <1>7 DEF Exact

LEMMA ExactNext ==
  ASSUME Shape, Exact, [Next]_vars, ~(Interrupt /\ doing.at # "answering")
  PROVE  Exact'
<1>1. CASE UNCHANGED <<outbox, doing, answers, visit>>
  BY <1>1, QuietExact
<1>2. CASE Start \/ StoreAnswer \/ MarkSubmitted \/ (Interrupt /\ doing.at = "answering")
  <2>1. /\ UNCHANGED outbox /\ doing'.at # "raising"
        /\ doing.at \in {"raising", "marking"} => visit' = "submitted"
        /\ visit = "submitted" => visit' = "submitted"
    BY <1>2 DEF Start, StoreAnswer, MarkSubmitted, Interrupt, Idle
  <2> QED
    BY <2>1, QuietExact
<1>3. CASE AuthorStarted
  <2>1. /\ outbox' = Append(outbox, Event("Started")) /\ visit' = visit
        /\ doing.at = "starting" /\ doing'.at = "idle" /\ Event("Started").kind = "Started"
    BY <1>3 DEF AuthorStarted, Idle, Event
  <2> QED
    BY <2>1, OtherExact
<1>4. ASSUME NEW c \in Checkpoint, NEW a \in Answers, AuthorAnswer(c, a)
      PROVE  Exact'
  <2> DEFINE e == [Event("Answered") EXCEPT !.ref = c, !.answer = a]
  <2>1. /\ outbox' = Append(outbox, e) /\ visit' = visit
        /\ doing.at = "idle" /\ doing'.at = "answering"
    BY <1>4, AnsweringFacts DEF AuthorAnswer
  <2>2. e.kind = "Answered"
    BY DEF Event
  <2> HIDE DEF e
  <2> QED
    BY <2>1, <2>2, OtherExact
<1> QED
  BY <1>1, <1>2, <1>3, <1>4, BeginSubmitExact, RaiseFindingExact, AuthorSubmittedExact
     DEF Next, Tick, Publish, Bootstrap, Project, vars, phone

LEMMA ExactInvNext == ASSUME ExactInv, [Next]_vars PROVE ExactInv'
<1>1. RaisedInv' /\ RowsAreRaised'
  BY RaisedNext, RowsNext DEF ExactInv
<1>2. CASE torn
  BY <1>1, <1>2, TornStays DEF ExactInv
<1>3. CASE Interrupt /\ doing.at # "answering"
  <2>1. torn'
    BY <1>3, Zenon DEF Interrupt
  <2> QED
    BY <1>1, <2>1 DEF ExactInv
<1>4. CASE Exact /\ ~(Interrupt /\ doing.at # "answering")
  <2>1. Shape
    BY DEF ExactInv, RaisedInv, CompleteInv
  <2>2. Exact'
    BY <1>4, <2>1, ExactNext
  <2> QED
    BY <1>1, <2>2 DEF ExactInv
<1> QED
  BY <1>2, <1>3, <1>4 DEF ExactInv

\* A finding is a row of its own for the checkpoint it is about.
LEMMA ExactImplies == ASSUME ExactInv PROVE FindingsAreThoseSigned
<1> SUFFICES ASSUME row = "submitted", ~torn
             PROVE  /\ FindingRefs = SignedAdverse
                    /\ Cardinality(findings) = Cardinality(SignedAdverse)
  BY Zenon DEF FindingsAreThoseSigned
<1>1. RowsAreRaised /\ RaisedOnce /\ RaisedAreSigned /\ RaisedInv
  BY Zenon DEF ExactInv, Exact
<1>2. seen \in 0..Len(outbox) /\ Len(outbox) \in Nat /\ findings \subseteq FindingRec
  BY <1>1 DEF RaisedInv, CompleteInv, Shape, FindingsShape
<1>3. \A f, g \in findings : f.ref = g.ref => f = g
  BY <1>1, <1>2 DEF RowsAreRaised, RaisedOnce
<1>4. SignedAdverse \subseteq FindingRefs
  BY <1>1, RaisedImplies DEF NothingObservedIsLost
<1>5. FindingRefs \subseteq SignedAdverse
  <2> DEFINE Last(j) == /\ outbox[j].kind = "Submitted"
                        /\ \A k \in j + 1..seen : outbox[k].kind # "Submitted"
             i == CHOOSE j \in 1..seen : Last(j)
  <2>1. \E j \in 1..seen : Last(j)
    BY <1>1 DEF RaisedInv, OneIsLast
  <2>2. i \in 1..seen /\ Submits(i)
    BY <2>1 DEF Submits
  <2>3. Signed = outbox[i]
    BY DEF Signed
  <2> HIDE DEF i
  <2>4. ASSUME NEW f \in findings PROVE f.ref \in Checkpoint /\ outbox[i].signed[f.ref] = "no"
    BY <1>1, <1>2, <2>2 DEF RowsAreRaised, RaisedAreSigned, FindingRec
  <2> QED
    BY <2>3, <2>4 DEF FindingRefs, SignedAdverse
<1>6. IsFiniteSet(SignedAdverse)
  <2>1. IsFiniteSet(Checkpoint)
    BY InspectionAssumption, FS_Interval DEF Checkpoint
  <2>2. SignedAdverse \in SUBSET Checkpoint
    BY DEF SignedAdverse
  <2> QED
    BY <2>1, <2>2, FS_Subset
<1>7. Cardinality(findings) = Cardinality(SignedAdverse)
  <2> DEFINE h == [f \in findings |-> f.ref]
  <2>1. h \in [findings -> SignedAdverse]
    BY <1>5 DEF FindingRefs
  <2>2. h \in Injection(findings, SignedAdverse)
    BY <1>3, <2>1 DEF Injection, IsInjective
  <2>3. h \in Surjection(findings, SignedAdverse)
    BY <1>4, <2>1 DEF Surjection, FindingRefs
  <2> HIDE DEF h
  <2> QED
    BY <1>6, <2>2, <2>3, FS_Injection
<1> QED
  BY <1>4, <1>5, <1>7

\* Where no call was cut short, the findings of a submitted inspection are the
\* adverse answers that were signed, once each: an answer corrected before the
\* submission leaves none (inspection.ts:235-242).
THEOREM FindingsAreThoseSignedTheorem == Spec => []FindingsAreThoseSigned
<1>1. Init => ExactInv
  BY ExactInit
<1>2. ExactInv /\ [Next]_vars => ExactInv'
  BY ExactInvNext
<1>3. ExactInv => FindingsAreThoseSigned
  BY ExactImplies
<1> QED
  BY <1>1, <1>2, <1>3, PTL DEF Spec

-----------------------------------------------------------------------------
(* The screens.                                                            *)

\* Every step of a screen is a call of the inspection, a statement of one, or
\* nothing to it.
LEMMA VisitStep == ASSUME [VisitNext]_visitVars PROVE [Next]_vars
<1>1. ASSUME NEW d \in sheet.inspector, BeginSubmit(d) PROVE Next
  BY <1>1 DEF BeginSubmit, Next
<1> QED
  BY <1>1 DEF VisitNext, visitVars, StartVisit, Started, OpenVisit, Choose, Committed,
         OpenSignOff, SignInspector, NameRep, SignRep, Submit, Submitting,
         Submitted, Back, Killed, Elsewhere, Goes, Next

\* What FieldInspectionProofs shows of every inspection holds of those conducted
\* on these screens (index.tsx, inspection/[id].tsx, signoff/[id].tsx).
THEOREM VisitIsInspection == VisitSpec => Spec
<1>1. VisitInit => Init
  BY DEF VisitInit
<1>2. [VisitNext]_visitVars => [Next]_vars
  BY VisitStep
<1> QED
  BY <1>1, <1>2, PTL DEF VisitSpec, Spec

-----------------------------------------------------------------------------
(* What the sign-off shows, while it is in front.                          *)

SheetShape ==
  \E S : sheet \in [score : S, adverse : SUBSET Checkpoint, complete : BOOLEAN,
                    inspector : SUBSET (0..LastDay), named : BOOLEAN,
                    rep : {"unsigned", "signed"}]

\* Nothing is answered while it is, and what is being submitted is what it shows.
SheetIsTrue ==
  /\ doing.at = "answering" => screen # "signoff"
  /\ screen = "signoff" /\ doing.at \in {"idle", "raising"} =>
       sheet.score = PhoneScore /\ sheet.adverse = Adverse
  /\ doing.at = "raising" =>
       /\ screen = "signoff"
       /\ sheet.inspector = {doing.day} /\ sheet.rep = "signed"

OneDay == \A d, e \in sheet.inspector : d = e

SheetInv == CompleteInv /\ SheetShape /\ OneDay /\ SheetIsTrue

LEMMA SheetInit == ASSUME VisitInit PROVE SheetInv
<1>1. Init /\ screen = "visits" /\ sheet = NoSheet
  BY DEF VisitInit
<1>2. CompleteInv
  BY <1>1, CompleteInit
<1>3. doing.at = "idle"
  BY <1>1, IdleFacts DEF Init
<1>4. SheetShape /\ OneDay
  BY <1>1 DEF NoSheet, SheetShape, OneDay
<1> QED
  BY <1>1, <1>2, <1>3, <1>4 DEF SheetInv, SheetIsTrue

\* The score and the findings shown depend on the answers alone.
LEMMA ShownStays ==
  ASSUME UNCHANGED answers PROVE PhoneScore' = PhoneScore /\ Adverse' = Adverse
BY DEF PhoneScore, Adverse

LEMMA LoadedFacts ==
  /\ Loaded.score = PhoneScore /\ Loaded.adverse = Adverse /\ Loaded.inspector = {}
  /\ \E S : Loaded \in [score : S, adverse : SUBSET Checkpoint, complete : BOOLEAN,
                        inspector : SUBSET (0..LastDay), named : BOOLEAN,
                        rep : {"unsigned", "signed"}]
<1>1. Adverse \in SUBSET Checkpoint
  BY DEF Adverse
<1>2. Loaded \in [score : {PhoneScore}, adverse : SUBSET Checkpoint, complete : BOOLEAN,
                  inspector : SUBSET (0..LastDay), named : BOOLEAN,
                  rep : {"unsigned", "signed"}]
  BY <1>1 DEF Loaded
<1> QED
  BY <1>2 DEF Loaded

\* A signature, a name: nothing of what is shown changes.
LEMMA SheetSigned ==
  ASSUME SheetInv, SignInspector \/ NameRep \/ SignRep
  PROVE  SheetShape' /\ OneDay' /\ sheet'.score = sheet.score /\ sheet'.adverse = sheet.adverse
<1>1. PICK S : sheet \in [score : S, adverse : SUBSET Checkpoint, complete : BOOLEAN,
                         inspector : SUBSET (0..LastDay), named : BOOLEAN,
                         rep : {"unsigned", "signed"}]
  BY DEF SheetInv, SheetShape
<1>2. CASE SignInspector
  <2>1. day \in 0..LastDay
    BY DEF SheetInv, CompleteInv, Shape
  <2>2. sheet' = [sheet EXCEPT !.inspector = {day}]
    BY <1>2 DEF SignInspector
  <2>3. sheet'.inspector = {day}
    BY <1>1, <2>2
  <2> QED
    BY <1>1, <2>1, <2>2, <2>3 DEF SheetShape, OneDay
<1>3. CASE NameRep
  <2> DEFINE x == [sheet EXCEPT !.named = TRUE]
  <2>1. /\ x \in [score : S, adverse : SUBSET Checkpoint, complete : BOOLEAN,
                  inspector : SUBSET (0..LastDay), named : BOOLEAN,
                  rep : {"unsigned", "signed"}]
        /\ x.score = sheet.score /\ x.adverse = sheet.adverse
        /\ x.inspector = sheet.inspector
    BY <1>1
  <2>2. sheet' = [x EXCEPT !.rep = "unsigned"]
    BY <1>3 DEF NameRep
  <2> HIDE DEF x
  <2>3. sheet'.inspector = sheet.inspector
    BY <2>1, <2>2
  <2> QED
    BY <2>1, <2>2, <2>3 DEF SheetShape, OneDay, SheetInv
<1>4. CASE SignRep
  <2>1. sheet' = [sheet EXCEPT !.rep = "signed"]
    BY <1>4 DEF SignRep
  <2>2. sheet'.inspector = sheet.inspector
    BY <1>1, <2>1
  <2> QED
    BY <1>1, <2>1, <2>2 DEF SheetShape, OneDay, SheetInv
<1> QED
  BY <1>2, <1>3, <1>4

\* The submission begins with the day the inspector signed on.
LEMMA SubmitFacts ==
  ASSUME SheetInv, Submit
  PROVE  /\ doing'.at = "raising" /\ sheet.inspector = {doing'.day}
         /\ sheet.rep = "signed" /\ screen = "signoff" /\ doing.at = "idle"
         /\ UNCHANGED answers
<1>1. PICK d \in sheet.inspector : BeginSubmit(d)
  BY DEF Submit
<1>2. sheet.rep \in {"unsigned", "signed"}
  BY DEF SheetInv, SheetShape
<1>3. sheet.rep = "signed" /\ screen = "signoff" /\ doing.at = "idle"
  BY <1>2 DEF Submit, Ready, At
<1>4. sheet.inspector = {d}
  BY <1>1 DEF SheetInv, OneDay
<1>5. UNCHANGED answers
  BY <1>1 DEF BeginSubmit
<1>6. doing' = [Idle EXCEPT !.at = "raising", !.left = Adverse, !.day = d]
  BY <1>1 DEF BeginSubmit
<1>7. doing'.at = "raising" /\ doing'.day = d
  BY <1>6 DEF Idle
<1> QED
  BY <1>3, <1>4, <1>5, <1>7

LEMMA SheetNext == ASSUME SheetInv, [VisitNext]_visitVars PROVE SheetInv'
<1>1. CompleteInv'
  BY CompleteNext, VisitStep DEF SheetInv
<1>2. CASE sheet' = NoSheet /\ screen' # "signoff" /\ doing'.at \notin {"raising"}
  <2>1. SheetShape' /\ OneDay'
    BY <1>2 DEF NoSheet, SheetShape, OneDay
  <2> QED
    BY <1>1, <1>2, <2>1 DEF SheetInv, SheetIsTrue
<1>3. CASE /\ UNCHANGED sheet /\ screen' # "signoff" /\ doing'.at # "raising"
  BY <1>1, <1>3 DEF SheetInv, SheetShape, OneDay, SheetIsTrue
<1>4. CASE UNCHANGED <<sheet, screen, doing, answers>>
  BY <1>1, <1>4, ShownStays DEF SheetInv, SheetShape, OneDay, SheetIsTrue
<1>5. CASE Back \/ Killed \/ Submitted
  <2>1. sheet' = NoSheet /\ screen' # "signoff"
    BY <1>5 DEF Back, Killed, Submitted, Goes
  <2>2. doing'.at = "idle"
    BY <1>5, IdleFacts DEF Back, Killed, Submitted, Goes, vars, Interrupt, MarkSubmitted
  <2> QED
    BY <1>2, <2>1, <2>2
<1>6. CASE StartVisit \/ Started \/ OpenVisit \/ Committed
  <2>1. screen' # "signoff" /\ UNCHANGED sheet
    BY <1>6 DEF StartVisit, Started, OpenVisit, Committed, At, Goes, screens,
                StoreAnswer, SheetInv, SheetIsTrue
  <2>2. doing'.at # "raising"
    BY <1>6, IdleFacts DEF StartVisit, Started, OpenVisit, Committed, At, Goes, vars,
                Start, AuthorStarted, StoreAnswer, Stages
  <2> QED
    BY <1>3, <2>1, <2>2
<1>7. ASSUME NEW c \in Checkpoint, NEW a \in Answers, Choose(c, a) PROVE SheetInv'
  <2>1. screen' # "signoff" /\ UNCHANGED sheet
    BY <1>7 DEF Choose, At, screens
  <2>2. doing'.at = "answering"
    BY <1>7, AnsweringFacts DEF Choose, AuthorAnswer
  <2> QED
    BY <1>3, <2>1, <2>2
<1>8. CASE OpenSignOff
  <2>1. sheet' = Loaded /\ UNCHANGED <<answers, doing>> /\ doing.at = "idle"
    BY <1>8 DEF OpenSignOff, At, Goes, vars
  <2>2. SheetShape' /\ OneDay' /\ sheet'.score = PhoneScore /\ sheet'.adverse = Adverse
    BY <2>1, LoadedFacts DEF SheetShape, OneDay
  <2> QED
    BY <1>1, <2>1, <2>2, ShownStays DEF SheetInv, SheetIsTrue
<1>9. CASE SignInspector \/ NameRep \/ SignRep
  <2>1. doing.at = "idle" /\ screen = "signoff" /\ UNCHANGED <<answers, doing>>
    BY <1>9 DEF SignInspector, NameRep, SignRep, At, vars
  <2> QED
    BY <1>1, <1>9, <2>1, SheetSigned, ShownStays DEF SheetInv, SheetIsTrue
<1>10. CASE Submit
  <2>1. UNCHANGED <<sheet, screen>>
    BY <1>10 DEF Submit, screens
  <2> QED
    BY <1>1, <1>10, <2>1, SubmitFacts, ShownStays
       DEF SheetInv, SheetShape, OneDay, SheetIsTrue
<1>11. ASSUME NEW c \in Checkpoint, RaiseFinding(c), UNCHANGED screens PROVE SheetInv'
  <2>1. /\ UNCHANGED <<answers, sheet, screen>>
        /\ doing.at = "raising" /\ doing'.at = doing.at /\ doing'.day = doing.day
    <3>1. doing \in DoingRec
      BY DEF SheetInv, CompleteInv, Shape
    <3> QED
      BY <1>11, <3>1 DEF RaiseFinding, screens, DoingRec
  <2> QED
    BY <1>1, <2>1, ShownStays DEF SheetInv, SheetShape, OneDay, SheetIsTrue
<1>12. CASE AuthorSubmitted /\ UNCHANGED screens
  <2>1. UNCHANGED <<answers, sheet, screen>> /\ doing'.at = "marking"
    BY <1>12, IdleFacts DEF AuthorSubmitted, screens, Stages
  <2> QED
    BY <1>1, <2>1 DEF SheetInv, SheetShape, OneDay, SheetIsTrue
<1>13. CASE Elsewhere \/ UNCHANGED visitVars
  <2>1. UNCHANGED <<sheet, screen, doing, answers>>
    BY <1>13 DEF Elsewhere, visitVars, vars, screens, Tick, Publish, Bootstrap, Project, phone
  <2> QED
    BY <1>4, <2>1
<1> QED
  BY <1>5, <1>6, <1>7, <1>8, <1>9, <1>10, <1>11, <1>12, <1>13
     DEF VisitNext, Submitting

\* Of all the statements only one authors a submission.
LEMMA SigningIsSubmission ==
  ASSUME SheetInv, [VisitNext]_visitVars, Signing PROVE AuthorSubmitted
<1>1. [Next]_vars
  BY VisitStep
<1>2. Len(outbox') > Len(outbox)
  BY DEF Signing
<1>3. PICK S : outbox \in Seq(S)
  BY DEF SheetInv, CompleteInv, Shape
<1>4. ~ UNCHANGED outbox
  BY <1>2, <1>3
<1>5. ASSUME NEW e, e.kind # "Submitted" PROVE outbox' # Append(outbox, e)
  BY <1>5, <1>3, AppendFacts DEF Signing
<1>6. ~ AuthorStarted
  <2>1. Event("Started").kind = "Started"
    BY DEF Event
  <2> QED
    BY <1>5, <2>1 DEF AuthorStarted
<1>7. ASSUME NEW c \in Checkpoint, NEW a \in Answers PROVE ~ AuthorAnswer(c, a)
  <2> DEFINE e == [Event("Answered") EXCEPT !.ref = c, !.answer = a]
  <2>1. e.kind = "Answered"
    BY DEF Event
  <2> HIDE DEF e
  <2>2. outbox' # Append(outbox, e)
    BY <1>5, <2>1
  <2> QED
    BY <2>2 DEF AuthorAnswer, e
<1>8. ASSUME NEW c \in Checkpoint PROVE ~ RaiseFinding(c)
  <2> DEFINE e == [Event("Raised") EXCEPT !.ref = c, !.num = Number]
  <2>1. e.kind = "Raised"
    BY DEF Event
  <2> HIDE DEF e
  <2>2. outbox' # Append(outbox, e)
    BY <1>5, <2>1
  <2> QED
    BY <2>2 DEF RaiseFinding, e
<1> QED
  BY <1>1, <1>4, <1>6, <1>7, <1>8
     DEF Next, Tick, Publish, Bootstrap, Start, StoreAnswer, BeginSubmit, MarkSubmitted,
         Interrupt, Project, vars, phone

\* The record holds the rating and the findings both people were shown, under the
\* signatures they gave (signoff/[id].tsx:12-15, 41-50, 182-195).
THEOREM SignedAsShownTheorem == VisitSpec => SignedAsShown
<1>1. VisitInit => SheetInv
  BY SheetInit
<1>2. SheetInv /\ [VisitNext]_visitVars => SheetInv'
  BY SheetNext
<1>3. ASSUME SheetInv, [VisitNext]_visitVars, Signing
      PROVE  LET e == outbox'[Len(outbox')]
             IN  /\ e.score = sheet.score /\ sheet.inspector = {e.day}
                 /\ {c \in Checkpoint : e.signed[c] = "no"} = sheet.adverse
                 /\ sheet.rep = "signed"
  <2> DEFINE e == [Event("Submitted") EXCEPT !.score = PhoneScore, !.signed = answers]
  <2>1. AuthorSubmitted
    BY <1>3, SigningIsSubmission
  <2>2. e.score = PhoneScore /\ e.signed = answers /\ e.day = doing.day
    BY DEF Event
  <2>3. outbox' = Append(outbox, e) /\ doing.at = "raising"
    BY <2>1 DEF AuthorSubmitted
  <2>4. PICK S : outbox \in Seq(S)
    BY <1>3 DEF SheetInv, CompleteInv, Shape
  <2> HIDE DEF e
  <2>5. outbox'[Len(outbox')] = e
    BY <2>3, <2>4, AppendFacts
  <2>6. sheet.score = PhoneScore /\ sheet.adverse = Adverse
        /\ sheet.inspector = {doing.day} /\ sheet.rep = "signed"
    BY <1>3, <2>3 DEF SheetInv, SheetIsTrue
  <2> QED
    BY <2>2, <2>5, <2>6 DEF Adverse
<1>4. SheetInv /\ [VisitNext]_visitVars
        => [Signing => LET e == outbox'[Len(outbox')]
                       IN  /\ e.score = sheet.score /\ sheet.inspector = {e.day}
                           /\ {c \in Checkpoint : e.signed[c] = "no"} = sheet.adverse
                           /\ sheet.rep = "signed"]_visitVars
  BY <1>3
<1> QED
  BY <1>1, <1>2, <1>4, PTL DEF VisitSpec, SignedAsShown
=============================================================================
