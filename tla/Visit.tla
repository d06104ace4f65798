-------------------------------- MODULE Visit --------------------------------
(***************************************************************************)
(* The screens an inspection is conducted on: the day's list (index.tsx),  *)
(* the checklist (inspection/[id].tsx) and the sign-off (signoff/[id].tsx) *)
(* over the calls of FieldInspection.  A call runs to its end before the   *)
(* next tap is handled, because the signer is synchronous; only the end of *)
(* the app comes between its statements.                                   *)
(***************************************************************************)
EXTENDS FieldInspection

VARIABLES
  screen,   \* the screen in front
  sheet     \* the state of the sign-off screen

screens == <<screen, sheet>>
visitVars == <<vars, screens>>

\* What the sign-off shows since it was opened, and who has signed it.
NoSheet == [score |-> NoScore, adverse |-> {}, complete |-> FALSE,
            inspector |-> {}, named |-> FALSE, rep |-> "unsigned"]

VisitInit ==
  /\ Init
  /\ screen = "visits" /\ sheet = NoSheet

At(s) == screen = s /\ doing.at = "idle"
Goes(s) == screen' = s /\ UNCHANGED vars

-----------------------------------------------------------------------------
(* The day's list: open() starts a visit or goes on with one; one that is   *)
(* submitted does not open.                                                 *)
StartVisit ==
  /\ At("visits") /\ Start
  /\ UNCHANGED screens

Started ==
  /\ AuthorStarted
  /\ screen' = "checklist"
  /\ UNCHANGED sheet

OpenVisit ==
  /\ At("visits") /\ visit = "in_progress" /\ VersionHeld
  /\ Goes("checklist")
  /\ UNCHANGED sheet

-----------------------------------------------------------------------------
(* The checklist.  Yes and N/A commit on the tap; No commits when its remark *)
(* is written and saved, and until then is a draft on the screen, which the *)
(* next commit or going back drops.                                         *)
Offered(c) == {"yes", "no"} \cup {a \in {"na"} : c \in AllowsNa}

Choose(c, a) ==
  /\ At("checklist") /\ a \in Offered(c)
  /\ AuthorAnswer(c, a)
  /\ UNCHANGED screens

\* The drafts are made again from what is stored.
Committed == StoreAnswer /\ UNCHANGED screens

-----------------------------------------------------------------------------
(* The sign-off.  load() runs when it opens, and never again.               *)
Loaded == [score |-> PhoneScore, adverse |-> Adverse,
           complete |-> (\A c \in Checkpoint : answers[c] # "none"),
           inspector |-> {}, named |-> FALSE, rep |-> "unsigned"]

\* Where submit() would refuse, or its bound has been reached, the screen opens
\* too, but nothing comes of it.
OpenSignOff ==
  /\ At("checklist") /\ visit = "in_progress" /\ VersionHeld
  /\ Len(outbox) <= MaxEvents
  /\ Goes("signoff")
  /\ sheet' = Loaded

\* Signatures on a sheet that was not complete come to nothing: it is not loaded
\* again before it is left.
SignInspector ==
  /\ At("signoff") /\ sheet.complete
  /\ sheet' = [sheet EXCEPT !.inspector = {day}]
  /\ UNCHANGED vars /\ UNCHANGED screen

\* Mutant: the signature stays when another name is typed.
NameRep_Keeps ==
  /\ At("signoff") /\ sheet.complete
  /\ sheet' = [sheet EXCEPT !.named = TRUE,
                            !.rep = IF @ = "signed" THEN "another signed" ELSE @]
  /\ UNCHANGED vars /\ UNCHANGED screen

\* Any change to the name or the role takes the signature back.
NameRep ==
  /\ At("signoff") /\ sheet.complete
  /\ sheet' = [sheet EXCEPT !.named = TRUE, !.rep = "unsigned"]
  /\ UNCHANGED vars /\ UNCHANGED screen

SignRep ==
  /\ At("signoff") /\ sheet.named
  /\ sheet' = [sheet EXCEPT !.rep = "signed"]
  /\ UNCHANGED vars /\ UNCHANGED screen

\* What stands in the way of the button, if anything.
Ready ==
  /\ sheet.complete /\ sheet.inspector # {}
  /\ sheet.named /\ sheet.rep # "unsigned"

Submit ==
  /\ At("signoff") /\ Ready
  /\ \E d \in sheet.inspector : BeginSubmit(d)
  /\ UNCHANGED screens

Submitting ==
  /\ AuthorSubmitted \/ \E c \in Checkpoint : RaiseFinding(c)
  /\ UNCHANGED screens

Submitted ==
  /\ MarkSubmitted
  /\ screen' = "done" /\ sheet' = NoSheet

\* "Back to visits" replaces the sign-off and leaves the checklist below it, so
\* that going back from the list of a finished visit is that checklist again.
Back ==
  /\ doing.at = "idle"
  /\ \/ screen = "checklist" /\ Goes("visits")
     \/ screen \in {"signoff", "done"} /\ Goes("checklist")
  /\ sheet' = NoSheet

\* Bound: one call is torn.
Killed ==
  /\ ~torn
  /\ Interrupt
  /\ screen' = "visits" /\ sheet' = NoSheet

\* While the sign-off is in front the phone has nothing new for the gateway, which
\* may as well have gone on before it was opened.
Elsewhere ==
  /\ doing.at = "idle"
  /\ Tick \/ Bootstrap \/ (screen # "signoff" /\ (Publish \/ Project))
  /\ UNCHANGED screens

VisitNext ==
  \/ StartVisit \/ Started \/ OpenVisit
  \/ \E c \in Checkpoint, a \in Answers : Choose(c, a)
  \/ Committed \/ OpenSignOff \/ SignInspector
  \/ NameRep \/ SignRep \/ Submit \/ Submitting \/ Submitted
  \/ Back \/ Killed \/ Elsewhere

\* The statements of a call, after its first.
InCall == Started \/ Committed \/ Submitting \/ Submitted

VisitSpec == VisitInit /\ [][VisitNext]_visitVars
VisitFairSpec ==
  VisitSpec /\ WF_visitVars(InCall) /\ WF_visitVars(Elsewhere /\ Project)

-----------------------------------------------------------------------------
Signing == Len(outbox') > Len(outbox) /\ outbox'[Len(outbox')].kind = "Submitted"

\* "A person signing a compliance record is entitled to see what they are
\* agreeing they were shown": the record holds the rating and the findings that
\* the sign-off showed when both signed, the day the inspector did, and the name
\* of the person whose signature it is, whatever was corrected, retyped or left
\* and come back to before (signoff/[id].tsx:12-15, 41-50, 182-195).
SignedAsShown ==
  [][Signing =>
       LET e == outbox'[Len(outbox')]
       IN  /\ e.score = sheet.score /\ sheet.inspector = {e.day}
           /\ {c \in Checkpoint : e.signed[c] = "no"} = sheet.adverse
           /\ sheet.rep = "signed"]_visitVars
=============================================================================
