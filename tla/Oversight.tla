------------------------------ MODULE Oversight ------------------------------
(***************************************************************************)
(* One facility under supervision: its planned visits, the inspections     *)
(* that answer them, the decisions taken on those, the certificates that   *)
(* rest on the decisions, and the page on which the public checks them.    *)
(*                                                                         *)
(* Every command of the console reads the read model, checks, and appends  *)
(* an event; nothing holds the read model still in between, and it is      *)
(* behind the store by the events not yet projected.  Assignments are the  *)
(* one table the projector writes that no rebuild clears.                  *)
(***************************************************************************)
EXTENDS Roles, Planning, Instruments, Risk, SequencesExt

CONSTANTS
  Inspection,   \* inspections of the facility
  Certificate,  \* certificate ids
  Person,       \* people of the console
  RolesOf,      \* what each of them may be
  Inspector,    \* people with a phone
  By,           \* whose inspection each one is
  MaxRequests,  \* bound: certificate commands under way at once
  Validity,     \* days a certificate is valid after the day of issue
  LastSerial,   \* discriminators uniqueSerial() tries before it gives up
  LastDay,      \* bound: days
  MaxLog,       \* bound: events
  MaxPlan,      \* bound: assignments
  MaxAsides     \* bound: assignments made or cancelled, days and asides

ASSUME OversightAssumption ==
  /\ RolesOf \in [Person -> SUBSET Role]
  /\ By \in [Inspection -> Inspector] /\ IsFiniteSet(Inspection)
  /\ "none" \notin Inspection \cup Person \cup Inspector
  /\ Validity \in Nat /\ LastSerial \in Nat /\ LastDay \in Nat
  /\ MaxLog \in Nat /\ MaxPlan \in Nat
  /\ MaxRequests \in Nat /\ MaxAsides \in Nat

VARIABLES
  today,      \* the day it is
  log,        \* event_store
  seen,       \* how many of its events are projected
  visit,      \* inspection: its status and its rating
  finding,    \* finding: the one each inspection may raise
  decided,    \* decision: who last decided to authorise, of each inspection
  cert,       \* certificate: status, inspection, serial and last day
  plan,       \* assignment: the visits planned at the facility
  command,    \* events that requests will append, their checks being done
  bundle,     \* the instrument version each phone holds
  asides      \* number of assignments made or cancelled, days and asides

Visitor == {By[i] : i \in Inspection}

record == <<log, seen, visit, finding, decided, cert, plan>>
vars == <<today, record, command, bundle, asides, instruments>>

-----------------------------------------------------------------------------
(* Events, the read model, and what a handler leaves of it.                 *)

Started(i, with) == [is |-> "InspectionStarted", of |-> i, with |-> with]
Raised(i) == [is |-> "FindingRaised", of |-> i]
Submitted(i, band) == [is |-> "InspectionSubmitted", of |-> i, band |-> band]
Closed(i) == [is |-> "FindingClosed", of |-> i]
Decided(i, p) == [is |-> "DecisionRecorded", of |-> i, by |-> p]
Authorised(c, i, p, n, d) ==
  [is |-> "CertificateAuthorised", of |-> c, on |-> i, by |-> p, serial |-> n, to |-> d]
Revoked(c) == [is |-> "CertificateRevoked", of |-> c]

NoVisit == [status |-> "none", band |-> "none", discrepancy |-> FALSE]
NoCert == [status |-> "none", on |-> "none", serial |-> 0, to |-> 0]

Recorded(e) == Contains(log, e)
InLog(kind, x) == \E k \in 1..Len(log) : log[k].is = kind /\ log[k].of = x

Init ==
  /\ today = 0 /\ log = <<>> /\ seen = 0
  /\ visit = [i \in Inspection |-> NoVisit]
  /\ finding = [i \in Inspection |-> "none"]
  /\ decided = [i \in Inspection |-> "none"]
  /\ cert = [c \in Certificate |-> NoCert]
  /\ plan = <<>> /\ command = {}
  /\ InstrumentsInit
  /\ bundle \in [Visitor -> Bundle] /\ asides = 0

-----------------------------------------------------------------------------
(* The phone.  An inspection's events are pushed in the order it wrote them *)
(* and accepted as they come (DeviceSync).                                  *)

Push(e) ==
  /\ Len(log) < MaxLog
  /\ log' = Append(log, e)
  /\ UNCHANGED <<today, seen, visit, finding, decided, cert, plan, command, bundle,
                 asides, instruments>>

StartVisit(i) ==
  /\ ~InLog("InspectionStarted", i)
  /\ Push(Started(i, bundle[By[i]]))

\* Mutant: a finding may follow the submission.
RaiseFinding_Late(i) ==
  /\ InLog("InspectionStarted", i) /\ ~Recorded(Raised(i))
  /\ Push(Raised(i))

\* submit() authors the findings before the submission.
RaiseFinding(i) ==
  /\ InLog("InspectionStarted", i) /\ ~InLog("InspectionSubmitted", i)
  /\ ~Recorded(Raised(i))
  /\ Push(Raised(i))

SubmitVisit(i) ==
  /\ InLog("InspectionStarted", i) /\ ~InLog("InspectionSubmitted", i)
  /\ \E band \in {"satisfactory", "needs_improvement"} : Push(Submitted(i, band))

\* The bundle that ends a round.
Bootstrap(n) ==
  /\ \E b \in Bundle : bundle' = [bundle EXCEPT ![n] = b]
  /\ UNCHANGED <<today, record, command, asides, instruments>>

-----------------------------------------------------------------------------
(* Commands: what each checks, and the event it then has to append.         *)

\* A new id, neither in the store nor on its way there.
Used == {e \in Certificate : InLog("CertificateAuthorised", e)}
          \cup {e.of : e \in command}
Fresh(c) == c \notin Used

Begin(e) ==
  /\ Cardinality(command) < MaxRequests
  /\ command' = command \cup {e}
  /\ UNCHANGED <<today, record, bundle, asides, instruments>>

May(p, allowed) == Permits(allowed, RolesOf[p])

\* verifyClosure(), of a finding whose remedy was submitted.  What it checks is
\* checked against what other commands do in FindingWorkflow.
VerifyClosure(p, i) ==
  /\ May(p, FindingRoutes.verify)
  /\ finding[i] = "open" /\ ~Recorded(Closed(i))
  /\ Push(Closed(i))

\* recordDecision() with authorise_certificate, the one kind read again.  It
\* does not ask what state the inspection is in, only that there is one.  That
\* nobody decides twice is a bound.
RecordDecision(p, i) ==
  /\ May(p, InspectionRoutes.decide)
  /\ visit[i].status # "none"
  /\ ~Recorded(Decided(i, p))
  /\ Push(Decided(i, p))

\* uniqueSerial(): the first discriminator no projected certificate has.
FreeSerials == {n \in 0..LastSerial : \A c \in Certificate :
                  cert[c].status = "none" \/ cert[c].serial # n}

\* authorise(): the refusals, in their order.
NoOpenFindings(i) == finding[i] \in {"none", "closed"}
RatingSupportsIssuance(i) == visit[i].band = "satisfactory"

Authorise(p, i, c) ==
  /\ May(p, InspectionRoutes.authorise)
  /\ visit[i].status = "submitted"
  /\ decided[i] = p
  /\ NoOpenFindings(i)
  /\ RatingSupportsIssuance(i)
  /\ \A d \in Certificate : ~(cert[d].status = "valid" /\ cert[d].on = i)
  /\ Fresh(c)
  /\ \E n \in FreeSerials :
       /\ \A m \in FreeSerials : n <= m
       /\ Begin(Authorised(c, i, p, n, today + Validity))

Revoke(p, c) ==
  /\ May(p, CertificateRoutes.revoke)
  /\ cert[c].status = "valid"
  /\ Begin(Revoked(c))

\* EventAppender.append().
AppendCommand(e) ==
  /\ Len(log) < MaxLog
  /\ log' = Append(log, e)
  /\ command' = command \ {e}
  /\ UNCHANGED <<today, seen, visit, finding, decided, cert, plan, bundle, asides,
                 instruments>>

\* The gateway stops before it did.
CommandDies(e) ==
  /\ command' = command \ {e}
  /\ UNCHANGED <<today, record, bundle, asides, instruments>>

-----------------------------------------------------------------------------
(* Planning writes its rows at once.                                        *)

Aside == asides < MaxAsides /\ asides' = asides + 1

Replan(p, allowed, next) ==
  /\ May(p, allowed) /\ Aside
  /\ plan' = next
  /\ UNCHANGED <<today, log, seen, visit, finding, decided, cert, command, bundle,
                 instruments>>

CreateAssignment(p, n) ==
  /\ Len(plan) < MaxPlan
  /\ Replan(p, PlanningRoutes.createAssignment, Add(plan, n))

\* Two batches at once plan what two of the above plan.
CreateAssignments(p, n) ==
  /\ Len(plan) < MaxPlan /\ ~AlreadyPlanned(plan)
  /\ Replan(p, PlanningRoutes.createAssignments, Add(plan, n))

CancelAssignment(p, a) ==
  /\ MayCancel(plan, a)
  /\ Replan(p, PlanningRoutes.cancel, Cancel(plan, a))

-----------------------------------------------------------------------------
(* The projector: one event, its handler and the cursor in a transaction.   *)

\* certificate.serial is UNIQUE, and the insert only gives way to its own id.
Inserts(e) ==
  \A c \in Certificate : c = e.of \/ cert[c].status = "none" \/ cert[c].serial # e.serial

ApplyStarted(e) ==
  /\ visit' = [visit EXCEPT ![e.of] =
       [NoVisit EXCEPT !.status = "in_progress",
                       !.discrepancy = version[e.with.of].status # "in_force"]]
  /\ plan' \in Claimed(plan, By[e.of], e.of)
  /\ UNCHANGED <<finding, decided, cert>>

\* Mutant: the assignment is left planned.
ApplySubmitted_ForgetsPlan(e) ==
  /\ visit' = [visit EXCEPT ![e.of].status = "submitted", ![e.of].band = e.band]
  /\ UNCHANGED <<finding, decided, cert, plan>>

ApplySubmitted(e) ==
  /\ visit' = [visit EXCEPT ![e.of].status = "submitted", ![e.of].band = e.band]
  /\ plan' = Completed(plan, e.of)
  /\ UNCHANGED <<finding, decided, cert>>

ApplyFinding(e) ==
  /\ finding' = [finding EXCEPT ![e.of] = IF e.is = "FindingRaised" THEN "open" ELSE "closed"]
  /\ UNCHANGED <<visit, decided, cert, plan>>

ApplyDecided(e) ==
  /\ decided' = [decided EXCEPT ![e.of] = e.by]
  /\ UNCHANGED <<visit, finding, cert, plan>>

ApplyAuthorised(e) ==
  /\ Inserts(e)
  /\ cert' = [cert EXCEPT ![e.of] =
                [status |-> "valid", on |-> e.on, serial |-> e.serial, to |-> e.to]]
  /\ UNCHANGED <<visit, finding, decided, plan>>

ApplyRevoked(e) ==
  /\ cert' = [cert EXCEPT ![e.of].status = "revoked"]
  /\ UNCHANGED <<visit, finding, decided, plan>>

Apply(e) ==
  \/ e.is = "InspectionStarted" /\ ApplyStarted(e)
  \/ e.is = "InspectionSubmitted" /\ ApplySubmitted(e)
  \/ e.is \in {"FindingRaised", "FindingClosed"} /\ ApplyFinding(e)
  \/ e.is = "DecisionRecorded" /\ ApplyDecided(e)
  \/ e.is = "CertificateAuthorised" /\ ApplyAuthorised(e)
  \/ e.is = "CertificateRevoked" /\ ApplyRevoked(e)

ApplyNext ==
  /\ seen < Len(log)
  /\ Apply(log[seen + 1])
  /\ seen' = seen + 1
  /\ UNCHANGED <<today, log, command, bundle, asides, instruments>>

\* rebuild(): the rows go at once and come back one by one; assignments stay.
Rebuild ==
  /\ Aside /\ seen > 0
  /\ seen' = 0
  /\ visit' = [i \in Inspection |-> NoVisit]
  /\ finding' = [i \in Inspection |-> "none"]
  /\ decided' = [i \in Inspection |-> "none"]
  /\ cert' = [c \in Certificate |-> NoCert]
  /\ UNCHANGED <<today, log, plan, command, bundle, instruments>>

DayPasses ==
  /\ today < LastDay /\ Aside
  /\ today' = today + 1
  /\ UNCHANGED <<record, command, bundle, instruments>>

-----------------------------------------------------------------------------
\* Mutant: the view does not ask for the status.
PublicCertificateView_AnyStatus ==
  {c \in Certificate : cert[c].status # "none" /\ cert[c].to >= today}

\* The view the public page reads, and the certificates verify() may confirm.
PublicCertificateView ==
  {c \in Certificate : cert[c].status = "valid" /\ cert[c].to >= today}

\* verify(): of the certificates that match, by token, serial or licence, one
\* that is valid longest; no record, if there is none.
Verify(matching) ==
  LET rows == matching \cap PublicCertificateView
  IN  {c \in rows : \A d \in rows : cert[c].to >= cert[d].to}

\* riskSuggestions(): what the read model knows of the facility.  The months
\* since its last visit and the findings overdue are taken at their least.
Known ==
  LET done == {i \in Inspection : visit[i].status = "submitted"}
      order == SelectSeq(SubSeq(log, 1, seen), LAMBDA e : e.is = "InspectionSubmitted")
      latest == Reverse(order)
      valid == {c \in Certificate : cert[c].status = "valid"}
  IN  [months |-> IF done = {} THEN {} ELSE {0},
       bands |-> [k \in 1..Min({2, Len(latest)}) |-> latest[k].band],
       open |-> Cardinality({i \in Inspection : finding[i] = "open"}), overdue |-> 0,
       cert |-> IF valid = {} THEN {} ELSE {Max({cert[c].to : c \in valid}) - today}]

Phone ==
  \/ \E i \in Inspection : StartVisit(i) \/ RaiseFinding(i) \/ SubmitVisit(i)
  \/ \E n \in Visitor : Bootstrap(n)

Console ==
  \/ \E p \in Person, i \in Inspection :
       \/ VerifyClosure(p, i) \/ RecordDecision(p, i)
       \/ \E c \in Certificate : Authorise(p, i, c)
  \/ \E p \in Person, c \in Certificate : Revoke(p, c)
  \/ \E e \in command : AppendCommand(e) \/ CommandDies(e)
  \/ \E p \in Person, n \in Inspector : CreateAssignment(p, n) \/ CreateAssignments(p, n)
  \/ \E p \in Person, a \in DOMAIN plan : CancelAssignment(p, a)

\* A state administrator's work on the instrument.
Drafting ==
  /\ \E v \in Version, s \in Structure : CreateDraft(v, s) \/ ReplaceDraftStructure(v, s)
  /\ Aside
  /\ UNCHANGED <<today, record, command, bundle>>

Publishing ==
  /\ \E p \in Person : May(p, InstrumentRoutes.publish)
  /\ \E p \in Publisher :
       \/ \E v \in Version : CheckDraft(p, v)
       \/ PutInForce(p) \/ AppendPublished(p) \/ PublishFails(p)
  /\ UNCHANGED <<today, record, command, bundle, asides>>

Next == Phone \/ Console \/ Drafting \/ Publishing \/ ApplyNext \/ Rebuild \/ DayPasses

Spec == Init /\ [][Next]_vars

\* The sweep of the projector runs.
FairSpec == Spec /\ WF_vars(ApplyNext)
-----------------------------------------------------------------------------
(* Properties *)

Bundles == [of : Version, structure : Structure, hash : Structure]

\* What a command appends, and all events.
CertificateEvent ==
  [is : {"CertificateAuthorised"}, of : Certificate, on : Inspection, by : Person,
   serial : 0..LastSerial, to : 0..(LastDay + Validity)]
    \cup {Revoked(c) : c \in Certificate}

Event ==
  {Started(i, b) : i \in Inspection, b \in Bundles}
    \cup {Raised(i) : i \in Inspection} \cup {Closed(i) : i \in Inspection}
    \cup {Submitted(i, x) : i \in Inspection, x \in {"satisfactory", "needs_improvement"}}
    \cup {Decided(i, p) : i \in Inspection, p \in Person}
    \cup CertificateEvent

\* The variables have the shapes their comments say.
TypeOK ==
  /\ today \in 0..LastDay /\ asides \in 0..MaxAsides
  /\ log \in Seq(Event) /\ Len(log) <= MaxLog /\ seen \in 0..Len(log)
  /\ visit \in [Inspection -> [status : {"none", "in_progress", "submitted"},
                               band : {"none", "satisfactory", "needs_improvement"},
                               discrepancy : BOOLEAN]]
  /\ finding \in [Inspection -> {"none", "open", "closed"}]
  /\ decided \in [Inspection -> Person \cup {"none"}]
  /\ cert \in [Certificate -> [status : {"none", "valid", "revoked"},
                               on : Inspection \cup {"none"}, serial : 0..LastSerial,
                               to : 0..(LastDay + Validity)]]
  /\ plan \in Seq([to : Inspector, status : AssignmentStatus,
                   visit : Inspection \cup {"none"}])
  /\ Len(plan) <= MaxPlan
  /\ command \subseteq CertificateEvent
  /\ bundle \in [Visitor -> Bundles]
  /\ InstrumentsTypeOK

Before(k, e) == \E j \in 1..(k - 1) : log[j] = e

\* A certificate rests on a satisfactory inspection, on a decision of the very
\* officer who authorises it, and on findings that are all closed, in the store
\* and not only in the read model the checks were made on, however far that was
\* behind, whatever was rebuilt and whatever came between the checks and the
\* event (certificates.service.ts:81-95).
CertifiedIsClear ==
  \A k \in 1..Len(log) :
    log[k].is = "CertificateAuthorised" =>
      LET i == log[k].on
          by == log[k].by
      IN  /\ "authorising_officer" \in RolesOf[by]
          /\ Before(k, Submitted(i, "satisfactory"))
          /\ Before(k, Decided(i, by))
          /\ Recorded(Raised(i)) => Before(k, Closed(i))

\* Two requests read the read model before either's certificate was in it, and
\* minted one serial.  The projector cannot apply the second, nor anything
\* behind it.
Clash ==
  \E j, k \in 1..Len(log) :
    /\ j < k /\ log[j].is = "CertificateAuthorised" /\ log[k].is = "CertificateAuthorised"
    /\ log[j].serial = log[k].serial

\* A revoked certificate is not confirmed to the public for ever: "the public
\* page simply stops confirming the certificate" (projector.service.ts:584-585),
\* after any rebuild too, unless serials clash.
RevocationArrives ==
  \A c \in Certificate : [](Recorded(Revoked(c)) => <>[](Clash \/ Verify({c}) = {}))

\* An assignment is completed only by a submitted inspection of the person it
\* was given to, and every assignment a visit has claimed is completed with it,
\* although a rebuild plays the visit again and its assignments are not cleared
\* (projector.service.ts:282-307, 418-422).
CompletedWasVisited ==
  \A a \in DOMAIN plan :
    LET i == plan[a].visit
    IN  /\ plan[a].status = "completed" =>
             /\ i # "none" /\ plan[a].to = By[i]
             /\ \E band \in {"satisfactory", "needs_improvement"} : Recorded(Submitted(i, band))
        /\ i # "none" /\ visit[i].status = "submitted" => plan[a].status = "completed"

\* What the server scores an inspection with is what the inspector was asked on
\* site: the structure of the version an inspection is bound to is never
\* replaced, however old the bundle it was started from
\* (instruments.service.ts:256-276, projector.service.ts:311-324).
ScoredAsInspected ==
  \A k \in 1..Len(log) :
    log[k].is = "InspectionStarted" =>
      log[k].with.structure = version[log[k].with.of].structure

\* Once the projector has caught up, a facility is suggested for a visit while
\* nobody has finished inspecting it, while a finding on it is open, and when no
\* valid certificate of it is left that has not run out; and the suggestions go
\* by need (planning.service.ts:206-276, risk.ts:61-117).
NeedIsSuggested ==
  LET unseen == \A i \in Inspection : ~InLog("InspectionSubmitted", i)
      unremedied == \E i \in Inspection : Recorded(Raised(i)) /\ ~Recorded(Closed(i))
      lapsed == Verify(Certificate) = {} /\ \E c \in Certificate : cert[c].status = "valid"
  IN  /\ RanksByNeed
      /\ seen = Len(log) /\ (unseen \/ unremedied \/ lapsed) => Suggested(Known)
=============================================================================
