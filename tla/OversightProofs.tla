--------------------------- MODULE OversightProofs ---------------------------
(***************************************************************************)
(* What is proved of one facility under supervision, for any number of     *)
(* inspections, certificates, people, versions and events: the structure   *)
(* an inspection is scored by is the one it was started with, certificates *)
(* rest on clear ground in the store, and assignments are completed by the *)
(* visits they stand for.  And, for any two structures, what the list of   *)
(* changes shown before publishing tells and what it leaves out.           *)
(***************************************************************************)
EXTENDS Oversight, Revision, SequenceTheorems, FiniteSetTheorems, WellFoundedInduction, TLAPS

-----------------------------------------------------------------------------
(* The log.                                                                 *)

RatedBand == {"satisfactory", "needs_improvement"}

\* What the kind of an event says of it.
LEMMA EventFields ==
  ASSUME NEW e \in Event
  PROVE  /\ e.is = "InspectionStarted" => /\ e.of \in Inspection /\ e.with \in Bundles
                                          /\ e = Started(e.of, e.with)
         /\ e.is = "FindingRaised" => e.of \in Inspection /\ e = Raised(e.of)
         /\ e.is = "FindingClosed" => e.of \in Inspection /\ e = Closed(e.of)
         /\ e.is = "InspectionSubmitted" => /\ e.of \in Inspection /\ e.band \in RatedBand
                                            /\ e = Submitted(e.of, e.band)
         /\ e.is = "DecisionRecorded" => /\ e.of \in Inspection /\ e.by \in Person
                                         /\ e = Decided(e.of, e.by)
         /\ e.is = "CertificateRevoked" => e.of \in Certificate /\ e = Revoked(e.of)
         /\ e.is = "CertificateAuthorised" =>
              /\ e.of \in Certificate /\ e.on \in Inspection /\ e.by \in Person
              /\ e.serial \in 0..LastSerial /\ e.to \in 0..(LastDay + Validity)
  BY DEF Event, CertificateEvent, Started, Raised, Closed, Submitted, Decided, Revoked,
         RatedBand

LEMMA CertificateEventIs ==
  /\ \A c \in Certificate : Revoked(c) \in CertificateEvent
  /\ \A c \in Certificate, i \in Inspection, p \in Person, n \in 0..LastSerial,
        d \in 0..(LastDay + Validity) : Authorised(c, i, p, n, d) \in CertificateEvent
  /\ \A e \in CertificateEvent : e.is \in {"CertificateAuthorised", "CertificateRevoked"}
<1>1. \A c \in Certificate, i \in Inspection, p \in Person, n \in 0..LastSerial,
        d \in 0..(LastDay + Validity) : Authorised(c, i, p, n, d) \in CertificateEvent
  BY DEF CertificateEvent, Authorised
<1>2. \A c \in Certificate : Revoked(c) \in CertificateEvent
  BY DEF CertificateEvent
<1>3. \A e \in CertificateEvent : e.is \in {"CertificateAuthorised", "CertificateRevoked"}
  BY DEF CertificateEvent, Revoked
<1> QED
  BY <1>1, <1>2, <1>3

LEMMA EventIs ==
  /\ \A i \in Inspection, b \in Bundles : Started(i, b) \in Event
  /\ \A i \in Inspection : Raised(i) \in Event /\ Closed(i) \in Event
  /\ \A i \in Inspection, b \in RatedBand : Submitted(i, b) \in Event
  /\ \A i \in Inspection, p \in Person : Decided(i, p) \in Event
  /\ CertificateEvent \subseteq Event
  BY DEF Event, RatedBand

\* Nothing is taken out of the log or moved in it.
LEMMA LogGrows ==
  ASSUME log \in Seq(Event), NEW e \in Event, log' = Append(log, e)
  PROVE  /\ log' \in Seq(Event)
         /\ Len(log) \in Nat /\ Len(log') = Len(log) + 1
         /\ \A k \in 1..Len(log) : log'[k] = log[k]
         /\ log'[Len(log) + 1] = e
         /\ \A x : Recorded(x)' <=> Recorded(x) \/ x = e
<1>1. /\ log' \in Seq(Event)
      /\ Len(log) \in Nat /\ Len(log') = Len(log) + 1
      /\ \A k \in 1..Len(log) : log'[k] = log[k]
      /\ log'[Len(log) + 1] = e
  OBVIOUS
<1>2. \A x : Recorded(x)' <=> Recorded(x) \/ x = e
  BY <1>1 DEF Recorded, Contains
<1> QED
  BY <1>1, <1>2

-----------------------------------------------------------------------------
(* Types                                                                    *)

USE OversightAssumption, InstrumentsAssumption

LEMMA PushTypes ==
  ASSUME TypeOK, NEW e \in Event, Push(e)
  PROVE  TypeOK'
<1>1. log' \in Seq(Event) /\ Len(log') <= MaxLog /\ seen' \in 0..Len(log')
  BY LogGrows DEF TypeOK, Push
<1>2. UNCHANGED <<today, seen, visit, finding, decided, cert, plan, command, bundle, asides,
                  version, publishing, published, edits>>
  BY DEF Push, instruments
<1> QED
  BY <1>1, <1>2 DEF TypeOK, InstrumentsTypeOK

\* What an inspection, a decision, a closure and a command append are events.
LEMMA PhoneTypes ==
  ASSUME TypeOK, NEW i \in Inspection, StartVisit(i) \/ RaiseFinding(i) \/ SubmitVisit(i)
  PROVE  TypeOK'
<1>1. CASE StartVisit(i)
  <2>1. bundle[By[i]] \in Bundles
    BY DEF TypeOK, Visitor
  <2> QED
    BY <1>1, <2>1, PushTypes, EventIs DEF StartVisit
<1>2. CASE RaiseFinding(i)
  BY <1>2, PushTypes, EventIs DEF RaiseFinding
<1>3. CASE SubmitVisit(i)
  BY <1>3, PushTypes, EventIs DEF SubmitVisit, RatedBand
<1> QED
  BY <1>1, <1>2, <1>3

LEMMA DeskTypes ==
  ASSUME TypeOK, NEW p \in Person, NEW i \in Inspection,
         VerifyClosure(p, i) \/ RecordDecision(p, i)
  PROVE  TypeOK'
<1>1. CASE VerifyClosure(p, i)
  BY <1>1, PushTypes, EventIs DEF VerifyClosure
<1>2. CASE RecordDecision(p, i)
  BY <1>2, PushTypes, EventIs DEF RecordDecision
<1> QED
  BY <1>1, <1>2

LEMMA BeginTypes ==
  ASSUME TypeOK, NEW e \in CertificateEvent, Begin(e)
  PROVE  TypeOK'
<1>1. UNCHANGED <<today, log, seen, visit, finding, decided, cert, plan, bundle, asides,
                  version, publishing, published, edits>>
  BY DEF Begin, record, instruments
<1>2. command' \subseteq CertificateEvent
  BY DEF Begin, TypeOK
<1> QED
  BY <1>1, <1>2 DEF TypeOK, InstrumentsTypeOK

LEMMA CommandTypes ==
  ASSUME TypeOK, NEW p \in Person, NEW c \in Certificate,
         Revoke(p, c) \/ \E i \in Inspection : Authorise(p, i, c)
  PROVE  TypeOK'
<1>1. CASE Revoke(p, c)
  BY <1>1, BeginTypes, CertificateEventIs DEF Revoke
<1>2. ASSUME NEW i \in Inspection, Authorise(p, i, c) PROVE TypeOK'
  <2>1. today + Validity \in 0..(LastDay + Validity)
    BY DEF TypeOK
  <2>2. PICK n \in FreeSerials : Begin(Authorised(c, i, p, n, today + Validity))
    BY <1>2 DEF Authorise
  <2> QED
    BY <2>1, <2>2, BeginTypes, CertificateEventIs DEF FreeSerials
<1> QED
  BY <1>1, <1>2

LEMMA AppendTypes ==
  ASSUME TypeOK, NEW e \in command, AppendCommand(e) \/ CommandDies(e)
  PROVE  TypeOK'
<1>1. e \in Event /\ command' \subseteq CertificateEvent
  BY EventIs DEF TypeOK, AppendCommand, CommandDies
<1>2. log' \in Seq(Event) /\ Len(log') <= MaxLog /\ seen' \in 0..Len(log')
  BY <1>1, LogGrows DEF TypeOK, AppendCommand, CommandDies, record
<1>3. UNCHANGED <<today, seen, visit, finding, decided, cert, plan, bundle, asides,
                  version, publishing, published, edits>>
  BY DEF AppendCommand, CommandDies, record, instruments
<1> QED
  BY <1>1, <1>2, <1>3 DEF TypeOK, InstrumentsTypeOK

-----------------------------------------------------------------------------
(* Plans                                                                    *)

Assignment == [to : Inspector, status : AssignmentStatus, visit : Inspection \cup {"none"}]

LEMMA PlanAdded ==
  ASSUME NEW s \in Seq(Assignment), NEW n \in Inspector
  PROVE  /\ Add(s, n) \in Seq(Assignment) /\ Len(Add(s, n)) = Len(s) + 1
         /\ \A a \in DOMAIN s : Add(s, n)[a] = s[a]
         /\ Add(s, n)[Len(s) + 1] = Planned(n)
         /\ DOMAIN Add(s, n) = DOMAIN s \cup {Len(s) + 1}
<1>1. Planned(n) \in Assignment
  BY DEF Planned, Assignment, AssignmentStatus
<1> QED
  BY <1>1 DEF Add

LEMMA PlanCancelled ==
  ASSUME NEW s \in Seq(Assignment), NEW a \in DOMAIN s
  PROVE  /\ Cancel(s, a) \in Seq(Assignment) /\ Len(Cancel(s, a)) = Len(s)
         /\ DOMAIN Cancel(s, a) = DOMAIN s
         /\ \A b \in DOMAIN s : b # a => Cancel(s, a)[b] = s[b]
         /\ Cancel(s, a)[a].status = "cancelled"
         /\ Cancel(s, a)[a].to = s[a].to /\ Cancel(s, a)[a].visit = s[a].visit
<1> DEFINE r == [s[a] EXCEPT !.status = "cancelled"]
<1>1. a \in 1..Len(s) /\ s[a] \in Assignment /\ DOMAIN s = 1..Len(s)
  BY LenProperties, ElementOfSeq
<1>2. r \in Assignment /\ r.status = "cancelled" /\ r.to = s[a].to /\ r.visit = s[a].visit
  BY <1>1 DEF Assignment, AssignmentStatus
<1>3. Cancel(s, a) = [s EXCEPT ![a] = r]
  BY <1>1 DEF Cancel
<1> HIDE DEF r
<1> QED
  BY <1>1, <1>2, <1>3, ExceptSeq, LenProperties

LEMMA PlanClaimed ==
  ASSUME NEW s \in Seq(Assignment), NEW n \in Inspector, NEW i \in Inspection,
         NEW t \in Claimed(s, n, i)
  PROVE  /\ t \in Seq(Assignment) /\ Len(t) = Len(s) /\ DOMAIN t = DOMAIN s
         /\ \A a \in DOMAIN s :
              \/ t[a] = s[a]
              \/ /\ s[a].visit = "none" /\ s[a].to = n /\ s[a].status = "planned"
                 /\ t[a].visit = i /\ t[a].to = n /\ t[a].status = "planned"
<1>1. CASE Claimable(s, n) = {}
  BY <1>1 DEF Claimed
<1>2. CASE Claimable(s, n) # {}
  <2>1. PICK a \in Claimable(s, n) : t = [s EXCEPT ![a].visit = i]
    BY <1>2 DEF Claimed
  <2> DEFINE r == [s[a] EXCEPT !.visit = i]
  <2>2. /\ a \in 1..Len(s) /\ s[a] \in Assignment /\ DOMAIN s = 1..Len(s)
        /\ s[a].visit = "none" /\ s[a].to = n /\ s[a].status = "planned"
    BY <2>1, LenProperties, ElementOfSeq DEF Claimable
  <2>3. r \in Assignment /\ r.visit = i /\ r.to = n /\ r.status = "planned"
    BY <2>2 DEF Assignment, AssignmentStatus
  <2>4. t = [s EXCEPT ![a] = r]
    BY <2>1, <2>2
  <2> HIDE DEF r
  <2> QED
    BY <2>2, <2>3, <2>4, ExceptSeq, LenProperties
<1> QED
  BY <1>1, <1>2

LEMMA PlanCompleted ==
  ASSUME NEW s \in Seq(Assignment), NEW i \in Inspection
  PROVE  /\ Completed(s, i) \in Seq(Assignment) /\ Len(Completed(s, i)) = Len(s)
         /\ DOMAIN Completed(s, i) = DOMAIN s
         /\ \A a \in DOMAIN s :
              /\ Completed(s, i)[a].to = s[a].to /\ Completed(s, i)[a].visit = s[a].visit
              /\ s[a].visit = i => Completed(s, i)[a].status = "completed"
              /\ s[a].visit # i => Completed(s, i)[a] = s[a]
<1> DEFINE t == Completed(s, i)
<1>1. DOMAIN s = 1..Len(s) /\ Len(s) \in Nat /\ \A a \in 1..Len(s) : s[a] \in Assignment
  BY LenProperties, ElementOfSeq
<1>2. ASSUME NEW a \in DOMAIN s
      PROVE  /\ t[a] \in Assignment /\ t[a].to = s[a].to /\ t[a].visit = s[a].visit
             /\ s[a].visit = i => t[a].status = "completed"
             /\ s[a].visit # i => t[a] = s[a]
  BY <1>1, <1>2 DEF Completed, Assignment, AssignmentStatus
<1>3. t \in [1..Len(s) -> Assignment]
  BY <1>1, <1>2 DEF Completed
<1>4. t \in Seq(Assignment) /\ Len(t) = Len(s) /\ DOMAIN t = DOMAIN s
  BY <1>1, <1>3, SeqDef, LenProperties
<1> QED
  BY <1>2, <1>4

LEMMA PlanTypes ==
  ASSUME TypeOK, NEW p \in Person,
         \/ \E n \in Inspector : CreateAssignment(p, n) \/ CreateAssignments(p, n)
         \/ \E a \in DOMAIN plan : CancelAssignment(p, a)
  PROVE  TypeOK'
<1>1. plan \in Seq(Assignment) /\ Len(plan) <= MaxPlan /\ asides \in 0..MaxAsides
  BY DEF TypeOK, Assignment
<1>2. plan' \in Seq(Assignment) /\ Len(plan') <= MaxPlan
  <2>1. CASE \E n \in Inspector : CreateAssignment(p, n) \/ CreateAssignments(p, n)
    <3>1. PICK n \in Inspector : plan' = Add(plan, n) /\ Len(plan) < MaxPlan
      BY <2>1 DEF CreateAssignment, CreateAssignments, Replan
    <3>2. Add(plan, n) \in Seq(Assignment) /\ Len(Add(plan, n)) = Len(plan) + 1
      BY <1>1, PlanAdded
    <3>3. Len(plan) \in Nat /\ MaxPlan \in Nat
      BY <1>1, LenProperties
    <3> QED
      BY <3>1, <3>2, <3>3
  <2>2. CASE \E a \in DOMAIN plan : CancelAssignment(p, a)
    <3>1. PICK a \in DOMAIN plan : plan' = Cancel(plan, a)
      BY <2>2 DEF CancelAssignment, Replan
    <3> QED
      BY <1>1, <3>1, PlanCancelled
  <2> QED
    BY <2>1, <2>2
<1>3. /\ asides < MaxAsides /\ asides' = asides + 1
      /\ UNCHANGED <<today, log, seen, visit, finding, decided, cert, command, bundle,
                     version, publishing, published, edits>>
  BY DEF CreateAssignment, CreateAssignments, CancelAssignment, Replan, Aside, instruments
<1> QED
  BY <1>1, <1>2, <1>3 DEF TypeOK, InstrumentsTypeOK, Assignment

-----------------------------------------------------------------------------
(* The projector                                                            *)

VisitRow == [status : {"none", "in_progress", "submitted"},
             band : {"none", "satisfactory", "needs_improvement"}, discrepancy : BOOLEAN]
CertRow == [status : {"none", "valid", "revoked"}, on : Inspection \cup {"none"},
            serial : 0..LastSerial, to : 0..(LastDay + Validity)]

ReadModelOK ==
  /\ visit \in [Inspection -> VisitRow]
  /\ finding \in [Inspection -> {"none", "open", "closed"}]
  /\ decided \in [Inspection -> Person \cup {"none"}]
  /\ cert \in [Certificate -> CertRow]
  /\ plan \in Seq(Assignment) /\ Len(plan) <= MaxPlan

LEMMA StartedTypes ==
  ASSUME ReadModelOK, NEW e \in Event, e.is = "InspectionStarted", ApplyStarted(e)
  PROVE  ReadModelOK'
<1>1. e.of \in Inspection /\ By[e.of] \in Inspector
  BY EventFields
<1>2. plan' \in Seq(Assignment) /\ Len(plan') <= MaxPlan
  BY <1>1, PlanClaimed DEF ApplyStarted, ReadModelOK
<1> DEFINE r == [NoVisit EXCEPT !.status = "in_progress",
                                !.discrepancy = version[e.with.of].status # "in_force"]
<1>3. r \in VisitRow
  <2>1. (version[e.with.of].status # "in_force") \in BOOLEAN
    OBVIOUS
  <2> QED
    BY <2>1 DEF NoVisit, VisitRow
<1>4. visit' = [visit EXCEPT ![e.of] = r] /\ UNCHANGED <<finding, decided, cert>>
  BY DEF ApplyStarted
<1> HIDE DEF r
<1> QED
  BY <1>1, <1>2, <1>3, <1>4 DEF ReadModelOK

LEMMA SubmittedTypes ==
  ASSUME ReadModelOK, NEW e \in Event, e.is = "InspectionSubmitted", ApplySubmitted(e)
  PROVE  ReadModelOK'
<1>1. e.of \in Inspection /\ e.band \in RatedBand
  BY EventFields
<1>2. plan' \in Seq(Assignment) /\ Len(plan') <= MaxPlan
  BY <1>1, PlanCompleted DEF ApplySubmitted, ReadModelOK
<1> DEFINE once == [visit EXCEPT ![e.of].status = "submitted"]
<1>3. once \in [Inspection -> VisitRow]
  <2> DEFINE r == [visit[e.of] EXCEPT !.status = "submitted"]
  <2>1. visit[e.of] \in VisitRow
    BY <1>1 DEF ReadModelOK
  <2>3. r \in VisitRow
    BY <2>1 DEF VisitRow
  <2>2. once = [visit EXCEPT ![e.of] = r]
    OBVIOUS
  <2> HIDE DEF r, once
  <2> QED
    BY <1>1, <2>2, <2>3 DEF ReadModelOK
<1> DEFINE r == [once[e.of] EXCEPT !.band = e.band]
<1>4. visit' = [once EXCEPT ![e.of] = r]
  BY DEF ApplySubmitted
<1> HIDE DEF once
<1>5. r \in VisitRow
  BY <1>1, <1>3 DEF VisitRow, RatedBand
<1> HIDE DEF r
<1> QED
  BY <1>1, <1>2, <1>3, <1>4, <1>5 DEF ReadModelOK, ApplySubmitted

LEMMA ApplyTypes ==
  ASSUME ReadModelOK, NEW e \in Event, Apply(e)
  PROVE  ReadModelOK'
<1>1. CASE e.is = "InspectionStarted" /\ ApplyStarted(e)
  BY <1>1, StartedTypes
<1>2. CASE e.is = "InspectionSubmitted" /\ ApplySubmitted(e)
  BY <1>2, SubmittedTypes
<1>3. CASE e.is \in {"FindingRaised", "FindingClosed"} /\ ApplyFinding(e)
  BY <1>3, EventFields DEF ReadModelOK, ApplyFinding
<1>4. CASE e.is = "DecisionRecorded" /\ ApplyDecided(e)
  BY <1>4, EventFields DEF ReadModelOK, ApplyDecided
<1>5. CASE e.is = "CertificateAuthorised" /\ ApplyAuthorised(e)
  <2> DEFINE r == [status |-> "valid", on |-> e.on, serial |-> e.serial, to |-> e.to]
  <2>1. r \in CertRow
    BY <1>5, EventFields DEF CertRow
  <2>2. cert' = [cert EXCEPT ![e.of] = r] /\ UNCHANGED <<visit, finding, decided, plan>>
    BY <1>5 DEF ApplyAuthorised
  <2> HIDE DEF r
  <2> QED
    BY <2>1, <2>2 DEF ReadModelOK
<1>6. CASE e.is = "CertificateRevoked" /\ ApplyRevoked(e)
  <2> DEFINE r == [cert[e.of] EXCEPT !.status = "revoked"]
  <2>1. e.of \in Certificate /\ cert[e.of] \in CertRow
    BY <1>6, EventFields DEF ReadModelOK
  <2>2. r \in CertRow
    BY <2>1 DEF CertRow
  <2>3. cert' = [cert EXCEPT ![e.of] = r] /\ UNCHANGED <<visit, finding, decided, plan>>
    BY <1>6 DEF ApplyRevoked
  <2> HIDE DEF r
  <2> QED
    BY <2>2, <2>3 DEF ReadModelOK
<1> QED
  BY <1>1, <1>2, <1>3, <1>4, <1>5, <1>6 DEF Apply

LEMMA ProjectionTypes ==
  ASSUME TypeOK, ApplyNext \/ Rebuild
  PROVE  TypeOK'
<1>1. ReadModelOK /\ Len(log) \in Nat /\ seen \in 0..Len(log)
  BY DEF TypeOK, ReadModelOK, Assignment, VisitRow, CertRow
<1>2. CASE ApplyNext
  <2>1. seen + 1 \in 1..Len(log) /\ log[seen + 1] \in Event
    BY <1>1, <1>2, ElementOfSeq DEF ApplyNext, TypeOK
  <2>2. ReadModelOK'
    BY <1>1, <1>2, <2>1, ApplyTypes DEF ApplyNext
  <2>3. seen' \in 0..Len(log)
    BY <1>2, <2>1 DEF ApplyNext
  <2>4. UNCHANGED <<today, log, command, bundle, asides, version, publishing, published, edits>>
    BY <1>2 DEF ApplyNext, instruments
  <2> QED
    BY <2>2, <2>3, <2>4
       DEF TypeOK, ReadModelOK, InstrumentsTypeOK, Assignment, VisitRow, CertRow
<1>3. CASE Rebuild
  <2>1. ReadModelOK'
    <3>1. NoVisit \in VisitRow /\ NoCert \in CertRow
      BY DEF NoVisit, NoCert, VisitRow, CertRow
    <3> QED
      BY <1>1, <1>3, <3>1 DEF Rebuild, ReadModelOK
  <2>2. seen' \in 0..Len(log) /\ asides' \in 0..MaxAsides
    BY <1>1, <1>3 DEF Rebuild, Aside, TypeOK
  <2>3. UNCHANGED <<today, log, command, bundle, version, publishing, published, edits>>
    BY <1>3 DEF Rebuild, instruments
  <2> QED
    BY <2>1, <2>2, <2>3
       DEF TypeOK, ReadModelOK, InstrumentsTypeOK, Assignment, VisitRow, CertRow
<1> QED
  BY <1>2, <1>3

-----------------------------------------------------------------------------
(* The instrument                                                           *)

VersionRow == [status : VersionStatus, structure : Structure, hash : Structure]

LEMMA InstrumentRow ==
  ASSUME InstrumentsTypeOK
  PROVE  /\ version \in [Version -> VersionRow]
         /\ \A v \in Version : /\ version[v].status \in VersionStatus
                               /\ version[v].structure \in Structure
                               /\ version[v].hash \in Structure
  BY DEF InstrumentsTypeOK, VersionRow

LEMMA DraftTypes ==
  ASSUME InstrumentsTypeOK, NEW v \in Version, NEW s \in Structure,
         CreateDraft(v, s) \/ ReplaceDraftStructure(v, s)
  PROVE  InstrumentsTypeOK'
<1>1. PICK r \in VersionRow : version' = [version EXCEPT ![v] = r]
  <2>1. CASE CreateDraft(v, s)
    <3>1. Row("draft", s, 0) \in VersionRow
      BY DEF Row, VersionRow, VersionStatus
    <3> QED
      BY <2>1, <3>1 DEF CreateDraft
  <2>2. CASE ReplaceDraftStructure(v, s)
    <3> DEFINE r == [version[v] EXCEPT !.structure = s]
    <3>1. r \in VersionRow
      BY InstrumentRow DEF VersionRow
    <3>2. version' = [version EXCEPT ![v] = r]
      BY <2>2 DEF ReplaceDraftStructure
    <3> HIDE DEF r
    <3> QED
      BY <3>1, <3>2
  <2> QED
    BY <2>1, <2>2
<1>2. version' \in [Version -> VersionRow]
  BY <1>1, InstrumentRow
<1>3. UNCHANGED <<publishing, published>> /\ edits' \in 0..MaxEdits
  BY DEF CreateDraft, ReplaceDraftStructure, InstrumentsTypeOK
<1> QED
  BY <1>2, <1>3 DEF InstrumentsTypeOK, VersionRow

PublishingRow == [at : {"idle", "checked", "committed"}, on : Version \cup {None},
                  read : Structure]

\* One call of publish() takes a step.
LEMMA CallSteps ==
  ASSUME InstrumentsTypeOK, NEW p \in Publisher, NEW r \in PublishingRow,
         publishing' = [publishing EXCEPT ![p] = r],
         r.at # "idle" => r.on \in Version,
         version' \in [Version -> VersionRow],
         published' \subseteq [of : Version, hash : Structure], edits' = edits
  PROVE  InstrumentsTypeOK'
<1>1. publishing \in [Publisher -> PublishingRow]
  BY DEF InstrumentsTypeOK, PublishingRow
<1>2. publishing' \in [Publisher -> PublishingRow]
  BY <1>1
<1>3. \A q \in Publisher : publishing'[q].at # "idle" => publishing'[q].on \in Version
  BY <1>1 DEF InstrumentsTypeOK
<1> QED
  BY <1>2, <1>3 DEF InstrumentsTypeOK, VersionRow, PublishingRow

LEMMA PublishTypes ==
  ASSUME InstrumentsTypeOK, NEW p \in Publisher,
         \/ \E v \in Version : CheckDraft(p, v)
         \/ PutInForce(p) \/ AppendPublished(p) \/ PublishFails(p)
  PROVE  InstrumentsTypeOK'
<1>1. /\ publishing[p] \in PublishingRow /\ version \in [Version -> VersionRow]
      /\ publishing[p].at # "idle" => publishing[p].on \in Version
      /\ published \subseteq [of : Version, hash : Structure]
  BY DEF InstrumentsTypeOK, PublishingRow, VersionRow
<1>2. NotPublishing \in PublishingRow /\ NotPublishing.at = "idle"
  BY DEF NotPublishing, PublishingRow
<1>3. ASSUME NEW v \in Version, CheckDraft(p, v)
      PROVE  InstrumentsTypeOK'
  <2> DEFINE r == [at |-> "checked", on |-> v, read |-> version[v].structure]
  <2>1. r \in PublishingRow /\ r.on \in Version
    BY InstrumentRow DEF PublishingRow
  <2>2. publishing' = [publishing EXCEPT ![p] = r] /\ UNCHANGED <<version, published, edits>>
    BY <1>3 DEF CheckDraft
  <2> HIDE DEF r
  <2> QED
    BY <1>1, <2>1, <2>2, CallSteps
<1>4. CASE PutInForce(p)
  <2> DEFINE v == publishing[p].on
             r == [publishing[p] EXCEPT !.at = "committed"]
  <2>1. v \in Version /\ publishing[p].read \in Structure
    BY <1>1, <1>4 DEF PutInForce, PublishingRow
  <2>2. r \in PublishingRow /\ r.on = v
    BY <1>1 DEF PublishingRow
  <2>3. \A w \in Version : Demoted(w, version[w]) \in VersionRow
    BY <1>1 DEF Demoted, VersionRow, VersionStatus
  <2>4. Row("in_force", version[v].structure, publishing[p].read) \in VersionRow
    BY <2>1, InstrumentRow DEF Row, VersionRow, VersionStatus
  <2>5. version' \in [Version -> VersionRow]
    BY <1>4, <2>3, <2>4 DEF PutInForce
  <2>6. publishing' = [publishing EXCEPT ![p] = r] /\ UNCHANGED <<published, edits>>
    BY <1>4 DEF PutInForce
  <2> HIDE DEF v, r
  <2> QED
    BY <1>1, <2>1, <2>2, <2>5, <2>6, CallSteps
<1>5. CASE AppendPublished(p)
  <2>1. [of |-> publishing[p].on, hash |-> publishing[p].read] \in [of : Version, hash : Structure]
    BY <1>1, <1>5 DEF AppendPublished, PublishingRow
  <2> QED
    BY <1>1, <1>2, <1>5, <2>1, CallSteps DEF AppendPublished
<1>6. CASE PublishFails(p)
  BY <1>1, <1>2, <1>6, CallSteps DEF PublishFails
<1> QED
  BY <1>3, <1>4, <1>5, <1>6

LEMMA BundleTypes ==
  ASSUME InstrumentsTypeOK, NEW b \in Bundle
  PROVE  /\ b \in Bundles /\ version[b.of].status = "in_force"
         /\ b.structure = version[b.of].structure
  BY InstrumentRow DEF Bundle, InForce, Bundles

LEMMA OversightInit == Init => TypeOK
<1> SUFFICES ASSUME Init PROVE TypeOK
  OBVIOUS
<1>1. InstrumentsTypeOK
  <2>1. PICK s \in Structure \ {0} :
          version = [v \in Version |-> IF v = First THEN Row("in_force", s, s)
                                       ELSE Row("none", 0, 0)]
    BY DEF Init, InstrumentsInit
  <2>2. version \in [Version -> VersionRow]
    BY <2>1 DEF Row, VersionRow, VersionStatus
  <2>3. /\ publishing = [p \in Publisher |-> NotPublishing]
        /\ published = {} /\ edits = 0
    BY DEF Init, InstrumentsInit
  <2> QED
    BY <2>2, <2>3 DEF InstrumentsTypeOK, VersionRow, NotPublishing
<1>2. bundle \in [Visitor -> Bundles]
  BY <1>1, BundleTypes DEF Init
<1>3. NoVisit \in VisitRow /\ NoCert \in CertRow
  BY DEF NoVisit, NoCert, VisitRow, CertRow
<1>4. log \in Seq(Event) /\ plan \in Seq(Assignment) /\ Len(log) = 0 /\ Len(plan) = 0
  BY EmptySeq DEF Init
<1> QED
  BY <1>1, <1>2, <1>3, <1>4 DEF Init, TypeOK, VisitRow, CertRow, Assignment

LEMMA RestTypes ==
  ASSUME TypeOK, \/ \E n \in Visitor : Bootstrap(n)
                 \/ Drafting \/ Publishing \/ DayPasses
  PROVE  TypeOK'
<1>1. InstrumentsTypeOK
  BY DEF TypeOK
<1>2. CASE \E n \in Visitor : Bootstrap(n)
  <2>1. bundle' \in [Visitor -> Bundles]
    <3>1. PICK n \in Visitor, b \in Bundle : bundle' = [bundle EXCEPT ![n] = b]
      BY <1>2 DEF Bootstrap
    <3>2. b \in Bundles
      BY <1>1, BundleTypes
    <3> QED
      BY <3>1, <3>2 DEF TypeOK
  <2>2. UNCHANGED <<today, record, command, asides, instruments>>
    BY <1>2 DEF Bootstrap
  <2> QED
    BY <2>1, <2>2 DEF TypeOK, InstrumentsTypeOK, record, instruments
<1>3. CASE Drafting
  <2>1. InstrumentsTypeOK'
    BY <1>1, <1>3, DraftTypes DEF Drafting
  <2>2. asides' \in 0..MaxAsides /\ UNCHANGED <<today, record, command, bundle>>
    BY <1>3 DEF Drafting, Aside, TypeOK
  <2> QED
    BY <2>1, <2>2 DEF TypeOK, record
<1>4. CASE Publishing
  <2>1. InstrumentsTypeOK'
    BY <1>1, <1>4, PublishTypes DEF Publishing
  <2>2. UNCHANGED <<today, record, command, bundle, asides>>
    BY <1>4 DEF Publishing
  <2> QED
    BY <2>1, <2>2 DEF TypeOK, record
<1>5. CASE DayPasses
  <2>1. today' \in 0..LastDay /\ asides' \in 0..MaxAsides
    BY <1>5 DEF DayPasses, Aside, TypeOK
  <2>2. UNCHANGED <<record, command, bundle, instruments>>
    BY <1>5 DEF DayPasses
  <2> QED
    BY <2>1, <2>2 DEF TypeOK, InstrumentsTypeOK, record, instruments
<1> QED
  BY <1>2, <1>3, <1>4, <1>5

LEMMA NextTypes ==
  ASSUME TypeOK, [Next]_vars
  PROVE  TypeOK'
<1>1. CASE Next
  <2>1. CASE Phone
    BY <2>1, PhoneTypes, RestTypes DEF Phone
  <2>2. CASE Console
    BY <2>2, DeskTypes, CommandTypes, AppendTypes, PlanTypes DEF Console
  <2>3. CASE Drafting \/ Publishing \/ DayPasses
    BY <2>3, RestTypes
  <2>4. CASE ApplyNext \/ Rebuild
    BY <2>4, ProjectionTypes
  <2> QED
    BY <1>1, <2>1, <2>2, <2>3, <2>4 DEF Next
<1>2. CASE UNCHANGED vars
  BY <1>2 DEF vars, record, instruments, TypeOK, InstrumentsTypeOK
<1> QED
  BY <1>1, <1>2

\* The variables keep their shapes, whatever the bounds.
THEOREM TypeCorrect == Spec => []TypeOK
  BY OversightInit, NextTypes, PTL DEF Spec

-----------------------------------------------------------------------------
(* The structure that was asked is the structure that is scored             *)

\* A version that was given out: published, and its structure as it was given.
Issued(b) == /\ version[b.of].status \in {"in_force", "superseded"}
             /\ b.structure = version[b.of].structure

\* Every bundle on a phone, and every one an inspection was started from, is of
\* a version that was published.
FrozenInv ==
  /\ \A n \in Visitor : Issued(bundle[n])
  /\ \A k \in 1..Len(log) : log[k].is = "InspectionStarted" => Issued(log[k].with)

\* A published version keeps its structure, whatever is drafted or published.
LEMMA IssuedStays ==
  ASSUME TypeOK, NEW b \in Bundles, Issued(b), Drafting \/ Publishing
  PROVE  Issued(b)'
<1>1. /\ version \in [Version -> VersionRow] /\ b.of \in Version
      /\ version[b.of].status \in {"in_force", "superseded"}
      /\ b.structure = version[b.of].structure
  BY InstrumentRow DEF TypeOK, Bundles, Issued
<1>2. SUFFICES /\ version'[b.of].status \in {"in_force", "superseded"}
               /\ version'[b.of].structure = version[b.of].structure
  BY <1>1 DEF Issued
<1>3. ASSUME NEW v \in Version, NEW s \in Structure, CreateDraft(v, s)
      PROVE  version'[b.of] = version[b.of]
  BY <1>1, <1>3 DEF CreateDraft
<1>4. ASSUME NEW v \in Version, NEW s \in Structure, ReplaceDraftStructure(v, s)
      PROVE  version'[b.of] = version[b.of]
  BY <1>1, <1>4 DEF ReplaceDraftStructure
<1>5. ASSUME NEW p \in Publisher, PutInForce(p)
      PROVE  /\ version'[b.of].status \in {"in_force", "superseded"}
             /\ version'[b.of].structure = version[b.of].structure
  <2>1. CASE b.of = publishing[p].on
    BY <1>1, <1>5, <2>1 DEF PutInForce, Row
  <2>2. CASE b.of # publishing[p].on
    <3>1. version[b.of] \in VersionRow
      BY <1>1
    <3>2. /\ Demoted(b.of, version[b.of]).status \in {"in_force", "superseded"}
          /\ Demoted(b.of, version[b.of]).structure = version[b.of].structure
      BY <1>1, <3>1 DEF Demoted, VersionRow
    <3>3. version'[b.of] = Demoted(b.of, version[b.of])
      BY <1>1, <1>5, <2>2 DEF PutInForce
    <3> QED
      BY <3>2, <3>3
  <2> QED
    BY <2>1, <2>2
<1>6. ASSUME NEW p \in Publisher,
             (\E v \in Version : CheckDraft(p, v)) \/ AppendPublished(p) \/ PublishFails(p)
      PROVE  version' = version
  BY <1>6 DEF CheckDraft, AppendPublished, PublishFails
<1> QED
  BY <1>1, <1>3, <1>4, <1>5, <1>6 DEF Drafting, Publishing

LEMMA FrozenInit == Init => FrozenInv
<1> SUFFICES ASSUME Init PROVE FrozenInv
  OBVIOUS
<1>1. Len(log) = 0 /\ \A n \in Visitor : bundle[n] \in Bundle /\ TypeOK
  BY OversightInit DEF Init
<1>2. \A n \in Visitor : Issued(bundle[n])
  BY <1>1, BundleTypes DEF Issued, TypeOK
<1> QED
  BY <1>1, <1>2 DEF FrozenInv

LEMMA FrozenNext ==
  ASSUME TypeOK, FrozenInv, [Next]_vars
  PROVE  FrozenInv'
<1>1. /\ log \in Seq(Event) /\ Len(log) \in Nat /\ bundle \in [Visitor -> Bundles]
      /\ command \subseteq CertificateEvent /\ InstrumentsTypeOK
  BY DEF TypeOK
<1>2. ASSUME UNCHANGED <<bundle, version>>, log' = log
      PROVE  FrozenInv'
  BY <1>2 DEF FrozenInv, Issued
<1>3. ASSUME UNCHANGED <<bundle, version>>, NEW e \in Event, log' = Append(log, e),
             e.is = "InspectionStarted" => Issued(e.with)
      PROVE  FrozenInv'
  <2>1. \A b : Issued(b)' <=> Issued(b)
    BY <1>3 DEF Issued
  <2>2. \A k \in 1..Len(log') : k \in 1..Len(log) \/ k = Len(log) + 1
    BY <1>1, <1>3, LogGrows
  <2> QED
    BY <1>1, <1>3, <2>1, <2>2, LogGrows DEF FrozenInv
<1>4. CASE Drafting \/ Publishing
  <2>1. log' = log /\ bundle' = bundle
    BY <1>4 DEF Drafting, Publishing, record
  <2>2. \A n \in Visitor : Issued(bundle[n])'
    BY <1>1, <1>4, <2>1, IssuedStays DEF FrozenInv
  <2>3. ASSUME NEW k \in 1..Len(log), log[k].is = "InspectionStarted"
        PROVE  Issued(log[k].with)'
    <3>1. log[k].with \in Bundles /\ Issued(log[k].with)
      BY <1>1, <2>3, EventFields, ElementOfSeq DEF FrozenInv
    <3>2. ASSUME NEW b \in Bundles, Issued(b) PROVE Issued(b)'
      BY <1>4, <3>2, IssuedStays
    <3> QED
      BY <2>1, <3>1, <3>2 DEF Issued
  <2> QED
    BY <2>1, <2>2, <2>3 DEF FrozenInv
<1>5. ASSUME NEW i \in Inspection, StartVisit(i) \/ RaiseFinding(i) \/ SubmitVisit(i)
      PROVE  FrozenInv'
  <2>1. CASE StartVisit(i)
    <3>1. By[i] \in Visitor
      BY DEF Visitor
    <3>2. bundle[By[i]] \in Bundles /\ Issued(bundle[By[i]])
      BY <1>1, <3>1 DEF FrozenInv
    <3>3. Started(i, bundle[By[i]]) \in Event
      BY <3>2, EventIs
    <3> QED
      BY <1>3, <2>1, <3>2, <3>3 DEF StartVisit, Push, Started, instruments
  <2>2. CASE RaiseFinding(i)
    BY <1>3, <2>2, EventIs DEF RaiseFinding, Push, Raised, instruments
  <2>3. CASE SubmitVisit(i)
    BY <1>3, <2>3, EventIs DEF SubmitVisit, Push, Submitted, RatedBand, instruments
  <2> QED
    BY <1>5, <2>1, <2>2, <2>3
<1>6. ASSUME NEW n \in Visitor, Bootstrap(n) PROVE FrozenInv'
  <2>1. PICK b \in Bundle : bundle' = [bundle EXCEPT ![n] = b]
    BY <1>6 DEF Bootstrap
  <2>2. Issued(b) /\ UNCHANGED <<log, version>>
    BY <1>1, <1>6, BundleTypes DEF Bootstrap, Issued, record, instruments
  <2> QED
    BY <1>1, <2>1, <2>2 DEF FrozenInv, Issued
<1>7. ASSUME NEW p \in Person, NEW i \in Inspection, VerifyClosure(p, i) \/ RecordDecision(p, i)
      PROVE  FrozenInv'
  BY <1>3, <1>7, EventIs
     DEF VerifyClosure, RecordDecision, Push, Closed, Decided, instruments
<1>8. ASSUME NEW p \in Person, NEW c \in Certificate,
             Revoke(p, c) \/ \E i \in Inspection : Authorise(p, i, c)
      PROVE  FrozenInv'
  BY <1>2, <1>8 DEF Revoke, Authorise, Begin, record, instruments
<1>9. ASSUME NEW e \in command, AppendCommand(e) \/ CommandDies(e)
      PROVE  FrozenInv'
  <2>1. e.is # "InspectionStarted"
    BY CertificateEventIs DEF TypeOK
  <2> QED
    BY <1>1, <1>2, <1>3, <1>9, <2>1, EventIs DEF AppendCommand, CommandDies, record, instruments
<1>10. ASSUME NEW p \in Person,
              \/ \E n \in Inspector : CreateAssignment(p, n) \/ CreateAssignments(p, n)
              \/ \E a \in DOMAIN plan : CancelAssignment(p, a)
       PROVE  FrozenInv'
  BY <1>2, <1>10 DEF CreateAssignment, CreateAssignments, CancelAssignment, Replan, instruments
<1>11. CASE ApplyNext \/ Rebuild \/ DayPasses \/ UNCHANGED vars
  BY <1>2, <1>11 DEF ApplyNext, Rebuild, DayPasses, vars, record, instruments
<1> QED
  BY <1>4, <1>5, <1>6, <1>7, <1>8, <1>9, <1>10, <1>11 DEF Next, Phone, Console

LEMMA Frozen == Spec => [](TypeOK /\ FrozenInv)
  BY OversightInit, FrozenInit, NextTypes, FrozenNext, PTL DEF Spec

\* What the server scores an inspection with is what the inspector was asked:
\* no draft that is edited and no version that is published, whoever's bundle
\* is how old, touches the structure an inspection was started from.
THEOREM InspectionsScoredAsInspected == Spec => []ScoredAsInspected
<1>1. TypeOK /\ FrozenInv => ScoredAsInspected
  BY DEF FrozenInv, Issued, ScoredAsInspected
<1> QED
  BY <1>1, Frozen, PTL

-----------------------------------------------------------------------------
(* What the read model says is in the store                                 *)

\* The event is among those projected.
Projected(e) == \E j \in 1..seen : log[j] = e

\* A status in the read model has the event behind it that brings it about.
ReadInv ==
  \A i \in Inspection :
    /\ visit[i].status = "submitted" =>
         visit[i].band \in RatedBand /\ Projected(Submitted(i, visit[i].band))
    /\ decided[i] # "none" => Projected(Decided(i, decided[i]))
    /\ finding[i] = "none" => ~Projected(Raised(i))
    /\ finding[i] = "closed" => Projected(Closed(i))

LEMMA ReadInit == Init => ReadInv
  BY OversightInit DEF Init, ReadInv, Projected, NoVisit, RatedBand

\* What is projected stays so while events are appended.
LEMMA ProjectedStays ==
  ASSUME TypeOK, NEW e \in Event, log' = Append(log, e) \/ log' = log, seen' = seen
  PROVE  \A x : Projected(x)' <=> Projected(x)
<1>1. log \in Seq(Event) /\ Len(log) \in Nat /\ seen \in 0..Len(log)
  BY DEF TypeOK
<1>2. \A j \in 1..seen : log'[j] = log[j]
  <2>1. CASE log' = Append(log, e)
    BY <1>1, <2>1, LogGrows
  <2> QED
    BY <2>1
<1> QED
  BY <1>2 DEF Projected

LEMMA ProjectedGrows ==
  ASSUME TypeOK, ApplyNext
  PROVE  /\ log[seen + 1] \in Event
         /\ \A x : Projected(x)' <=> Projected(x) \/ x = log[seen + 1]
<1>1. log \in Seq(Event) /\ Len(log) \in Nat /\ seen \in 0..Len(log)
  BY DEF TypeOK
<1>2. log' = log /\ seen' = seen + 1 /\ seen < Len(log)
  BY DEF ApplyNext
<1>3. seen + 1 \in 1..Len(log)
  BY <1>1, <1>2
<1> QED
  BY <1>1, <1>2, <1>3, ElementOfSeq DEF Projected

\* Nothing of what ReadInv speaks of changes.
LEMMA ReadKept ==
  ASSUME TypeOK, ReadInv, UNCHANGED <<visit, finding, decided>>,
         \A x : Projected(x)' <=> Projected(x)
  PROVE  ReadInv'
  BY DEF ReadInv

LEMMA ReadApply ==
  ASSUME TypeOK, ReadInv, ApplyNext
  PROVE  ReadInv'
<1> DEFINE e == log[seen + 1]
<1>1. e \in Event /\ \A x : Projected(x)' <=> Projected(x) \/ x = e
  BY ProjectedGrows
<1>2. Apply(e)
  BY DEF ApplyNext
<1>3. ReadModelOK
  BY DEF TypeOK, ReadModelOK, Assignment, VisitRow, CertRow
<1> HIDE DEF e
<1>4. CASE e.is = "InspectionStarted" /\ ApplyStarted(e)
  <2>1. e = Started(e.of, e.with)
    BY <1>1, <1>4, EventFields
  <2>2. \A i \in Inspection : e # Raised(i)
    BY <2>1 DEF Started, Raised
  <2>3. \A i \in Inspection : visit'[i] = visit[i] \/ visit'[i].status = "in_progress"
    BY <1>3, <1>4 DEF ApplyStarted, ReadModelOK, NoVisit
  <2>4. UNCHANGED <<finding, decided>>
    BY <1>4 DEF ApplyStarted
  <2> QED
    BY <1>1, <2>2, <2>3, <2>4 DEF ReadInv
<1>5. CASE e.is = "InspectionSubmitted" /\ ApplySubmitted(e)
  <2>1. e = Submitted(e.of, e.band) /\ e.of \in Inspection /\ e.band \in RatedBand
    BY <1>1, <1>5, EventFields
  <2>2. \A i \in Inspection : e # Raised(i)
    BY <2>1 DEF Submitted, Raised
  <2>3. \A i \in Inspection : IF i = e.of THEN visit'[i].band = e.band ELSE visit'[i] = visit[i]
    BY <1>3, <1>5, <2>1 DEF ApplySubmitted, ReadModelOK, VisitRow
  <2>4. UNCHANGED <<finding, decided>>
    BY <1>5 DEF ApplySubmitted
  <2> QED
    BY <1>1, <2>1, <2>2, <2>3, <2>4 DEF ReadInv
<1>6. CASE e.is \in {"FindingRaised", "FindingClosed"} /\ ApplyFinding(e)
  <2>1. e.of \in Inspection /\ (e.is = "FindingRaised" => e = Raised(e.of))
                            /\ (e.is = "FindingClosed" => e = Closed(e.of))
    BY <1>1, <1>6, EventFields
  <2>2. \A i \in Inspection : /\ e = Raised(i) => i = e.of
                              /\ IF i # e.of THEN finding'[i] = finding[i]
                                 ELSE IF e.is = "FindingRaised" THEN finding'[i] = "open"
                                 ELSE finding'[i] = "closed"
    BY <1>3, <1>6 DEF ApplyFinding, ReadModelOK, Raised
  <2>3. UNCHANGED <<visit, decided>>
    BY <1>6 DEF ApplyFinding
  <2> QED
    BY <1>1, <1>6, <2>1, <2>2, <2>3 DEF ReadInv
<1>7. CASE e.is = "DecisionRecorded" /\ ApplyDecided(e)
  <2>1. e = Decided(e.of, e.by) /\ e.of \in Inspection
    BY <1>1, <1>7, EventFields
  <2>2. \A i \in Inspection : e # Raised(i)
    BY <2>1 DEF Decided, Raised
  <2>3. \A i \in Inspection : IF i = e.of THEN decided'[i] = e.by ELSE decided'[i] = decided[i]
    BY <1>3, <1>7 DEF ApplyDecided, ReadModelOK
  <2>4. UNCHANGED <<visit, finding>>
    BY <1>7 DEF ApplyDecided
  <2> QED
    BY <1>1, <2>1, <2>2, <2>3, <2>4 DEF ReadInv
<1>8. CASE \/ e.is = "CertificateAuthorised" /\ ApplyAuthorised(e)
           \/ e.is = "CertificateRevoked" /\ ApplyRevoked(e)
  <2>1. \A i \in Inspection : e # Raised(i)
    BY <1>8 DEF Raised
  <2>2. UNCHANGED <<visit, finding, decided>>
    BY <1>8 DEF ApplyAuthorised, ApplyRevoked
  <2> QED
    BY <1>1, <2>1, <2>2 DEF ReadInv
<1> QED
  BY <1>2, <1>4, <1>5, <1>6, <1>7, <1>8 DEF Apply

-----------------------------------------------------------------------------
(* The steps, by what they do to the store and the read model               *)

Appends(e) ==
  /\ log' = Append(log, e)
  /\ UNCHANGED <<seen, visit, finding, decided, plan>>
  /\ command' \subseteq command
  /\ e.is = "FindingRaised" => ~InLog("InspectionSubmitted", e.of)
  /\ e.is = "CertificateAuthorised" => e \in command

Replans ==
  \/ plan' = plan
  \/ \E n \in Inspector : plan' = Add(plan, n)
  \/ \E a \in DOMAIN plan : MayCancel(plan, a) /\ plan' = Cancel(plan, a)

\* A certificate that is being issued has passed the checks of authorise().
Commands ==
  \A e \in command' :
    e.is = "CertificateAuthorised" =>
      \/ e \in command
      \/ \E p \in Person, i \in Inspection, c \in Certificate :
           Authorise(p, i, c) /\ e.on = i /\ e.by = p

Plans == UNCHANGED <<log, seen, visit, finding, decided>> /\ Replans /\ Commands

LEMMA Steps ==
  ASSUME TypeOK, [Next]_vars
  PROVE  (\E e \in Event : Appends(e)) \/ ApplyNext \/ Rebuild \/ Plans
<1>1. /\ command \subseteq CertificateEvent /\ bundle \in [Visitor -> Bundles]
      /\ CertificateEvent \subseteq Event
      /\ \A i \in Inspection : By[i] \in Visitor
  BY EventIs DEF TypeOK, Visitor
<1>2. ASSUME NEW i \in Inspection, StartVisit(i) \/ RaiseFinding(i) \/ SubmitVisit(i)
      PROVE  \E e \in Event : Appends(e)
  <2>1. CASE StartVisit(i)
    <3>1. Started(i, bundle[By[i]]) \in Event
      BY <1>1, EventIs
    <3> QED
      BY <2>1, <3>1 DEF StartVisit, Push, Appends, Started
  <2>2. CASE RaiseFinding(i)
    <3>1. Raised(i) \in Event
      BY EventIs
    <3> QED
      BY <2>2, <3>1 DEF RaiseFinding, Push, Appends, Raised
  <2>3. CASE SubmitVisit(i)
    <3>1. PICK b \in RatedBand : Push(Submitted(i, b))
      BY <2>3 DEF SubmitVisit, RatedBand
    <3>2. Submitted(i, b) \in Event
      BY EventIs
    <3> QED
      BY <3>1, <3>2 DEF Push, Appends, Submitted
  <2> QED
    BY <1>2, <2>1, <2>2, <2>3
<1>3. ASSUME NEW p \in Person, NEW i \in Inspection, VerifyClosure(p, i) \/ RecordDecision(p, i)
      PROVE  \E e \in Event : Appends(e)
  <2>1. CASE VerifyClosure(p, i)
    <3>1. Closed(i) \in Event
      BY EventIs
    <3> QED
      BY <2>1, <3>1 DEF VerifyClosure, Push, Appends, Closed
  <2>2. CASE RecordDecision(p, i)
    <3>1. Decided(i, p) \in Event
      BY EventIs
    <3> QED
      BY <2>2, <3>1 DEF RecordDecision, Push, Appends, Decided
  <2> QED
    BY <1>3, <2>1, <2>2
<1>4. ASSUME NEW e \in command, AppendCommand(e) PROVE Appends(e) /\ e \in Event
  BY <1>1, <1>4, CertificateEventIs DEF AppendCommand, Appends
<1>5. ASSUME NEW e \in command, CommandDies(e) PROVE Plans
  BY <1>5 DEF CommandDies, Plans, Replans, Commands, record
<1>6. ASSUME NEW p \in Person, NEW c \in Certificate, NEW i \in Inspection, Authorise(p, i, c)
      PROVE  Plans
  <2>1. PICK n \in FreeSerials : Begin(Authorised(c, i, p, n, today + Validity))
    BY <1>6 DEF Authorise
  <2>2. /\ command' = command \cup {Authorised(c, i, p, n, today + Validity)}
        /\ UNCHANGED <<log, seen, visit, finding, decided, plan>>
    BY <2>1 DEF Begin, record
  <2>3. /\ Authorised(c, i, p, n, today + Validity).on = i
        /\ Authorised(c, i, p, n, today + Validity).by = p
    BY DEF Authorised
  <2> HIDE <1>6
  <2>4. Commands
    BY <1>6, <2>2, <2>3 DEF Commands
  <2> QED
    BY <2>2, <2>4 DEF Plans, Replans
<1>7. ASSUME NEW p \in Person, NEW c \in Certificate, Revoke(p, c) PROVE Plans
  BY <1>7 DEF Revoke, Begin, Revoked, Plans, Replans, Commands, record
<1>8. ASSUME NEW p \in Person,
             \/ \E n \in Inspector : CreateAssignment(p, n) \/ CreateAssignments(p, n)
             \/ \E a \in DOMAIN plan : CancelAssignment(p, a)
      PROVE  Plans
  <2>1. Replans
    BY <1>8 DEF CreateAssignment, CreateAssignments, CancelAssignment, Replan, Replans
  <2>2. UNCHANGED <<log, seen, visit, finding, decided, command>>
    BY <1>8 DEF CreateAssignment, CreateAssignments, CancelAssignment, Replan
  <2> QED
    BY <2>1, <2>2 DEF Plans, Commands
<1>9. ASSUME (\E n \in Visitor : Bootstrap(n)) \/ Drafting \/ Publishing \/ DayPasses
              \/ UNCHANGED vars
      PROVE  Plans
  BY <1>9 DEF Bootstrap, Drafting, Publishing, DayPasses, vars, record, Plans, Replans, Commands
<1> QED
  BY <1>2, <1>3, <1>4, <1>5, <1>6, <1>7, <1>8, <1>9 DEF Next, Phone, Console

LEMMA ReadNext ==
  ASSUME TypeOK, ReadInv, [Next]_vars
  PROVE  ReadInv'
<1>1. ASSUME NEW e \in Event, Appends(e) PROVE ReadInv'
  BY <1>1, ProjectedStays, ReadKept DEF Appends
<1>2. CASE ApplyNext
  BY <1>2, ReadApply
<1>3. CASE Rebuild
  <2>1. /\ seen' = 0 /\ finding' = [i \in Inspection |-> "none"]
        /\ decided' = [i \in Inspection |-> "none"]
        /\ visit' = [i \in Inspection |-> NoVisit]
    BY <1>3 DEF Rebuild
  <2> QED
    BY <2>1 DEF ReadInv, Projected, NoVisit
<1>4. CASE Plans
  <2>1. UNCHANGED <<visit, finding, decided>> /\ \A x : Projected(x)' <=> Projected(x)
    BY <1>4 DEF Plans, Projected
  <2> QED
    BY <2>1, ReadKept
<1> QED
  BY <1>1, <1>2, <1>3, <1>4, Steps

-----------------------------------------------------------------------------
(* Certificates rest on clear ground                                        *)

\* A finding is in the store before the submission of its inspection.
OrderInv ==
  \A j, k \in 1..Len(log) :
    log[j].is = "FindingRaised" /\ log[k].is = "InspectionSubmitted" /\ log[j].of = log[k].of
      => j < k

\* What a certificate rests on.
Grounds(i, by) ==
  /\ "authorising_officer" \in RolesOf[by]
  /\ Recorded(Submitted(i, "satisfactory"))
  /\ Recorded(Decided(i, by))
  /\ Recorded(Raised(i)) => Recorded(Closed(i))

\* It is there when the event is on its way, however long that takes.
ClearInv ==
  \A e \in command : e.is = "CertificateAuthorised" => Grounds(e.on, e.by)

LEMMA RecordedMeans ==
  ASSUME TypeOK, NEW x
  PROVE  /\ Recorded(x) <=> \E j \in 1..Len(log) : log[j] = x
         /\ Before(Len(log) + 1, x) <=> Recorded(x)
         /\ Projected(x) => Recorded(x)
  BY DEF TypeOK, Recorded, Contains, Before, Projected

LEMMA OrderNext ==
  ASSUME TypeOK, OrderInv, [Next]_vars
  PROVE  OrderInv'
<1>1. log \in Seq(Event) /\ Len(log) \in Nat
  BY DEF TypeOK
<1>2. ASSUME NEW e \in Event, Appends(e) PROVE OrderInv'
  <2>1. /\ Len(log') = Len(log) + 1 /\ log'[Len(log) + 1] = e
        /\ \A k \in 1..Len(log) : log'[k] = log[k]
    BY <1>1, <1>2, LogGrows DEF Appends
  <2>2. e.is = "FindingRaised" =>
          \A k \in 1..Len(log) : ~(log[k].is = "InspectionSubmitted" /\ log[k].of = e.of)
    BY <1>2 DEF Appends, InLog
  <2>3. SUFFICES ASSUME NEW j \in 1..(Len(log) + 1), NEW k \in 1..(Len(log) + 1),
                        log'[j].is = "FindingRaised", log'[k].is = "InspectionSubmitted",
                        log'[j].of = log'[k].of
                 PROVE  j < k
    BY <2>1 DEF OrderInv
  <2>4. CASE j = Len(log) + 1
    <3>1. log'[j] = e /\ k # j /\ k \in 1..Len(log)
      BY <1>1, <2>1, <2>3, <2>4
    <3> QED
      BY <2>1, <2>2, <2>3, <3>1
  <2>5. CASE j # Len(log) + 1 /\ k # Len(log) + 1
    <3>1. j \in 1..Len(log) /\ k \in 1..Len(log)
      BY <1>1, <2>5
    <3> QED
      BY <2>1, <2>3, <3>1 DEF OrderInv
  <2>6. CASE j # Len(log) + 1 /\ k = Len(log) + 1
    BY <1>1, <2>6
  <2> QED
    BY <2>4, <2>5, <2>6
<1>3. CASE ApplyNext \/ Rebuild \/ Plans
  BY <1>3 DEF ApplyNext, Rebuild, Plans, OrderInv
<1> QED
  BY <1>2, <1>3, Steps

\* The checks of authorise(), made on the read model, hold of the store: a
\* finding the projector has not come to would have been recorded after the
\* submission it has.
LEMMA ChecksAreGrounds ==
  ASSUME TypeOK, ReadInv, OrderInv,
         NEW p \in Person, NEW i \in Inspection, NEW c \in Certificate, Authorise(p, i, c)
  PROVE  Grounds(i, p)
<1>1. /\ "authorising_officer" \in RolesOf[p]
      /\ visit[i].status = "submitted" /\ visit[i].band = "satisfactory"
      /\ decided[i] = p /\ finding[i] \in {"none", "closed"}
  BY DEF Authorise, May, Permits, InspectionRoutes, NoOpenFindings, RatingSupportsIssuance
<1>2. /\ Projected(Submitted(i, "satisfactory")) /\ Projected(Decided(i, p))
      /\ finding[i] = "none" => ~Projected(Raised(i))
      /\ finding[i] = "closed" => Projected(Closed(i))
  BY <1>1 DEF ReadInv
<1>3. ASSUME finding[i] = "none", Recorded(Raised(i)) PROVE FALSE
  <2>1. PICK j \in 1..Len(log) : log[j] = Raised(i)
    BY <1>3, RecordedMeans
  <2>2. PICK k \in 1..seen : log[k] = Submitted(i, "satisfactory")
    BY <1>2 DEF Projected
  <2>3. Len(log) \in Nat /\ seen \in 0..Len(log)
    BY DEF TypeOK
  <2>4. j < k
    <3>1. k \in 1..Len(log)
      BY <2>3
    <3>2. /\ log[j].is = "FindingRaised" /\ log[j].of = i
          /\ log[k].is = "InspectionSubmitted" /\ log[k].of = i
      BY <2>1, <2>2 DEF Raised, Submitted
    <3> QED
      BY <3>1, <3>2 DEF OrderInv
  <2>5. Projected(Raised(i))
    BY <2>1, <2>3, <2>4 DEF Projected
  <2> QED
    BY <1>2, <1>3, <2>5
<1> QED
  BY <1>1, <1>2, <1>3, RecordedMeans DEF Grounds

\* Nothing that is appended takes the grounds away: no finding follows the
\* submission.
LEMMA GroundsStay ==
  ASSUME TypeOK, NEW i \in Inspection, NEW by \in Person, Grounds(i, by),
         (\E e \in Event : Appends(e)) \/ log' = log
  PROVE  Grounds(i, by)'
<1>1. CASE log' = log
  BY <1>1 DEF Grounds, Recorded, Contains
<1>2. ASSUME NEW e \in Event, Appends(e) PROVE Grounds(i, by)'
  <2>1. \A x : Recorded(x)' <=> Recorded(x) \/ x = e
    BY <1>2, LogGrows DEF Appends, TypeOK
  <2>2. e # Raised(i)
    <3>1. PICK k \in 1..Len(log) : log[k] = Submitted(i, "satisfactory")
      BY RecordedMeans DEF Grounds
    <3>2. InLog("InspectionSubmitted", i)
      BY <3>1 DEF InLog, Submitted
    <3> QED
      BY <1>2, <3>2 DEF Appends, Raised
  <2> QED
    BY <2>1, <2>2 DEF Grounds
<1> QED
  BY <1>1, <1>2

LEMMA ClearNext ==
  ASSUME TypeOK, ReadInv, OrderInv, ClearInv, [Next]_vars
  PROVE  ClearInv'
<1>1. \A e \in command : e.is = "CertificateAuthorised" =>
        e.on \in Inspection /\ e.by \in Person
  BY EventFields, EventIs DEF TypeOK
<1>2. ASSUME NEW e \in Event, Appends(e) PROVE ClearInv'
  <2>1. command' \subseteq command
    BY <1>2 DEF Appends
  <2> QED
    BY <1>1, <1>2, <2>1, GroundsStay DEF ClearInv
<1>3. CASE Plans
  <2>1. log' = log /\ Commands
    BY <1>3 DEF Plans
  <2>2. \A i, by : Grounds(i, by)' <=> Grounds(i, by)
    BY <2>1 DEF Grounds, Recorded, Contains
  <2> QED
    BY <2>1, <2>2, ChecksAreGrounds DEF ClearInv, Commands
<1>4. CASE ApplyNext \/ Rebuild
  <2>1. UNCHANGED <<log, command>>
    BY <1>4 DEF ApplyNext, Rebuild
  <2> QED
    BY <2>1 DEF ClearInv, Grounds, Recorded, Contains
<1> QED
  BY <1>2, <1>3, <1>4, Steps

LEMMA CertifiedNext ==
  ASSUME TypeOK, ClearInv, CertifiedIsClear, [Next]_vars
  PROVE  CertifiedIsClear'
<1>1. log \in Seq(Event) /\ Len(log) \in Nat
  BY DEF TypeOK
<1>2. ASSUME NEW e \in Event, Appends(e) PROVE CertifiedIsClear'
  <2>1. /\ Len(log') = Len(log) + 1 /\ log'[Len(log) + 1] = e
        /\ \A k \in 1..Len(log) : log'[k] = log[k]
        /\ \A x : Recorded(x)' <=> Recorded(x) \/ x = e
    BY <1>1, <1>2, LogGrows DEF Appends
  <2>2. ASSUME NEW k \in 1..(Len(log) + 1), NEW x
        PROVE  (\E j \in 1..(k - 1) : log'[j] = x) <=> Before(k, x)
    <3>1. \A j \in 1..(k - 1) : j \in 1..Len(log)
      BY <1>1
    <3>2. \A j \in 1..(k - 1) : log'[j] = log[j]
      BY <2>1, <3>1
    <3> QED
      BY <3>2, Zenon DEF Before
  <2>3. \A x : Contains(log', x) <=> Recorded(x) \/ x = e
    BY <2>1 DEF Recorded
  <2>4. ASSUME NEW k \in 1..(Len(log) + 1), NEW d, d = log'[k], d.is = "CertificateAuthorised"
        PROVE  /\ "authorising_officer" \in RolesOf[d.by]
               /\ Before(k, Submitted(d.on, "satisfactory"))
               /\ Before(k, Decided(d.on, d.by))
               /\ Recorded(Raised(d.on)) => Before(k, Closed(d.on))
               /\ e # Raised(d.on)
    <3>1. CASE k = Len(log) + 1
      <4>1. e \in command /\ d = e /\ Grounds(e.on, e.by)
        BY <1>2, <2>1, <2>4, <3>1 DEF Appends, ClearInv
      <4>2. \A x : Before(k, x) <=> Recorded(x)
        BY <3>1, RecordedMeans
      <4>3. e # Raised(e.on)
        BY <2>4, <4>1 DEF Raised
      <4> QED
        BY <4>1, <4>2, <4>3 DEF Grounds
    <3>2. CASE k \in 1..Len(log)
      <4>1. d = log[k]
        BY <2>1, <2>4, <3>2
      <4>2. /\ "authorising_officer" \in RolesOf[d.by]
            /\ Before(k, Submitted(d.on, "satisfactory"))
            /\ Before(k, Decided(d.on, d.by))
            /\ Recorded(Raised(d.on)) => Before(k, Closed(d.on))
        BY <2>4, <3>2, <4>1 DEF CertifiedIsClear
      <4>3. e # Raised(d.on)
        <5>1. PICK j \in 1..Len(log) : log[j] = Submitted(d.on, "satisfactory")
          BY <1>1, <3>2, <4>2 DEF Before
        <5>2. InLog("InspectionSubmitted", d.on)
          BY <5>1 DEF InLog, Submitted
        <5> QED
          BY <1>2, <5>2 DEF Appends, Raised
      <4> QED
        BY <4>2, <4>3
    <3> QED
      BY <1>1, <3>1, <3>2
  <2>5. ASSUME NEW k \in 1..Len(log'), log'[k].is = "CertificateAuthorised"
        PROVE  /\ "authorising_officer" \in RolesOf[log'[k].by]
               /\ \E j \in 1..(k - 1) : log'[j] = Submitted(log'[k].on, "satisfactory")
               /\ \E j \in 1..(k - 1) : log'[j] = Decided(log'[k].on, log'[k].by)
               /\ Contains(log', Raised(log'[k].on)) =>
                    \E j \in 1..(k - 1) : log'[j] = Closed(log'[k].on)
    <3> DEFINE d == log'[k]
    <3>1. k \in 1..(Len(log) + 1)
      BY <2>1
    <3> HIDE DEF d
    <3>2. /\ "authorising_officer" \in RolesOf[d.by]
          /\ \E j \in 1..(k - 1) : log'[j] = Submitted(d.on, "satisfactory")
          /\ \E j \in 1..(k - 1) : log'[j] = Decided(d.on, d.by)
          /\ Contains(log', Raised(d.on)) => \E j \in 1..(k - 1) : log'[j] = Closed(d.on)
      BY <2>2, <2>3, <2>4, <2>5, <3>1 DEF d
    <3> QED
      BY <3>2 DEF d
  <2> QED
    BY <2>5 DEF CertifiedIsClear, Before, Recorded
<1>3. CASE ApplyNext \/ Rebuild \/ Plans
  BY <1>3 DEF ApplyNext, Rebuild, Plans, CertifiedIsClear, Before, Recorded, Contains
<1> QED
  BY <1>2, <1>3, Steps

ClearAll == TypeOK /\ ReadInv /\ OrderInv /\ ClearInv /\ CertifiedIsClear

LEMMA ClearInit == Init => ClearAll
<1> SUFFICES ASSUME Init PROVE ClearAll
  OBVIOUS
<1>1. Len(log) = 0 /\ command = {}
  BY DEF Init
<1> QED
  BY <1>1, OversightInit, ReadInit DEF ClearAll, OrderInv, ClearInv, CertifiedIsClear

LEMMA Cleared == Spec => []ClearAll
<1>1. ClearAll /\ [Next]_vars => ClearAll'
  BY NextTypes, ReadNext, OrderNext, ClearNext, CertifiedNext DEF ClearAll
<1> QED
  BY <1>1, ClearInit, PTL DEF Spec

\* A certificate in the store rests on a satisfactory inspection, the decision
\* of the officer who signs it and findings that are all closed, each recorded
\* before it, although the checks were made on a read model that may lag behind
\* the store and the event is appended later.
THEOREM CertificatesAreClear == Spec => []CertifiedIsClear
  BY Cleared, PTL DEF ClearAll

-----------------------------------------------------------------------------
(* Assignments are completed by the visits they stand for                   *)

Done(i) == \E band \in RatedBand : Recorded(Submitted(i, band))

PlanInv ==
  \A a \in DOMAIN plan :
    LET i == plan[a].visit
    IN  /\ i # "none" => plan[a].to = By[i]
        /\ plan[a].status = "completed" => i # "none" /\ Done(i)
        /\ i # "none" /\ visit[i].status = "submitted" => plan[a].status = "completed"

LEMMA DoneStays ==
  ASSUME TypeOK, NEW i, (\E e \in Event : log' = Append(log, e)) \/ log' = log, Done(i)
  PROVE  Done(i)'
<1>1. ASSUME NEW e \in Event, log' = Append(log, e) PROVE Done(i)'
  BY <1>1, LogGrows DEF Done, TypeOK
<1>2. CASE log' = log
  BY <1>2 DEF Done, Recorded, Contains
<1> QED
  BY <1>1, <1>2

LEMMA PlanNext ==
  ASSUME TypeOK, ReadInv, PlanInv, [Next]_vars
  PROVE  PlanInv'
<1>1. /\ plan \in Seq(Assignment) /\ ReadModelOK /\ Len(plan) \in Nat
      /\ DOMAIN plan = 1..Len(plan)
      /\ \A a \in DOMAIN plan : plan[a] \in Assignment
  <2>1. plan \in Seq(Assignment) /\ ReadModelOK
    BY DEF TypeOK, ReadModelOK, Assignment, VisitRow, CertRow
  <2> QED
    BY <2>1, LenProperties, ElementOfSeq
<1>2. ASSUME NEW e \in Event, Appends(e) PROVE PlanInv'
  <2>1. UNCHANGED <<plan, visit>> /\ log' = Append(log, e)
    BY <1>2 DEF Appends
  <2> QED
    BY <2>1, DoneStays DEF PlanInv
<1>3. CASE Plans
  <2>1. UNCHANGED <<log, visit>> /\ Replans
    BY <1>3 DEF Plans
  <2>2. \A i : Done(i)' <=> Done(i)
    BY <2>1 DEF Done, Recorded, Contains
  <2>3. CASE plan' = plan
    BY <2>1, <2>2, <2>3 DEF PlanInv
  <2>4. ASSUME NEW n \in Inspector, plan' = Add(plan, n) PROVE PlanInv'
    <3>1. /\ DOMAIN plan' = DOMAIN plan \cup {Len(plan) + 1}
          /\ \A a \in DOMAIN plan : plan'[a] = plan[a]
          /\ plan'[Len(plan) + 1] = Planned(n)
      <4>1. plan \in Seq(Assignment)
        BY <1>1
      <4> QED
        BY <4>1, <2>4, PlanAdded
    <3>2. Planned(n).visit = "none" /\ Planned(n).status = "planned"
      BY DEF Planned
    <3> QED
      BY <2>1, <2>2, <3>1, <3>2 DEF PlanInv
  <2>5. ASSUME NEW a \in DOMAIN plan, MayCancel(plan, a), plan' = Cancel(plan, a)
        PROVE  PlanInv'
    <3>1. /\ DOMAIN plan' = DOMAIN plan
          /\ \A b \in DOMAIN plan : b # a => plan'[b] = plan[b]
          /\ plan'[a].status = "cancelled"
          /\ plan'[a].to = plan[a].to /\ plan'[a].visit = plan[a].visit
          /\ plan[a].status = "planned"
      BY <1>1, <2>5, PlanCancelled DEF MayCancel
    <3> QED
      BY <2>1, <2>2, <3>1 DEF PlanInv
  <2> QED
    BY <2>1, <2>3, <2>4, <2>5 DEF Replans
<1>4. CASE Rebuild
  <2>1. UNCHANGED <<log, plan>> /\ visit' = [i \in Inspection |-> NoVisit]
    BY <1>4 DEF Rebuild
  <2>2. \A i : Done(i)' <=> Done(i)
    BY <2>1 DEF Done, Recorded, Contains
  <2>3. \A i \in Inspection : visit'[i].status # "submitted"
    BY <2>1 DEF NoVisit
  <2>4. \A a \in DOMAIN plan : plan[a].visit \in Inspection \cup {"none"}
    BY <1>1 DEF Assignment
  <2> QED
    BY <2>1, <2>2, <2>3, <2>4 DEF PlanInv
<1>5. CASE ApplyNext
  <2> DEFINE e == log[seen + 1]
  <2>1. /\ e \in Event /\ Apply(e) /\ log' = log
        /\ \A i : Done(i)' <=> Done(i)
    BY <1>5, ProjectedGrows DEF ApplyNext, Done, Recorded, Contains
  <2>2. Recorded(e)
    BY <1>5, RecordedMeans DEF ApplyNext, TypeOK
  <2> HIDE DEF e
  <2>3. CASE e.is = "InspectionStarted" /\ ApplyStarted(e)
    <3>1. e.of \in Inspection /\ By[e.of] \in Inspector
      BY <2>1, <2>3, EventFields
    <3>2. /\ DOMAIN plan' = DOMAIN plan
          /\ \A a \in DOMAIN plan :
               \/ plan'[a] = plan[a]
               \/ /\ plan'[a].visit = e.of /\ plan'[a].to = By[e.of]
                  /\ plan'[a].status = "planned"
      BY <1>1, <2>3, <3>1, PlanClaimed DEF ApplyStarted
    <3>3. visit'[e.of].status = "in_progress"
      BY <1>1, <2>3, <3>1 DEF ApplyStarted, ReadModelOK, NoVisit
    <3>4. \A i : i # e.of => visit'[i] = visit[i]
      BY <1>1, <2>3, <3>1 DEF ApplyStarted, ReadModelOK
    <3>5. ASSUME NEW a \in DOMAIN plan
          PROVE  LET i == plan'[a].visit
                 IN  /\ i # "none" => plan'[a].to = By[i]
                     /\ plan'[a].status = "completed" => i # "none" /\ Done(i)
                     /\ i # "none" /\ visit'[i].status = "submitted" =>
                          plan'[a].status = "completed"
      BY <3>1, <3>2, <3>3, <3>4 DEF PlanInv
    <3> QED
      BY <2>1, <3>2, <3>5 DEF PlanInv
  <2>4. CASE e.is = "InspectionSubmitted" /\ ApplySubmitted(e)
    <3>1. e.of \in Inspection /\ e.band \in RatedBand /\ e = Submitted(e.of, e.band)
      BY <2>1, <2>4, EventFields
    <3>2. Done(e.of)
      BY <2>2, <3>1 DEF Done
    <3>3. /\ DOMAIN plan' = DOMAIN plan
          /\ \A a \in DOMAIN plan :
               /\ plan'[a].to = plan[a].to /\ plan'[a].visit = plan[a].visit
               /\ plan[a].visit = e.of => plan'[a].status = "completed"
               /\ plan[a].visit # e.of => plan'[a] = plan[a]
      BY <1>1, <2>4, <3>1, PlanCompleted DEF ApplySubmitted
    <3>4. \A i : i # e.of => visit'[i] = visit[i]
      <4> DEFINE once == [visit EXCEPT ![e.of].status = "submitted"]
      <4>1. visit' = [once EXCEPT ![e.of] = [once[e.of] EXCEPT !.band = e.band]]
        BY <2>4 DEF ApplySubmitted
      <4>2. \A i : i # e.of => once[i] = visit[i]
        BY <1>1, <3>1 DEF ReadModelOK
      <4>3. once = [visit EXCEPT ![e.of] = [visit[e.of] EXCEPT !.status = "submitted"]]
        OBVIOUS
      <4>4. DOMAIN once = Inspection
        BY <1>1, <4>3 DEF ReadModelOK
      <4> HIDE DEF once
      <4> QED
        BY <3>1, <4>1, <4>2, <4>4
    <3>5. ASSUME NEW a \in DOMAIN plan
          PROVE  LET i == plan'[a].visit
                 IN  /\ i # "none" => plan'[a].to = By[i]
                     /\ plan'[a].status = "completed" => i # "none" /\ Done(i)
                     /\ i # "none" /\ visit'[i].status = "submitted" =>
                          plan'[a].status = "completed"
      BY <3>1, <3>2, <3>3, <3>4 DEF PlanInv
    <3> QED
      BY <2>1, <3>3, <3>5 DEF PlanInv
  <2>5. CASE UNCHANGED <<plan, visit>>
    BY <2>1, <2>5 DEF PlanInv
  <2> QED
    BY <2>1, <2>3, <2>4, <2>5
       DEF Apply, ApplyFinding, ApplyDecided, ApplyAuthorised, ApplyRevoked
<1> QED
  BY <1>2, <1>3, <1>4, <1>5, Steps

\* An assignment is completed by a submitted inspection of the inspector it was
\* given to, and every one a submitted inspection has claimed is completed,
\* whatever is cancelled, planned again or rebuilt.
THEOREM AssignmentsAreVisited == Spec => []CompletedWasVisited
<1>1. Init => PlanInv
  BY DEF Init, PlanInv
<1>2. ClearAll /\ PlanInv /\ [Next]_vars => PlanInv'
  BY PlanNext DEF ClearAll
<1>3. ClearAll /\ PlanInv => CompletedWasVisited
  BY DEF PlanInv, CompletedWasVisited, Done, RatedBand
<1> QED
  BY <1>1, <1>2, <1>3, Cleared, PTL DEF Spec

-----------------------------------------------------------------------------
(* The ranking                                                              *)

LEMMA MaxOfOne == ASSUME NEW x \in Int PROVE Max({x}) = x
  BY DEF Max

LEMMA MaxOfTwo ==
  ASSUME NEW x \in Int, NEW y \in Int
  PROVE  Max({x, y}) = IF x >= y THEN x ELSE y
<1> DEFINE m == IF x >= y THEN x ELSE y
<1>1. m \in {x, y} /\ \A z \in {x, y} : m >= z
  OBVIOUS
<1>2. ASSUME NEW n \in {x, y}, \A z \in {x, y} : n >= z PROVE n = m
  BY <1>2
<1> HIDE DEF m
<1>3. m = CHOOSE n \in {x, y} : \A z \in {x, y} : n >= z
  BY <1>1, <1>2
<1> QED
  BY <1>3 DEF Max, m

LEMMA MinOfTwo ==
  ASSUME NEW x \in Int, NEW y \in Int
  PROVE  Min({x, y}) = IF x <= y THEN x ELSE y
<1> DEFINE m == IF x <= y THEN x ELSE y
<1>1. m \in {x, y} /\ \A z \in {x, y} : m <= z
  OBVIOUS
<1>2. ASSUME NEW n \in {x, y}, \A z \in {x, y} : n <= z PROVE n = m
  BY <1>2
<1> HIDE DEF m
<1>3. m = CHOOSE n \in {x, y} : \A z \in {x, y} : n <= z
  BY <1>1, <1>2
<1> QED
  BY <1>3 DEF Min, m

\* What a facility is ranked by.
IsInput(in) ==
  /\ in.months = {} \/ \E m \in Nat : in.months = {m}
  /\ in.cert = {} \/ \E d \in Int : in.cert = {d}
  /\ in.open \in Nat /\ in.overdue \in Nat
  /\ in.months = {} <=> in.bands = <<>>
  /\ in.bands # <<>> =>
       Head(in.bands) \in {"satisfactory", "needs_improvement", "critical_issues"}

LEMMA Inputs == \A in \in RiskInput : IsInput(in)
  BY RiskAssumption DEF IsInput

\* The points, and how many there are of each kind at most.
LEMMA VisitPointsAre ==
  ASSUME NEW in
  PROVE  /\ in.months = {} => VisitPoints(in) = 60
         /\ \A m \in Nat : in.months = {m} =>
              VisitPoints(in) = IF m <= 12 THEN 0 ELSE IF m >= 24 THEN 12 ELSE m - 12
<1>1. ASSUME NEW m \in Nat, in.months = {m}
      PROVE  VisitPoints(in) = IF m <= 12 THEN 0 ELSE IF m >= 24 THEN 12 ELSE m - 12
  <2>1. Max(in.months) = m /\ in.months # {}
    BY <1>1, MaxOfOne
  <2>2. Max({0, m - 12}) = IF 0 >= m - 12 THEN 0 ELSE m - 12
    BY MaxOfTwo
  <2> DEFINE over == Max({0, m - 12})
  <2>3. over \in Int /\ over * 1 = over
    BY <2>2
  <2>4. Min({12, over}) = IF 12 <= over THEN 12 ELSE over
    <3> HIDE DEF over
    <3> QED
      BY <2>3, MinOfTwo
  <2>5. VisitPoints(in) = Min({12, over})
    <3>1. VisitPoints(in) = Min({12, Max({0, m - 12}) * 1})
      BY <2>1 DEF VisitPoints, Weights, CycleTargetMonths
    <3> QED
      BY <2>3, <3>1
  <2> QED
    BY <2>2, <2>4, <2>5
<1>2. in.months = {} => VisitPoints(in) = 60
  BY DEF VisitPoints, Weights
<1> QED
  BY <1>1, <1>2

LEMMA RatingPointsAre ==
  ASSUME NEW in
  PROVE  /\ RatingPoints(in) \in {0, 25, 40}
         /\ in.bands = <<>> => RatingPoints(in) = 0
         /\ in.bands # <<>> /\ Head(in.bands) = "critical_issues" => RatingPoints(in) = 40
         /\ in.bands # <<>> /\ Head(in.bands) = "satisfactory" => RatingPoints(in) = 0
<1>1. Head(<<"needs_improvement", "needs_improvement">>) = "needs_improvement"
  OBVIOUS
<1> DEFINE critical == in.bands # <<>> /\ Head(in.bands) = "critical_issues"
           twice == in.bands = <<"needs_improvement", "needs_improvement">>
<1>2. RatingPoints(in) = CASE critical -> 40 [] twice -> 25 [] OTHER -> 0
  BY DEF RatingPoints, Weights
<1>3. /\ ~(critical /\ twice)
      /\ in.bands = <<>> => ~critical /\ ~twice
      /\ Head(in.bands) = "satisfactory" => ~critical /\ ~twice
      /\ in.bands # <<>> /\ Head(in.bands) = "critical_issues" => critical
  BY <1>1
<1> HIDE DEF critical, twice
<1>4. /\ critical => RatingPoints(in) = 40
      /\ twice => RatingPoints(in) = 25
      /\ ~critical /\ ~twice => RatingPoints(in) = 0
  BY <1>2, <1>3
<1> QED
  BY <1>3, <1>4

LEMMA CertPointsAre ==
  ASSUME NEW in
  PROVE  /\ in.cert = {} => CertPoints(in) = 0
         /\ \A d \in Int : in.cert = {d} =>
              CertPoints(in) = IF d < 0 THEN 30 ELSE IF d <= 30 THEN 15 ELSE 0
<1>1. ASSUME NEW d \in Int, in.cert = {d}
      PROVE  CertPoints(in) = IF d < 0 THEN 30 ELSE IF d <= 30 THEN 15 ELSE 0
  <2>1. Max(in.cert) = d /\ in.cert # {}
    BY <1>1, MaxOfOne
  <2> QED
    BY <2>1 DEF CertPoints, Weights
<1>2. in.cert = {} => CertPoints(in) = 0
  BY DEF CertPoints, Weights
<1> QED
  BY <1>1, <1>2

\* The ranking asks nothing the weights do not answer in this order.
LEMMA WorseScoresHigher ==
  ASSUME NEW a, IsInput(a), NEW b, IsInput(b), Worse(a, b)
  PROVE  FacilityRisk(a) >= FacilityRisk(b)
<1> DEFINE va == VisitPoints(a)  ra == RatingPoints(a)  fa == FindingPoints(a)
           ca == CertPoints(a)
           vb == VisitPoints(b)  rb == RatingPoints(b)  fb == FindingPoints(b)
           cb == CertPoints(b)
<1>1. va + ra \in Int /\ vb + rb \in Int /\ va + ra >= vb + rb
  <2>1. ra \in {0, 25, 40} /\ rb \in {0, 25, 40}
    BY RatingPointsAre
  <2>2. CASE a.months = {}
    <3>1. va = 60 /\ ra = 0
      BY <2>2, VisitPointsAre, RatingPointsAre DEF IsInput
    <3>2. CASE b.months = {}
      <4>1. vb = 60 /\ rb = 0
        BY <3>2, VisitPointsAre, RatingPointsAre DEF IsInput
      <4> QED
        BY <3>1, <4>1
    <3>3. ASSUME NEW m \in Nat, b.months = {m}
          PROVE  vb \in Int /\ vb <= 12
      BY <3>3, VisitPointsAre
    <3> HIDE DEF va, ra, vb, rb
    <3> QED
      BY <2>1, <3>1, <3>2, <3>3 DEF IsInput
  <2>3. CASE a.months # {}
    <3>1. PICK m \in Nat, n \in Nat : a.months = {m} /\ b.months = {n}
      BY <2>3 DEF IsInput, Worse, LongerUnseen
    <3>2. m >= n
      BY <2>3, <3>1, MaxOfOne DEF Worse, LongerUnseen
    <3>3. va \in Int /\ vb \in Int /\ va >= vb
      BY <3>1, <3>2, VisitPointsAre
    <3>4. ra >= rb
      <4>1. \/ a.bands = b.bands
            \/ b.bands # <<>> /\ (Head(a.bands) = "critical_issues" \/ Head(b.bands) = "satisfactory")
        BY <2>3 DEF Worse, WorseRated
      <4>2. CASE a.bands = b.bands
        <5>1. ra = rb
          BY <4>2 DEF RatingPoints
        <5> QED
          BY <2>1, <5>1
      <4>3. CASE b.bands # <<>> /\ Head(b.bands) = "satisfactory"
        BY <2>1, <4>3, RatingPointsAre
      <4>4. CASE b.bands # <<>> /\ Head(a.bands) = "critical_issues" /\ a.bands # <<>>
        BY <2>1, <4>4, RatingPointsAre
      <4> QED
        BY <2>3, <4>1, <4>2, <4>3, <4>4 DEF IsInput
    <3> HIDE DEF va, ra, vb, rb
    <3> QED
      BY <2>1, <3>3, <3>4
  <2> QED
    BY <2>2, <2>3
<1>2. fa \in Int /\ fb \in Int /\ fa >= fb
  <2>1. fa = a.open * 8 + a.overdue * 12 /\ fb = b.open * 8 + b.overdue * 12
    BY DEF FindingPoints, Weights
  <2>2. /\ a.open \in Nat /\ a.overdue \in Nat /\ b.open \in Nat /\ b.overdue \in Nat
        /\ a.open >= b.open /\ a.overdue >= b.overdue
    BY DEF Worse, WorseFindings, IsInput
  <2> HIDE DEF fa, fb
  <2> QED
    BY <2>1, <2>2
<1>3. ca \in Int /\ cb \in Int /\ ca >= cb
  <2>1. CASE a.cert = b.cert
    <3>1. ca = cb
      BY <2>1 DEF CertPoints
    <3>2. ca \in Int
      BY CertPointsAre DEF IsInput
    <3> HIDE DEF ca, cb
    <3> QED
      BY <3>1, <3>2
  <2>2. CASE a.cert # b.cert
    <3>1. PICK d \in Int, f \in Int : a.cert = {d} /\ b.cert = {f}
      BY <2>2 DEF IsInput, Worse, SoonerLapsed
    <3>2. d <= f
      BY <2>2, <3>1, MaxOfOne DEF Worse, SoonerLapsed
    <3> QED
      BY <3>1, <3>2, CertPointsAre
  <2> QED
    BY <2>1, <2>2
<1> DEFINE sa == va + ra + fa + ca  sb == vb + rb + fb + cb
<1>4. sa \in Int /\ sb \in Int /\ sa >= sb
  <2> HIDE DEF fa, ca, fb, cb
  <2> DEFINE x == va + ra  y == vb + rb
  <2> HIDE DEF x, y
  <2> QED
    BY <1>1, <1>2, <1>3 DEF x, y
<1>5. FacilityRisk(a) = Min({100, sa}) /\ FacilityRisk(b) = Min({100, sb})
  BY DEF FacilityRisk
<1> HIDE DEF sa, sb
<1> QED
  BY <1>4, <1>5, MinOfTwo

\* The suggestions go by need: whoever is worse off in every respect is not
\* ranked behind, on whatever facilities the ranking is looked at.
THEOREM SuggestionsRankByNeed == RanksByNeed
  BY Inputs, WorseScoresHigher DEF RanksByNeed

\* A set of naturals has a least element, and one below a bound a greatest.
LEMMA LeastOfNats ==
  ASSUME NEW S, S \subseteq Nat, S # {}
  PROVE  \E x \in S : \A y \in S : x <= y
<1>1. \E x \in S : \A y \in S : ~(<<y, x>> \in OpToRel(<, Nat))
  BY WFMin, NatLessThanWellFounded, Zenon
<1>2. \E x \in S : \A y \in S : ~(y < x)
  BY <1>1, Zenon DEF OpToRel
<1> QED
  BY <1>2

LEMMA GreatestOfNats ==
  ASSUME NEW S, NEW bound \in Nat, S \subseteq 0..bound, S # {}
  PROVE  Max(S) \in S /\ \A y \in S : Max(S) >= y
<1> DEFINE below == {n \in Nat : bound - n \in S}
<1>1. below \subseteq Nat /\ below # {}
  <2>1. PICK s \in S : TRUE
    OBVIOUS
  <2>2. bound - s \in below
    <3>1. bound - s \in Nat /\ bound - (bound - s) = s
      OBVIOUS
    <3> QED
      BY <3>1
  <2> QED
    BY <2>2
<1>2. PICK x \in below : \A y \in below : x <= y
  BY <1>1, LeastOfNats
<1>3. bound - x \in S /\ x \in Nat
  BY <1>2
<1>4. ASSUME NEW s \in S PROVE bound - x >= s
  <2>1. bound - s \in Nat /\ bound - (bound - s) = s
    OBVIOUS
  <2>2. bound - s \in below
    BY <2>1
  <2>3. x <= bound - s
    BY <1>2, <2>2
  <2> QED
    BY <1>3, <2>1, <2>3
<1>5. \E m \in S : \A y \in S : m >= y
  BY <1>3, <1>4
<1> QED
  BY <1>5 DEF Max

-----------------------------------------------------------------------------
(* Who needs a visit is suggested one                                       *)

\* Each kind of need is worth something by itself, and none takes from another.
LEMMA AnyNeedSuggests ==
  ASSUME NEW in, in.open \in Nat, in.overdue \in Nat,
         in.months = {} \/ in.months = {0},
         in.cert = {} \/ \E d \in Int : in.cert = {d},
         \/ in.months = {} \/ in.open > 0
         \/ \E d \in Int : in.cert = {d} /\ d < 0
  PROVE  Suggested(in)
<1> DEFINE v == VisitPoints(in)  r == RatingPoints(in)  f == FindingPoints(in)
           c == CertPoints(in)
<1>1. v \in Nat /\ (in.months = {} => v = 60)
  BY VisitPointsAre
<1>2. r \in Nat
  BY RatingPointsAre
<1>3. f \in Nat /\ (in.open > 0 => f > 0)
  <2>1. f = in.open * 8 + in.overdue * 12
    BY DEF FindingPoints, Weights
  <2> HIDE DEF f
  <2> QED
    BY <2>1
<1>4. c \in Nat /\ ((\E d \in Int : in.cert = {d} /\ d < 0) => c = 30)
  BY CertPointsAre
<1>5. FacilityRisk(in) = Min({100, v + r + f + c})
  BY DEF FacilityRisk
<1> HIDE DEF v, r, f, c
<1>6. v + r + f + c \in Int /\ v + r + f + c > 0
  BY <1>1, <1>2, <1>3, <1>4
<1> QED
  BY <1>5, <1>6, MinOfTwo DEF Suggested

\* What the projector has caught up with: an open finding is open in the read
\* model, and what was not submitted is not submitted there.
LEMMA CaughtUp ==
  ASSUME TypeOK, ReadInv, seen = Len(log), NEW i \in Inspection
  PROVE  /\ Recorded(Raised(i)) /\ ~Recorded(Closed(i)) => finding[i] = "open"
         /\ ~InLog("InspectionSubmitted", i) => visit[i].status # "submitted"
<1>1. \A x : Projected(x) <=> Recorded(x)
  BY RecordedMeans DEF Projected
<1>2. finding[i] \in {"none", "open", "closed"}
  BY DEF TypeOK
<1>3. ASSUME visit[i].status = "submitted" PROVE InLog("InspectionSubmitted", i)
  <2>1. PICK k \in 1..seen : log[k] = Submitted(i, visit[i].band)
    BY <1>3 DEF ReadInv, Projected
  <2> QED
    BY <2>1 DEF InLog, Submitted
<1> QED
  BY <1>1, <1>2, <1>3 DEF ReadInv

LEMMA KnownIs ==
  ASSUME TypeOK
  PROVE  LET valid == {c \in Certificate : cert[c].status = "valid"}
             open == {i \in Inspection : finding[i] = "open"}
         IN  /\ Known.months = IF \A i \in Inspection : visit[i].status # "submitted"
                               THEN {} ELSE {0}
             /\ Known.open \in Nat /\ Known.overdue = 0
             /\ open # {} => Known.open > 0
             /\ valid = {} => Known.cert = {}
             /\ valid # {} => \E c \in valid :
                  /\ \A d \in valid : cert[c].to >= cert[d].to
                  /\ Known.cert = {cert[c].to - today} /\ cert[c].to - today \in Int
<1> DEFINE valid == {c \in Certificate : cert[c].status = "valid"}
           open == {i \in Inspection : finding[i] = "open"}
           ends == {cert[c].to : c \in valid}
<1>1. Known.months = IF \A i \in Inspection : visit[i].status # "submitted"
                     THEN {} ELSE {0}
  BY DEF Known
<1>2. Known.open = Cardinality(open) /\ Known.overdue = 0
  BY DEF Known
<1>3. IsFiniteSet(open)
  BY FS_Subset
<1>4. Cardinality(open) \in Nat /\ (open # {} => Cardinality(open) > 0)
  BY <1>3, FS_CardinalityType, FS_EmptySet
<1>5. Known.cert = IF valid = {} THEN {} ELSE {Max(ends) - today}
  BY DEF Known
<1>6. ASSUME valid # {}
      PROVE  \E c \in valid : /\ \A d \in valid : cert[c].to >= cert[d].to
                              /\ Max(ends) = cert[c].to /\ cert[c].to - today \in Int
  <2>1. ends \subseteq 0..(LastDay + Validity) /\ ends # {} /\ today \in Int
    <3>1. \A c \in valid : cert[c].to \in 0..(LastDay + Validity)
      BY DEF TypeOK
    <3>2. today \in Int
      BY DEF TypeOK
    <3> QED
      BY <1>6, <3>1, <3>2
  <2>2. LastDay + Validity \in Nat
    OBVIOUS
  <2>3. Max(ends) \in ends /\ \A y \in ends : Max(ends) >= y
    <3> HIDE DEF ends
    <3> QED
      BY <2>1, <2>2, GreatestOfNats
  <2>4. (\E c \in valid : Max(ends) = cert[c].to) /\ \A d \in valid : cert[d].to \in ends
    <3>1. \A x \in ends : \E c \in valid : x = cert[c].to
      OBVIOUS
    <3> QED
      BY <2>3, <3>1
  <2>5. PICK c \in valid : Max(ends) = cert[c].to
    BY <2>4
  <2>6. cert[c].to - today \in Int
    <3>1. cert[c].to \in 0..(LastDay + Validity)
      BY DEF TypeOK
    <3> QED
      BY <2>1, <3>1
  <2>7. \A d \in valid : cert[c].to >= cert[d].to
    <3> HIDE DEF ends
    <3> QED
      BY <2>3, <2>4, <2>5
  <2> QED
    BY <2>5, <2>6, <2>7
<1> QED
  BY <1>1, <1>2, <1>4, <1>5, <1>6

LEMMA NeedyAreSuggested ==
  ASSUME TypeOK, ReadInv
  PROVE  NeedIsSuggested
<1> DEFINE valid == {c \in Certificate : cert[c].status = "valid"}
<1>1. ASSUME seen = Len(log),
             \/ \A i \in Inspection : ~InLog("InspectionSubmitted", i)
             \/ \E i \in Inspection : Recorded(Raised(i)) /\ ~Recorded(Closed(i))
             \/ Verify(Certificate) = {} /\ \E c \in Certificate : cert[c].status = "valid"
      PROVE  Suggested(Known)
  <2>1. /\ Known.open \in Nat /\ Known.overdue \in Nat
        /\ Known.months = {} \/ Known.months = {0}
        /\ Known.cert = {} \/ \E d \in Int : Known.cert = {d}
    BY KnownIs
  <2>2. CASE \A i \in Inspection : ~InLog("InspectionSubmitted", i)
    <3>1. Known.months = {}
      BY <1>1, <2>2, CaughtUp, KnownIs
    <3> QED
      BY <2>1, <3>1, AnyNeedSuggests
  <2>3. CASE \E i \in Inspection : Recorded(Raised(i)) /\ ~Recorded(Closed(i))
    <3>1. \E i \in Inspection : finding[i] = "open"
      BY <1>1, <2>3, CaughtUp
    <3>2. Known.open > 0
      BY <3>1, KnownIs
    <3> QED
      BY <2>1, <3>2, AnyNeedSuggests
  <2>4. CASE Verify(Certificate) = {} /\ \E c \in Certificate : cert[c].status = "valid"
    <3>1. valid # {}
      BY <2>4
    <3>2. PICK c \in valid : /\ \A d \in valid : cert[c].to >= cert[d].to
                            /\ Known.cert = {cert[c].to - today}
                            /\ cert[c].to - today \in Int
      BY <3>1, KnownIs
    <3>3. ~(cert[c].to >= today)
      BY <2>4, <3>2 DEF Verify, PublicCertificateView
    <3>4. cert[c].to - today < 0
      <4>1. cert[c].to \in 0..(LastDay + Validity) /\ today \in 0..LastDay
        BY <3>2 DEF TypeOK
      <4> QED
        BY <3>3, <4>1
    <3> QED
      BY <2>1, <3>2, <3>4, AnyNeedSuggests
  <2> QED
    BY <1>1, <2>2, <2>3, <2>4
<1> QED
  BY <1>1, SuggestionsRankByNeed DEF NeedIsSuggested

\* Nobody who needs a visit is missing from the suggestions once the projector
\* has caught up: not a facility nobody has finished inspecting, not one with an
\* open finding, not one whose last valid certificate has run out.
THEOREM TheNeedyAreSuggested == Spec => []NeedIsSuggested
  BY Cleared, NeedyAreSuggested, PTL DEF ClearAll

-----------------------------------------------------------------------------
(* The list of changes a regulator is shown before publishing.              *)

LEMMA FlattenFields ==
  ASSUME NEW s, NEW r \in DOMAIN s.checkpoints
  PROVE  /\ Flatten(s)[r].promptEn = s.checkpoints[r].promptEn
         /\ Flatten(s)[r].weight = s.checkpoints[r].weight
         /\ Flatten(s)[r].severityOnFail = s.checkpoints[r].severityOnFail
  BY DEF Flatten

\* What the comparison looks at is told apart by its three fields.
LEMMA FlattenEqual ==
  ASSUME NEW s, NEW t, DOMAIN s.checkpoints = DOMAIN t.checkpoints,
         \A r \in DOMAIN s.checkpoints :
           /\ Flatten(s)[r].promptEn = Flatten(t)[r].promptEn
           /\ Flatten(s)[r].weight = Flatten(t)[r].weight
           /\ Flatten(s)[r].severityOnFail = Flatten(t)[r].severityOnFail
  PROVE  Flatten(s) = Flatten(t)
  BY FlattenFields DEF Flatten

LEMMA FlattenDomain == \A s : DOMAIN Flatten(s) = DOMAIN s.checkpoints
  BY DEF Flatten

LEMMA NothingMoved ==
  ASSUME NEW s, NEW t, NEW field
  PROVE  Moved(s, t, field) = {} <=>
           \A r \in Kept(s, t) : Flatten(s)[r][field] = Flatten(t)[r][field]
<1> DEFINE Differ == {q \in Kept(s, t) : Flatten(s)[q][field] # Flatten(t)[q][field]}
           Entry(q) == [ref |-> q, before |-> Flatten(s)[q][field], after |-> Flatten(t)[q][field]]
<1>1. Moved(s, t, field) = {Entry(q) : q \in Differ}
  BY DEF Moved
<1>2. Differ = {} <=> \A r \in Kept(s, t) : Flatten(s)[r][field] = Flatten(t)[r][field]
  OBVIOUS
<1> HIDE DEF Differ, Entry
<1>3. {Entry(q) : q \in Differ} = {} <=> Differ = {}
  OBVIOUS
<1> QED
  BY <1>1, <1>2, <1>3

LEMMA NothingOnlyIn ==
  ASSUME NEW s, NEW t
  PROVE  OnlyIn(s, t) = {} <=> DOMAIN Flatten(s) \subseteq DOMAIN Flatten(t)
<1> DEFINE Only == DOMAIN Flatten(s) \ DOMAIN Flatten(t)
           Entry(q) == [ref |-> q, promptEn |-> Flatten(s)[q].promptEn]
<1>1. OnlyIn(s, t) = {Entry(q) : q \in Only}
  BY DEF OnlyIn
<1>2. Only = {} <=> DOMAIN Flatten(s) \subseteq DOMAIN Flatten(t)
  OBVIOUS
<1> HIDE DEF Only, Entry
<1>3. {Entry(q) : q \in Only} = {} <=> Only = {}
  OBVIOUS
<1> QED
  BY <1>1, <1>2, <1>3

LEMMA EmptyList ==
  ASSUME NEW s, NEW t
  PROVE  Changes(s, t) = NoChanges <=>
           /\ s.bands = t.bands
           /\ OnlyIn(s, t) = {} /\ OnlyIn(t, s) = {}
           /\ \A field \in {"promptEn", "weight", "severityOnFail"} : Moved(s, t, field) = {}
  BY DEF Changes, NoChanges

\* The list shown before publishing is empty for exactly the drafts whose
\* thresholds, refs, English prompts, weights and severities are those of the
\* version in force (diffStructures).
THEOREM NothingListed ==
  ASSUME NEW from, NEW to
  PROVE  Changes(from, to) = NoChanges <=>
           from.bands = to.bands /\ Flatten(from) = Flatten(to)
<1>1. ASSUME from.bands = to.bands, Flatten(from) = Flatten(to)
      PROVE  Changes(from, to) = NoChanges
  BY <1>1, EmptyList, NothingMoved, NothingOnlyIn
<1>2. ASSUME Changes(from, to) = NoChanges
      PROVE  from.bands = to.bands /\ Flatten(from) = Flatten(to)
  <2>1. DOMAIN Flatten(from) = DOMAIN Flatten(to)
    BY <1>2, EmptyList, NothingOnlyIn
  <2>2. \A r \in Kept(from, to), field \in {"promptEn", "weight", "severityOnFail"} :
          Flatten(from)[r][field] = Flatten(to)[r][field]
    BY <1>2, EmptyList, NothingMoved
  <2>3. \A r \in DOMAIN from.checkpoints :
           /\ Flatten(from)[r].promptEn = Flatten(to)[r].promptEn
           /\ Flatten(from)[r].weight = Flatten(to)[r].weight
           /\ Flatten(from)[r].severityOnFail = Flatten(to)[r].severityOnFail
    BY <2>1, <2>2, FlattenDomain DEF Kept
  <2>4. Flatten(from) = Flatten(to)
    BY <2>1, <2>3, FlattenDomain, FlattenEqual
  <2> QED
    BY <1>2, <2>4, EmptyList
<1> QED
  BY <1>1, <1>2

LEMMA MovedTells ==
  ASSUME NEW s, NEW t, NEW u, NEW field,
         Kept(s, t) = Kept(s, u), Moved(s, t, field) = Moved(s, u, field),
         NEW r \in Kept(s, t)
  PROVE  Flatten(t)[r][field] = Flatten(u)[r][field]
<1> DEFINE Entry(v, q) ==
      [ref |-> q, before |-> Flatten(s)[q][field], after |-> Flatten(v)[q][field]]
<1>1. ASSUME NEW v, NEW w, Kept(s, v) = Kept(s, w), Moved(s, v, field) = Moved(s, w, field),
             r \in Kept(s, v), Flatten(s)[r][field] # Flatten(v)[r][field]
      PROVE  Flatten(v)[r][field] = Flatten(w)[r][field]
  <2>1. Entry(v, r) \in Moved(s, w, field)
    BY <1>1 DEF Moved
  <2>2. PICK q \in Kept(s, w) : Entry(v, r) = Entry(w, q)
    BY <2>1 DEF Moved
  <2> QED
    BY <2>2
<1>2. CASE Flatten(s)[r][field] # Flatten(t)[r][field]
  BY <1>1, <1>2
<1>3. CASE Flatten(s)[r][field] # Flatten(u)[r][field]
  <2>1. Flatten(u)[r][field] = Flatten(t)[r][field]
    BY <1>1, <1>3
  <2> QED
    BY <2>1
<1> QED
  BY <1>2, <1>3

\* The list says where a ref was added, and with which English prompt.
LEMMA OnlyInTells ==
  ASSUME NEW s, NEW t, NEW u, NEW v, OnlyIn(s, t) = OnlyIn(u, v),
         NEW r \in DOMAIN Flatten(s) \ DOMAIN Flatten(t)
  PROVE  /\ r \in DOMAIN Flatten(u) \ DOMAIN Flatten(v)
         /\ Flatten(s)[r].promptEn = Flatten(u)[r].promptEn
<1> DEFINE Entry(w, q) == [ref |-> q, promptEn |-> Flatten(w)[q].promptEn]
<1>1. Entry(s, r) \in OnlyIn(u, v)
  BY DEF OnlyIn
<1>2. PICK q \in DOMAIN Flatten(u) \ DOMAIN Flatten(v) : Entry(s, r) = Entry(u, q)
  BY <1>1 DEF OnlyIn
<1> QED
  BY <1>2

\* Two drafts with the same list have the same thresholds and refs, agree on
\* what they show of every checkpoint the version in force has, and on the
\* English prompts of the ones they add; of a checkpoint they add, the weight
\* and the severity are not in the list.
THEOREM ListDetermines ==
  ASSUME NEW from, NEW one, NEW other, Changes(from, one) = Changes(from, other)
  PROVE  /\ one.bands = other.bands
         /\ DOMAIN one.checkpoints = DOMAIN other.checkpoints
         /\ \A r \in DOMAIN one.checkpoints :
              /\ one.checkpoints[r].promptEn = other.checkpoints[r].promptEn
              /\ r \in DOMAIN from.checkpoints => Flatten(one)[r] = Flatten(other)[r]
<1>1. /\ OnlyIn(from, one) = OnlyIn(from, other) /\ OnlyIn(one, from) = OnlyIn(other, from)
      /\ \A field \in {"promptEn", "weight", "severityOnFail"} :
           Moved(from, one, field) = Moved(from, other, field)
  BY DEF Changes
<1>2. one.bands = other.bands
  <2>1. (IF from.bands = one.bands THEN {} ELSE {[before |-> from.bands, after |-> one.bands]})
        = (IF from.bands = other.bands THEN {} ELSE {[before |-> from.bands, after |-> other.bands]})
    BY DEF Changes
  <2>2. CASE from.bands = one.bands
    BY <2>1, <2>2
  <2>3. CASE from.bands = other.bands
    BY <2>1, <2>3
  <2>4. CASE from.bands # one.bands /\ from.bands # other.bands
    <3>1. [before |-> from.bands, after |-> one.bands] = [before |-> from.bands, after |-> other.bands]
      BY <2>1, <2>4
    <3> QED
      BY <3>1
  <2> QED
    BY <2>2, <2>3, <2>4
<1>3. \A r : r \in DOMAIN Flatten(one) \ DOMAIN Flatten(from)
               <=> r \in DOMAIN Flatten(other) \ DOMAIN Flatten(from)
  BY <1>1, OnlyInTells
<1>4. \A r : r \in DOMAIN Flatten(from) \ DOMAIN Flatten(one)
               <=> r \in DOMAIN Flatten(from) \ DOMAIN Flatten(other)
  BY <1>1, OnlyInTells
<1>5. DOMAIN Flatten(one) = DOMAIN Flatten(other)
  BY <1>3, <1>4
<1>6. Kept(from, one) = Kept(from, other)
  BY <1>5 DEF Kept
<1>7. ASSUME NEW r \in DOMAIN Flatten(one), r \in DOMAIN Flatten(from)
      PROVE  Flatten(one)[r] = Flatten(other)[r]
  <2>1. r \in Kept(from, one)
    BY <1>7 DEF Kept
  <2>2. /\ Flatten(one)[r].promptEn = Flatten(other)[r].promptEn
        /\ Flatten(one)[r].weight = Flatten(other)[r].weight
        /\ Flatten(one)[r].severityOnFail = Flatten(other)[r].severityOnFail
    BY <1>1, <1>6, <2>1, MovedTells
  <2> QED
    BY <1>5, <1>7, <2>2, FlattenDomain, FlattenFields DEF Flatten
<1>8. ASSUME NEW r \in DOMAIN Flatten(one)
      PROVE  Flatten(one)[r].promptEn = Flatten(other)[r].promptEn
  <2>1. CASE r \in DOMAIN Flatten(from)
    BY <1>7, <2>1
  <2>2. CASE r \notin DOMAIN Flatten(from)
    BY <1>1, <2>2, OnlyInTells
  <2> QED
    BY <2>1, <2>2
<1> QED
  BY <1>2, <1>5, <1>7, <1>8, FlattenDomain, FlattenFields

\* What the list leaves out: whatever becomes of the titles and of a
\* checkpoint's Hausa prompt, and whether or not an inspector may now answer
\* it "not applicable" (which a phone enforces, inspection.ts:142), nothing is
\* listed.
THEOREM UnlistedChange ==
  ASSUME NEW from, NEW r \in DOMAIN from.checkpoints, NEW titles, NEW promptHa, NEW allowsNa
  PROVE  LET revised == [promptEn       |-> from.checkpoints[r].promptEn,
                         promptHa       |-> promptHa,
                         weight         |-> from.checkpoints[r].weight,
                         severityOnFail |-> from.checkpoints[r].severityOnFail,
                         allowsNa       |-> allowsNa]
             to == [bands       |-> from.bands,
                    titles      |-> titles,
                    checkpoints |-> [q \in DOMAIN from.checkpoints |->
                                       IF q = r THEN revised ELSE from.checkpoints[q]]]
         IN  /\ to.titles = titles
             /\ to.checkpoints[r].promptHa = promptHa /\ to.checkpoints[r].allowsNa = allowsNa
             /\ Changes(from, to) = NoChanges
<1> DEFINE revised == [promptEn       |-> from.checkpoints[r].promptEn,
                       promptHa       |-> promptHa,
                       weight         |-> from.checkpoints[r].weight,
                       severityOnFail |-> from.checkpoints[r].severityOnFail,
                       allowsNa       |-> allowsNa]
           rows == [q \in DOMAIN from.checkpoints |->
                      IF q = r THEN revised ELSE from.checkpoints[q]]
           to == [bands |-> from.bands, titles |-> titles, checkpoints |-> rows]
<1>1. /\ revised.promptEn = from.checkpoints[r].promptEn
      /\ revised.weight = from.checkpoints[r].weight
      /\ revised.severityOnFail = from.checkpoints[r].severityOnFail
      /\ revised.promptHa = promptHa /\ revised.allowsNa = allowsNa
  OBVIOUS
<1> HIDE DEF revised
<1>2. /\ DOMAIN rows = DOMAIN from.checkpoints
      /\ rows[r] = revised
      /\ \A q \in DOMAIN from.checkpoints : q # r => rows[q] = from.checkpoints[q]
  OBVIOUS
<1> HIDE DEF rows
<1>3. to.checkpoints = rows /\ to.bands = from.bands /\ to.titles = titles
  OBVIOUS
<1> HIDE DEF to
<1>4. \A q \in DOMAIN from.checkpoints :
           /\ Flatten(from)[q].promptEn = Flatten(to)[q].promptEn
           /\ Flatten(from)[q].weight = Flatten(to)[q].weight
           /\ Flatten(from)[q].severityOnFail = Flatten(to)[q].severityOnFail
  BY <1>1, <1>2, <1>3, FlattenFields
<1>5. Changes(from, to) = NoChanges
  BY <1>2, <1>3, <1>4, FlattenEqual, NothingListed
<1>6. to.titles = titles /\ to.checkpoints[r].promptHa = promptHa /\ to.checkpoints[r].allowsNa = allowsNa
  BY <1>1, <1>2, <1>3
<1> QED
  BY <1>5, <1>6 DEF to, rows, revised
=============================================================================
