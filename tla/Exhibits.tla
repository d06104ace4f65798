------------------------------ MODULE Exhibits -------------------------------
(***************************************************************************)
(* One phone's sync rounds, for what DeviceSync leaves out of them: the    *)
(* photographs, whose bytes travel apart from the events that declare      *)
(* them, and the status of a prior finding, which comes back with the pull *)
(* feed and the bundle.                                                    *)
(*                                                                         *)
(* A round pushes the outbox, uploads the evidence queue, pulls and then   *)
(* asks for the bundle, and awaits the network at every step; photographs  *)
(* are taken, the console works on the finding and the projection is       *)
(* rebuilt while it waits.  The gateway is taken to accept every event it  *)
(* is pushed (DeviceSync says when it does not) and record times to differ *)
(* and to commit in order (Projector), so that a cursor is a place in the  *)
(* store.                                                                  *)
(***************************************************************************)
EXTENDS Findings, BlobStore, FiniteSets, SequencesExt

CONSTANTS
  Exhibit,        \* photographs that may be taken
  Spoiled,        \* those whose file is later gone, or no longer the one hashed
  PushBatch,      \* PUSH_BATCH
  EvidenceBatch,  \* how many exhibits pendingEvidence() offers
  PullBatch,      \* how many events a pull returns
  MaxFinding,     \* bound: events about the finding
  MaxOver,        \* bound: writes by others over stored objects
  MaxFails,       \* bound: requests that fail, kills, times stuck
  MayDie,         \* may the app be killed?
  MayRebuild      \* may the projection be rebuilt?

ASSUME ExhibitsAssumption ==
  /\ Spoiled \subseteq Exhibit
  /\ PushBatch \in Nat \ {0} /\ EvidenceBatch \in Nat \ {0}
  /\ PullBatch \in Nat \ {0}
  /\ MaxFinding \in Nat \ {0} /\ MaxOver \in Nat /\ MaxFails \in Nat
  /\ MayDie \in BOOLEAN /\ MayRebuild \in BOOLEAN

VARIABLES
  queue,    \* local_evidence: upload_state of each exhibit, "none" for no row
  outbox,   \* outbox_event, pending: the exhibits whose capture is not acked
  shown,    \* prior_finding: the finding's status on the phone
  cursor,   \* the pull cursor
  sync,     \* what the round in flight is doing
  store,    \* event_store: an exhibit's capture, or a kind of finding event
  seen,     \* how many of them are projected
  row,      \* evidence: "none", "awaiting" its bytes, or "locked"
  status,   \* finding: its status
  blob,     \* the versions under each exhibit's key
  request,  \* uploads the gateway is working on
  over,     \* number of writes over stored objects
  fails,    \* number of requests that failed, of kills and of times stuck
  stuck     \* does the projector stand before an event it cannot apply?

phone == <<queue, outbox, shown, cursor>>
gateway == <<store, seen, row, status, stuck>>
vars == <<queue, outbox, shown, cursor, sync, store, seen, row, status, blob,
          request, over, fails, stuck>>

-----------------------------------------------------------------------------
Idle == [at |-> "idle", batch |-> <<>>, left |-> {}, mark |-> 0]

\* The event a capture is, in the store and in the outbox.
Captures(x) == [of |-> "exhibit", is |-> x]
Concerns(k) == [of |-> "finding", is |-> k]

Init ==
  /\ queue = [x \in Exhibit |-> "none"]
  /\ outbox = <<>> /\ shown = "open" /\ cursor = 0 /\ sync = Idle
  /\ store = <<Concerns("Raised")>> /\ seen = 1
  /\ row = [x \in Exhibit |-> "none"] /\ status = "open"
  /\ blob = [x \in Exhibit |-> <<>>] /\ request = {}
  /\ over = 0 /\ fails = 0 /\ stuck = FALSE

-----------------------------------------------------------------------------
(* The phone.  captureEvidence() inserts the row, then authors the event;   *)
(* both are local, and nothing but a kill comes between them.               *)
Capture(x) ==
  /\ queue[x] = "none"
  /\ queue' = [queue EXCEPT ![x] = "pending"]
  /\ outbox' = Append(outbox, x)
  /\ UNCHANGED <<shown, cursor, sync, blob, request, over, fails>> /\ UNCHANGED gateway

\* The gateway goes on with a request nobody waits for any more.
Unattended(r) == IF r.at = "marked" THEN {} ELSE {[r EXCEPT !.live = FALSE]}

CaptureDies(x) ==
  /\ fails < MaxFails /\ fails' = fails + 1
  /\ MayDie /\ queue[x] = "none"
  /\ queue' = [queue EXCEPT ![x] = "pending"]
  /\ sync' = Idle /\ request' = UNION {Unattended(r) : r \in request}
  /\ UNCHANGED <<outbox, shown, cursor, blob, over>> /\ UNCHANGED gateway

AppKilled ==
  /\ fails < MaxFails /\ fails' = fails + 1
  /\ MayDie /\ sync.at # "idle"
  /\ sync' = Idle /\ request' = UNION {Unattended(r) : r \in request}
  /\ UNCHANGED <<blob, over>> /\ UNCHANGED phone /\ UNCHANGED gateway

\* pendingEvidence(): any EvidenceBatch of the pending rows, for there is no
\* ORDER BY.
Pending == {x \in Exhibit : queue[x] = "pending"}
PendingEvidence ==
  IF Cardinality(Pending) <= EvidenceBatch THEN {Pending}
  ELSE {S \in SUBSET Pending : Cardinality(S) = EvidenceBatch}

\* drain() goes on to the evidence queue when a batch was not full; a full
\* batch is followed by another.
PushOrUpload(out) ==
  IF out # <<>>
  THEN sync' = [Idle EXCEPT !.at = "pushing",
                            !.batch = SubSeq(out, 1, Min({Len(out), PushBatch}))]
  ELSE \E S \in PendingEvidence : sync' = [Idle EXCEPT !.at = "uploading", !.left = S]

\* syncNow(), when nothing is in flight.
StartRound ==
  /\ sync.at = "idle"
  /\ PushOrUpload(outbox)
  /\ UNCHANGED <<blob, request, over, fails>> /\ UNCHANGED phone /\ UNCHANGED gateway

\* Its triggers: the app comes to the foreground; an inspection is submitted;
\* a timer, but that one only while events are waiting.
Foreground == StartRound
TimerFires == outbox # <<>> /\ StartRound

\* The request was refused or not answered in time: the round is over.
PushFails ==
  /\ fails < MaxFails /\ fails' = fails + 1
  /\ sync.at \in {"pushing", "pushed"}
  /\ sync' = Idle
  /\ UNCHANGED <<blob, request, over>> /\ UNCHANGED phone /\ UNCHANGED gateway

\* The read model after the events from n on have been projected.  An exhibit's
\* row is inserted once and unlocked; its bytes lock it.
Rows(n, log, rows) ==
  [x \in Exhibit |->
     IF rows[x] = "none" /\ \E i \in n..Len(log) : log[i] = Captures(x)
     THEN "awaiting" ELSE rows[x]]
StatusAfter(n, log, s) ==
  FoldLeft(LAMBDA t, e : IF e.of = "finding" THEN Project(e.is, t) ELSE t,
           s, SubSeq(log, n, Len(log)))

\* How far applyPending() comes in log: to the end, or no further than it is.
Reached(log) == IF stuck THEN SubSeq(log, 1, seen) ELSE log

\* pushEvents(): the batch is appended without what is there already, the
\* cursor of the answer is read, and the whole store is projected; where that
\* throws, the answer is an error and the round is over.
PushArrives ==
  /\ sync.at = "pushing"
  /\ LET new == SelectSeq(sync.batch, LAMBDA x : ~Contains(store, Captures(x)))
         log == store \o [i \in 1..Len(new) |-> Captures(new[i])]
     IN  /\ store' = log /\ seen' = Len(Reached(log))
         /\ row' = Rows(seen + 1, Reached(log), row)
         /\ status' = StatusAfter(seen + 1, Reached(log), status)
         /\ sync' = IF stuck THEN Idle
                    ELSE [sync EXCEPT !.at = "pushed", !.mark = Len(log)]
  /\ UNCHANGED <<blob, request, over, fails, stuck>> /\ UNCHANGED phone

\* The answer: the batch is acked, the answer's cursor becomes the pull cursor,
\* and the queue is read as it is now.
PushAnswered ==
  /\ sync.at = "pushed"
  /\ outbox' = SelectSeq(outbox, LAMBDA x : ~Contains(sync.batch, x))
  /\ cursor' = sync.mark
  /\ PushOrUpload(IF Len(sync.batch) < PushBatch THEN <<>> ELSE outbox')
  /\ UNCHANGED <<queue, shown, blob, request, over, fails>> /\ UNCHANGED gateway

-----------------------------------------------------------------------------
(* One upload at a time; readFile() throws for a file that is gone.         *)
Live == {r \in request : r.live}
Sent(x) == [of |-> x, at |-> "sent", live |-> TRUE]

SendUpload(x) ==
  /\ sync.at = "uploading" /\ x \in sync.left /\ Live = {}
  /\ request' = request \cup {Sent(x)}
  /\ UNCHANGED <<sync, blob, over, fails>> /\ UNCHANGED phone /\ UNCHANGED gateway

\* Mutant: a failed upload ends the round.
LeavePending_StopRound(x) == sync' = Idle

\* "Leave pending": drain() goes on with the next one.
LeavePending(x) == sync' = [sync EXCEPT !.left = @ \ {x}]

SkipSpoiled(x) ==
  /\ sync.at = "uploading" /\ x \in sync.left \cap Spoiled /\ Live = {}
  /\ LeavePending(x)
  /\ UNCHANGED <<blob, request, over, fails>> /\ UNCHANGED phone /\ UNCHANGED gateway

UploadFails(r) ==
  /\ fails < MaxFails /\ fails' = fails + 1
  /\ r \in Live
  /\ request' = (request \ {r}) \cup Unattended(r)
  /\ IF sync.at = "uploading" /\ r.of \in sync.left
     THEN LeavePending(r.of) ELSE UNCHANGED sync
  /\ UNCHANGED <<blob, over>> /\ UNCHANGED phone /\ UNCHANGED gateway

\* store(): the bytes hash to what was declared, and are put under that key.
StoreBytes(r) ==
  /\ r \in request /\ r.at = "sent" /\ r.of \notin Spoiled
  /\ blob' = [blob EXCEPT ![r.of] = PutIfAbsent(@)]
  /\ request' = (request \ {r}) \cup {[r EXCEPT !.at = "stored"]}
  /\ UNCHANGED <<sync, over, fails>> /\ UNCHANGED phone /\ UNCHANGED gateway

\* store() throws: the bytes are not the ones that were hashed.
RefuseBytes(r) ==
  /\ r \in request /\ r.at = "sent" /\ r.of \in Spoiled
  /\ request' = request \ {r}
  /\ IF r.live /\ sync.at = "uploading" /\ r.of \in sync.left
     THEN LeavePending(r.of) ELSE UNCHANGED sync
  /\ UNCHANGED <<blob, over, fails>> /\ UNCHANGED phone /\ UNCHANGED gateway

\* markLocked(): an UPDATE, of no row where the capture is not projected.
MarkLocked(r) ==
  /\ r \in request /\ r.at = "stored"
  /\ row' = [row EXCEPT ![r.of] = IF @ = "none" THEN "none" ELSE "locked"]
  /\ request' = (request \ {r}) \cup
                  (IF r.live THEN {[r EXCEPT !.at = "marked"]} ELSE {})
  /\ UNCHANGED <<sync, store, seen, status, blob, over, fails, stuck>>
  /\ UNCHANGED phone

\* Mutant: the answer is not asked whether it says locked.
Uploaded_OnAnyAnswer(x) ==
  \E r \in Live : r.of = x /\ request' = request \ {r}

\* markEvidenceUploaded(), after an answer that says locked.
Uploaded(x) ==
  \E r \in Live : r.of = x /\ r.at = "marked" /\ request' = request \ {r}

UploadAnswered(x) ==
  /\ sync.at = "uploading" /\ x \in sync.left
  /\ Uploaded(x)
  /\ queue' = [queue EXCEPT ![x] = "uploaded"]
  /\ sync' = [sync EXCEPT !.left = @ \ {x}]
  /\ UNCHANGED <<outbox, shown, cursor, blob, over, fails>> /\ UNCHANGED gateway

-----------------------------------------------------------------------------
(* The pull feed and the bundle.                                            *)

\* pull(): server-authored events after the cursor, the first PullBatch.
Feed ==
  LET after == {i \in 1..Len(store) : i > cursor /\ store[i].of = "finding"}
  IN  {i \in after : Cardinality({j \in after : j < i}) < PullBatch}

\* applyServerEvent(): what an event sets the phone's row to.
Told ==
  [BecameOverdue |-> "overdue", Escalated |-> "escalated",
   ClosureSubmitted |-> "awaiting", Closed |-> "closed"]
ShownAfter(feed) ==
  LET telling == {i \in feed : store[i].is \in DOMAIN Told}
  IN  IF shown = "none" \/ telling = {} THEN shown
      ELSE Told[store[Max(telling)].is]

PullAnswered ==
  /\ sync.at = "uploading" /\ sync.left = {} /\ Live = {}
  /\ shown' = ShownAfter(Feed)
  /\ cursor' = IF Feed = {} THEN cursor ELSE Max(Feed)
  /\ sync' = [Idle EXCEPT !.at = "bundle"]
  /\ UNCHANGED <<queue, outbox, blob, request, over, fails>> /\ UNCHANGED gateway

\* A pull that fails leaves the cursor where it is, and the round goes on.
PullFails ==
  /\ fails < MaxFails /\ fails' = fails + 1
  /\ sync.at = "uploading" /\ sync.left = {} /\ Live = {}
  /\ sync' = [Idle EXCEPT !.at = "bundle"]
  /\ UNCHANGED <<blob, request, over>> /\ UNCHANGED phone /\ UNCHANGED gateway

\* bootstrap() lists the findings at the day's facilities that are not closed;
\* applyBootstrap() replaces the phone's rows by them.
Bundled(s) == IF s = "closed" THEN "none" ELSE s

\* Mutant: the bundle leaves the prior findings alone.
BundleApplied_KeepsRows ==
  /\ sync.at = "bundle"
  /\ sync' = Idle
  /\ UNCHANGED <<blob, request, over, fails>> /\ UNCHANGED phone /\ UNCHANGED gateway

BundleApplied ==
  /\ sync.at = "bundle"
  /\ shown' = Bundled(status)
  /\ sync' = Idle
  /\ UNCHANGED <<queue, outbox, cursor, blob, request, over, fails>> /\ UNCHANGED gateway

BundleFails ==
  /\ fails < MaxFails /\ fails' = fails + 1
  /\ sync.at = "bundle"
  /\ sync' = Idle
  /\ UNCHANGED <<blob, request, over>> /\ UNCHANGED phone /\ UNCHANGED gateway

-----------------------------------------------------------------------------
(* The gateway's own work.                                                  *)

\* The console or the escalation sweep appends a legal event.
FindingMoves(k) ==
  /\ k \in Kinds
  /\ Cardinality({i \in 1..Len(store) : store[i].of = "finding"}) < MaxFinding
  /\ StatusAfter(seen + 1, store, status) \in Accepts[k]
  /\ store' = Append(store, Concerns(k))
  /\ UNCHANGED <<sync, seen, row, status, blob, request, over, fails, stuck>>
  /\ UNCHANGED phone

\* The command's own applyPending(), or a sweep's.
ApplyPending ==
  /\ ~stuck /\ seen < Len(store)
  /\ seen' = Len(store)
  /\ row' = Rows(seen + 1, store, row)
  /\ status' = StatusAfter(seen + 1, store, status)
  /\ UNCHANGED <<sync, store, blob, request, over, fails, stuck>> /\ UNCHANGED phone

\* The next event in the store is another facility's, and its handler throws;
\* and, should anybody see to it, no longer does.
GetStuck ==
  /\ fails < MaxFails /\ fails' = fails + 1
  /\ ~stuck /\ stuck' = TRUE
  /\ UNCHANGED <<sync, store, seen, row, status, blob, request, over>>
  /\ UNCHANGED phone

Repaired ==
  /\ stuck /\ stuck' = FALSE
  /\ UNCHANGED <<sync, store, seen, row, status, blob, request, over, fails>>
  /\ UNCHANGED phone

\* rebuild(): the rows go, and come back from the events alone.
Rebuild ==
  /\ MayRebuild
  /\ seen' = Len(Reached(store))
  /\ row' = Rows(1, Reached(store), [x \in Exhibit |-> "none"])
  /\ status' = StatusAfter(1, Reached(store), "none")
  /\ row' # row
  /\ UNCHANGED <<sync, store, blob, request, over, fails, stuck>> /\ UNCHANGED phone

\* Somebody with access to the bucket writes over a stored object.
WriteOver(x) ==
  /\ over < MaxOver /\ Present(blob[x])
  /\ blob' = [blob EXCEPT ![x] = Append(@, "other")]
  /\ over' = over + 1
  /\ UNCHANGED <<sync, request, fails>> /\ UNCHANGED phone /\ UNCHANGED gateway

-----------------------------------------------------------------------------
Next ==
  \/ \E x \in Exhibit :
       \/ Capture(x) \/ CaptureDies(x) \/ SendUpload(x) \/ SkipSpoiled(x)
       \/ UploadAnswered(x) \/ WriteOver(x)
  \/ \E r \in request :
       UploadFails(r) \/ StoreBytes(r) \/ RefuseBytes(r) \/ MarkLocked(r)
  \/ AppKilled \/ Foreground \/ TimerFires
  \/ PushArrives \/ PushAnswered \/ PushFails
  \/ PullAnswered \/ PullFails \/ BundleApplied \/ BundleFails
  \/ \E k \in Kinds : FindingMoves(k)
  \/ ApplyPending \/ Rebuild \/ GetStuck \/ Repaired

Spec == Init /\ [][Next]_vars

\* What the phone does when it is not kept from it, and what the gateway does
\* with an upload.
RoundStep ==
  \/ PushArrives \/ PushAnswered \/ PullAnswered \/ BundleApplied
  \/ \E x \in Exhibit : SendUpload(x) \/ SkipSpoiled(x) \/ UploadAnswered(x)
GatewayStep ==
  \E r \in request : StoreBytes(r) \/ RefuseBytes(r) \/ MarkLocked(r)

\* The inspector opens the app again and again; a request that does not fail is
\* answered; and the projector's sweep runs.  MaxFails bounds the failures, so
\* they do not go on for ever; but nobody has to repair a projector that is stuck.
Fairness ==
  /\ WF_vars(Foreground) /\ WF_vars(RoundStep)
  /\ WF_vars(GatewayStep) /\ WF_vars(ApplyPending)

FairSpec == Spec /\ Fairness

-----------------------------------------------------------------------------
(* Properties *)

\* The variables have the shapes their comments say, and at most one upload is
\* waited for, by the round that asked for it.
TypeOK ==
  /\ queue \in [Exhibit -> {"none", "pending", "uploaded"}]
  /\ outbox \in Seq(Exhibit)
  /\ shown \in Statuses \cup {"none"}
  /\ cursor \in 0..Len(store)
  /\ sync \in [at : {"idle", "pushing", "pushed", "uploading", "bundle"},
               batch : Seq(Exhibit), left : SUBSET Exhibit, mark : 0..Len(store)]
  /\ \A i \in 1..Len(store) :
       store[i] \in {Captures(x) : x \in Exhibit} \cup {Concerns(k) : k \in Kinds}
  /\ seen \in 0..Len(store)
  /\ row \in [Exhibit -> {"none", "awaiting", "locked"}]
  /\ status \in Statuses
  /\ blob \in [Exhibit -> Versions]
  /\ request \subseteq [of : Exhibit, at : {"sent", "stored", "marked"}, live : BOOLEAN]
  /\ Cardinality(Live) <= 1
  /\ \A r \in Live : sync.at = "uploading" /\ r.of \in sync.left
  /\ over \in 0..MaxOver /\ fails \in 0..MaxFails /\ stuck \in BOOLEAN

\* An exhibit leaves the phone's queue, and is shown to a supervisor as locked,
\* only when the bytes that were hashed at capture can be read back from the
\* store, whatever answers were lost, whichever request the phone gave up on goes
\* on, and whoever writes over the object (storage.service.ts:13-17,
\* sync.controller.ts:73-76, s3-blob-store.ts:16-37).
KeptIsReadable ==
  \A x \in Exhibit : queue[x] = "uploaded" \/ row[x] = "locked" => Get(blob[x]) = "own"

\* An exhibit whose file is sound is uploaded in the end, whatever is wrong with
\* the others in its batch ("Leave pending", sync.ts:102-104), as long as those
\* do not fill the batch.  Not so while the projector is stuck and the phone has
\* events to push: the push fails, and drain() returns (sync.ts:71-74).
SoundIsUploaded ==
  \A x \in Exhibit \ Spoiled :
    []<>(queue[x] # "pending" \/ (stuck /\ outbox # <<>>))

\* Once a finding's status no longer changes, the phone comes to show it and goes
\* on showing it, although the push answer's cursor passes over events that were
\* never pulled and a rejected closure is not in the feed: the bundle that ends
\* every round has the last word (auto-sync.ts:77-88).  It is read from the
\* projection, so nothing arrives for certain while the projector is stuck.
StatusArrives ==
  LET settled == StatusAfter(seen + 1, store, status)
  IN  <>[](shown \in {Bundled(settled), settled} \/ stuck)
=============================================================================
