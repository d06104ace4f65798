----------------------------- MODULE DeviceSync -----------------------------
(***************************************************************************)
(* One inspector's phone and the sync gateway: how work authored offline   *)
(* becomes part of the event store.                                        *)
(*                                                                         *)
(* The phone (packages/field-core outbox.ts, sync.ts, sqlite.ts and        *)
(* apps/field auto-sync.ts, account.tsx, activate.tsx) signs every event,  *)
(* links it to the event before it, queues it, and pushes what is pending. *)
(* The gateway (sync/ingest.service.ts) checks each pushed event against   *)
(* the key and the chain head it holds for the device and appends it.      *)
(*                                                                         *)
(* Every await of the ingest handler is a separate action, so two requests *)
(* of the same phone (one the phone gave up on, and its retry) interleave  *)
(* as they do on the server, and a request can die between any two awaits. *)
(*                                                                         *)
(* An event is named by the order in which the phone authored it, 1, 2...; *)
(* 0 stands for "no event" (a null hash).  A hash names exactly one event, *)
(* so the number also stands for the event's hash; the hash check itself   *)
(* (tampered bytes) is left out, as nobody tampers here.                   *)
(***************************************************************************)
EXTENDS Clock, Sequences, FiniteSets

CONSTANTS
  Device,      \* phone identities: a key pair and its row in table device
  Request,     \* slots for push requests the gateway may have in progress
  None,        \* no identity, no request
  MaxEvents,   \* bound: events the phone authors
  Now,         \* what the wall clock reads when the n-th event is authored
  BatchSize,   \* PUSH_BATCH
  Mishaps      \* bound: how much goes otherwise than the plain course

ASSUME BoundsAssumption ==
  /\ MaxEvents \in Nat
  /\ BatchSize \in Nat \ {0}
  /\ Mishaps \in Nat
\* Any readings: a phone's clock may stand still or be set back.
ASSUME ClockAssumption == Now \in [1..MaxEvents -> Nat]
ASSUME NoneAssumption == None \notin Device /\ None \notin Request

VARIABLES
  \* the phone
  outbox,      \* rows of outbox_event in rowid order: [prev, dev, hlc]
  acked,       \* events whose sync_state is 'acked'
  key,         \* whose private key the phone holds, or None
  session,     \* does it hold a session token?
  phase,       \* where the single in-flight sync is, or how the last one ended
  syncAs,      \* the identity that sync read when it started
  inflight,    \* the push request it is waiting for, or None
  \* the gateway
  device,      \* device.status of each identity
  log,         \* event_store, in the order the rows were inserted
  chainHead,   \* device_chain_head, 0 where there is no row
  reqs,        \* push requests by slot
  \* the surroundings
  mishaps,     \* how many more may happen
  cut,         \* history: identities a request of which was cut short or overlapped
  stuck        \* applyPending() throws: on an event it cannot apply, which the
               \* store then holds for good, or on a database that is down

phone == <<outbox, acked, key, session, phase, syncAs, inflight>>
gateway == <<device, log, chainHead, reqs>>
vars == <<outbox, acked, key, session, phase, syncAs, inflight,
          device, log, chainHead, reqs, mishaps, cut, stuck>>

Plain == UNCHANGED <<mishaps, cut, stuck>>
Mishap == mishaps > 0 /\ mishaps' = mishaps - 1
Aside == Mishap /\ UNCHANGED <<cut, stuck>>
CutShort(d) == Mishap /\ cut' = cut \cup {d} /\ UNCHANGED stuck

-----------------------------------------------------------------------------
Events == 1..Len(outbox)
Pending == Events \ acked
Stored == {log[i] : i \in 1..Len(log)}

\* The stages of a sync in progress; the other phases are outcomes.
Sending == {"push", "collect"}
Phases == Sending \cup {"idle", "sent", "offline", "signedOut"}

\* Where a request is: on its way, between two awaits of ingest(), answered
\* but not yet received, or swallowed by the network.
Running == {"admitted", "checking", "appending"}
Stages == Running \cup {"free", "arriving", "answered", "lost"}
Replies == {"none", "ok", "sig", "chain", "refused", "error"}

Slot(at) == [at |-> at, dev |-> None, token |-> None, todo |-> {}, head |-> 0,
             done |-> {}, reply |-> "none"]
Free == Slot("free")

\* The gateway takes a batch in the order of its stamps, whatever order it
\* arrived in: e is the next one it looks at.
IsFirst(e, S) ==
  e \in S /\ \A f \in S : ~Before(outbox[f].hlc, outbox[e].hlc)

\* pendingEvents(PUSH_BATCH): the earliest BatchSize pending events.
Batch == {e \in Pending :
            Cardinality({f \in Pending : f < e}) < BatchSize}

\* The phone's own chain head is the last outbox row, whoever signed it.
LastAuthored == Len(outbox)

\* The clock goes on from the last event authored; nothing else is kept of it.
ResumeClock == IF outbox = <<>> THEN Fresh ELSE outbox[LastAuthored].hlc

-----------------------------------------------------------------------------
Init ==
  /\ outbox = <<>> /\ acked = {}
  /\ key = None /\ session = FALSE /\ syncAs = None
  /\ phase = "idle" /\ inflight = None
  /\ device = [d \in Device |-> "absent"]
  /\ log = <<>>
  /\ chainHead = [d \in Device |-> 0]
  /\ reqs = [r \in Request |-> Free]
  /\ mishaps = Mishaps /\ cut = {} /\ stuck = FALSE

-----------------------------------------------------------------------------
(* The phone: authoring.  The signer of apps/field signs synchronously, so  *)
(* reading the last outbox row and appending the next one are one step.     *)
Author ==
  /\ key # None /\ session
  /\ Len(outbox) < MaxEvents
  /\ outbox' = Append(outbox,
                      [prev |-> LastAuthored, dev |-> key,
                       hlc |-> Send(ResumeClock, Now[Len(outbox) + 1])])
  /\ UNCHANGED <<acked, key, session, phase, syncAs, inflight>>
  /\ UNCHANGED gateway
  /\ Plain

(* The phone: one sync at a time, whatever triggers it.                     *)
StartSync ==
  /\ key # None /\ phase \notin Sending
  /\ phase' = "push" /\ syncAs' = key
  /\ UNCHANGED <<outbox, acked, key, session, inflight>>
  /\ UNCHANGED gateway
  /\ Plain

\* Slots are alike: any one that is free will do.
FreeSlot == CHOOSE r \in Request : reqs[r].at = "free"

PushBatch(r) ==
  /\ phase = "push" /\ inflight = None /\ Pending # {} /\ session
  /\ reqs[r].at = "free" /\ r = FreeSlot
  /\ reqs' = [reqs EXCEPT ![r].at = "arriving", ![r].dev = syncAs,
                          ![r].token = key, ![r].todo = Batch]
  /\ inflight' = r
  /\ UNCHANGED <<outbox, acked, key, session, phase, syncAs>>
  /\ UNCHANGED <<device, log, chainHead>>
  /\ Plain

\* Without a session token the call throws before anything is sent.
PushWithoutSession ==
  /\ phase = "push" /\ inflight = None /\ Pending # {} /\ ~session
  /\ phase' = "offline"
  /\ UNCHANGED <<outbox, acked, key, session, syncAs, inflight>>
  /\ UNCHANGED gateway
  /\ Plain

NothingToPush ==
  /\ phase = "push" /\ inflight = None /\ Pending = {}
  /\ phase' = "collect"
  /\ UNCHANGED <<outbox, acked, key, session, syncAs, inflight>>
  /\ UNCHANGED gateway
  /\ Plain

\* markAcked: what the answer names, and nothing authored since.
AckedAfter_AllPending(r) == Events
AckedAfter(r) == acked \cup reqs[r].done

\* A full batch is followed by another; a short one was the last.  Any refusal
\* ends the drain as "blocked", which the app shows as offline.
Receive(r) ==
  /\ inflight = r /\ reqs[r].at = "answered"
  /\ IF reqs[r].reply = "ok"
       THEN /\ acked' = AckedAfter(r)
            /\ phase' = IF reqs[r].done = {} THEN "offline"
                        ELSE IF Cardinality(reqs[r].done) < BatchSize
                        THEN "collect" ELSE "push"
       ELSE /\ phase' = "offline"
            /\ UNCHANGED acked
  /\ inflight' = None
  /\ reqs' = [reqs EXCEPT ![r] = Free]
  /\ UNCHANGED <<outbox, key, session, syncAs, device, log, chainHead>>
  /\ Plain

\* What is left of a request its phone no longer waits for: one that is still
\* on its way or running goes on without it.
Abandon(r) ==
  IF reqs[r].at \in Running \cup {"arriving"}
    THEN UNCHANGED reqs /\ CutShort(reqs[r].dev)
    ELSE /\ reqs' = [reqs EXCEPT ![r] = Free]
         /\ IF reqs[r].at = "lost" THEN Plain ELSE Aside

\* The 60 s abort of a push.
GiveUp_NoTimeout(r) ==
  /\ inflight = r /\ reqs[r].at = "answered"
  /\ Abandon(r)
  /\ inflight' = None /\ phase' = "offline"
  /\ UNCHANGED <<outbox, acked, key, session, syncAs>>
  /\ UNCHANGED <<device, log, chainHead>>
GiveUp(r) ==
  /\ inflight = r
  /\ Abandon(r)
  /\ inflight' = None /\ phase' = "offline"
  /\ UNCHANGED <<outbox, acked, key, session, syncAs>>
  /\ UNCHANGED <<device, log, chainHead>>

\* The app is killed: the outbox is on disk, the sync status was in memory.
AppKilled ==
  /\ phase # "idle"
  /\ IF inflight = None THEN UNCHANGED reqs /\ Aside ELSE Abandon(inflight)
  /\ inflight' = None /\ phase' = "idle"
  /\ UNCHANGED <<outbox, acked, key, session, syncAs>>
  /\ UNCHANGED <<device, log, chainHead>>

\* The rest of a sync: evidence, pull and bootstrap.  Failures of the first
\* two are swallowed, so bootstrap decides how the sync ends: answered, not
\* reached, or refused with 401.
Collect ==
  /\ phase = "collect"
  /\ \/ ~session /\ phase' = "offline" /\ Plain
     \/ session /\ phase' = "offline" /\ Aside
     \/ session /\ device[key] = "active" /\ phase' = "sent" /\ Plain
     \/ session /\ device[key] = "revoked" /\ phase' = "signedOut" /\ Plain
  /\ UNCHANGED <<outbox, acked, key, session, syncAs, inflight>>
  /\ UNCHANGED gateway

(* The phone: identities.  Signing out in Account destroys the key, and is  *)
(* refused while work is waiting unless the phone knows it was signed out.  *)
SignOut ==
  /\ key # None /\ session
  /\ Pending = {} \/ phase = "signedOut"
  /\ key' = None /\ session' = FALSE
  /\ UNCHANGED <<outbox, acked, phase, syncAs, inflight>>
  /\ UNCHANGED gateway
  /\ Plain

\* A forgotten PIN signs the person out and keeps the key and the outbox.
SignOutKeepingWork ==
  /\ session
  /\ session' = FALSE
  /\ UNCHANGED <<outbox, acked, key, phase, syncAs, inflight>>
  /\ UNCHANGED gateway
  /\ Aside

\* An invite code is spent.  A key the register holds as active is handed its
\* device back; no key, or a revoked one, ends in a new key and a new device.
Activate(d) ==
  /\ ~session
  /\ IF key # None /\ device[key] = "active"
       THEN d = key
       ELSE device[d] = "absent"
  /\ key' = d /\ session' = TRUE
  /\ device' = [device EXCEPT ![d] = "active"]
  /\ UNCHANGED <<outbox, acked, phase, syncAs, inflight, log, chainHead, reqs>>
  /\ Plain

-----------------------------------------------------------------------------
(* The gateway: the administrator signs a phone out.                        *)
RevokeDevice(d) ==
  /\ device[d] = "active"
  /\ device' = [device EXCEPT ![d] = "revoked"]
  /\ UNCHANGED phone
  /\ UNCHANGED <<log, chainHead, reqs>>
  /\ Aside

\* A request that ends answers the phone, if the phone still waits for it.
Answer(r, reply) ==
  reqs' = IF inflight = r
            THEN [reqs EXCEPT ![r].at = "answered", ![r].reply = reply]
            ELSE [reqs EXCEPT ![r] = Free]

\* The guard, the check of the token's device against the body's, getDevice.
Admit(r) ==
  /\ reqs[r].at = "arriving"
  /\ IF /\ device[reqs[r].token] = "active"
        /\ reqs[r].token = reqs[r].dev
       THEN reqs' = [reqs EXCEPT ![r].at = "admitted"]
       ELSE Answer(r, "refused")
  /\ UNCHANGED phone
  /\ UNCHANGED <<device, log, chainHead>>
  /\ Plain

\* getChainHead, once for the whole batch.
ReadHead(r) ==
  /\ reqs[r].at = "admitted"
  /\ reqs' = [reqs EXCEPT ![r].at = "checking",
                          ![r].head = chainHead[reqs[r].dev]]
  /\ UNCHANGED phone
  /\ UNCHANGED <<device, log, chainHead>>
  /\ Plain

\* verifyEventSignature against the public key of the pushing device.
SignatureHolds_Unchecked(e, d) == TRUE
SignatureHolds(e, d) == outbox[e].dev = d

\* eventExists and, for an event not yet stored, the signature and the chain.
\* A stored event is acknowledged and skipped: the head is not touched.
CheckEvent(r, e) ==
  /\ reqs[r].at = "checking" /\ IsFirst(e, reqs[r].todo)
  /\ IF e \in Stored
       THEN reqs' = [reqs EXCEPT ![r].todo = @ \ {e}, ![r].done = @ \cup {e}]
     ELSE IF ~SignatureHolds(e, reqs[r].dev) THEN Answer(r, "sig")
     ELSE IF outbox[e].prev # reqs[r].head THEN Answer(r, "chain")
     ELSE reqs' = [reqs EXCEPT ![r].at = "appending"]
  /\ UNCHANGED phone
  /\ UNCHANGED <<device, log, chainHead>>
  /\ Plain

\* INSERT ... ON CONFLICT (event_id) DO NOTHING.
LogAfter_NoConflictClause(e) == Append(log, e)
LogAfter(e) == IF e \in Stored THEN log ELSE Append(log, e)

\* The insert, then the local head moves.
AppendEvent(r, e) ==
  /\ reqs[r].at = "appending" /\ IsFirst(e, reqs[r].todo)
  /\ log' = LogAfter(e)
  /\ reqs' = [reqs EXCEPT ![r].at = "checking",
                          ![r].head = e,
                          ![r].todo = @ \ {e},
                          ![r].done = @ \cup {e}]
  /\ UNCHANGED phone
  /\ UNCHANGED <<device, chainHead>>
  /\ Plain

\* setChainHead, unless the batch left no head to set.
HeadAfter_NeverSet(r) == chainHead
HeadAfter(r) == IF reqs[r].head = 0 THEN chainHead
                ELSE [chainHead EXCEPT ![reqs[r].dev] = reqs[r].head]

\* The head is set once, when the batch is through; then the answer, unless
\* reading the cursor or projecting, which come in between, fails: every push
\* awaits applyPending(), which begins again at the event it cannot apply.
FinishBatch(r) ==
  /\ reqs[r].at = "checking" /\ reqs[r].todo = {}
  /\ chainHead' = HeadAfter(r)
  /\ Answer(r, IF stuck THEN "error" ELSE "ok")
  /\ UNCHANGED phone
  /\ UNCHANGED <<device, log>>
  /\ Plain

\* The projector meets an event, of whichever phone or facility, that it cannot
\* apply, or loses its database; and, should anybody see to it, goes on.
GetStuck ==
  /\ ~stuck /\ stuck' = TRUE
  /\ Mishap
  /\ UNCHANGED cut /\ UNCHANGED phone /\ UNCHANGED gateway

Repaired ==
  /\ stuck /\ stuck' = FALSE
  /\ UNCHANGED <<mishaps, cut>> /\ UNCHANGED phone /\ UNCHANGED gateway

\* A restart or a database error stops a request wherever it is.
Die(r) ==
  /\ reqs[r].at \in Running
  /\ Answer(r, "error") /\ CutShort(reqs[r].dev)
  /\ UNCHANGED phone
  /\ UNCHANGED <<device, log, chainHead>>

\* The network swallows a request before it arrives, or its answer.
Lose(r) ==
  /\ reqs[r].at \in {"arriving", "answered"}
  /\ reqs' = [reqs EXCEPT ![r] = IF inflight = r THEN Slot("lost") ELSE Free]
  /\ UNCHANGED phone
  /\ UNCHANGED <<device, log, chainHead>>
  /\ Aside

-----------------------------------------------------------------------------
Ingest(r) ==
  \/ Admit(r) \/ ReadHead(r) \/ FinishBatch(r)
  \/ \E e \in reqs[r].todo : CheckEvent(r, e) \/ AppendEvent(r, e)

Next ==
  \/ Author \/ StartSync \/ PushWithoutSession \/ NothingToPush \/ Collect
  \/ AppKilled \/ SignOut \/ SignOutKeepingWork \/ GetStuck \/ Repaired
  \/ \E d \in Device : Activate(d) \/ RevokeDevice(d)
  \/ \E r \in Request : PushBatch(r) \/ Receive(r) \/ GiveUp(r)
                        \/ Ingest(r) \/ Die(r) \/ Lose(r)

Spec == Init /\ [][Next]_vars

-----------------------------------------------------------------------------
(* Safety *)

RequestType ==
  [at : Stages, dev : Device \cup {None}, token : Device \cup {None},
   todo : SUBSET Nat, head : Nat, done : SUBSET Nat,
   reply : Replies]

\* The variables have the shapes their comments say; a phone with a session
\* has the key the session was issued for, and a request under way a device.
StateOK ==
  /\ outbox \in Seq([prev : Nat, dev : Device, hlc : Stamp])
  /\ acked \in SUBSET Nat
  /\ key \in Device \cup {None} /\ syncAs \in Device \cup {None}
  /\ session \in BOOLEAN /\ (session => key # None)
  /\ phase \in Phases /\ (phase \in Sending => syncAs # None)
  /\ inflight \in Request \cup {None} /\ (inflight # None => phase = "push")
  /\ device \in [Device -> {"absent", "active", "revoked"}]
  /\ log \in Seq(Nat)
  /\ chainHead \in [Device -> Nat]
  /\ reqs \in [Request -> RequestType]
  /\ \A r \in Request :
       reqs[r].at \in Running \cup {"arriving"} => reqs[r].dev \in Device

SurroundingsOK ==
  mishaps \in 0..Mishaps /\ cut \subseteq Device /\ stuck \in BOOLEAN

TypeOK == StateOK /\ SurroundingsOK

\* The phone stops offering an event only when the store holds it: whatever is
\* lost, repeated or cut short, acknowledged work is never missing
\* (sync.ts markAcked against ingest.service.ts).
AckedAreStored == acked \subseteq Stored

\* The store holds the phone's events in authoring order, each once and
\* without a gap, even when a request and its retry run at the same time
\* (the sort, the chain check and ON CONFLICT of the ingest path).
StoredInOrder ==
  /\ Len(log) <= Len(outbox)
  /\ \A i \in 1..Len(log) : log[i] = i

\* A stored chain never passes from one identity's events to another's: the
\* predecessor of a stored event was signed by the same key.
ChainsStayApart ==
  \A i \in 1..Len(log) :
    LET e == outbox[log[i]]
    IN  e.prev # 0 => e.prev \in Stored /\ outbox[e.prev].dev = e.dev

\* A chain head of device d names a stored event that d signed.
HeadOK(h, d) == h \in 0..Len(log) /\ (h # 0 => outbox[h].dev = d)

\* e was authored before the rest of S.
IsEarliest(e, S) == e \in S /\ \A f \in S : e <= f

\* What a request has read stays true while it runs: its events exist, what it
\* acknowledges is stored, its head is one of its device's, and the event it
\* has decided to append still follows that head and is its device's own.
RequestOK(q) ==
  /\ q.todo \subseteq Events
  /\ q.done \subseteq 1..Len(log)
  /\ q.at \in {"checking", "appending"} => HeadOK(q.head, q.dev)
  /\ q.at = "appending" =>
       \A e \in q.todo :
         IsEarliest(e, q.todo) => e = q.head + 1 /\ outbox[e].dev = q.dev

\* The order of the stamps is the order of authoring, whatever the phone's
\* clock reads and however often the app is restarted: what the gateway's sort
\* relies on (ingest.service.ts:46-51).
StampsGrow ==
  \A e, f \in Events : e < f => Before(outbox[e].hlc, outbox[f].hlc)

\* Why the three above hold: the checks of ingest() rest on the head its request
\* has read, which may be stale, but is never wrong.  Stored events form one
\* chain; a stale head can only lead to an event that is stored already.
StaleHeadsAreHarmless ==
  /\ StoredInOrder
  /\ acked \subseteq 1..Len(log)
  /\ StampsGrow
  /\ \A e \in Events : outbox[e].prev = e - 1
  /\ \A i \in 2..Len(log) : outbox[i - 1].dev = outbox[i].dev
  /\ \A d \in Device : HeadOK(chainHead[d], d)
  /\ \A r \in Request : RequestOK(reqs[r])

-----------------------------------------------------------------------------
(* Liveness.  The app's timer retries every minute while work is waiting    *)
(* and a new sign-in asks for a sync itself, awaits resolve and a hung      *)
(* request is given up; nobody has to author, revoke, sign out, kill the    *)
(* app or repair a projector that is stuck.                                 *)
TimerSync ==
  StartSync /\ Pending # {} /\ (phase = "signedOut" => syncAs # key)

PhoneStep ==
  \/ TimerSync \/ NothingToPush \/ PushWithoutSession \/ Collect
  \/ \E r \in Request : PushBatch(r) \/ Receive(r) \/ GiveUp(r)

Fairness ==
  /\ WF_vars(PhoneStep /\ mishaps' = mishaps)
  /\ \A r \in Request : WF_vars(Ingest(r) /\ mishaps' = mishaps)

FairSpec == Spec /\ Fairness

\* The next event the gateway wants is one it will refuse: its head is not the
\* event before, or the event is signed by another key.
NextRefused ==
  /\ Len(log) < Len(outbox)
  /\ LET e == outbox[Len(log) + 1]
     IN  e.dev # key \/ e.prev # chainHead[key]
NewKey == \E e \in {Len(log), Len(log) + 1} \cap Events : outbox[e].dev # key

\* The work of a phone that stays signed in reaches the store and is
\* acknowledged, whatever is lost, unless it is refused, because a request was
\* cut short or overlapped before it or because another key signed a part, and
\* unless the projector is stuck: pushes are then stored and answered with an
\* error, and the phone offers them again until somebody repairs it
\* (sync.controller.ts:47-51).
Delivered ==
  []<>(\/ Pending = {} \/ ~session \/ device[key] = "revoked" \/ stuck
       \/ NextRefused /\ (key \in cut \/ NewKey))

\* A sync always ends: one hung request does not hold the single in-flight
\* sync open for ever (transport.ts:36-40).
SyncEnds == []<>(phase \notin Sending)

-----------------------------------------------------------------------------
(* What the gateway's store promises the phone, with the requests left out. *)
Promise == INSTANCE WorkLog WITH
             written <- Len(outbox), recorded <- Len(log), confirmed <- acked
PromiseSpec == Promise!Spec
=============================================================================
