-------------------------- MODULE DeviceSyncProofs --------------------------
(***************************************************************************)
(* What DeviceSync guarantees for any number of identities, request slots  *)
(* and events, whatever dies, is lost or overlaps, however often: the      *)
(* types, that acknowledged work is stored, that the store holds the       *)
(* phone's work in order, that chains of two identities never mix, and     *)
(* that DeviceSync implements WorkLog.                                     *)
(***************************************************************************)
EXTENDS DeviceSync, TLAPS

-----------------------------------------------------------------------------
(* Requests as records.  Each action changes at most one request; the       *)
(* lemmas below say what the changed record is, field by field.             *)

\* q at another stage, with other progress.
Moved(q, at, todo, head, done) ==
  [at |-> at, dev |-> q.dev, token |-> q.token, todo |-> todo, head |-> head,
   done |-> done, reply |-> q.reply]

LEMMA StageFacts ==
  /\ "arriving" \in Stages /\ "admitted" \in Stages /\ "checking" \in Stages
  /\ "appending" \in Stages /\ "answered" \in Stages /\ "lost" \in Stages
  /\ "free" \in Stages
  /\ "ok" \in Replies /\ "sig" \in Replies /\ "chain" \in Replies
  /\ "refused" \in Replies /\ "error" \in Replies /\ "none" \in Replies
BY DEF Stages, Running, Replies

LEMMA SlotType == \A at \in Stages : Slot(at) \in RequestType
BY StageFacts DEF Slot, RequestType

LEMMA FreeType == Free \in RequestType
BY SlotType, StageFacts DEF Free

LEMMA MovedType ==
  ASSUME NEW q \in RequestType, NEW at \in Stages, NEW todo \in SUBSET Nat,
         NEW head \in Nat, NEW done \in SUBSET Nat
  PROVE  Moved(q, at, todo, head, done) \in RequestType
BY DEF Moved, RequestType

\* The record AppendEvent leaves.
Appended(q, head, todo, done) ==
  [q EXCEPT !.at = "checking", !.head = head, !.todo = todo,
            !.done = done]

LEMMA AppendedRecord ==
  ASSUME NEW q \in RequestType, NEW head \in Nat, NEW todo \in SUBSET Nat,
         NEW done \in SUBSET Nat
  PROVE  Appended(q, head, todo, done)
           = Moved(q, "checking", todo, head, done)
<1> DEFINE p1 == [q EXCEPT !.at = "checking"]
           p2 == [p1 EXCEPT !.head = head]
           p3 == [p2 EXCEPT !.todo = todo]
<1>1. Appended(q, head, todo, done) = [p3 EXCEPT !.done = done]
  BY Zenon DEF Appended
<1>2. /\ p1 \in RequestType
      /\ p1 = Moved(q, "checking", q.todo, q.head, q.done)
  BY StageFacts DEF RequestType, Moved
<1> HIDE DEF p1
<1>3. /\ p2 \in RequestType
      /\ p2 = Moved(q, "checking", q.todo, head, q.done)
  BY <1>2 DEF RequestType, Moved
<1> HIDE DEF p2
<1>4. /\ p3 \in RequestType
      /\ p3 = Moved(q, "checking", todo, head, q.done)
  BY <1>3 DEF RequestType, Moved
<1> HIDE DEF p3
<1>5. QED BY <1>1, <1>4 DEF RequestType, Moved

\* The record PushBatch leaves.
LEMMA PushedRecord ==
  ASSUME NEW q \in RequestType, NEW dev \in Device, NEW token \in Device,
         NEW todo \in SUBSET Nat
  PROVE  [q EXCEPT !.at = "arriving", !.dev = dev, !.token = token,
                   !.todo = todo]
           = [at |-> "arriving", dev |-> dev, token |-> token, todo |-> todo,
              head |-> q.head, done |-> q.done,
              reply |-> q.reply]
<1> DEFINE p1 == [q EXCEPT !.at = "arriving"]
           p2 == [p1 EXCEPT !.dev = dev]
           p3 == [p2 EXCEPT !.token = token]
<1>1. [q EXCEPT !.at = "arriving", !.dev = dev, !.token = token,
                !.todo = todo] = [p3 EXCEPT !.todo = todo]
  BY Zenon
<1>2. /\ p1 \in RequestType
      /\ p1 = Moved(q, "arriving", q.todo, q.head, q.done)
  BY StageFacts DEF RequestType, Moved
<1> HIDE DEF p1
<1>3. /\ p2 \in RequestType
      /\ p2 = [at |-> "arriving", dev |-> dev, token |-> q.token,
               todo |-> q.todo, head |-> q.head, done |-> q.done,
               reply |-> q.reply]
  BY <1>2 DEF RequestType, Moved
<1> HIDE DEF p2
<1>4. /\ p3 \in RequestType
      /\ p3 = [at |-> "arriving", dev |-> dev, token |-> token,
               todo |-> q.todo, head |-> q.head, done |-> q.done,
               reply |-> q.reply]
  BY <1>3 DEF RequestType
<1> HIDE DEF p3
<1>5. QED BY <1>1, <1>4 DEF RequestType

\* A step of request r replaces r's record and no other.
OnlyChanges(r, q) == reqs' = [reqs EXCEPT ![r] = q]

LEMMA AnswerRecord ==
  ASSUME reqs \in [Request -> RequestType], NEW r \in Request,
         NEW reply \in Replies, Answer(r, reply)
  PROVE  \E q \in RequestType :
           /\ OnlyChanges(r, q)
           /\ q.at \notin Running \cup {"arriving"}
           /\ \/ q = Free
              \/ /\ q.dev = reqs[r].dev /\ q.todo = reqs[r].todo
                 /\ q.head = reqs[r].head /\ q.done = reqs[r].done
<1> DEFINE q == [reqs[r] EXCEPT !.at = "answered", !.reply = reply]
<1>1. CASE inflight = r
  <2>1. q \in RequestType
    BY StageFacts DEF RequestType
  <2>2. /\ q.at = "answered" /\ q.dev = reqs[r].dev /\ q.todo = reqs[r].todo
        /\ q.head = reqs[r].head /\ q.done = reqs[r].done
    BY DEF RequestType
  <2>3. OnlyChanges(r, q)
    BY <1>1, Zenon DEF Answer, OnlyChanges
  <2> HIDE DEF q
  <2>4. QED BY <2>1, <2>2, <2>3 DEF Running
<1>2. CASE inflight # r
  <2>1. OnlyChanges(r, Free)
    BY <1>2 DEF Answer, OnlyChanges
  <2>2. Free.at = "free"
    BY DEF Free, Slot
  <2>3. QED BY <2>1, <2>2, FreeType DEF Running
<1>3. QED BY <1>1, <1>2

LEMMA ReadHeadRecord ==
  ASSUME StateOK, NEW r \in Request, ReadHead(r)
  PROVE  \E q \in RequestType :
           /\ OnlyChanges(r, q)
           /\ q.at = "checking" /\ q.head = chainHead[q.dev]
           /\ q.dev = reqs[r].dev /\ reqs[r].dev \in Device
           /\ q.todo = reqs[r].todo /\ q.done = reqs[r].done
<1> DEFINE q == [reqs[r] EXCEPT !.at = "checking",
                                !.head = chainHead[reqs[r].dev]]
<1>1. reqs[r] \in RequestType /\ reqs[r].dev \in Device
  BY DEF StateOK, ReadHead, Running
<1>2. chainHead[reqs[r].dev] \in Nat
  BY <1>1 DEF StateOK
<1>3. q \in RequestType
  BY <1>1, <1>2, StageFacts DEF RequestType
<1>4. /\ q.at = "checking" /\ q.head = chainHead[reqs[r].dev]
      /\ q.dev = reqs[r].dev /\ q.todo = reqs[r].todo
      /\ q.done = reqs[r].done
  BY <1>1, <1>2 DEF RequestType
<1>5. OnlyChanges(r, q)
  BY Zenon DEF ReadHead, OnlyChanges
<1> HIDE DEF q
<1>6. QED BY <1>1, <1>3, <1>4, <1>5

LEMMA AdmitRecord ==
  ASSUME StateOK, NEW r \in Request, Admit(r)
  PROVE  \E q \in RequestType :
           /\ OnlyChanges(r, q)
           /\ q.at \in Running \cup {"arriving"} => q.dev \in Device
           /\ q.at \notin {"checking", "appending"}
           /\ \/ q = Free
              \/ /\ q.dev = reqs[r].dev /\ q.todo = reqs[r].todo
                 /\ q.head = reqs[r].head /\ q.done = reqs[r].done
<1>1. reqs[r] \in RequestType /\ reqs[r].dev \in Device
  BY DEF StateOK, Admit
<1>2. CASE reqs' = [reqs EXCEPT ![r].at = "admitted"]
  <2> DEFINE q == [reqs[r] EXCEPT !.at = "admitted"]
  <2>1. /\ q \in RequestType
        /\ q = Moved(reqs[r], "admitted", reqs[r].todo, reqs[r].head,
                     reqs[r].done)
    BY <1>1, StageFacts DEF RequestType, Moved
  <2>2. OnlyChanges(r, q)
    BY <1>2, Zenon DEF OnlyChanges
  <2> HIDE DEF q
  <2>3. QED BY <1>1, <2>1, <2>2 DEF Moved
<1>3. CASE Answer(r, "refused")
  BY <1>3, AnswerRecord, StageFacts DEF StateOK, Running
<1>4. QED BY <1>2, <1>3 DEF Admit

LEMMA CheckRecord ==
  ASSUME StateOK, NEW r \in Request, NEW e \in reqs[r].todo, CheckEvent(r, e)
  PROVE  \E q \in RequestType :
           /\ OnlyChanges(r, q)
           /\ q.at \in Running \cup {"arriving"} => q.dev \in Device
           /\ \/ q = Free
              \/ /\ q.dev = reqs[r].dev /\ q.head = reqs[r].head
                 /\ q.todo \subseteq reqs[r].todo
                 /\ q.done \subseteq reqs[r].done \cup (Stored \cap {e})
           /\ q.at = "appending" =>
                /\ q.todo = reqs[r].todo
                /\ e \notin Stored /\ IsFirst(e, reqs[r].todo)
                /\ outbox[e].dev = q.dev /\ outbox[e].prev = q.head
<1>1. /\ reqs[r] \in RequestType /\ reqs[r].dev \in Device
      /\ reqs[r].todo \in SUBSET Nat /\ reqs[r].done \in SUBSET Nat
      /\ e \in Nat
  BY DEF StateOK, RequestType, CheckEvent, Running
<1>2. CASE e \in Stored
  <2> DEFINE q == [reqs[r] EXCEPT !.todo = @ \ {e}, !.done = @ \cup {e}]
  <2>1. q \in RequestType
    BY <1>1 DEF RequestType
  <2>2. /\ q.at = reqs[r].at /\ q.dev = reqs[r].dev /\ q.head = reqs[r].head
        /\ q.todo = reqs[r].todo \ {e} /\ q.done = reqs[r].done \cup {e}
    BY <1>1 DEF RequestType
  <2>3. OnlyChanges(r, q)
    BY <1>2, Zenon DEF CheckEvent, OnlyChanges
  <2> HIDE DEF q
  <2>4. QED BY <1>1, <1>2, <2>1, <2>2, <2>3 DEF CheckEvent
<1>3. CASE e \notin Stored /\ SignatureHolds(e, reqs[r].dev)
             /\ outbox[e].prev = reqs[r].head
  <2> DEFINE q == [reqs[r] EXCEPT !.at = "appending"]
  <2>1. /\ q \in RequestType
        /\ q = Moved(reqs[r], "appending", reqs[r].todo, reqs[r].head,
                     reqs[r].done)
    BY <1>1, StageFacts DEF RequestType, Moved
  <2>2. OnlyChanges(r, q)
    BY <1>3, Zenon DEF CheckEvent, OnlyChanges
  <2> HIDE DEF q
  <2>3. QED BY <1>1, <1>3, <2>1, <2>2 DEF Moved, CheckEvent, SignatureHolds
<1>4. CASE Answer(r, "sig") \/ Answer(r, "chain")
  BY <1>4, AnswerRecord, StageFacts DEF StateOK, Running
<1>5. QED BY <1>2, <1>3, <1>4 DEF CheckEvent

LEMMA AppendRecord ==
  ASSUME StateOK, NEW r \in Request, NEW e \in reqs[r].todo, AppendEvent(r, e)
  PROVE  \E q \in RequestType :
           /\ OnlyChanges(r, q)
           /\ q.at = "checking" /\ q.dev = reqs[r].dev /\ q.head = e
           /\ q.todo \subseteq reqs[r].todo
           /\ q.done = reqs[r].done \cup {e}
           /\ reqs[r].dev \in Device
<1> DEFINE p == reqs[r]
           todo == p.todo \ {e}
           done == p.done \cup {e}
           q == Appended(p, e, todo, done)
           m == Moved(p, "checking", todo, e, done)
<1>1. /\ p \in RequestType /\ p.dev \in Device
      /\ e \in Nat /\ todo \in SUBSET Nat
      /\ done \in SUBSET Nat
  BY DEF StateOK, RequestType, AppendEvent, Running
<1>2. OnlyChanges(r, q)
  BY Zenon DEF AppendEvent, OnlyChanges, Appended
<1>3. todo \subseteq p.todo /\ done = p.done \cup {e}
  OBVIOUS
<1> HIDE DEF p, todo, done
<1>4. q = m
  BY <1>1, AppendedRecord
<1>5. m \in RequestType
  BY <1>1, MovedType, StageFacts
<1>6. /\ m.at = "checking" /\ m.dev = p.dev /\ m.head = e
      /\ m.todo = todo /\ m.done = done
  BY DEF Moved
<1> HIDE DEF q, m
<1>7. OnlyChanges(r, m) /\ m.todo \subseteq p.todo /\ m.done = p.done \cup {e}
  BY <1>2, <1>3, <1>4, <1>6
<1>8. QED BY <1>1, <1>5, <1>6, <1>7 DEF p

LEMMA PushRecord ==
  ASSUME StateOK, NEW r \in Request, PushBatch(r)
  PROVE  \E q \in RequestType :
           /\ OnlyChanges(r, q)
           /\ q.at = "arriving" /\ q.dev \in Device /\ q.todo \subseteq Events
           /\ q.head = reqs[r].head /\ q.done = reqs[r].done
<1> DEFINE q == [reqs[r] EXCEPT !.at = "arriving", !.dev = syncAs,
                                !.token = key, !.todo = Batch]
           m == [at |-> "arriving", dev |-> syncAs, token |-> key,
                 todo |-> Batch, head |-> reqs[r].head, done |-> reqs[r].done,
                 reply |-> reqs[r].reply]
<1>1. Batch \subseteq Events /\ Batch \in SUBSET Nat
  BY DEF Batch, Pending, Events, StateOK
<1>2. reqs[r] \in RequestType /\ syncAs \in Device /\ key \in Device
  BY DEF StateOK, PushBatch, Sending
<1>3. OnlyChanges(r, q)
  BY Zenon DEF PushBatch, OnlyChanges
<1>4. q = m
  BY <1>1, <1>2, PushedRecord, Zenon
<1>5. m \in RequestType
  BY <1>1, <1>2, StageFacts DEF RequestType
<1>6. /\ m.at = "arriving" /\ m.dev = syncAs /\ m.todo = Batch
      /\ m.head = reqs[r].head /\ m.done = reqs[r].done
  OBVIOUS
<1> HIDE DEF q, m
<1>7. QED BY <1>1, <1>2, <1>3, <1>4, <1>5, <1>6

-----------------------------------------------------------------------------
(* The clock *)

\* Sending moves the clock forward, whatever the wall clock reads.
LEMMA SendMovesOn ==
  ASSUME NEW last \in Stamp, NEW now \in Nat
  PROVE  Send(last, now) \in Stamp /\ Before(last, Send(last, now))
BY DEF Stamp, Send, Before

\* Before is a strict order.
LEMMA BeforeOrders ==
  /\ \A s, t, u \in Stamp : Before(s, t) /\ Before(t, u) => Before(s, u)
  /\ \A s, t \in Stamp : Before(s, t) => ~Before(t, s)
BY DEF Stamp, Before

LEMMA ElementType ==
  ASSUME NEW T, NEW s \in Seq(T), NEW i \in 1..Len(s)
  PROVE  s[i] \in T
OBVIOUS

\* What the type of the outbox says of one event.
LEMMA EventType ==
  ASSUME StateOK, NEW e \in Events
  PROVE  outbox[e].hlc \in Stamp /\ outbox[e].dev \in Device
<1>1. outbox \in Seq([prev : Nat, dev : Device, hlc : Stamp])
  BY DEF StateOK
<1>2. outbox[e] \in [prev : Nat, dev : Device, hlc : Stamp]
  BY <1>1, ElementType DEF Events
<1>3. QED BY <1>2

LEMMA FreshType == Fresh \in Stamp
BY DEF Fresh, Stamp

\* The stamp of a new event comes after the one of the last.
LEMMA AuthoredStamp ==
  ASSUME StateOK, Author
  PROVE  LET new == Send(ResumeClock, Now[Len(outbox) + 1])
         IN  /\ new \in Stamp
             /\ outbox # <<>> => Before(outbox[Len(outbox)].hlc, new)
<1>1. Now[Len(outbox) + 1] \in Nat
  <2>1. Len(outbox) \in Nat /\ Len(outbox) < MaxEvents
    BY DEF StateOK, Author
  <2>2. Len(outbox) + 1 \in 1..MaxEvents
    BY <2>1, BoundsAssumption
  <2>3. QED BY <2>2, ClockAssumption
<1>2. outbox # <<>> => outbox[Len(outbox)].hlc \in Stamp
  <2>1. outbox # <<>> => Len(outbox) \in Events
    BY DEF StateOK, Events
  <2>2. QED BY <2>1, EventType
<1>3. ResumeClock \in Stamp
  BY <1>2, FreshType DEF ResumeClock, LastAuthored
<1>4. QED BY <1>1, <1>3, SendMovesOn DEF ResumeClock, LastAuthored

\* What the gateway takes first is what was authored first.
LEMMA FirstIsEarliest ==
  ASSUME StateOK, StampsGrow, NEW S \in SUBSET Events, NEW e
  PROVE  IsFirst(e, S) <=> IsEarliest(e, S)
<1>1. Len(outbox) \in Nat /\ \A f \in Events : outbox[f].hlc \in Stamp
  BY EventType DEF StateOK
<1>2. \A f \in Events : ~Before(outbox[f].hlc, outbox[f].hlc)
  BY <1>1, BeforeOrders
<1>3. \A f, g \in Events :
        f <= g <=> ~Before(outbox[g].hlc, outbox[f].hlc)
  <2>1. SUFFICES ASSUME NEW f \in Events, NEW g \in Events
                 PROVE  f <= g <=> ~Before(outbox[g].hlc, outbox[f].hlc)
    OBVIOUS
  <2>2. f \in Nat /\ g \in Nat
    BY <1>1 DEF Events
  <2>3. CASE f < g
    BY <1>1, <2>2, <2>3, BeforeOrders DEF StampsGrow
  <2>4. CASE g < f
    BY <2>2, <2>4 DEF StampsGrow
  <2>5. CASE f = g
    BY <1>2, <2>2, <2>5
  <2>6. QED BY <2>2, <2>3, <2>4, <2>5
<1>4. QED BY <1>3 DEF IsFirst, IsEarliest

-----------------------------------------------------------------------------
(* Types *)

\* What StateOK says of the requests; the other conjuncts fit one step each.
RequestsOK ==
  /\ reqs \in [Request -> RequestType]
  /\ \A r \in Request :
       reqs[r].at \in Running \cup {"arriving"} => reqs[r].dev \in Device

LEMMA ReplaceType ==
  ASSUME StateOK, NEW r \in Request, NEW q \in RequestType, OnlyChanges(r, q),
         q.at \in Running \cup {"arriving"} => q.dev \in Device
  PROVE  RequestsOK'
BY DEF StateOK, RequestsOK, OnlyChanges

LEMMA FreeRequest ==
  ASSUME StateOK, NEW r \in Request, reqs' = [reqs EXCEPT ![r] = Free]
  PROVE  RequestsOK'
<1>1. Free.at = "free"
  BY DEF Free, Slot
<1>2. QED BY <1>1, FreeType, ReplaceType DEF OnlyChanges, Running

LEMMA AnswerType ==
  ASSUME StateOK, NEW r \in Request, NEW reply \in Replies, Answer(r, reply)
  PROVE  RequestsOK'
BY AnswerRecord, ReplaceType DEF StateOK

LEMMA AbandonType ==
  ASSUME StateOK, NEW r \in Request, Abandon(r)
  PROVE  RequestsOK'
<1>1. CASE UNCHANGED reqs
  BY <1>1 DEF StateOK, RequestsOK
<1>2. CASE reqs' = [reqs EXCEPT ![r] = Free]
  BY <1>2, FreeRequest
<1>3. QED BY <1>1, <1>2 DEF Abandon

LEMMA InitType == Init => StateOK
<1> SUFFICES ASSUME Init PROVE StateOK
  OBVIOUS
<1>1. outbox \in Seq([prev : Nat, dev : Device, hlc : Stamp]) /\ log \in Seq(Nat)
  BY DEF Init
<1>2. reqs \in [Request -> RequestType]
  BY FreeType DEF Init
<1>3. /\ chainHead \in [Device -> Nat]
      /\ device \in [Device -> {"absent", "active", "revoked"}]
  BY DEF Init
<1>4. phase \in Phases /\ (phase \in Sending => syncAs # None)
  BY DEF Init, Phases, Sending
<1>5. \A r \in Request :
        reqs[r].at \in Running \cup {"arriving"} => reqs[r].dev \in Device
  BY DEF Init, Free, Slot, Running
<1>6. QED BY <1>1, <1>2, <1>3, <1>4, <1>5 DEF Init, StateOK

\* A stuck projector shows neither in the phone nor in what ingest() keeps.
LEMMA StuckAside ==
  GetStuck \/ Repaired
    => /\ UNCHANGED <<outbox, acked, key, session, phase, syncAs, inflight>>
       /\ UNCHANGED <<device, log, chainHead, reqs>>
BY Zenon DEF GetStuck, Repaired, phone, gateway

LEMMA NextType == StateOK /\ [Next]_vars => StateOK'
<1> SUFFICES ASSUME StateOK, [Next]_vars PROVE StateOK'
  OBVIOUS
<1> USE DEF phone, gateway
<1>1. CASE Author
  <2>1. key \in Device /\ LastAuthored \in Nat
    BY <1>1 DEF StateOK, Author, LastAuthored
  <2>2. outbox' \in Seq([prev : Nat, dev : Device, hlc : Stamp])
    <3>1. Send(ResumeClock, Now[Len(outbox) + 1]) \in Stamp
      BY <1>1, AuthoredStamp
    <3>2. QED BY <1>1, <2>1, <3>1 DEF StateOK, Author
  <2>3. QED BY <1>1, <2>2 DEF StateOK, Author
<1>2. CASE StartSync
  BY <1>2 DEF StateOK, StartSync, Phases, Sending
<1>3. CASE PushWithoutSession
  BY <1>3 DEF StateOK, PushWithoutSession, Phases, Sending
<1>4. CASE NothingToPush
  BY <1>4 DEF StateOK, NothingToPush, Phases, Sending
<1>5. CASE Collect
  BY <1>5 DEF StateOK, Collect, Phases, Sending
<1>6. CASE AppKilled
  <2>1. RequestsOK'
    <3>1. CASE inflight = None
      BY <1>6, <3>1 DEF AppKilled, StateOK, RequestsOK
    <3>2. CASE inflight # None
      BY <1>6, <3>2, AbandonType DEF AppKilled, StateOK
    <3>3. QED BY <3>1, <3>2
  <2>2. phase' \in Phases /\ phase' \notin Sending
    BY <1>6 DEF AppKilled, Phases, Sending
  <2>3. QED BY <1>6, <2>1, <2>2 DEF AppKilled, StateOK, RequestsOK
<1>7. CASE SignOut \/ SignOutKeepingWork
  BY <1>7 DEF StateOK, SignOut, SignOutKeepingWork
<1>8. ASSUME NEW d \in Device, Activate(d) PROVE StateOK'
  BY <1>8, NoneAssumption DEF StateOK, Activate
<1>9. ASSUME NEW d \in Device, RevokeDevice(d) PROVE StateOK'
  BY <1>9 DEF StateOK, RevokeDevice
<1>10. ASSUME NEW r \in Request, PushBatch(r) PROVE StateOK'
  <2>1. RequestsOK'
    BY <1>10, PushRecord, ReplaceType
  <2>2. QED BY <1>10, <2>1 DEF StateOK, PushBatch, RequestsOK
<1>11. ASSUME NEW r \in Request, Receive(r) PROVE StateOK'
  <2>1. RequestsOK'
    BY <1>11, FreeRequest DEF Receive
  <2>2. phase' \in {"offline", "collect", "push"}
    <3>1. CASE reqs[r].reply = "ok"
      BY <1>11, <3>1 DEF Receive
    <3>2. CASE reqs[r].reply # "ok"
      BY <1>11, <3>2 DEF Receive
    <3>3. QED BY <3>1, <3>2
  <2>3. phase = "push" /\ syncAs # None
    BY <1>11, NoneAssumption DEF StateOK, Receive, Sending
  <2>4. phase' \in Phases /\ (phase' \in Sending => syncAs' # None)
    BY <1>11, <2>2, <2>3 DEF Receive, Phases, Sending
  <2>5. acked' \in SUBSET Nat
    BY <1>11 DEF StateOK, Receive, AckedAfter, RequestType
  <2>6. QED BY <1>11, <2>1, <2>4, <2>5 DEF StateOK, Receive, RequestsOK
<1>12. ASSUME NEW r \in Request, GiveUp(r) PROVE StateOK'
  <2>1. RequestsOK'
    BY <1>12, AbandonType DEF GiveUp
  <2>2. phase' \in Phases /\ phase' \notin Sending
    BY <1>12 DEF GiveUp, Phases, Sending
  <2>3. QED BY <1>12, <2>1, <2>2 DEF StateOK, GiveUp, RequestsOK
<1>13. ASSUME NEW r \in Request, Admit(r) PROVE StateOK'
  <2>1. RequestsOK'
    BY <1>13, AdmitRecord, ReplaceType
  <2>2. QED BY <1>13, <2>1 DEF StateOK, Admit, RequestsOK
<1>14. ASSUME NEW r \in Request, ReadHead(r) PROVE StateOK'
  <2>1. RequestsOK'
    BY <1>14, ReadHeadRecord, ReplaceType
  <2>2. QED BY <1>14, <2>1 DEF StateOK, ReadHead, RequestsOK
<1>15. ASSUME NEW r \in Request, NEW e \in reqs[r].todo, CheckEvent(r, e)
       PROVE  StateOK'
  <2>1. RequestsOK'
    BY <1>15, CheckRecord, ReplaceType
  <2>2. QED BY <1>15, <2>1 DEF StateOK, CheckEvent, RequestsOK
<1>16. ASSUME NEW r \in Request, NEW e \in reqs[r].todo, AppendEvent(r, e)
       PROVE  StateOK'
  <2>1. RequestsOK'
    BY <1>16, AppendRecord, ReplaceType
  <2>2. log' \in Seq(Nat)
    BY <1>16 DEF StateOK, AppendEvent, LogAfter, RequestType
  <2>3. QED BY <1>16, <2>1, <2>2 DEF StateOK, AppendEvent, RequestsOK
<1>17. ASSUME NEW r \in Request, FinishBatch(r) PROVE StateOK'
  <2>1. RequestsOK'
    BY <1>17, AnswerType, StageFacts DEF FinishBatch
  <2>2. chainHead' \in [Device -> Nat]
    BY <1>17 DEF StateOK, FinishBatch, HeadAfter, RequestType
  <2>3. QED BY <1>17, <2>1, <2>2 DEF StateOK, FinishBatch, RequestsOK
<1>18. ASSUME NEW r \in Request, Die(r) PROVE StateOK'
  <2>1. RequestsOK'
    BY <1>18, AnswerType, StageFacts DEF Die
  <2>2. QED BY <1>18, <2>1 DEF StateOK, Die, RequestsOK
<1>19. ASSUME NEW r \in Request, Lose(r) PROVE StateOK'
  <2>1. CASE reqs' = [reqs EXCEPT ![r] = Slot("lost")]
    <3>1. Slot("lost") \in RequestType /\ Slot("lost").at = "lost"
      BY SlotType, StageFacts DEF Slot
    <3>2. RequestsOK'
      BY <2>1, <3>1, ReplaceType DEF OnlyChanges, Running
    <3>3. QED BY <1>19, <3>2 DEF StateOK, Lose, RequestsOK
  <2>2. CASE reqs' = [reqs EXCEPT ![r] = Free]
    BY <1>19, <2>2, FreeRequest DEF StateOK, Lose, RequestsOK
  <2>3. QED BY <1>19, <2>1, <2>2 DEF Lose
<1>20. CASE GetStuck \/ Repaired \/ UNCHANGED vars
  <2>1. /\ UNCHANGED <<outbox, acked, key, session, phase, syncAs, inflight>>
        /\ UNCHANGED <<device, log, chainHead, reqs>>
    BY <1>20, StuckAside DEF vars
  <2>2. QED BY <2>1 DEF StateOK
<1>21. QED
  BY <1>1, <1>2, <1>3, <1>4, <1>5, <1>6, <1>7, <1>8, <1>9, <1>10, <1>11,
     <1>12, <1>13, <1>14, <1>15, <1>16, <1>17, <1>18, <1>19, <1>20
  DEF Next, Ingest

LEMMA StateCorrect == Spec => []StateOK
BY InitType, NextType, PTL DEF Spec

LEMMA MishapsDecrease ==
  ASSUME SurroundingsOK, NEW d \in Device, Plain \/ Aside \/ CutShort(d)
  PROVE  SurroundingsOK'
BY BoundsAssumption DEF SurroundingsOK, Plain, Aside, CutShort, Mishap

LEMMA AbandonSurroundings ==
  ASSUME StateOK, SurroundingsOK, NEW r \in Request, Abandon(r)
  PROVE  SurroundingsOK'
<1>1. CASE reqs[r].at \in Running \cup {"arriving"}
  <2>1. reqs[r].dev \in Device
    BY <1>1 DEF StateOK
  <2>2. QED BY <1>1, <2>1, MishapsDecrease DEF Abandon
<1>2. CASE reqs[r].at \notin Running \cup {"arriving"}
  <2>1. Plain \/ Aside
    BY <1>2 DEF Abandon
  <2>2. QED BY <2>1, BoundsAssumption DEF SurroundingsOK, Plain, Aside, Mishap
<1>3. QED BY <1>1, <1>2

LEMMA NextSurroundings ==
  StateOK /\ SurroundingsOK /\ [Next]_vars => SurroundingsOK'
<1> SUFFICES ASSUME StateOK, SurroundingsOK, [Next]_vars PROVE SurroundingsOK'
  OBVIOUS
<1>1. ASSUME Plain \/ Aside PROVE SurroundingsOK'
  BY <1>1, BoundsAssumption DEF SurroundingsOK, Plain, Aside, Mishap
<1>2. CASE \/ Author \/ StartSync \/ PushWithoutSession \/ NothingToPush \/ Collect
           \/ SignOut \/ SignOutKeepingWork
           \/ \E d \in Device : Activate(d) \/ RevokeDevice(d)
  BY <1>1, <1>2 DEF Author, StartSync, PushWithoutSession, NothingToPush, Collect,
     SignOut, SignOutKeepingWork, Activate, RevokeDevice
<1>3. CASE AppKilled
  <2>1. CASE inflight = None
    BY <1>1, <1>3, <2>1 DEF AppKilled
  <2>2. CASE inflight # None
    BY <1>3, <2>2, AbandonSurroundings DEF AppKilled, StateOK
  <2>3. QED BY <2>1, <2>2
<1>4. ASSUME NEW r \in Request, PushBatch(r) \/ Receive(r) \/ Ingest(r) \/ Lose(r)
      PROVE  SurroundingsOK'
  BY <1>1, <1>4 DEF PushBatch, Receive, Ingest, Lose, Admit, ReadHead, CheckEvent,
     AppendEvent, FinishBatch
<1>5. ASSUME NEW r \in Request, GiveUp(r) PROVE SurroundingsOK'
  BY <1>5, AbandonSurroundings DEF GiveUp
<1>6. ASSUME NEW r \in Request, Die(r) PROVE SurroundingsOK'
  <2>1. reqs[r].dev \in Device
    BY <1>6 DEF Die, StateOK
  <2>2. QED BY <1>6, <2>1, MishapsDecrease DEF Die
<1>7. CASE GetStuck \/ Repaired \/ UNCHANGED vars
  <2>1. stuck' \in BOOLEAN /\ cut' = cut
    BY <1>7, Zenon DEF GetStuck, Repaired, SurroundingsOK, vars
  <2>2. Mishap \/ mishaps' = mishaps
    BY <1>7, Zenon DEF GetStuck, Repaired, vars
  <2>3. mishaps' \in 0..Mishaps
    BY <2>2, BoundsAssumption DEF SurroundingsOK, Mishap
  <2>4. QED BY <2>1, <2>3, Zenon DEF SurroundingsOK
<1>8. QED BY <1>2, <1>3, <1>4, <1>5, <1>6, <1>7 DEF Next

\* Whatever the phone, the gateway and the network do, the variables keep
\* their shapes; a session always has a key, a running request a device.
THEOREM TypeCorrect == Spec => []TypeOK
<1>1. Init => SurroundingsOK
  <2>1. Init => mishaps \in 0..Mishaps
    BY BoundsAssumption DEF Init
  <2>2. QED BY <2>1, Zenon DEF Init, SurroundingsOK
<1>2. QED BY <1>1, NextSurroundings, StateCorrect, PTL DEF Spec, TypeOK

-----------------------------------------------------------------------------
(* Safety *)

LEMMA StoredIs ==
  ASSUME StateOK, StoredInOrder
  PROVE  Stored = 1..Len(log) /\ Stored \subseteq Events
<1>1. Len(log) \in Nat /\ Len(outbox) \in Nat /\ Len(log) <= Len(outbox)
  BY DEF StateOK, StoredInOrder
<1>2. ASSUME NEW e PROVE e \in Stored <=> e \in 1..Len(log)
  BY DEF StoredInOrder, Stored
<1>3. Stored = 1..Len(log)
  BY <1>2
<1>4. QED BY <1>1, <1>3 DEF Events

\* Authoring and storing more disturbs nothing a request has read.
LEMMA Grows ==
  ASSUME StateOK, StoredInOrder, Len(outbox') \in Nat, Len(log') \in Nat,
         Len(outbox) <= Len(outbox'), Len(log) <= Len(log'),
         \A e \in Events : outbox'[e] = outbox[e]
  PROVE  /\ \A h \in Nat, d \in Device : HeadOK(h, d) => HeadOK(h, d)'
         /\ \A q \in RequestType :
              /\ q.at \in Running \cup {"arriving"} => q.dev \in Device
              /\ RequestOK(q)
              => RequestOK(q)'
<1>1. Len(outbox) \in Nat /\ Len(log) \in Nat /\ Len(log) <= Len(outbox)
  BY DEF StateOK, StoredInOrder
<1>2. \A h \in Nat, d \in Device : HeadOK(h, d) => HeadOK(h, d)'
  BY <1>1 DEF HeadOK, Events
<1>3. ASSUME NEW q \in RequestType, RequestOK(q),
             q.at \in Running \cup {"arriving"} => q.dev \in Device
      PROVE  RequestOK(q)'
  <2>1. q.todo \subseteq Events' /\ q.done \subseteq 1..Len(log')
    BY <1>1, <1>3 DEF RequestOK, Events
  <2>2. q.at \in {"checking", "appending"} => HeadOK(q.head, q.dev)'
    BY <1>2, <1>3 DEF RequestOK, RequestType, Running
  <2>3. q.at = "appending" =>
          \A e \in q.todo :
            IsEarliest(e, q.todo) => e = q.head + 1 /\ outbox'[e].dev = q.dev
    BY <1>3 DEF RequestOK
  <2>4. QED BY <2>1, <2>2, <2>3 DEF RequestOK, IsEarliest
<1>4. QED BY <1>2, <1>3

LEMMA FreeOK == RequestOK(Free)
<1>1. Free.todo = {} /\ Free.done = {} /\ Free.at = "free"
  BY DEF Free, Slot
<1>2. QED BY <1>1 DEF RequestOK

\* One request changed, the store and the outbox did not.
LEMMA ReplaceSafe ==
  ASSUME StateOK, StaleHeadsAreHarmless, UNCHANGED <<outbox, log>>,
         acked' \subseteq 1..Len(log), \A d \in Device : HeadOK(chainHead'[d], d),
         NEW r \in Request, NEW q \in RequestType,
         OnlyChanges(r, q), RequestOK(q)
  PROVE  StaleHeadsAreHarmless'
<1>1. \A p \in Request : RequestOK(reqs'[p])
  BY DEF StateOK, StaleHeadsAreHarmless, OnlyChanges
<1>2. \A p : RequestOK(p) => RequestOK(p)'
  BY DEF RequestOK, HeadOK, Events, IsEarliest
<1>3. \A h, d : HeadOK(h, d) => HeadOK(h, d)'
  BY DEF HeadOK
<1>4. StoredInOrder' /\ Events' = Events /\ StampsGrow'
  BY DEF StaleHeadsAreHarmless, StoredInOrder, Events, StampsGrow
<1>5. \A d \in Device : HeadOK(chainHead[d], d)'
  BY <1>3
<1>6. \A p \in Request : RequestOK(reqs[p])'
  BY <1>1, <1>2
<1>7. QED BY <1>4, <1>5, <1>6 DEF StaleHeadsAreHarmless

LEMMA SafeInit == Init => StaleHeadsAreHarmless
<1> SUFFICES ASSUME Init PROVE StaleHeadsAreHarmless
  OBVIOUS
<1>1. Len(outbox) = 0 /\ Len(log) = 0 /\ acked = {}
  BY DEF Init
<1>2. \A r \in Request : RequestOK(reqs[r])
  BY FreeOK DEF Init
<1>3. \A d \in Device : HeadOK(chainHead[d], d)
  BY <1>1 DEF Init, HeadOK
<1>4. QED
  BY <1>1, <1>2, <1>3
  DEF StaleHeadsAreHarmless, StoredInOrder, StampsGrow, Events

\* A step that leaves the phone's work, the store and the requests alone.
LEMMA IdleSafe ==
  ASSUME StaleHeadsAreHarmless,
         UNCHANGED <<outbox, acked, log, chainHead, reqs>>
  PROVE  StaleHeadsAreHarmless'
BY DEF StaleHeadsAreHarmless, StoredInOrder, StampsGrow, Events, HeadOK,
   RequestOK, IsEarliest

LEMMA AuthorSafe ==
  ASSUME StateOK, StaleHeadsAreHarmless, Author
  PROVE  StaleHeadsAreHarmless'
<1> USE DEF phone, gateway
<1>1. /\ Len(outbox) \in Nat /\ Len(log) \in Nat /\ Len(log) <= Len(outbox)
      /\ key \in Device
  BY DEF StateOK, StaleHeadsAreHarmless, StoredInOrder, Author
<1>2. /\ Len(outbox') = Len(outbox) + 1
      /\ \A e \in Events : outbox'[e] = outbox[e]
      /\ outbox'[Len(outbox) + 1].prev = Len(outbox)
  BY <1>1 DEF StateOK, Author, Events, LastAuthored
<1>3. UNCHANGED <<log, acked, chainHead, reqs>>
  BY DEF Author
<1>4. /\ \A h \in Nat, d \in Device : HeadOK(h, d) => HeadOK(h, d)'
      /\ \A q \in RequestType :
           /\ q.at \in Running \cup {"arriving"} => q.dev \in Device
           /\ RequestOK(q)
           => RequestOK(q)'
  <2>1. /\ Len(outbox') \in Nat /\ Len(log') \in Nat
        /\ Len(outbox) <= Len(outbox') /\ Len(log) <= Len(log')
    BY <1>1, <1>2, <1>3
  <2>2. QED BY <2>1, <1>2, Grows DEF StaleHeadsAreHarmless
<1>5. \A r \in Request : RequestOK(reqs[r])'
  BY <1>3, <1>4 DEF StateOK, StaleHeadsAreHarmless
<1>6. \A d \in Device : HeadOK(chainHead[d], d)'
  BY <1>3, <1>4 DEF StateOK, StaleHeadsAreHarmless
<1>7. StoredInOrder' /\ acked' \subseteq 1..Len(log')
  BY <1>1, <1>2, <1>3 DEF StaleHeadsAreHarmless, StoredInOrder
<1>8. \A e \in Events' : outbox'[e].prev = e - 1
  BY <1>1, <1>2 DEF StaleHeadsAreHarmless, Events
<1>9. \A i \in 2..Len(log') : outbox'[i - 1].dev = outbox'[i].dev
  <2>1. \A i \in 2..Len(log) : i \in Events /\ i - 1 \in Events
    BY <1>1 DEF Events
  <2>2. QED BY <1>2, <1>3, <2>1 DEF StaleHeadsAreHarmless
<1>10. StampsGrow'
  <2> DEFINE new == Send(ResumeClock, Now[Len(outbox) + 1])
  <2>1. /\ new \in Stamp
        /\ outbox # <<>> => Before(outbox[Len(outbox)].hlc, new)
    BY AuthoredStamp
  <2>2. outbox'[Len(outbox) + 1].hlc = new
    BY <1>1 DEF StateOK, Author, LastAuthored
  <2> HIDE DEF new
  <2>3. SUFFICES ASSUME NEW e \in Events', NEW f \in Events', e < f
                 PROVE  Before(outbox'[e].hlc, outbox'[f].hlc)
    BY DEF StampsGrow
  <2>4. e \in Events /\ outbox # <<>>
    BY <1>1, <1>2, <2>3 DEF Events
  <2>5. CASE f \in Events
    BY <1>2, <2>3, <2>4, <2>5 DEF StaleHeadsAreHarmless, StampsGrow
  <2>6. CASE f = Len(outbox) + 1
    <3>1. \A g \in Events : outbox[g].hlc \in Stamp
      BY EventType
    <3>2. Len(outbox) \in Events /\ (e = Len(outbox) \/ e < Len(outbox))
      BY <1>1, <2>4 DEF Events
    <3>3. e < Len(outbox) => Before(outbox[e].hlc, outbox[Len(outbox)].hlc)
      BY <2>4, <3>2 DEF StaleHeadsAreHarmless, StampsGrow
    <3>4. Before(outbox[e].hlc, new)
      BY <2>1, <2>4, <3>1, <3>2, <3>3, BeforeOrders
    <3>5. QED BY <1>2, <2>2, <2>4, <2>6, <3>4
  <2>7. QED BY <1>1, <1>2, <2>3, <2>5, <2>6 DEF Events
<1>11. QED BY <1>5, <1>6, <1>7, <1>8, <1>9, <1>10 DEF StaleHeadsAreHarmless

LEMMA AppendSafe ==
  ASSUME StateOK, StaleHeadsAreHarmless, NEW r \in Request,
         NEW e \in reqs[r].todo, AppendEvent(r, e)
  PROVE  StaleHeadsAreHarmless'
<1> DEFINE dev == reqs[r].dev
           head == reqs[r].head
<1>1. PICK q \in RequestType :
        /\ OnlyChanges(r, q)
        /\ q.at = "checking" /\ q.dev = dev /\ q.head = e
        /\ q.todo \subseteq reqs[r].todo /\ q.done = reqs[r].done \cup {e}
        /\ dev \in Device
  BY AppendRecord
<1>2. /\ Len(outbox) \in Nat /\ Len(log) \in Nat /\ Len(log) <= Len(outbox)
      /\ log \in Seq(Nat)
  BY DEF StateOK, StaleHeadsAreHarmless, StoredInOrder
<1>3. UNCHANGED <<outbox, acked, chainHead>>
  BY DEF AppendEvent, phone
<1>4. /\ reqs[r].todo \subseteq Events /\ reqs[r].done \subseteq 1..Len(log)
      /\ head \in 0..Len(log) /\ (head # 0 => outbox[head].dev = dev)
      /\ e = head + 1 /\ outbox[e].dev = dev
  <2>1. RequestOK(reqs[r]) /\ reqs[r].at = "appending"
    BY DEF AppendEvent, StaleHeadsAreHarmless
  <2>2. IsEarliest(e, reqs[r].todo)
    BY <2>1, FirstIsEarliest
    DEF AppendEvent, StaleHeadsAreHarmless, RequestOK
  <2>3. QED BY <2>1, <2>2 DEF RequestOK, HeadOK
<1>5. e \in Events /\ e \in Nat \ {0}
  BY <1>2, <1>4 DEF Events
<1>6. \/ e \in 1..Len(log) /\ log' = log
      \/ e = Len(log) + 1 /\ log' = Append(log, e)
  <2>1. Stored = 1..Len(log)
    BY StoredIs DEF StaleHeadsAreHarmless
  <2>2. log' = LogAfter(e)
    BY DEF AppendEvent
  <2>3. head \in 0..Len(log) /\ e = head + 1 /\ Len(log) \in Nat
    BY <1>2, <1>4
  <2>4. e \notin Stored => e = Len(log) + 1
    BY <2>1, <2>3
  <2>5. QED BY <2>1, <2>2, <2>4 DEF LogAfter
<1> HIDE DEF dev, head
<1>7. /\ Len(log') \in Nat /\ Len(log) <= Len(log') /\ e \in 1..Len(log')
      /\ Len(log') <= Len(outbox)
  BY <1>2, <1>5, <1>6 DEF Events
<1>8. \A i \in 1..Len(log') : log'[i] = i
  <2>1. \A i \in 1..Len(log) : log[i] = i
    BY DEF StaleHeadsAreHarmless, StoredInOrder
  <2>2. CASE log' = log
    BY <2>1, <2>2
  <2>3. CASE e = Len(log) + 1 /\ log' = Append(log, e)
    BY <1>2, <1>5, <2>1, <2>3
  <2>4. QED BY <1>6, <2>2, <2>3
<1>9. /\ \A h \in Nat, d \in Device : HeadOK(h, d) => HeadOK(h, d)'
      /\ \A p \in RequestType :
           /\ p.at \in Running \cup {"arriving"} => p.dev \in Device
           /\ RequestOK(p)
           => RequestOK(p)'
  <2>1. Len(outbox') \in Nat /\ Len(outbox) <= Len(outbox')
    BY <1>2, <1>3
  <2>2. \A f \in Events : outbox'[f] = outbox[f]
    BY <1>3
  <2>3. QED BY <1>7, <2>1, <2>2, Grows DEF StaleHeadsAreHarmless
<1>10. RequestOK(q)'
  <2>1. q.todo \subseteq Events' /\ q.done \subseteq 1..Len(log')
    BY <1>1, <1>2, <1>3, <1>4, <1>7 DEF Events
  <2>2. HeadOK(q.head, q.dev)'
    BY <1>1, <1>3, <1>4, <1>5, <1>7 DEF HeadOK
  <2>3. QED BY <1>1, <2>1, <2>2 DEF RequestOK
<1>11. \A p \in Request : RequestOK(reqs[p])'
  BY <1>1, <1>9, <1>10 DEF StateOK, StaleHeadsAreHarmless, OnlyChanges
<1>12. \A d \in Device : HeadOK(chainHead[d], d)'
  BY <1>3, <1>9 DEF StateOK, StaleHeadsAreHarmless
<1>13. StoredInOrder' /\ acked' \subseteq 1..Len(log')
  BY <1>2, <1>3, <1>7, <1>8 DEF StaleHeadsAreHarmless, StoredInOrder
<1>14. \A i \in 2..Len(log') : outbox'[i - 1].dev = outbox'[i].dev
  <2>1. CASE log' = log
    BY <1>3, <2>1 DEF StaleHeadsAreHarmless
  <2>2. CASE e = Len(log) + 1 /\ log' = Append(log, e)
    <3>1. Len(log') = e
      BY <1>2, <2>2
    <3>2. ASSUME NEW i \in 2..e PROVE outbox[i - 1].dev = outbox[i].dev
      <4>1. CASE i = e
        BY <1>4, <1>5, <4>1
      <4>2. CASE i # e
        BY <1>2, <2>2, <3>2, <4>2 DEF StaleHeadsAreHarmless
      <4>3. QED BY <4>1, <4>2
    <3>3. QED BY <1>3, <3>1, <3>2
  <2>3. QED BY <1>6, <2>1, <2>2
<1>15. \A f \in Events' : outbox'[f].prev = f - 1
  BY <1>3 DEF StaleHeadsAreHarmless, Events
<1>16. StampsGrow'
  BY <1>3 DEF StaleHeadsAreHarmless, StampsGrow, Events
<1>17. QED
  BY <1>11, <1>12, <1>13, <1>14, <1>15, <1>16 DEF StaleHeadsAreHarmless

LEMMA NextSafe ==
  StateOK /\ StaleHeadsAreHarmless /\ [Next]_vars => StaleHeadsAreHarmless'
<1> SUFFICES ASSUME StateOK, StaleHeadsAreHarmless, [Next]_vars
             PROVE  StaleHeadsAreHarmless'
  OBVIOUS
<1>a. /\ \A d \in Device : HeadOK(chainHead[d], d)
      /\ \A r \in Request : RequestOK(reqs[r])
      /\ acked \subseteq 1..Len(log)
  BY DEF StaleHeadsAreHarmless
\* Putting one record in place of another, acked and chainHead as they were.
<1>b. ASSUME NEW r \in Request, NEW q \in RequestType, OnlyChanges(r, q),
             RequestOK(q), UNCHANGED <<outbox, acked, log, chainHead>>
      PROVE  StaleHeadsAreHarmless'
  BY <1>a, <1>b, ReplaceSafe
<1>c. ASSUME NEW r \in Request, Abandon(r),
             UNCHANGED <<outbox, acked, log, chainHead>>
      PROVE  StaleHeadsAreHarmless'
  <2>1. CASE UNCHANGED reqs
    BY <1>c, <2>1, IdleSafe
  <2>2. CASE reqs' = [reqs EXCEPT ![r] = Free]
    BY <1>b, <1>c, <2>2, FreeOK, FreeType DEF OnlyChanges
  <2>3. QED BY <1>c, <2>1, <2>2 DEF Abandon
\* An answer keeps what the request had read or frees the slot.
<1>d. ASSUME NEW r \in Request, NEW reply \in Replies, Answer(r, reply)
      PROVE  \E q \in RequestType : OnlyChanges(r, q) /\ RequestOK(q)
  <2>1. PICK q \in RequestType :
          /\ OnlyChanges(r, q)
          /\ q.at \notin Running \cup {"arriving"}
          /\ \/ q = Free
             \/ /\ q.dev = reqs[r].dev /\ q.todo = reqs[r].todo
                /\ q.head = reqs[r].head /\ q.done = reqs[r].done
    BY <1>d, AnswerRecord DEF StateOK
  <2>2. RequestOK(q)
    BY <1>a, <2>1, FreeOK DEF RequestOK, Running
  <2>3. QED BY <2>1, <2>2
<1> USE DEF phone, gateway
<1>1. CASE Author
  BY <1>1, AuthorSafe
<1>2. CASE StartSync \/ PushWithoutSession \/ NothingToPush \/ Collect
             \/ SignOut \/ SignOutKeepingWork \/ GetStuck \/ Repaired
             \/ UNCHANGED vars
  BY <1>2, IdleSafe, StuckAside DEF StartSync, PushWithoutSession, NothingToPush,
     Collect, SignOut, SignOutKeepingWork, vars
<1>3. ASSUME NEW d \in Device, Activate(d) \/ RevokeDevice(d)
      PROVE  StaleHeadsAreHarmless'
  BY <1>3, IdleSafe DEF Activate, RevokeDevice
<1>4. CASE AppKilled
  <2>1. CASE inflight = None
    BY <1>4, <2>1, IdleSafe DEF AppKilled
  <2>2. CASE inflight # None
    BY <1>4, <1>c, <2>2 DEF AppKilled, StateOK
  <2>3. QED BY <2>1, <2>2
<1>5. ASSUME NEW r \in Request, PushBatch(r) PROVE StaleHeadsAreHarmless'
  <2>1. PICK q \in RequestType :
          /\ OnlyChanges(r, q)
          /\ q.at = "arriving" /\ q.dev \in Device /\ q.todo \subseteq Events
          /\ q.head = reqs[r].head /\ q.done = reqs[r].done
    BY <1>5, PushRecord
  <2>2. RequestOK(q)
    BY <1>a, <2>1 DEF RequestOK
  <2>3. QED BY <1>5, <1>b, <2>1, <2>2 DEF PushBatch
<1>6. ASSUME NEW r \in Request, Receive(r) PROVE StaleHeadsAreHarmless'
  <2>1. acked' \subseteq 1..Len(log)
    BY <1>6, <1>a DEF Receive, AckedAfter, RequestOK
  <2>2. OnlyChanges(r, Free) /\ UNCHANGED <<outbox, log, chainHead>>
    BY <1>6 DEF Receive, OnlyChanges
  <2>3. QED BY <1>a, <2>1, <2>2, FreeOK, FreeType, ReplaceSafe
<1>7. ASSUME NEW r \in Request, GiveUp(r) PROVE StaleHeadsAreHarmless'
  BY <1>7, <1>c DEF GiveUp
<1>8. ASSUME NEW r \in Request, Admit(r) PROVE StaleHeadsAreHarmless'
  <2>1. PICK q \in RequestType :
          /\ OnlyChanges(r, q)
          /\ q.at \notin {"checking", "appending"}
          /\ \/ q = Free
             \/ /\ q.dev = reqs[r].dev /\ q.todo = reqs[r].todo
                /\ q.head = reqs[r].head /\ q.done = reqs[r].done
    BY <1>8, AdmitRecord
  <2>2. RequestOK(q)
    BY <1>a, <2>1, FreeOK DEF RequestOK
  <2>3. QED BY <1>8, <1>b, <2>1, <2>2 DEF Admit
<1>9. ASSUME NEW r \in Request, ReadHead(r) PROVE StaleHeadsAreHarmless'
  <2>1. PICK q \in RequestType :
          /\ OnlyChanges(r, q)
          /\ q.at = "checking" /\ q.head = chainHead[q.dev]
          /\ q.dev = reqs[r].dev /\ reqs[r].dev \in Device
          /\ q.todo = reqs[r].todo /\ q.done = reqs[r].done
    BY <1>9, ReadHeadRecord
  <2>2. RequestOK(q)
    BY <1>a, <2>1 DEF RequestOK
  <2>3. QED BY <1>9, <1>b, <2>1, <2>2 DEF ReadHead
<1>10. ASSUME NEW r \in Request, NEW e \in reqs[r].todo, CheckEvent(r, e)
       PROVE  StaleHeadsAreHarmless'
  <2>1. PICK q \in RequestType :
          /\ OnlyChanges(r, q)
          /\ q.at \in Running \cup {"arriving"} => q.dev \in Device
          /\ \/ q = Free
             \/ /\ q.dev = reqs[r].dev /\ q.head = reqs[r].head
                /\ q.todo \subseteq reqs[r].todo
                /\ q.done \subseteq reqs[r].done \cup (Stored \cap {e})
          /\ q.at = "appending" =>
               /\ q.todo = reqs[r].todo
               /\ e \notin Stored /\ IsFirst(e, reqs[r].todo)
               /\ outbox[e].dev = q.dev /\ outbox[e].prev = q.head
    BY <1>10, CheckRecord
  <2>2. CASE q = Free
    BY <1>10, <1>b, <2>1, <2>2, FreeOK DEF CheckEvent
  <2>3. CASE q # Free
    <3>1. reqs[r].at = "checking" /\ RequestOK(reqs[r])
      BY <1>10, <1>a DEF CheckEvent
    <3>2. /\ q.todo \subseteq Events /\ q.done \subseteq 1..Len(log)
          /\ HeadOK(q.head, q.dev)
      <4>1. Stored = 1..Len(log)
        BY StoredIs DEF StaleHeadsAreHarmless
      <4>2. QED BY <2>1, <2>3, <3>1, <4>1 DEF RequestOK
    <3>3. q.at = "appending" =>
            \A f \in q.todo :
              IsEarliest(f, q.todo) => f = q.head + 1 /\ outbox[f].dev = q.dev
      <4>1. SUFFICES ASSUME q.at = "appending", NEW f \in q.todo,
                            IsEarliest(f, q.todo)
                     PROVE  f = q.head + 1 /\ outbox[f].dev = q.dev
        OBVIOUS
      <4>2. e \in Events /\ f \in Events /\ Len(outbox) \in Nat
        BY <2>1, <3>1, <3>2, <4>1 DEF RequestOK, StateOK
      <4>3. f = e
        <5>1. IsEarliest(e, q.todo)
          BY <2>1, <3>2, <4>1, FirstIsEarliest DEF StaleHeadsAreHarmless
        <5>2. QED BY <4>1, <4>2, <5>1 DEF IsEarliest, Events
      <4>4. outbox[e].prev = e - 1
        BY <4>2 DEF StaleHeadsAreHarmless
      <4>5. QED BY <2>1, <4>1, <4>2, <4>3, <4>4 DEF Events
    <3>4. RequestOK(q)
      BY <3>2, <3>3 DEF RequestOK
    <3>5. QED BY <1>10, <1>b, <2>1, <3>4 DEF CheckEvent
  <2>4. QED BY <2>2, <2>3
<1>11. ASSUME NEW r \in Request, NEW e \in reqs[r].todo, AppendEvent(r, e)
       PROVE  StaleHeadsAreHarmless'
  BY <1>11, AppendSafe
<1>12. ASSUME NEW r \in Request, FinishBatch(r) PROVE StaleHeadsAreHarmless'
  <2>1. PICK q \in RequestType : OnlyChanges(r, q) /\ RequestOK(q)
    BY <1>12, <1>d, StageFacts DEF FinishBatch
  <2>2. HeadOK(reqs[r].head, reqs[r].dev) /\ reqs[r].dev \in Device
    BY <1>12, <1>a DEF FinishBatch, RequestOK, StateOK, Running
  <2>3. \A d \in Device : HeadOK(chainHead'[d], d)
    BY <1>12, <1>a, <2>2 DEF FinishBatch, HeadAfter, StateOK
  <2>4. QED BY <1>12, <1>a, <2>1, <2>3, ReplaceSafe DEF FinishBatch
<1>13. ASSUME NEW r \in Request, Die(r) PROVE StaleHeadsAreHarmless'
  BY <1>13, <1>b, <1>d, StageFacts DEF Die
<1>14. ASSUME NEW r \in Request, Lose(r) PROVE StaleHeadsAreHarmless'
  <2>1. /\ Slot("lost") \in RequestType /\ Slot("lost").at = "lost"
        /\ Slot("lost").todo = {} /\ Slot("lost").done = {}
    BY SlotType, StageFacts DEF Slot
  <2>2. RequestOK(Slot("lost"))
    BY <2>1 DEF RequestOK
  <2>3. OnlyChanges(r, Slot("lost")) \/ OnlyChanges(r, Free)
    BY <1>14 DEF Lose, OnlyChanges
  <2>4. QED BY <1>14, <1>b, <2>1, <2>2, <2>3, FreeOK, FreeType DEF Lose
<1>15. QED
  BY <1>1, <1>2, <1>3, <1>4, <1>5, <1>6, <1>7, <1>8, <1>9, <1>10, <1>11,
     <1>12, <1>13, <1>14
  DEF Next, Ingest

\* The inductive invariant: what a request has read may be stale but stays
\* harmless (ingest.service.ts:41-93).
THEOREM StaleHeadsTheorem == Spec => []StaleHeadsAreHarmless
<1>1. Init => StateOK /\ StaleHeadsAreHarmless
  BY InitType, SafeInit
<1>2. StateOK /\ StaleHeadsAreHarmless /\ [Next]_vars
        => (StateOK /\ StaleHeadsAreHarmless)'
  BY NextType, NextSafe
<1>3. QED BY <1>1, <1>2, PTL DEF Spec

\* The store holds the phone's events in order, each once, with no gap.
THEOREM StoredInOrderTheorem == Spec => []StoredInOrder
<1>1. StaleHeadsAreHarmless => StoredInOrder
  BY DEF StaleHeadsAreHarmless
<1>2. QED BY <1>1, StaleHeadsTheorem, PTL

\* The stamps order the phone's events as they were authored, for any
\* readings of its wall clock and any number of restarts.
THEOREM StampsGrowTheorem == Spec => []StampsGrow
<1>1. StaleHeadsAreHarmless => StampsGrow
  BY DEF StaleHeadsAreHarmless
<1>2. QED BY <1>1, StaleHeadsTheorem, PTL

\* What the phone stops offering, the store holds.
THEOREM AckedAreStoredTheorem == Spec => []AckedAreStored
<1>1. StateOK /\ StaleHeadsAreHarmless => AckedAreStored
  BY StoredIs DEF StaleHeadsAreHarmless, AckedAreStored
<1>2. QED BY <1>1, StateCorrect, StaleHeadsTheorem, PTL

\* A stored chain never passes from one identity to another.
THEOREM ChainsStayApartTheorem == Spec => []ChainsStayApart
<1>1. ASSUME StateOK, StaleHeadsAreHarmless PROVE ChainsStayApart
  <2>1. /\ Len(log) \in Nat /\ Len(outbox) \in Nat /\ Len(log) <= Len(outbox)
        /\ Stored = 1..Len(log)
    <3>1. StoredInOrder
      BY <1>1 DEF StaleHeadsAreHarmless
    <3>2. QED BY <1>1, <3>1, StoredIs DEF StateOK, StoredInOrder
  <2>2. SUFFICES ASSUME NEW i \in 1..Len(log), outbox[i].prev # 0
                 PROVE  /\ outbox[i].prev \in Stored
                        /\ outbox[outbox[i].prev].dev = outbox[i].dev
    BY <1>1 DEF ChainsStayApart, StaleHeadsAreHarmless, StoredInOrder
  <2>3. outbox[i].prev = i - 1
    BY <1>1, <2>1 DEF StaleHeadsAreHarmless, Events
  <2>4. i \in 2..Len(log)
    BY <2>1, <2>2, <2>3
  <2>5. QED BY <1>1, <2>1, <2>3, <2>4 DEF StaleHeadsAreHarmless
<1>2. QED BY <1>1, StateCorrect, StaleHeadsTheorem, PTL

-----------------------------------------------------------------------------
(* Refinement *)

\* A step that touches neither the outbox, the store nor acked is invisible.
LEMMA StutterStep ==
  UNCHANGED <<outbox, log, acked>> => UNCHANGED Promise!vars
BY DEF Promise!vars

\* Every step of the phone, the gateway and the network is a step of WorkLog,
\* read through outbox, event store and acknowledgements, or is invisible in
\* it.
LEMMA StepRefines ==
  StateOK /\ StaleHeadsAreHarmless /\ [Next]_vars => [Promise!Next]_(Promise!vars)
<1> SUFFICES ASSUME StateOK, StaleHeadsAreHarmless, [Next]_vars
             PROVE  [Promise!Next]_(Promise!vars)
  OBVIOUS
<1> USE DEF phone, gateway
<1>1. CASE Author
  <2>1. Len(outbox') = Len(outbox) + 1 /\ UNCHANGED <<log, acked>>
    BY <1>1 DEF Author, StateOK
  <2>2. QED BY <2>1 DEF Promise!Next, Promise!Write
<1>2. CASE StartSync \/ PushWithoutSession \/ NothingToPush \/ Collect
             \/ SignOut \/ SignOutKeepingWork \/ AppKilled
             \/ GetStuck \/ Repaired \/ UNCHANGED vars
  BY <1>2, StutterStep, StuckAside DEF StartSync, PushWithoutSession,
     NothingToPush, Collect, SignOut, SignOutKeepingWork, AppKilled, vars
<1>3. ASSUME NEW d \in Device, Activate(d) \/ RevokeDevice(d)
      PROVE  UNCHANGED Promise!vars
  BY <1>3, StutterStep DEF Activate, RevokeDevice
<1>4. ASSUME NEW r \in Request,
             PushBatch(r) \/ GiveUp(r) \/ Admit(r) \/ ReadHead(r)
               \/ FinishBatch(r) \/ Die(r) \/ Lose(r)
      PROVE  UNCHANGED Promise!vars
  BY <1>4, StutterStep DEF PushBatch, GiveUp, Admit, ReadHead, FinishBatch,
     Die, Lose
<1>5. ASSUME NEW r \in Request, NEW e \in reqs[r].todo, CheckEvent(r, e)
      PROVE  UNCHANGED Promise!vars
  BY <1>5, StutterStep DEF CheckEvent
<1>6. ASSUME NEW r \in Request, Receive(r) PROVE [Promise!Next]_(Promise!vars)
  <2>1. acked \subseteq acked' /\ acked' \subseteq 1..Len(log)
    BY <1>6 DEF Receive, AckedAfter, StaleHeadsAreHarmless, RequestOK
  <2>2. UNCHANGED <<outbox, log>>
    BY <1>6 DEF Receive
  <2>3. QED BY <2>1, <2>2 DEF Promise!Next, Promise!Confirm
<1>7. ASSUME NEW r \in Request, NEW e \in reqs[r].todo, AppendEvent(r, e)
      PROVE  [Promise!Next]_(Promise!vars)
  <2>1. UNCHANGED <<outbox, acked>>
    BY <1>7 DEF AppendEvent
  <2>2. CASE log' = log
    BY <2>1, <2>2, StutterStep
  <2>3. CASE log' = Append(log, e)
    <3>1. Len(log') = Len(log) + 1 /\ Len(log) \in Nat /\ Len(outbox) \in Nat
      BY <2>3 DEF StateOK
    <3>2. Len(log') <= Len(outbox)
      <4>1. StaleHeadsAreHarmless'
        BY <1>7, AppendSafe
      <4>2. QED BY <2>1, <4>1 DEF StaleHeadsAreHarmless, StoredInOrder
    <3>3. Len(log) < Len(outbox)
      BY <3>1, <3>2
    <3>4. QED BY <2>1, <3>1, <3>3 DEF Promise!Next, Promise!Record
  <2>4. QED BY <1>7, <2>2, <2>3 DEF AppendEvent, LogAfter
<1>8. QED
  BY <1>1, <1>2, <1>3, <1>4, <1>5, <1>6, <1>7 DEF Next, Ingest

\* DeviceSync implements WorkLog: the promise holds for every number of
\* devices, requests and events, whatever dies, is lost or overlaps.
THEOREM Refinement == Spec => PromiseSpec
<1>1. Init => Promise!Init
  BY DEF Init, Promise!Init
<1>2. StateOK /\ StaleHeadsAreHarmless /\ [Next]_vars
        => [Promise!Next]_(Promise!vars)
  BY StepRefines
<1>3. QED
  BY <1>1, <1>2, StateCorrect, StaleHeadsTheorem, PTL
  DEF Spec, PromiseSpec, Promise!Spec
=============================================================================
