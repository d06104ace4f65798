--------------------------- MODULE PinGateProofs ---------------------------
(***************************************************************************)
(* Proofs about PinGate, and so about Access, Accounts and Registration    *)
(* below it: a key signed out stays out, work is attributed to whoever     *)
(* wrote it, and the gate stands on nobody else's PIN.                     *)
(*                                                                         *)
(* The secure store has no transactions, so the invariant speaks of what   *)
(* is still to be written into it: a sign-in is landing, or the names are  *)
(* settled; a PIN is coming, going, or settled.                            *)
(***************************************************************************)
EXTENDS PinGate, SequenceTheorems, TLAPS

-----------------------------------------------------------------------------
(* What the slots hold, and what is still to be written into them.         *)

Value(slot) ==
  IF slot \in {"key", "device"} THEN Key \cup {None}
  ELSE IF slot = "who" THEN Person \cup {None}
  ELSE IF slot = "token" THEN Session \cup {None}
  ELSE IF slot = "ticket" THEN Request \cup {None}
  ELSE IF slot = "salt" THEN 1..2 \cup {None}
  ELSE IF slot = "hash" THEN Hash \cup {None}
  ELSE Nat \cup {None}

Entry == {e \in [slot : Slot, value : UNION {Value(slot) : slot \in Slot}] :
            e.value \in Value(e.slot)}

StoreOK == DOMAIN store = Slot /\ \A slot \in Slot : store[slot] \in Value(slot)

PhoneTypes ==
  /\ StoreOK
  /\ writes \in Seq(Entry)
  /\ outbox \subseteq Event
  /\ made \in 0..MaxKey
  /\ cuts \in Nat
  /\ course \in {"accounts", "pin"}

-----------------------------------------------------------------------------
(* The gateway's side.                                                     *)

\* A key signed out remotely stays revoked.
LostIsRevoked == \A k \in lost : device[k].status = "revoked"

\* A request that was made says who by, also while a call has read it.
RequestsAreNamed ==
  /\ \A r \in Request : request[r].status # "none" => request[r].who \in Person
  /\ \A v \in verifying : request[v.request].status # "none"

\* A request that answers with a session names the owner of its key's row.
Truthful(session) ==
  session \in Session /\ device[session.device].owner = session.who
SessionsAreTruthful ==
  \A r \in Request : request[r].session => Truthful(SessionOf(r))

Registers ==
  /\ AccountsTypeOK /\ RegistrationTypeOK
  /\ LostIsRevoked /\ RequestsAreNamed /\ SessionsAreTruthful

-----------------------------------------------------------------------------
(* The phone's side.                                                       *)

\* Whether slot is still to be cleared.
Clearing(slot) ==
  \E i \in 1..Len(writes) : writes[i].slot = slot /\ writes[i].value = None

\* The slots the proof is about are only cleared by what is still to be written.
OnlyCleared(slots) ==
  \A i \in 1..Len(writes) : writes[i].slot \in slots => writes[i].value = None

\* The two names in the store belong together.
Names ==
  store.device # None /\ store.who # None => device[store.device].owner = store.who

\* No sign-in is landing.
Settled ==
  /\ OnlyCleared({"device", "who"})
  /\ cuts <= 1 => Names
  /\ cuts = 0 => \/ store.who = None
                 \/ Clearing("who")
                 \/ store.device # None /\ ~Clearing("device")

\* The names of session are landing, the person's as the k-th write from here.
LandingAt(session, k) ==
  /\ Truthful(session)
  /\ k \in 1..Len(writes)
  /\ writes[k] = Put("who", session.who)
  /\ k > 1 => writes[k - 1] = Put("device", session.device)
  /\ k = 1 => store.device = session.device
  /\ \A i \in 1..Len(writes) :
       i \notin {k - 1, k} => writes[i].slot \notin {"device", "who"}
  /\ cuts = 0 => store.who = None

NamesBelong == Settled \/ \E session \in Session, k \in Nat : LandingAt(session, k)

OutboxIsNamed ==
  cuts <= 1 =>
    \A e \in outbox : e.device = e.key => device[e.key].owner = e.actor

\* No PIN is being set or forgotten: the one there is is the person's own.
PinSettled ==
  \/ store.hash = None /\ OnlyCleared({"hash"})
  \/ /\ OwnPinOpens
     /\ \A i \in 1..Len(writes) : writes[i].slot \notin {"salt", "hash", "who"}

\* It is about to be forgotten.
PinGoing ==
  Clearing("hash") /\ OnlyCleared({"salt", "hash", "who"})

\* The PIN hash is being set, as the k-th write from here.
PinComing(hash, k) ==
  /\ hash.by = store.who
  /\ k \in 1..2 /\ k <= Len(writes)
  /\ writes[k] = Put("hash", hash)
  /\ k = 2 => writes[1] = Put("salt", hash.salt)
  /\ k = 1 => store.salt = hash.salt
  /\ \A i \in 1..Len(writes) :
       i > k => writes[i].slot \notin {"salt", "hash", "who"}

PinFollows ==
  IF course = "accounts"
  THEN store.hash = None /\ OnlyCleared({"hash"})
  ELSE cuts = 0 => \/ PinSettled \/ PinGoing
                   \/ \E hash \in Hash, k \in 1..2 : PinComing(hash, k)

PinInv ==
  Registers /\ PhoneTypes /\ NamesBelong /\ OutboxIsNamed /\ PinFollows

-----------------------------------------------------------------------------
(* Queues of writes.                                                       *)

\* A queue begins with the write of this step, and goes on with the others.
LEMMA HeadOfQueue ==
  ASSUME NEW w \in Seq(Entry), w # <<>>
  PROVE  /\ Len(w) \in Nat /\ Len(w) >= 1
         /\ Head(w) = w[1] /\ Head(w) \in Entry
         /\ Tail(w) \in Seq(Entry) /\ Len(Tail(w)) = Len(w) - 1
         /\ \A i \in 1..Len(Tail(w)) : i + 1 \in 1..Len(w) /\ Tail(w)[i] = w[i + 1]
  <1>1. Len(w) \in Nat /\ Len(w) >= 1
    BY SMT
  <1>2. Head(w) = w[1] /\ Head(w) \in Entry
    BY <1>1, HeadTailProperties
  <1>3. Tail(w) \in Seq(Entry) /\ Len(Tail(w)) = Len(w) - 1
    BY <1>1, HeadTailProperties
  <1>4. ASSUME NEW i \in 1..Len(Tail(w)) PROVE i + 1 \in 1..Len(w) /\ Tail(w)[i] = w[i + 1]
    BY <1>1, <1>3, HeadTailProperties
  <1> QED BY <1>1, <1>2, <1>3, <1>4

\* What a queue of two parts holds is what either holds.
LEMMA TwoParts ==
  ASSUME NEW s \in Seq(Entry), NEW t \in Seq(Entry)
  PROVE  /\ s \o t \in Seq(Entry)
         /\ \A i \in 1..Len(s \o t) : \/ \E j \in 1..Len(s) : (s \o t)[i] = s[j]
                                      \/ \E j \in 1..Len(t) : (s \o t)[i] = t[j]
         /\ \A j \in 1..Len(s) : \E i \in 1..Len(s \o t) : (s \o t)[i] = s[j]
         /\ \A j \in 1..Len(t) : \E i \in 1..Len(s \o t) : (s \o t)[i] = t[j]
  <1>1. Len(s) \in Nat /\ Len(t) \in Nat
    BY SMT
  <1>2. s \o t \in Seq(Entry) /\ Len(s \o t) = Len(s) + Len(t)
    BY ConcatProperties
  <1>3. \A i \in 1..Len(s) + Len(t) :
          (s \o t)[i] = IF i <= Len(s) THEN s[i] ELSE t[i - Len(s)]
    BY ConcatProperties
  <1>4. ASSUME NEW i \in 1..Len(s \o t)
        PROVE  \/ \E j \in 1..Len(s) : (s \o t)[i] = s[j]
               \/ \E j \in 1..Len(t) : (s \o t)[i] = t[j]
    <2>1. CASE i <= Len(s) BY <1>1, <1>2, <1>3, <2>1
    <2>2. CASE i > Len(s)
      <3>1. i - Len(s) \in 1..Len(t) /\ (s \o t)[i] = t[i - Len(s)]
        BY <1>1, <1>2, <1>3, <2>2
      <3> QED BY <3>1
    <2>3. i <= Len(s) \/ i > Len(s)
      BY <1>1, <1>2
    <2> QED BY <2>1, <2>2, <2>3
  <1>5. ASSUME NEW j \in 1..Len(s) PROVE \E i \in 1..Len(s \o t) : (s \o t)[i] = s[j]
    <2>1. j \in 1..Len(s \o t) /\ (s \o t)[j] = s[j]
      BY <1>1, <1>2, <1>3
    <2> QED BY <2>1
  <1>6. ASSUME NEW j \in 1..Len(t) PROVE \E i \in 1..Len(s \o t) : (s \o t)[i] = t[j]
    <2>1. j + Len(s) \in 1..Len(s \o t) /\ (s \o t)[j + Len(s)] = t[j]
      BY <1>1, <1>2, <1>3
    <2> QED BY <2>1
  <1> QED BY <1>2, <1>4, <1>5, <1>6

\* Clearing a slot, and putting a value of its own into it, are writes.
LEMMA ClearIsWrite ==
  ASSUME NEW slot \in Slot
  PROVE  Clear(slot) \in Entry /\ Clear(slot).slot = slot /\ Clear(slot).value = None
  <1>1. None \in Value(slot)
    BY DEF Value
  <1> QED BY <1>1 DEF Clear, Put, Entry

LEMMA PutIsWrite ==
  ASSUME NEW slot \in Slot, NEW value \in Value(slot)
  PROVE  /\ Put(slot, value) \in Entry
         /\ Put(slot, value).slot = slot /\ Put(slot, value).value = value
  BY DEF Put, Entry

-----------------------------------------------------------------------------
(* The gateway's register and its requests.                                *)

Row == [owner : Person \cup {None}, status : DeviceStatus]
RequestRow ==
  [who : Person \cup {None}, key : Key \cup {None}, status : RequestStatus,
   proven : SUBSET Channel, fresh : BOOLEAN, sends : 0..MaxSends, session : BOOLEAN]

\* A key that has an owner keeps it.
OwnersKept == \A k \in Key : device[k].owner # None => device'[k].owner = device[k].owner
GatewayStep == Registers' /\ OwnersKept

\* What is truthful of an owner stays so.
LEMMA TruthfulStays ==
  ASSUME Registers, OwnersKept, NEW session, Truthful(session)
  PROVE  Truthful(session)'
  <1>1. session.device \in Key /\ session.who \in Person
    BY DEF Truthful, Session
  <1>2. session.who # None
    BY <1>1, AccountsAssumption
  <1> QED BY <1>1, <1>2 DEF Truthful, OwnersKept

\* Steps on people and on codes alone.
LEMMA PeopleStep ==
  ASSUME Registers, UNCHANGED <<device, lost, request, verifying>>,
         account' \in [Person -> {"none", "active", "suspended"}],
         inspectors' \subseteq Person, invite' \in [Person -> InviteStatus]
  PROVE  GatewayStep
  <1>1. AccountsTypeOK' /\ LostIsRevoked'
    BY DEF Registers, AccountsTypeOK, LostIsRevoked
  <1>2. RegistrationTypeOK' /\ RequestsAreNamed'
    BY DEF Registers, RegistrationTypeOK, RequestsAreNamed
  <1>3. SessionsAreTruthful'
    BY DEF Registers, SessionsAreTruthful, Truthful, SessionOf
  <1>4. OwnersKept
    BY DEF OwnersKept
  <1> QED BY <1>1, <1>2, <1>3, <1>4 DEF Registers, GatewayStep

\* Steps on one row of device.
LEMMA DeviceStep ==
  ASSUME Registers, NEW k \in Key, NEW row \in Row,
         device' = [device EXCEPT ![k] = row],
         device[k].owner # None => row.owner = device[k].owner,
         k \in lost => row.status = "revoked",
         lost' = lost \/ (lost' = lost \cup {k} /\ row.status = "revoked"),
         UNCHANGED <<request, verifying>>,
         account' \in [Person -> {"none", "active", "suspended"}],
         inspectors' \subseteq Person, invite' \in [Person -> InviteStatus]
  PROVE  GatewayStep
  <1>1. device \in [Key -> Row] /\ lost \subseteq Key
    BY DEF Registers, AccountsTypeOK, Row
  <1>2. device' \in [Key -> Row]
    BY <1>1
  <1>3. \A j \in Key : device'[j] = IF j = k THEN row ELSE device[j]
    BY <1>1
  <1>4. AccountsTypeOK'
    BY <1>1, <1>2 DEF AccountsTypeOK, Row
  <1>5. LostIsRevoked'
    BY <1>1, <1>3 DEF Registers, LostIsRevoked
  <1>6. OwnersKept
    BY <1>3 DEF OwnersKept
  <1>7. RegistrationTypeOK' /\ RequestsAreNamed'
    BY DEF Registers, RegistrationTypeOK, RequestsAreNamed
  <1>8. SessionsAreTruthful'
    <2>1. ASSUME NEW r \in Request, request[r].session PROVE Truthful(SessionOf(r))'
      <3>1. Truthful(SessionOf(r))
        BY <2>1 DEF Registers, SessionsAreTruthful
      <3>2. SessionOf(r)' = SessionOf(r)
        BY DEF SessionOf
      <3>3. SessionOf(r).device \in Key /\ SessionOf(r).who # None
        BY <3>1, AccountsAssumption DEF Truthful, Session
      <3> QED BY <3>1, <3>2, <3>3, <1>6 DEF Truthful, OwnersKept
    <2> QED BY <2>1 DEF SessionsAreTruthful
  <1> QED BY <1>4, <1>5, <1>6, <1>7, <1>8 DEF Registers, GatewayStep

\* Steps on the requests alone.
LEMMA RequestStep ==
  ASSUME Registers, UNCHANGED accountVars,
         request' \in [Request -> RequestRow],
         verifying' \subseteq [request : Request, ok : SUBSET Channel],
         \A r \in Request : request[r].status # "none" => request'[r].status # "none",
         \A r \in Request : request'[r].status # "none" => request'[r].who \in Person,
         \A r \in Request : request'[r].session =>
            /\ request[r].session
            /\ request'[r].who = request[r].who /\ request'[r].key = request[r].key,
         \A v \in verifying' : v \in verifying \/ request'[v.request].status # "none"
  PROVE  GatewayStep
  <1>1. AccountsTypeOK' /\ LostIsRevoked'
    BY DEF accountVars, Registers, AccountsTypeOK, LostIsRevoked
  <1>2. RegistrationTypeOK'
    BY DEF RegistrationTypeOK, RequestRow
  <1>3. RequestsAreNamed'
    <2>1. ASSUME NEW v \in verifying' PROVE request'[v.request].status # "none"
      <3>1. v.request \in Request
        OBVIOUS
      <3> QED BY <3>1 DEF Registers, RequestsAreNamed
    <2> QED BY <2>1 DEF RequestsAreNamed
  <1>4. SessionsAreTruthful'
    <2>1. ASSUME NEW r \in Request, request'[r].session PROVE Truthful(SessionOf(r))'
      <3>1. Truthful(SessionOf(r))
        BY <2>1 DEF Registers, SessionsAreTruthful
      <3>2. SessionOf(r)' = SessionOf(r)
        BY <2>1 DEF SessionOf
      <3> QED BY <3>1, <3>2 DEF Truthful, accountVars
    <2> QED BY <2>1 DEF SessionsAreTruthful
  <1>5. OwnersKept
    BY DEF OwnersKept, accountVars
  <1> QED BY <1>1, <1>2, <1>3, <1>4, <1>5 DEF Registers, GatewayStep

\* Nothing on the gateway changes.
LEMMA GatewayRests ==
  ASSUME Registers, UNCHANGED <<accountVars, request, verifying>>
  PROVE  GatewayStep
  BY PeopleStep DEF accountVars, Registers, AccountsTypeOK

LEMMA PeopleKeep ==
  ASSUME Registers, NEW p \in Person, NEW inspector \in BOOLEAN,
         \/ CreateUser(p, inspector) \/ GrantInspector(p)
         \/ RevokeInspector(p) \/ SuspendUser(p) \/ Invite(p) \/ Reinvite(p)
         \/ CancelInvite(p) \/ ExpireInvite(p),
         UNCHANGED <<request, verifying>>
  PROVE  GatewayStep
  <1>1. /\ account \in [Person -> {"none", "active", "suspended"}]
        /\ inspectors \subseteq Person /\ invite \in [Person -> InviteStatus]
    BY DEF Registers, AccountsTypeOK
  <1>2. UNCHANGED <<device, lost>>
    BY DEF CreateUser, GrantInspector, RevokeInspector, SuspendUser, Invite, Reinvite,
           CancelInvite, ExpireInvite
  <1>3. account' \in [Person -> {"none", "active", "suspended"}]
    BY <1>1 DEF CreateUser, GrantInspector, RevokeInspector, SuspendUser, Invite,
                Reinvite, CancelInvite, ExpireInvite
  <1>4. inspectors' \subseteq Person
    BY <1>1 DEF CreateUser, GrantInspector, RevokeInspector, SuspendUser, Invite,
                Reinvite, CancelInvite, ExpireInvite
  <1>5. invite' \in [Person -> InviteStatus]
    BY <1>1 DEF CreateUser, GrantInspector, RevokeInspector, SuspendUser, Invite,
                Reinvite, CancelInvite, ExpireInvite, Issue, InviteStatus
  <1> QED BY <1>2, <1>3, <1>4, <1>5, PeopleStep

LEMMA DevicesKeep ==
  ASSUME Registers, NEW k \in Key,
         \/ \E p \in Person : EnrollDevice(k, p) \/ RequestEnrolment(k, p)
         \/ ApproveDevice(k) \/ RevokeDevice(k),
         UNCHANGED <<request, verifying>>
  PROVE  GatewayStep
  <1>1. /\ account \in [Person -> {"none", "active", "suspended"}]
        /\ inspectors \subseteq Person /\ invite \in [Person -> InviteStatus]
        /\ device \in [Key -> Row] /\ lost \subseteq Key
    BY DEF Registers, AccountsTypeOK, Row
  <1>2. k \in lost => device[k].status = "revoked"
    BY DEF Registers, LostIsRevoked
  <1>3. ASSUME NEW p \in Person, EnrollDevice(k, p) \/ RequestEnrolment(k, p)
        PROVE  GatewayStep
    <2>1. PICK status \in {"active", "pending"} :
            device' = [device EXCEPT ![k] = [owner |-> p, status |-> status]]
      BY <1>3 DEF EnrollDevice, RequestEnrolment
    <2> DEFINE row == [owner |-> p, status |-> status]
    <2>2. row \in Row
      BY DEF Row, DeviceStatus
    <2>3. device[k].owner = None /\ device[k].status = "none"
      BY <1>3 DEF EnrollDevice, RequestEnrolment, NoDevice
    <2>4. UNCHANGED <<account, inspectors, invite, lost>>
      BY <1>3 DEF EnrollDevice, RequestEnrolment
    <2>5. device' = [device EXCEPT ![k] = row]
      BY <2>1
    <2>6. k \notin lost
      BY <1>2, <2>3
    <2> HIDE DEF row
    <2> QED BY <1>1, <2>2, <2>3, <2>4, <2>5, <2>6, DeviceStep
  <1>4. CASE ApproveDevice(k)
    <2> DEFINE row == [device[k] EXCEPT !.status = "active"]
    <2>1. device' = [device EXCEPT ![k] = row]
      BY <1>4 DEF ApproveDevice
    <2>2. device[k] \in Row
      BY <1>1
    <2>3. row \in Row /\ row.owner = device[k].owner
      BY <2>2 DEF Row, DeviceStatus
    <2>4. UNCHANGED <<account, inspectors, invite, lost>> /\ device[k].status = "pending"
      BY <1>4 DEF ApproveDevice
    <2>5. k \notin lost
      BY <1>2, <2>4
    <2> HIDE DEF row
    <2> QED BY <1>1, <2>1, <2>3, <2>4, <2>5, DeviceStep
  <1>5. CASE RevokeDevice(k)
    <2> DEFINE row == [device[k] EXCEPT !.status = "revoked"]
    <2>1. device' = [device EXCEPT ![k] = row]
      BY <1>5 DEF RevokeDevice
    <2>2. device[k] \in Row
      BY <1>1
    <2>3. row \in Row /\ row.owner = device[k].owner /\ row.status = "revoked"
      BY <2>2 DEF Row, DeviceStatus
    <2>4. UNCHANGED <<account, inspectors, invite>> /\ lost' = lost \cup {k}
      BY <1>5 DEF RevokeDevice
    <2> HIDE DEF row
    <2> QED BY <1>1, <2>1, <2>3, <2>4, DeviceStep
  <1> QED BY <1>3, <1>4, <1>5

\* A code that is spent makes the key its owner's, and active: it was not
\* signed out.
LEMMA SpendKeeps ==
  ASSUME Registers, NEW p \in Person, NEW k \in Key, Spend(p, k),
         UNCHANGED <<request, verifying>>
  PROVE  GatewayStep /\ Truthful([who |-> p, device |-> k])'
  <1> DEFINE row == [owner |-> p, status |-> "active"]
  <1>1. /\ account \in [Person -> {"none", "active", "suspended"}]
        /\ inspectors \subseteq Person /\ invite \in [Person -> InviteStatus]
        /\ device \in [Key -> Row] /\ lost \subseteq Key
    BY DEF Registers, AccountsTypeOK, Row
  <1>2. k \in lost => device[k].status = "revoked"
    BY DEF Registers, LostIsRevoked
  <1>3. device' = [device EXCEPT ![k] = row] /\ row \in Row /\ row.owner = p
    BY DEF Spend, Row, DeviceStatus
  <1>4. device[k].owner \in {None, p} /\ device[k].status # "revoked"
    BY DEF Spend, Spendable
  <1>5. UNCHANGED <<account, inspectors, lost>> /\ invite' \in [Person -> InviteStatus]
    BY <1>1 DEF Spend, InviteStatus
  <1>6. device'[k].owner = p
    BY <1>1, <1>3
  <1>7. Truthful([who |-> p, device |-> k])'
    BY <1>6 DEF Truthful, Session
  <1>8. k \notin lost
    BY <1>2, <1>4
  <1>9. device[k].owner # None => row.owner = device[k].owner
    BY <1>3, <1>4
  <1> HIDE DEF row
  <1> QED BY <1>1, <1>3, <1>5, <1>7, <1>8, <1>9, DeviceStep

LEMMA StartKeeps ==
  ASSUME Registers, NEW r \in Request, NEW p \in Person, NEW k \in Key \cup {None},
         StartRequest(r, p, k)
  PROVE  GatewayStep
  <1> DEFINE new == [NoRequest EXCEPT !.who = p, !.key = k, !.status = "verifying",
                                      !.fresh = TRUE, !.sends = 1]
             Old(q) == IF request[q].who = p /\ request[q].status \in Open
                       THEN [request[q] EXCEPT !.status = "withdrawn"]
                       ELSE request[q]
  <1>1. request \in [Request -> RequestRow]
    BY DEF Registers, RegistrationTypeOK, RequestRow
  <1>2. request' = [q \in Request |-> IF q = r THEN new ELSE Old(q)]
    BY DEF StartRequest
  <1>3. NoRequest \in RequestRow /\ ~NoRequest.session
    BY RegistrationAssumption DEF NoRequest, RequestRow, RequestStatus
  <1>4. new \in RequestRow /\ new.who = p /\ new.status = "verifying"
    <2> DEFINE r1 == [NoRequest EXCEPT !.who = p]
               r2 == [r1 EXCEPT !.key = k]
               r3 == [r2 EXCEPT !.status = "verifying"]
               r4 == [r3 EXCEPT !.fresh = TRUE]
               r5 == [r4 EXCEPT !.sends = 1]
    <2>1. r1 \in RequestRow /\ r1.who = p
      BY <1>3 DEF RequestRow
    <2>2. new = r5
      BY <1>3 DEF RequestRow
    <2> HIDE DEF r1
    <2>3. r2 \in RequestRow /\ r2.who = r1.who
      BY <2>1 DEF RequestRow
    <2> HIDE DEF r2
    <2>4. r3 \in RequestRow /\ r3.who = r2.who /\ r3.status = "verifying"
      BY <2>3 DEF RequestRow, RequestStatus
    <2> HIDE DEF r3
    <2>5. r4 \in RequestRow /\ r4.who = r3.who /\ r4.status = r3.status
      BY <2>4 DEF RequestRow
    <2> HIDE DEF r4
    <2>6. r5 \in RequestRow /\ r5.who = r4.who /\ r5.status = r4.status
      BY <2>5, RegistrationAssumption DEF RequestRow
    <2> HIDE DEF r5, new
    <2> QED BY <2>1, <2>2, <2>3, <2>4, <2>5, <2>6
  <1>5. new.session = NoRequest.session
    BY <1>3 DEF RequestRow
  <1>6. ~new.session
    BY <1>3, <1>5
  <1> HIDE DEF new
  <1>7. ASSUME NEW q \in Request
        PROVE  /\ Old(q) \in RequestRow
               /\ Old(q).who = request[q].who /\ Old(q).key = request[q].key
               /\ Old(q).status = "none" <=> request[q].status = "none"
    <2>1. request[q] \in RequestRow
      BY <1>1
    <2> QED BY <2>1 DEF RequestRow, RequestStatus, Open
  <1>8. ASSUME NEW q \in Request, Old(q).session PROVE request[q].session
    <2>1. request[q] \in RequestRow
      BY <1>1
    <2>2. [request[q] EXCEPT !.status = "withdrawn"].session = request[q].session
      BY <2>1 DEF RequestRow
    <2> QED BY <1>8, <2>2
  <1> HIDE DEF Old
  <1>9. request' \in [Request -> RequestRow]
    BY <1>2, <1>4, <1>7
  <1>10. \A q \in Request : request'[q] = IF q = r THEN new ELSE Old(q)
    BY <1>2
  <1>11. \A q \in Request : request[q].status # "none" => request'[q].status # "none"
    BY <1>4, <1>7, <1>10
  <1>12. \A q \in Request : request'[q].status # "none" => request'[q].who \in Person
    BY <1>4, <1>7, <1>10 DEF Registers, RequestsAreNamed
  <1>13. ASSUME NEW q \in Request, request'[q].session
         PROVE  /\ request[q].session
                /\ request'[q].who = request[q].who /\ request'[q].key = request[q].key
    <2>1. q # r
      BY <1>6, <1>10, <1>13
    <2>2. request'[q] = Old(q)
      BY <1>10, <2>1
    <2> QED BY <1>7, <1>8, <1>13, <2>2
  <1>14. UNCHANGED <<accountVars, verifying>>
    BY DEF StartRequest
  <1>15. verifying' \subseteq [request : Request, ok : SUBSET Channel]
    BY <1>14 DEF Registers, RegistrationTypeOK
  <1> QED BY <1>9, <1>11, <1>12, <1>13, <1>14, <1>15, RequestStep

\* One row is replaced by another of the same person, key and session.
LEMMA RowStep ==
  ASSUME Registers, UNCHANGED accountVars, NEW r \in Request, NEW row \in RequestRow,
         request' = [request EXCEPT ![r] = row],
         row.who = request[r].who, row.key = request[r].key,
         row.session => request[r].session,
         row.status # "none", request[r].status # "none",
         verifying' \subseteq verifying
  PROVE  GatewayStep
  <1>1. request \in [Request -> RequestRow]
    BY DEF Registers, RegistrationTypeOK, RequestRow
  <1>2. request' \in [Request -> RequestRow]
    BY <1>1
  <1>3. \A q \in Request : request'[q] = IF q = r THEN row ELSE request[q]
    BY <1>1
  <1>4. \A q \in Request : request[q].status # "none" => request'[q].status # "none"
    BY <1>3
  <1>5. \A q \in Request : request'[q].status # "none" => request'[q].who \in Person
    BY <1>3 DEF Registers, RequestsAreNamed
  <1>6. ASSUME NEW q \in Request, request'[q].session
        PROVE  /\ request[q].session
               /\ request'[q].who = request[q].who /\ request'[q].key = request[q].key
    <2>1. CASE q = r
      BY <1>3, <1>6, <2>1
    <2>2. CASE q # r
      BY <1>3, <1>6, <2>2
    <2> QED BY <2>1, <2>2
  <1>7. verifying' \subseteq [request : Request, ok : SUBSET Channel]
    BY DEF Registers, RegistrationTypeOK
  <1>8. \A v \in verifying' : v \in verifying
    OBVIOUS
  <1> QED BY <1>2, <1>4, <1>5, <1>6, <1>7, <1>8, RequestStep

LEMMA VerifyReadKeeps ==
  ASSUME Registers, NEW r \in Request, NEW codes \in SUBSET Channel, VerifyRead(r, codes)
  PROVE  GatewayStep
  <1> DEFINE call == [request |-> r, ok |-> request[r].proven \cup codes]
  <1>1. request \in [Request -> RequestRow]
    BY DEF Registers, RegistrationTypeOK, RequestRow
  <1>2. request[r].proven \in SUBSET Channel
    BY <1>1 DEF RequestRow
  <1>3. verifying' \subseteq [request : Request, ok : SUBSET Channel]
    BY <1>2 DEF VerifyRead, Registers, RegistrationTypeOK
  <1>4. UNCHANGED <<accountVars, request>> /\ request[r].status # "none"
    BY DEF VerifyRead
  <1>5. \A v \in verifying' : v \in verifying \/ request'[v.request].status # "none"
    <2>1. call.request = r
      OBVIOUS
    <2>2. verifying' = verifying \cup {call}
      BY DEF VerifyRead
    <2> HIDE DEF call
    <2> QED BY <1>4, <2>1, <2>2
  <1>6. \A q \in Request : request'[q].status # "none" => request'[q].who \in Person
    BY <1>4 DEF Registers, RequestsAreNamed
  <1> QED BY <1>1, <1>3, <1>4, <1>5, <1>6, RequestStep

LEMMA VerifyWriteKeeps ==
  ASSUME Registers, NEW v \in verifying, VerifyWrite(v)
  PROVE  GatewayStep
  <1>1. request \in [Request -> RequestRow]
    BY DEF Registers, RegistrationTypeOK, RequestRow
  <1>2. v.request \in Request /\ v.ok \in SUBSET Channel
    BY DEF Registers, RegistrationTypeOK
  <1>3. request[v.request] \in RequestRow /\ request[v.request].status # "none"
    BY <1>1, <1>2 DEF Registers, RequestsAreNamed
  <1>4. /\ UNCHANGED accountVars /\ verifying' \subseteq verifying
        /\ request' = request \/ request' = [request EXCEPT ![v.request] = Verified(v)]
    BY DEF VerifyWrite
  <1>5. /\ Verified(v) \in RequestRow
        /\ Verified(v).who = request[v.request].who
        /\ Verified(v).key = request[v.request].key
        /\ Verified(v).status # "none"
    <2> DEFINE r1 == [request[v.request] EXCEPT !.proven = v.ok]
               status == IF v.ok = Channel THEN "pending" ELSE request[v.request].status
               r2 == [r1 EXCEPT !.status = status]
    <2>1. Verified(v) = r2
      BY <1>3 DEF Verified, RequestRow
    <2>2. /\ r1 \in RequestRow /\ r1.who = request[v.request].who
          /\ r1.key = request[v.request].key /\ r1.session = request[v.request].session
      BY <1>2, <1>3 DEF RequestRow
    <2>3. status \in RequestStatus /\ status # "none"
      BY <1>3 DEF RequestRow, RequestStatus
    <2> HIDE DEF r1, status
    <2>4. /\ r2 \in RequestRow /\ r2.who = r1.who /\ r2.key = r1.key /\ r2.status = status
      BY <2>2, <2>3 DEF RequestRow
    <2> QED BY <2>1, <2>2, <2>3, <2>4
  <1>6. Verified(v).session => request[v.request].session
    BY <1>3 DEF Verified, RequestRow
  <1>7. CASE request' = request
    BY <1>4, <1>7, <1>1, RequestStep DEF Registers, RequestsAreNamed, RegistrationTypeOK
  <1>8. CASE request' = [request EXCEPT ![v.request] = Verified(v)]
    BY <1>2, <1>3, <1>4, <1>5, <1>6, <1>8, RowStep
  <1> QED BY <1>4, <1>7, <1>8

LEMMA RequestsKeep ==
  ASSUME Registers, NEW r \in Request, CodesSpoil(r) \/ Resend(r) \/ Reject(r)
  PROVE  GatewayStep
  <1>1. request \in [Request -> RequestRow]
    BY DEF Registers, RegistrationTypeOK, RequestRow
  <1>2. request[r] \in RequestRow
    BY <1>1
  <1>3. request[r].status # "none" /\ UNCHANGED <<accountVars, verifying>>
    BY DEF CodesSpoil, Resend, MayResend, Reject, Open
  <1>4. CASE CodesSpoil(r)
    <2> DEFINE row == [request[r] EXCEPT !.fresh = FALSE]
    <2>1. request' = [request EXCEPT ![r] = row]
      BY <1>4 DEF CodesSpoil
    <2>2. /\ row \in RequestRow /\ row.who = request[r].who /\ row.key = request[r].key
          /\ row.status = request[r].status
      BY <1>2 DEF RequestRow
    <2>3. row.session => request[r].session
      BY <1>2 DEF RequestRow
    <2> HIDE DEF row
    <2> QED BY <1>3, <2>1, <2>2, <2>3, RowStep
  <1>5. CASE Resend(r)
    <2> DEFINE r1 == [request[r] EXCEPT !.fresh = TRUE]
               row == [r1 EXCEPT !.sends = r1.sends + 1]
    <2>1. request' = [request EXCEPT ![r] = row]
      BY <1>1, <1>2, <1>5 DEF Resend, RequestRow
    <2>2. /\ r1 \in RequestRow /\ r1.who = request[r].who /\ r1.key = request[r].key
          /\ r1.status = request[r].status /\ r1.sends = request[r].sends
      BY <1>2 DEF RequestRow
    <2>3. r1.session => request[r].session
      BY <1>2 DEF RequestRow
    <2>4. r1.sends + 1 \in 0..MaxSends
      BY <1>2, <1>5, <2>2, RegistrationAssumption DEF Resend, MayResend, RequestRow
    <2> HIDE DEF r1
    <2>5. /\ row \in RequestRow /\ row.who = r1.who /\ row.key = r1.key
          /\ row.status = r1.status
      BY <2>2, <2>4 DEF RequestRow
    <2>6. row.session => r1.session
      BY <2>2 DEF RequestRow
    <2> HIDE DEF row
    <2> QED BY <1>3, <2>1, <2>2, <2>3, <2>5, <2>6, RowStep
  <1>6. CASE Reject(r)
    <2> DEFINE row == [request[r] EXCEPT !.status = "rejected"]
    <2>1. request' = [request EXCEPT ![r] = row]
      BY <1>6 DEF Reject
    <2>2. /\ row \in RequestRow /\ row.who = request[r].who /\ row.key = request[r].key
          /\ row.status = "rejected"
      BY <1>2 DEF RequestRow, RequestStatus
    <2>3. row.session => request[r].session
      BY <1>2 DEF RequestRow
    <2> HIDE DEF row
    <2> QED BY <1>3, <2>1, <2>2, <2>3, RowStep
  <1> QED BY <1>4, <1>5, <1>6

\* An approval that brings a phone makes its key the person's own.
LEMMA ApproveKeeps ==
  ASSUME Registers, NEW r \in Request, NEW role \in {"inspector", "office"},
         Approve(r, role)
  PROVE  GatewayStep
  <1> DEFINE p == request[r].who
             k == request[r].key
             brings == BringsPhone(r, role)
             r1 == [request[r] EXCEPT !.status = "approved"]
             row == [r1 EXCEPT !.session = brings]
             owned == [owner |-> p, status |-> "active"]
  <1>1. request \in [Request -> RequestRow]
    BY DEF Registers, RegistrationTypeOK, RequestRow
  <1>2. request[r] \in RequestRow /\ p \in Person
    BY <1>1 DEF Approve, Registers, RequestsAreNamed
  <1>3. /\ account \in [Person -> {"none", "active", "suspended"}]
        /\ inspectors \subseteq Person /\ invite \in [Person -> InviteStatus]
        /\ device \in [Key -> Row] /\ lost \subseteq Key
    BY DEF Registers, AccountsTypeOK, Row
  <1>4. brings => k \in Key
    BY <1>2 DEF BringsPhone, RequestRow
  <1>5. brings => device[k] = NoDevice
    BY DEF Approve
  <1>6. device' = IF brings THEN [device EXCEPT ![k] = owned] ELSE device
    BY DEF Approve
  <1>7. owned \in Row /\ owned.owner = p
    BY <1>2 DEF Row, DeviceStatus
  <1>8. request' = [request EXCEPT ![r] = row]
    <2>1. request' = [request EXCEPT ![r].status = "approved", ![r].session = brings]
      BY DEF Approve
    <2> QED BY <1>1, <2>1
  <1>9. UNCHANGED <<lost, verifying>>
    BY DEF Approve
  <1>10. account' \in [Person -> {"none", "active", "suspended"}]
    BY <1>2, <1>3 DEF Approve
  <1>11. inspectors' \subseteq Person
    BY <1>2, <1>3 DEF Approve
  <1>12. invite' \in [Person -> InviteStatus]
    BY <1>2, <1>3 DEF Approve, InviteStatus
  <1>13. r1 \in RequestRow /\ r1.who = p /\ r1.key = k /\ r1.status = "approved"
    BY <1>2 DEF RequestRow, RequestStatus
  <1>14. brings \in BOOLEAN
    BY DEF BringsPhone
  <1> HIDE DEF r1, owned, brings
  <1>15. row \in RequestRow /\ row.who = p /\ row.key = k /\ row.status = "approved"
    BY <1>13, <1>14 DEF RequestRow
  <1>16. row.session = brings
    BY <1>13 DEF RequestRow
  <1> HIDE DEF row
  <1>17. device' \in [Key -> Row]
    BY <1>3, <1>4, <1>6, <1>7
  <1>18. AccountsTypeOK'
    BY <1>3, <1>9, <1>10, <1>11, <1>12, <1>17 DEF AccountsTypeOK, Row
  <1>19. \A j \in Key : device'[j] = IF brings /\ j = k THEN owned ELSE device[j]
    BY <1>3, <1>6
  <1>20. brings => device[k].owner = None /\ device[k].status = "none"
    BY <1>5 DEF NoDevice
  <1>21. LostIsRevoked'
    BY <1>3, <1>9, <1>19, <1>20 DEF Registers, LostIsRevoked
  <1>22. OwnersKept
    BY <1>19, <1>20 DEF OwnersKept
  <1>23. \A q \in Request : request'[q] = IF q = r THEN row ELSE request[q]
    BY <1>1, <1>8
  <1>24. request' \in [Request -> RequestRow]
    BY <1>1, <1>8, <1>15
  <1>25. RegistrationTypeOK'
    BY <1>9, <1>24 DEF Registers, RegistrationTypeOK, RequestRow
  <1>26. RequestsAreNamed'
    <2>1. \A q \in Request : request'[q].status # "none" => request'[q].who \in Person
      BY <1>2, <1>15, <1>23 DEF Registers, RequestsAreNamed
    <2>2. ASSUME NEW v \in verifying' PROVE request'[v.request].status # "none"
      <3>1. v.request \in Request /\ request[v.request].status # "none"
        BY <1>9 DEF Registers, RegistrationTypeOK, RequestsAreNamed
      <3> QED BY <1>15, <1>23, <3>1
    <2> QED BY <2>1, <2>2 DEF RequestsAreNamed
  <1>27. ASSUME NEW q \in Request, request'[q].session PROVE Truthful(SessionOf(q))'
    <2>1. CASE q = r
      <3>1. brings
        BY <1>16, <1>23, <1>27, <2>1
      <3>2. device'[k].owner = p
        BY <1>4, <1>7, <1>19, <3>1
      <3>3. SessionOf(q)' = [who |-> p, device |-> k]
        BY <1>15, <1>23, <2>1 DEF SessionOf
      <3>4. [who |-> p, device |-> k] \in Session
        BY <1>2, <1>4, <3>1 DEF Session
      <3> HIDE DEF p, k
      <3> QED BY <3>2, <3>3, <3>4 DEF Truthful
    <2>2. CASE q # r
      <3>1. request'[q] = request[q]
        BY <1>23, <2>2
      <3>2. Truthful(SessionOf(q))
        BY <1>27, <3>1 DEF Registers, SessionsAreTruthful
      <3>3. SessionOf(q)' = SessionOf(q)
        BY <3>1 DEF SessionOf
      <3>4. SessionOf(q).device \in Key /\ SessionOf(q).who # None
        BY <3>2, AccountsAssumption DEF Truthful, Session
      <3> QED BY <3>2, <3>3, <3>4, <1>22 DEF Truthful, OwnersKept
    <2> QED BY <2>1, <2>2
  <1>28. SessionsAreTruthful'
    BY <1>27 DEF SessionsAreTruthful
  <1> QED BY <1>18, <1>21, <1>22, <1>25, <1>26, <1>28 DEF Registers, GatewayStep

-----------------------------------------------------------------------------
(* What each step does on the gateway's side.                              *)

LEMMA AdministerKeeps ==
  ASSUME Registers, made \in 0..MaxKey, Administer
  PROVE  GatewayStep
  <1>1. 1..made \subseteq Key
    BY AccountsAssumption DEF Key
  <1>2. CASE \E p \in Person : Register(Invite(p)) \/ Register(SendCode(p))
    <2>1. PICK p \in Person : Register(Invite(p)) \/ Register(SendCode(p))
      BY <1>2
    <2>2. (Invite(p) \/ Reinvite(p)) /\ UNCHANGED <<request, verifying>>
      BY <2>1 DEF Register, SendCode
    <2> QED BY <2>2, PeopleKeep
  <1>3. CASE \E r \in Request : Decide(r)
    <2>1. PICK r \in Request : Decide(r)
      BY <1>3
    <2>2. (\E role \in {"inspector", "office"} : Approve(r, role)) \/ Reject(r)
      BY <2>1 DEF Decide
    <2> QED BY <2>2, ApproveKeeps, RequestsKeep
  <1>4. CASE \E r \in Request : Reject(r)
    BY <1>4, RequestsKeep
  <1>5. CASE Register(\E p \in Person : RevokeInspector(p) \/ SuspendUser(p))
    <2>1. (\E p \in Person : RevokeInspector(p) \/ SuspendUser(p))
          /\ UNCHANGED <<request, verifying>>
      BY <1>5 DEF Register
    <2> QED BY <2>1, PeopleKeep
  <1>6. CASE Register(\E k \in 1..made : RevokeDevice(k))
    <2>1. (\E k \in Key : RevokeDevice(k)) /\ UNCHANGED <<request, verifying>>
      BY <1>1, <1>6 DEF Register
    <2>2. PICK k \in Key : RevokeDevice(k)
      BY <2>1
    <2> QED BY <2>1, <2>2, DevicesKeep
  <1>7. CASE Register(\E k \in 1..made : ApproveDevice(k))
    <2>1. (\E k \in Key : ApproveDevice(k)) /\ UNCHANGED <<request, verifying>>
      BY <1>1, <1>7 DEF Register
    <2>2. PICK k \in Key : ApproveDevice(k)
      BY <2>1
    <2> QED BY <2>1, <2>2, DevicesKeep
  <1>8. CASE Register(\E p \in Person :
               \/ \E inspector \in BOOLEAN : CreateUser(p, inspector)
               \/ GrantInspector(p) \/ CancelInvite(p) \/ ExpireInvite(p)
               \/ \E k \in 1..made : EnrollDevice(k, p) \/ RequestEnrolment(k, p))
    <2>1. UNCHANGED <<request, verifying>>
      BY <1>8 DEF Register
    <2>2. PICK p \in Person :
            \/ \E inspector \in BOOLEAN : CreateUser(p, inspector)
            \/ GrantInspector(p) \/ CancelInvite(p) \/ ExpireInvite(p)
            \/ \E k \in 1..made : EnrollDevice(k, p) \/ RequestEnrolment(k, p)
      BY <1>8 DEF Register
    <2>3. CASE \E inspector \in BOOLEAN : CreateUser(p, inspector)
      BY <2>1, <2>3, PeopleKeep
    <2>4. CASE GrantInspector(p) \/ CancelInvite(p) \/ ExpireInvite(p)
      BY <2>1, <2>4, PeopleKeep
    <2>5. CASE \E k \in 1..made : EnrollDevice(k, p) \/ RequestEnrolment(k, p)
      <3>1. PICK k \in Key : EnrollDevice(k, p) \/ RequestEnrolment(k, p)
        BY <1>1, <2>5
      <3> QED BY <2>1, <3>1, DevicesKeep
    <2> QED BY <2>2, <2>3, <2>4, <2>5
  <1> QED BY <1>2, <1>3, <1>4, <1>5, <1>6, <1>7, <1>8 DEF Administer

LEMMA ElsewhereKeeps ==
  ASSUME Registers, Elsewhere
  PROVE  GatewayStep
  <1>1. CASE \E v \in verifying : VerifyWrite(v)
    BY <1>1, VerifyWriteKeeps
  <1>2. CASE \E r \in Request : CodesSpoil(r)
    BY <1>2, RequestsKeep
  <1>3. CASE \E r \in Request, p \in Person : StartRequest(r, p, None)
    BY <1>3, StartKeeps
  <1>4. CASE \E r \in Request : VerifyRead(r, Channel)
    BY <1>4, VerifyReadKeeps
  <1> QED BY <1>1, <1>2, <1>3, <1>4 DEF Elsewhere

-----------------------------------------------------------------------------
(* The names, by what a step does to the store and to its queue.           *)

SameSlots(slots) == \A slot \in slots : store'[slot] = store[slot]

LEMMA NamesStay ==
  ASSUME Registers, OwnersKept, PhoneTypes, Names, SameSlots({"device", "who"})
  PROVE  Names'
  <1>1. store'.device = store.device /\ store'.who = store.who
    BY DEF SameSlots
  <1>2. store.device # None => store.device \in Key
    BY DEF PhoneTypes, StoreOK, Slot, Value
  <1> QED BY <1>1, <1>2 DEF Names, OwnersKept

\* With nothing to write, the names are settled.
LEMMA NamesAtScreen ==
  ASSUME NamesBelong, AtScreen
  PROVE  /\ cuts <= 1 => Names
         /\ cuts = 0 => store.who = None \/ store.device # None
  <1>1. Len(writes) = 0
    BY DEF AtScreen
  <1>2. Settled
    <2>1. ASSUME NEW session \in Session, NEW k \in Nat, LandingAt(session, k) PROVE FALSE
      BY <1>1, <2>1 DEF LandingAt
    <2> QED BY <2>1 DEF NamesBelong
  <1>3. ~Clearing("who")
    BY <1>1 DEF Clearing
  <1> QED BY <1>2, <1>3 DEF Settled

\* A step that leaves the names alone, in the store and in the queue.
LEMMA NamesUntouched ==
  ASSUME Registers, OwnersKept, PhoneTypes, NamesBelong, SameSlots({"device", "who"}),
         cuts' = cuts, writes' \in Seq(Entry),
         \/ writes' = writes
         \/ AtScreen /\ \A i \in 1..Len(writes') : writes'[i].slot \notin {"device", "who"}
  PROVE  NamesBelong'
  <1>1. store'.device = store.device /\ store'.who = store.who
    BY DEF SameSlots
  <1>2. CASE writes' = writes
    <2>1. CASE Settled
      <3>1. OnlyCleared({"device", "who"})'
        BY <1>2, <2>1 DEF Settled, OnlyCleared
      <3>2. (cuts <= 1 => Names)'
        BY <2>1, NamesStay DEF Settled
      <3>3. (Clearing("who") <=> Clearing("who")') /\ (Clearing("device") <=> Clearing("device")')
        BY <1>2 DEF Clearing
      <3> QED BY <1>1, <2>1, <3>1, <3>2, <3>3 DEF Settled, NamesBelong
    <2>2. ASSUME NEW session \in Session, NEW k \in Nat, LandingAt(session, k)
          PROVE  NamesBelong'
      <3>1. Truthful(session)'
        BY <2>2, TruthfulStays DEF LandingAt
      <3>2. LandingAt(session, k)'
        BY <1>1, <1>2, <2>2, <3>1 DEF LandingAt
      <3> QED BY <3>2 DEF NamesBelong
    <2> QED BY <2>1, <2>2 DEF NamesBelong
  <1>3. CASE AtScreen /\ \A i \in 1..Len(writes') : writes'[i].slot \notin {"device", "who"}
    <2>1. /\ cuts <= 1 => Names
          /\ cuts = 0 => store.who = None \/ store.device # None
      BY <1>3, NamesAtScreen
    <2>2. OnlyCleared({"device", "who"})' /\ ~Clearing("device")'
      BY <1>3 DEF OnlyCleared, Clearing
    <2>3. (cuts <= 1 => Names)'
      BY <2>1, NamesStay
    <2>4. Settled'
      BY <1>1, <2>1, <2>2, <2>3 DEF Settled
    <2> QED BY <2>4 DEF NamesBelong
  <1> QED BY <1>2, <1>3

\* Somebody begins to land.
LEMMA NamesLand ==
  ASSUME PhoneTypes, NamesBelong, SignedOutScreen, SameSlots({"device", "who"}),
         cuts' = cuts, writes' \in Seq(Entry),
         NEW session \in Session, Truthful(session)',
         Len(writes') >= 3,
         writes'[2] = Put("device", session.device), writes'[3] = Put("who", session.who),
         \A i \in 1..Len(writes') : i \notin {2, 3} => writes'[i].slot \notin {"device", "who"}
  PROVE  NamesBelong'
  <1>1. store'.who = store.who
    BY DEF SameSlots
  <1>2. cuts = 0 => store.who = None
    BY NamesAtScreen DEF SignedOutScreen, SignedIn
  <1>3. Len(writes') \in Nat /\ 3 \in 1..Len(writes')
    BY SMT
  <1>4. LandingAt(session, 3)'
    BY <1>1, <1>2, <1>3 DEF LandingAt
  <1> QED BY <1>4 DEF NamesBelong

\* The names begin to be cleared, or only the device's where nobody is named.
LEMMA NamesClear ==
  ASSUME Registers, OwnersKept, PhoneTypes, NamesBelong, AtScreen,
         SameSlots({"device", "who"}), cuts' = cuts,
         OnlyCleared({"device", "who"})',
         Clearing("who")' \/ ~SignedIn
  PROVE  NamesBelong'
  <1>1. store'.device = store.device /\ store'.who = store.who
    BY DEF SameSlots
  <1>2. /\ cuts <= 1 => Names
        /\ cuts = 0 => store.who = None \/ store.device # None
    BY NamesAtScreen
  <1>3. (cuts <= 1 => Names)'
    BY <1>2, NamesStay
  <1>4. Settled'
    BY <1>1, <1>2, <1>3 DEF Settled, SignedIn
  <1> QED BY <1>4 DEF NamesBelong

\* The app is closed between two writes.
LEMMA NamesCut ==
  ASSUME Registers, OwnersKept, PhoneTypes, NamesBelong,
         SameSlots({"device", "who"}), cuts' = cuts + 1, writes' = <<>>
  PROVE  NamesBelong'
  <1>1. store'.device = store.device /\ store'.who = store.who
    BY DEF SameSlots
  <1>2. cuts \in Nat
    BY DEF PhoneTypes
  <1>3. cuts = 0 => Names
    <2>1. CASE Settled BY <2>1 DEF Settled
    <2>2. ASSUME NEW session \in Session, NEW k \in Nat, LandingAt(session, k)
          PROVE  cuts = 0 => Names
      BY <2>2 DEF LandingAt, Names
    <2> QED BY <2>1, <2>2 DEF NamesBelong
  <1>4. (cuts <= 1 => Names)'
    BY <1>2, <1>3, NamesStay
  <1>5. OnlyCleared({"device", "who"})'
    BY DEF OnlyCleared
  <1>6. cuts' # 0
    BY <1>2
  <1>7. Settled'
    BY <1>4, <1>5, <1>6 DEF Settled
  <1> QED BY <1>7 DEF NamesBelong

\* One write of a queue, as the lemmas below use it.
LEMMA WriteFacts ==
  ASSUME PhoneTypes, Write
  PROVE  /\ Len(writes) \in Nat /\ 1 \in 1..Len(writes)
         /\ writes[1] \in Entry
         /\ writes' \in Seq(Entry)
         /\ Len(writes') = Len(writes) - 1
         /\ \A i \in 1..Len(writes') : i + 1 \in 1..Len(writes) /\ writes'[i] = writes[i + 1]
         /\ \A slot \in Slot :
              store'[slot] = IF slot = writes[1].slot THEN writes[1].value ELSE store[slot]
         /\ DOMAIN store' = Slot
  <1>1. writes \in Seq(Entry) /\ DOMAIN store = Slot
    BY DEF PhoneTypes, StoreOK
  <1>2. /\ writes # <<>> /\ writes' = Tail(writes)
        /\ store' = [store EXCEPT ![Head(writes).slot] = Head(writes).value]
    BY DEF Write
  <1>3. /\ Len(writes) \in Nat /\ Len(writes) >= 1
        /\ Head(writes) = writes[1] /\ Head(writes) \in Entry
        /\ Tail(writes) \in Seq(Entry) /\ Len(Tail(writes)) = Len(writes) - 1
        /\ \A i \in 1..Len(Tail(writes)) :
             i + 1 \in 1..Len(writes) /\ Tail(writes)[i] = writes[i + 1]
    BY <1>1, <1>2, HeadOfQueue
  <1>4. 1 \in 1..Len(writes)
    BY <1>3
  <1>5. store' = [store EXCEPT ![writes[1].slot] = writes[1].value]
    BY <1>2, <1>3
  <1>6. \A slot \in Slot :
          store'[slot] = IF slot = writes[1].slot THEN writes[1].value ELSE store[slot]
    BY <1>1, <1>5
  <1>7. DOMAIN store' = Slot
    BY <1>1, <1>5
  <1> QED BY <1>2, <1>3, <1>4, <1>6, <1>7

\* What is left to write was to be written before, one place further on.
LEMMA StillClearing ==
  ASSUME PhoneTypes, Write, NEW slot \in Slot, Clearing(slot)
  PROVE  store'[slot] = None \/ Clearing(slot)'
  <1>1. PICK i \in 1..Len(writes) : writes[i].slot = slot /\ writes[i].value = None
    BY DEF Clearing
  <1>2. Len(writes) \in Nat /\ Len(writes') = Len(writes) - 1
    BY WriteFacts
  <1>3. CASE i = 1
    <2>1. store'[slot] = writes[1].value
      BY <1>1, <1>3, WriteFacts
    <2> QED BY <1>1, <1>3, <2>1
  <1>4. CASE i # 1
    <2>1. i - 1 \in 1..Len(writes') /\ (i - 1) + 1 = i
      BY <1>2, <1>4
    <2>2. writes'[i - 1] = writes[i]
      BY <2>1, WriteFacts
    <2>3. writes'[i - 1].slot = slot /\ writes'[i - 1].value = None
      BY <1>1, <2>2
    <2> QED BY <2>1, <2>3 DEF Clearing
  <1> QED BY <1>3, <1>4

LEMMA StillOnlyCleared ==
  ASSUME PhoneTypes, Write, NEW slots \in SUBSET Slot, OnlyCleared(slots)
  PROVE  /\ OnlyCleared(slots)'
         /\ \A slot \in slots : store'[slot] = store[slot] \/ store'[slot] = None
  <1>1. ASSUME NEW i \in 1..Len(writes'), writes'[i].slot \in slots
        PROVE  writes'[i].value = None
    <2>1. i + 1 \in 1..Len(writes) /\ writes'[i] = writes[i + 1]
      BY WriteFacts
    <2> QED BY <1>1, <2>1 DEF OnlyCleared
  <1>2. ASSUME NEW slot \in slots
        PROVE  store'[slot] = store[slot] \/ store'[slot] = None
    <2>1. store'[slot] = IF slot = writes[1].slot THEN writes[1].value ELSE store[slot]
      BY WriteFacts
    <2>2. 1 \in 1..Len(writes)
      BY WriteFacts
    <2> QED BY <2>1, <2>2 DEF OnlyCleared
  <1> QED BY <1>1, <1>2 DEF OnlyCleared

\* A write keeps the names together, or lands the next of them.
LEMMA NamesWritten ==
  ASSUME Registers, OwnersKept, PhoneTypes, NamesBelong, Write
  PROVE  NamesBelong'
  <1>1. cuts' = cuts /\ Len(writes) \in Nat /\ Len(writes') = Len(writes) - 1
    BY WriteFacts DEF Write, Plain
  <1>2. CASE Settled
    <2>1. {"device", "who"} \in SUBSET Slot
      BY DEF Slot
    <2>2. /\ OnlyCleared({"device", "who"})'
          /\ \A slot \in {"device", "who"} : store'[slot] = store[slot] \/ store'[slot] = None
      BY <1>2, <2>1, StillOnlyCleared DEF Settled
    <2>3. (cuts <= 1 => Names)'
      <3>1. CASE SameSlots({"device", "who"})
        BY <1>1, <1>2, <3>1, NamesStay DEF Settled
      <3>2. CASE ~SameSlots({"device", "who"})
        BY <2>2, <3>2 DEF SameSlots, Names
      <3> QED BY <3>1, <3>2
    <2>4. ASSUME cuts = 0
          PROVE  \/ store'.who = None \/ Clearing("who")'
                 \/ store'.device # None /\ ~Clearing("device")'
      <3>1. CASE store.who = None
        BY <2>2, <3>1
      <3>2. CASE Clearing("who")
        BY <3>2, StillClearing DEF Slot
      <3>3. CASE store.device # None /\ ~Clearing("device")
        <4>1. writes[1].slot # "device"
          <5>1. 1 \in 1..Len(writes)
            BY WriteFacts
          <5> QED BY <1>2, <3>3, <5>1 DEF Settled, OnlyCleared, Clearing
        <4>2. store'.device = store.device
          BY <4>1, WriteFacts DEF Slot
        <4>3. ~Clearing("device")'
          <5>1. ASSUME NEW i \in 1..Len(writes'),
                       writes'[i].slot = "device", writes'[i].value = None
                PROVE  FALSE
            <6>1. i + 1 \in 1..Len(writes) /\ writes'[i] = writes[i + 1]
              BY WriteFacts
            <6> QED BY <3>3, <5>1, <6>1 DEF Clearing
          <5> QED BY <5>1 DEF Clearing
        <4> QED BY <3>3, <4>2, <4>3
      <3> QED BY <1>2, <2>4, <3>1, <3>2, <3>3 DEF Settled
    <2>5. Settled'
      BY <1>1, <2>2, <2>3, <2>4 DEF Settled
    <2> QED BY <2>5 DEF NamesBelong
  <1>3. ASSUME NEW session \in Session, NEW k \in Nat, LandingAt(session, k)
        PROVE  NamesBelong'
    <2>1. Truthful(session)'
      BY <1>3, TruthfulStays DEF LandingAt
    <2>2. session.device \in Key /\ session.who \in Person
      BY DEF Session
    <2>3. k \in 1..Len(writes) /\ writes[k] = Put("who", session.who)
      BY <1>3 DEF LandingAt
    <2>4. ASSUME NEW i \in 1..Len(writes'), i \notin {k - 2, k - 1}
          PROVE  writes'[i].slot \notin {"device", "who"}
      <3>1. i + 1 \in 1..Len(writes) /\ writes'[i] = writes[i + 1]
        BY WriteFacts
      <3>2. i + 1 \notin {k - 1, k}
        BY <1>1, <2>3, <2>4
      <3> QED BY <1>3, <3>1, <3>2 DEF LandingAt
    <2>5. CASE k = 1
      <3>1. writes[1].slot = "who" /\ writes[1].value = session.who
        BY <2>3, <2>5 DEF Put
      <3>2. store'.who = session.who /\ store'.device = store.device
        BY <3>1, WriteFacts DEF Slot
      <3>3. store'.device = session.device
        BY <1>3, <2>5, <3>2 DEF LandingAt
      <3>4. Names'
        BY <2>1, <3>2, <3>3 DEF Names, Truthful
      <3>5. \A i \in 1..Len(writes') : writes'[i].slot \notin {"device", "who"}
        BY <1>1, <2>4, <2>5
      <3>6. OnlyCleared({"device", "who"})' /\ ~Clearing("device")'
        BY <3>5 DEF OnlyCleared, Clearing
      <3>7. store'.device # None
        BY <2>2, <3>3, AccountsAssumption DEF Key
      <3>8. Settled'
        BY <3>4, <3>6, <3>7 DEF Settled
      <3> QED BY <3>8 DEF NamesBelong
    <2>6. CASE k > 1
      <3>1. k - 1 \in 1..Len(writes') /\ (k - 1) + 1 = k
        BY <1>1, <2>3, <2>6
      <3>2. writes'[k - 1] = Put("who", session.who)
        BY <2>3, <3>1, WriteFacts
      <3>3. store'.who = store.who
        <4>1. 1 \in 1..Len(writes) /\ 1 # k
          BY <2>6, WriteFacts
        <4>2. writes[1].slot # "who"
          <5>1. CASE k = 2
            BY <1>3, <5>1 DEF LandingAt, Put
          <5>2. CASE k # 2
            BY <1>3, <2>6, <4>1, <5>2 DEF LandingAt
          <5> QED BY <5>1, <5>2
        <4> QED BY <4>2, WriteFacts DEF Slot
      <3>4. k - 1 = 1 => store'.device = session.device
        <4>1. ASSUME k = 2 PROVE store'.device = session.device
          <5>1. writes[1] = Put("device", session.device)
            BY <1>3, <4>1 DEF LandingAt
          <5>2. writes[1].slot = "device" /\ writes[1].value = session.device
            BY <5>1 DEF Put
          <5> QED BY <5>2, WriteFacts DEF Slot
        <4> QED BY <4>1
      <3>5. k - 1 > 1 => writes'[(k - 1) - 1] = Put("device", session.device)
        <4>1. ASSUME k > 2 PROVE writes'[(k - 1) - 1] = Put("device", session.device)
          <5>1. (k - 1) - 1 \in 1..Len(writes') /\ ((k - 1) - 1) + 1 = k - 1
            BY <1>1, <2>3, <4>1
          <5>2. writes[k - 1] = Put("device", session.device)
            BY <1>3, <4>1 DEF LandingAt
          <5> QED BY <5>1, <5>2, WriteFacts
        <4> QED BY <4>1
      <3>6. \A i \in 1..Len(writes') :
              i \notin {(k - 1) - 1, k - 1} => writes'[i].slot \notin {"device", "who"}
        BY <2>4
      <3>7. cuts' = 0 => store'.who = None
        BY <1>1, <1>3, <3>3 DEF LandingAt
      <3>8. LandingAt(session, k - 1)'
        BY <2>1, <3>1, <3>2, <3>4, <3>5, <3>6, <3>7 DEF LandingAt
      <3> QED BY <3>1, <3>8 DEF NamesBelong
    <2> QED BY <2>3, <2>5, <2>6
  <1> QED BY <1>2, <1>3 DEF NamesBelong

-----------------------------------------------------------------------------
(* The PIN, by what a step does to the store and to its queue.             *)

PinNames == {"salt", "hash", "who"}

LEMMA PinAtScreen ==
  ASSUME PinFollows, AtScreen, course = "accounts" \/ cuts = 0
  PROVE  store.hash = None \/ OwnPinOpens
  <1>1. Len(writes) = 0
    BY DEF AtScreen
  <1>2. ~PinGoing
    BY <1>1 DEF PinGoing, Clearing
  <1>3. ASSUME NEW hash \in Hash, NEW k \in 1..2, PinComing(hash, k) PROVE FALSE
    BY <1>1, <1>3 DEF PinComing
  <1> QED BY <1>2, <1>3 DEF PinFollows, PinSettled

LEMMA OwnPinStays ==
  ASSUME OwnPinOpens, SameSlots(PinNames)
  PROVE  OwnPinOpens'
  <1>1. store'.salt = store.salt /\ store'.hash = store.hash /\ store'.who = store.who
    BY DEF SameSlots, PinNames
  <1> QED BY <1>1 DEF OwnPinOpens, HasPin

\* A step that leaves the PIN and its person alone, in the store and in the queue.
LEMMA PinUntouched ==
  ASSUME PhoneTypes, PinFollows, SameSlots(PinNames), cuts' = cuts, course' = course,
         \/ writes' = writes
         \/ AtScreen /\ \A i \in 1..Len(writes') : writes'[i].slot \notin PinNames
  PROVE  PinFollows'
  <1>1. store'.salt = store.salt /\ store'.hash = store.hash /\ store'.who = store.who
    BY DEF SameSlots, PinNames
  <1>2. CASE writes' = writes
    <2>1. OnlyCleared({"hash"}) => OnlyCleared({"hash"})'
      BY <1>2 DEF OnlyCleared
    <2>2. PinSettled => PinSettled'
      BY <1>1, <1>2, <2>1, OwnPinStays DEF PinSettled
    <2>3. PinGoing => PinGoing'
      BY <1>2 DEF PinGoing, Clearing, OnlyCleared
    <2>4. \A hash \in Hash, k \in 1..2 : PinComing(hash, k) => PinComing(hash, k)'
      BY <1>1, <1>2 DEF PinComing
    <2> QED BY <1>1, <2>1, <2>2, <2>3, <2>4 DEF PinFollows
  <1>3. CASE AtScreen /\ \A i \in 1..Len(writes') : writes'[i].slot \notin PinNames
    <2>1. OnlyCleared({"hash"})'
      BY <1>3 DEF OnlyCleared, PinNames
    <2>2. course = "accounts" \/ cuts = 0 => PinSettled'
      <3>1. ASSUME course = "accounts" \/ cuts = 0 PROVE store.hash = None \/ OwnPinOpens
        BY <1>3, <3>1, PinAtScreen
      <3> QED BY <1>1, <1>3, <2>1, <3>1, OwnPinStays DEF PinSettled, PinNames
    <2>3. course = "accounts" => store.hash = None
      BY DEF PinFollows
    <2> QED BY <1>1, <2>1, <2>2, <2>3 DEF PinFollows
  <1> QED BY <1>2, <1>3

\* Where nobody was named, nobody has a PIN to keep.
LEMMA PinNobodys ==
  ASSUME PhoneTypes, PinFollows, NamesBelong, AtScreen, ~SignedIn,
         SameSlots(PinNames), cuts' = cuts, course' = course,
         \A i \in 1..Len(writes') : writes'[i].slot # "hash"
  PROVE  PinFollows'
  <1>1. store'.hash = store.hash
    BY DEF SameSlots, PinNames
  <1>2. OnlyCleared({"hash"})'
    BY DEF OnlyCleared
  <1>3. course = "accounts" => store.hash = None
    BY DEF PinFollows
  <1>4. ASSUME cuts = 0 PROVE store.hash = None
    <2>1. store.who = None
      BY <1>4, NamesAtScreen DEF SignedIn
    <2>2. store.hash \in Hash \cup {None}
      BY DEF PhoneTypes, StoreOK, Slot, Value
    <2>3. ~OwnPinOpens
      BY <2>1, <2>2, AccountsAssumption DEF OwnPinOpens, HasPin, Hash
    <2> QED BY <1>4, <2>3, PinAtScreen
  <1> QED BY <1>1, <1>2, <1>3, <1>4 DEF PinFollows, PinSettled

\* The PIN begins to be forgotten, where there can be one.
LEMMA PinForgets ==
  ASSUME PhoneTypes, PinFollows, SameSlots(PinNames), cuts' = cuts, course' = course,
         OnlyCleared(PinNames)',
         course = "accounts" \/ Clearing("hash")'
  PROVE  PinFollows'
  <1>1. store'.hash = store.hash
    BY DEF SameSlots, PinNames
  <1>2. OnlyCleared({"hash"})'
    BY DEF OnlyCleared, PinNames
  <1>3. CASE course = "accounts"
    BY <1>1, <1>2, <1>3 DEF PinFollows
  <1>4. CASE Clearing("hash")'
    <2>1. PinGoing'
      BY <1>4 DEF PinGoing, PinNames
    <2>2. course = "accounts" => store.hash = None
      BY DEF PinFollows
    <2> QED BY <1>1, <1>2, <2>1, <2>2 DEF PinFollows
  <1> QED BY <1>3, <1>4

\* A PIN begins to be set, by whoever is named.
LEMMA PinComes ==
  ASSUME PhoneTypes, PinFollows, SameSlots(PinNames), course = "pin", course' = course,
         NEW hash \in Hash, hash.by = store.who,
         Len(writes') = 3, writes'[1] = Put("salt", hash.salt),
         writes'[2] = Put("hash", hash), writes'[3].slot = "fails"
  PROVE  PinFollows'
  <1>1. store'.who = store.who
    BY DEF SameSlots, PinNames
  <1>2. \A i \in 1..Len(writes') : i > 2 => writes'[i].slot \notin {"salt", "hash", "who"}
    <2>1. ASSUME NEW i \in 1..3, i > 2 PROVE i = 3
      BY <2>1
    <2> QED BY <2>1
  <1>3. PinComing(hash, 2)'
    BY <1>1, <1>2 DEF PinComing
  <1> QED BY <1>3 DEF PinFollows

\* The app is closed between two writes.
LEMMA PinCut ==
  ASSUME PhoneTypes, PinFollows, SameSlots(PinNames), cuts' = cuts + 1, course' = course,
         writes' = <<>>
  PROVE  PinFollows'
  <1>1. cuts' # 0
    BY DEF PhoneTypes
  <1>2. OnlyCleared({"hash"})'
    BY DEF OnlyCleared
  <1>3. store'.hash = store.hash
    BY DEF SameSlots, PinNames
  <1> QED BY <1>1, <1>2, <1>3 DEF PinFollows

\* A write keeps the PIN its person's, or brings it on by one slot.
LEMMA PinWritten ==
  ASSUME PhoneTypes, PinFollows, Write, course' = course
  PROVE  PinFollows'
  <1>1. cuts' = cuts /\ Len(writes) \in Nat /\ Len(writes') = Len(writes) - 1
    BY WriteFacts DEF Write, Plain
  <1>2. {"hash"} \in SUBSET Slot /\ PinNames \in SUBSET Slot
    BY DEF Slot, PinNames
  <1>3. ASSUME store.hash = None, OnlyCleared({"hash"})
        PROVE  store'.hash = None /\ OnlyCleared({"hash"})'
    <2>1. OnlyCleared({"hash"})' /\ (store'.hash = store.hash \/ store'.hash = None)
      BY <1>2, <1>3, StillOnlyCleared
    <2> QED BY <1>3, <2>1
  <1>4. CASE course = "accounts"
    BY <1>3, <1>4 DEF PinFollows
  <1>5. ASSUME PinSettled PROVE PinSettled'
    <2>1. CASE store.hash = None /\ OnlyCleared({"hash"})
      BY <1>3, <2>1 DEF PinSettled
    <2>2. CASE /\ OwnPinOpens
               /\ \A i \in 1..Len(writes) : writes[i].slot \notin {"salt", "hash", "who"}
      <3>1. \A slot \in PinNames : store'[slot] = store[slot]
        <4>1. writes[1].slot \notin PinNames
          BY <2>2, WriteFacts DEF PinNames
        <4> QED BY <1>2, <4>1, WriteFacts
      <3>2. \A i \in 1..Len(writes') : writes'[i].slot \notin {"salt", "hash", "who"}
        BY <2>2, WriteFacts
      <3> QED BY <2>2, <3>1, <3>2, OwnPinStays DEF PinSettled, SameSlots
    <2> QED BY <1>5, <2>1, <2>2 DEF PinSettled
  <1>6. ASSUME PinGoing PROVE PinSettled' \/ PinGoing'
    <2>1. OnlyCleared(PinNames)'
      BY <1>2, <1>6, StillOnlyCleared DEF PinGoing, PinNames
    <2>2. store'.hash = None \/ Clearing("hash")'
      BY <1>6, StillClearing DEF PinGoing, Slot
    <2>3. OnlyCleared({"hash"})'
      BY <2>1 DEF OnlyCleared, PinNames
    <2> QED BY <2>1, <2>2, <2>3 DEF PinSettled, PinGoing, PinNames
  <1>7. ASSUME NEW hash \in Hash, NEW k \in 1..2, PinComing(hash, k)
        PROVE  PinSettled' \/ PinComing(hash, 1)'
    <2>1. /\ hash.by = store.who /\ k <= Len(writes) /\ writes[k] = Put("hash", hash)
          /\ k = 2 => writes[1] = Put("salt", hash.salt)
          /\ k = 1 => store.salt = hash.salt
      BY <1>7 DEF PinComing
    <2>2. \A i \in 1..Len(writes') :
            i + 1 > k => writes'[i].slot \notin {"salt", "hash", "who"}
      <3>1. ASSUME NEW i \in 1..Len(writes'), i + 1 > k
            PROVE  writes'[i].slot \notin {"salt", "hash", "who"}
        <4>1. i + 1 \in 1..Len(writes) /\ writes'[i] = writes[i + 1]
          BY WriteFacts
        <4> QED BY <1>7, <3>1, <4>1 DEF PinComing
      <3> QED BY <3>1
    <2>3. CASE k = 1
      <3>1. writes[1].slot = "hash" /\ writes[1].value = hash
        BY <2>1, <2>3 DEF Put
      <3>2. store'.hash = hash /\ store'.who = store.who /\ store'.salt = store.salt
        BY <3>1, WriteFacts DEF Slot
      <3>3. \A i \in 1..Len(writes') : writes'[i].slot \notin {"salt", "hash", "who"}
        BY <2>2, <2>3
      <3>4. OnlyCleared({"hash"})'
        BY <3>3 DEF OnlyCleared
      <3>5. OwnPinOpens' \/ store'.hash = None
        BY <2>1, <2>3, <3>2 DEF OwnPinOpens, HasPin
      <3> QED BY <3>3, <3>4, <3>5 DEF PinSettled
    <2>4. CASE k = 2
      <3>1. writes[1].slot = "salt" /\ writes[1].value = hash.salt
        BY <2>1, <2>4 DEF Put
      <3>2. store'.who = store.who /\ store'.salt = hash.salt
        BY <3>1, WriteFacts DEF Slot
      <3>3. 1 \in 1..Len(writes') /\ writes'[1] = writes[2]
        <4>1. 1 \in 1..Len(writes')
          BY <1>1, <2>1, <2>4
        <4> QED BY <4>1, WriteFacts
      <3>4. \A i \in 1..Len(writes') : i > 1 => writes'[i].slot \notin {"salt", "hash", "who"}
        BY <1>1, <2>2, <2>4
      <3> QED BY <1>1, <2>1, <2>4, <3>2, <3>3, <3>4 DEF PinComing
    <2> QED BY <2>3, <2>4
  <1>8. CASE course # "accounts"
    <2>1. ASSUME cuts = 0
          PROVE  \/ PinSettled' \/ PinGoing'
                 \/ \E hash \in Hash, k \in 1..2 : PinComing(hash, k)'
      BY <1>5, <1>6, <1>7, <1>8, <2>1 DEF PinFollows
    <2> QED BY <1>1, <1>8, <2>1 DEF PinFollows
  <1> QED BY <1>4, <1>8

-----------------------------------------------------------------------------
(* What each step does on the phone's side.                                *)

PhoneStep == PhoneTypes' /\ NamesBelong' /\ PinFollows' /\ OutboxIsNamed'

\* What a store of the right types is made to hold next.
LEMMA StorePut ==
  ASSUME StoreOK, NEW slot \in Slot, NEW value \in Value(slot),
         store' = [store EXCEPT ![slot] = value]
  PROVE  /\ StoreOK'
         /\ \A other \in Slot \ {slot} : store'[other] = store[other]
  <1>1. DOMAIN store' = Slot
    BY DEF StoreOK
  <1>2. \A other \in Slot : store'[other] = IF other = slot THEN value ELSE store[other]
    BY DEF StoreOK
  <1> QED BY <1>1, <1>2 DEF StoreOK

LEMMA KeyIsKept ==
  ASSUME PhoneTypes, NEW k, KeepKey(k)
  PROVE  /\ StoreOK' /\ made' \in 0..MaxKey
         /\ SameSlots({"device", "who"}) /\ SameSlots(PinNames)
  <1>1. k \in Value("key") /\ "key" \in Slot
    BY DEF KeepKey, Value, Slot
  <1>2. store' = [store EXCEPT !["key"] = k]
    BY DEF KeepKey
  <1>3. StoreOK' /\ \A other \in Slot \ {"key"} : store'[other] = store[other]
    BY <1>1, <1>2, StorePut DEF PhoneTypes
  <1>4. made' \in 0..MaxKey
    BY AccountsAssumption DEF KeepKey, PhoneTypes, Key
  <1> QED BY <1>3, <1>4 DEF SameSlots, PinNames, Slot

LEMMA TriesAreCounted ==
  ASSUME PhoneTypes, NEW n \in Nat \cup {None}, store' = [store EXCEPT !.fails = n]
  PROVE  StoreOK' /\ SameSlots({"device", "who"}) /\ SameSlots(PinNames)
  <1>1. n \in Value("fails") /\ "fails" \in Slot
    BY DEF Value, Slot
  <1>2. StoreOK' /\ \A other \in Slot \ {"fails"} : store'[other] = store[other]
    BY <1>1, StorePut DEF PhoneTypes
  <1> QED BY <1>2 DEF SameSlots, PinNames, Slot

LEMMA StoreIsSame ==
  ASSUME PhoneTypes, store' = store
  PROVE  StoreOK' /\ SameSlots({"device", "who"}) /\ SameSlots(PinNames)
  BY DEF PhoneTypes, StoreOK, SameSlots

\* Work in the outbox stays its author's.
LEMMA OutboxStays ==
  ASSUME PhoneTypes, OutboxIsNamed, OwnersKept, cuts' \in {cuts, cuts + 1},
         NEW e \in outbox, cuts' <= 1, e.device = e.key
  PROVE  device'[e.key].owner = e.actor
  <1>1. cuts <= 1
    BY DEF PhoneTypes
  <1>2. e.key \in Key /\ e.actor \in Person
    BY DEF PhoneTypes, Event
  <1>3. device[e.key].owner = e.actor
    BY <1>1 DEF OutboxIsNamed
  <1> QED BY <1>2, <1>3, AccountsAssumption DEF OwnersKept

LEMMA OutboxShrinks ==
  ASSUME PhoneTypes, OutboxIsNamed, OwnersKept, cuts' \in {cuts, cuts + 1},
         outbox' \subseteq outbox
  PROVE  OutboxIsNamed'
  BY OutboxStays DEF OutboxIsNamed

\* The phone rests: the store and its queue stay as they are.
LEMMA PhoneRests ==
  ASSUME Registers, PhoneTypes, NamesBelong, PinFollows, OutboxIsNamed, OwnersKept,
         UNCHANGED <<store, writes, made, cuts, course>>, outbox' \subseteq outbox
  PROVE  PhoneStep
  <1>1. StoreOK' /\ SameSlots({"device", "who"}) /\ SameSlots(PinNames)
    BY StoreIsSame
  <1>2. PhoneTypes'
    BY <1>1 DEF PhoneTypes
  <1>3. NamesBelong'
    BY <1>1, NamesUntouched DEF PhoneTypes
  <1>4. PinFollows'
    BY <1>1, PinUntouched
  <1>5. OutboxIsNamed'
    BY OutboxShrinks
  <1> QED BY <1>2, <1>3, <1>4, <1>5 DEF PhoneStep

LEMMA PhoneWrites ==
  ASSUME Registers, PhoneTypes, NamesBelong, PinFollows, OutboxIsNamed, OwnersKept,
         Write, course' = course
  PROVE  PhoneStep
  <1>1. StoreOK'
    <2>1. /\ writes[1] \in Entry /\ DOMAIN store' = Slot
          /\ \A slot \in Slot :
               store'[slot] = IF slot = writes[1].slot THEN writes[1].value ELSE store[slot]
      BY WriteFacts
    <2> QED BY <2>1 DEF StoreOK, PhoneTypes, Entry
  <1>2. writes' \in Seq(Entry)
    BY WriteFacts
  <1>3. UNCHANGED <<outbox, made, cuts>>
    BY DEF Write, Plain
  <1>4. PhoneTypes'
    BY <1>1, <1>2, <1>3 DEF PhoneTypes
  <1>5. NamesBelong' /\ PinFollows'
    BY NamesWritten, PinWritten
  <1>6. OutboxIsNamed'
    BY <1>3, OutboxShrinks
  <1> QED BY <1>4, <1>5, <1>6 DEF PhoneStep

LEMMA PhoneRestarts ==
  ASSUME Registers, PhoneTypes, NamesBelong, PinFollows, OutboxIsNamed, OwnersKept,
         Restart, course' = course
  PROVE  PhoneStep
  <1>1. /\ UNCHANGED <<store, outbox, made>> /\ writes' = <<>> /\ cuts' = cuts + 1
    BY DEF Restart
  <1>2. StoreOK' /\ SameSlots({"device", "who"}) /\ SameSlots(PinNames)
    BY <1>1, StoreIsSame
  <1>3. <<>> \in Seq(Entry)
    OBVIOUS
  <1>4. PhoneTypes'
    BY <1>1, <1>2, <1>3 DEF PhoneTypes
  <1>5. NamesBelong'
    BY <1>1, <1>2, NamesCut
  <1>6. PinFollows'
    BY <1>1, <1>2, PinCut
  <1>7. OutboxIsNamed'
    BY <1>1, OutboxShrinks
  <1> QED BY <1>4, <1>5, <1>6, <1>7 DEF PhoneStep

\* A key is offered, or a ticket put down or thrown away: nothing that is named.
LEMMA PhoneKeepsNames ==
  ASSUME Registers, PhoneTypes, NamesBelong, PinFollows, OutboxIsNamed, OwnersKept,
         StoreOK', SameSlots({"device", "who"}), SameSlots(PinNames),
         made' \in 0..MaxKey, UNCHANGED <<outbox, cuts, course>>,
         writes' \in Seq(Entry),
         \/ writes' = writes
         \/ /\ AtScreen
            /\ \A i \in 1..Len(writes') :
                 writes'[i].slot \notin {"device", "who", "salt", "hash"}
  PROVE  PhoneStep
  <1>1. PhoneTypes'
    BY DEF PhoneTypes
  <1>2. NamesBelong'
    BY NamesUntouched
  <1>3. PinFollows'
    BY PinUntouched DEF PinNames
  <1>4. OutboxIsNamed'
    BY OutboxShrinks
  <1> QED BY <1>1, <1>2, <1>3, <1>4 DEF PhoneStep

\* The session of a code or of an approval begins to land.
LEMMA PhoneLands ==
  ASSUME Registers, PhoneTypes, NamesBelong, PinFollows, OutboxIsNamed, OwnersKept,
         SignedOutScreen,
         StoreOK', SameSlots({"device", "who"}), SameSlots(PinNames),
         made' \in 0..MaxKey, UNCHANGED <<outbox, cuts, course>>,
         NEW session \in Session, Truthful(session)',
         NEW rest \in Seq(Entry), rest = <<>> \/ rest = <<Clear("ticket")>>,
         writes' = Landing(session) \o rest
  PROVE  PhoneStep
  <1>1. session \in Value("token") /\ session.device \in Value("device")
        /\ session.who \in Value("who")
    BY DEF Value, Session
  <1>2. Landing(session) \in Seq(Entry) /\ Len(Landing(session)) = 3
    <2>1. /\ Put("token", session) \in Entry
          /\ Put("device", session.device) \in Entry
          /\ Put("who", session.who) \in Entry
      BY <1>1, PutIsWrite DEF Slot
    <2> QED BY <2>1 DEF Landing
  <1>3. Len(rest) \in Nat /\ (Len(rest) = 0 \/ (Len(rest) = 1 /\ rest[1].slot = "ticket"))
    BY ClearIsWrite DEF Slot
  <1> DEFINE first == Landing(session)
  <1> HIDE DEF first
  <1>3a. first \in Seq(Entry) /\ Len(first) = 3 /\ writes' = first \o rest
    BY <1>2 DEF first
  <1>3b. /\ first \o rest \in Seq(Entry) /\ Len(first \o rest) = Len(first) + Len(rest)
        /\ \A i \in 1..Len(first) + Len(rest) :
             (first \o rest)[i] = IF i <= Len(first) THEN first[i] ELSE rest[i - Len(first)]
    BY <1>3a, ConcatProperties
  <1>4. writes' \in Seq(Entry) /\ Len(writes') = 3 + Len(rest)
    BY <1>3a, <1>3b
  <1>5. \A i \in 1..3 + Len(rest) :
          writes'[i] = IF i <= 3 THEN first[i] ELSE rest[i - 3]
    BY <1>3a, <1>3b
  <1>6. /\ writes'[1] = Put("token", session)
        /\ writes'[2] = Put("device", session.device)
        /\ writes'[3] = Put("who", session.who)
    BY <1>3, <1>5 DEF Landing, first
  <1>7. \A i \in 1..Len(writes') : i > 3 => writes'[i].slot = "ticket"
    <2>1. ASSUME NEW i \in 1..Len(writes'), i > 3 PROVE writes'[i].slot = "ticket"
      <3>0. i \in Nat /\ i <= 3 + Len(rest)
        BY <1>3, <1>4
      <3>1. i = 4 /\ Len(rest) = 1
        BY <1>3, <2>1, <3>0
      <3>2. writes'[i] = rest[1]
        BY <1>5, <3>1
      <3> QED BY <1>3, <3>1, <3>2
    <2> QED BY <2>1
  <1>8. \A i \in 1..Len(writes') : i = 1 \/ i = 2 \/ i = 3 \/ i > 3
    BY <1>3, <1>4
  <1>9. /\ writes'[1].slot = "token" /\ writes'[2].slot = "device"
        /\ writes'[3].slot = "who"
    BY <1>6 DEF Put
  <1>10. PhoneTypes'
    BY <1>4 DEF PhoneTypes
  <1>11. NamesBelong'
    <2>1. \A i \in 1..Len(writes') :
            i \notin {2, 3} => writes'[i].slot \notin {"device", "who"}
      BY <1>7, <1>8, <1>9
    <2>2. Len(writes') >= 3
      BY <1>3, <1>4
    <2> QED BY <1>4, <1>6, <2>1, <2>2, NamesLand
  <1>12. PinFollows'
    <2>1. \A i \in 1..Len(writes') : writes'[i].slot # "hash"
      BY <1>7, <1>8, <1>9
    <2> QED BY <2>1, PinNobodys DEF SignedOutScreen
  <1>13. OutboxIsNamed'
    BY OutboxShrinks
  <1> QED BY <1>10, <1>11, <1>12, <1>13 DEF PhoneStep

\* Somebody begins to be signed out.
LEMMA PhoneClears ==
  ASSUME Registers, PhoneTypes, NamesBelong, PinFollows, OutboxIsNamed, OwnersKept,
         AtScreen, StoreOK', SameSlots({"device", "who"}), SameSlots(PinNames),
         UNCHANGED <<outbox, made, cuts, course>>,
         writes' \in Seq(Entry), \A i \in 1..Len(writes') : writes'[i].value = None,
         Clearing("who")', course = "accounts" \/ Clearing("hash")'
  PROVE  PhoneStep
  <1>1. PhoneTypes'
    BY DEF PhoneTypes
  <1>2. OnlyCleared({"device", "who"})' /\ OnlyCleared(PinNames)'
    BY DEF OnlyCleared
  <1>3. NamesBelong'
    BY <1>2, NamesClear
  <1>4. PinFollows'
    BY <1>2, PinForgets
  <1>5. OutboxIsNamed'
    BY OutboxShrinks
  <1> QED BY <1>1, <1>3, <1>4, <1>5 DEF PhoneStep

-----------------------------------------------------------------------------
(* The actions.  PinInv before a step, and what the step does on each side. *)

StepKeeps == GatewayStep /\ PhoneStep

LEMMA NothingOnPhone ==
  ASSUME PinInv, GatewayStep, UNCHANGED <<phoneVars, cuts, course>>
  PROVE  StepKeeps
  BY PhoneRests DEF PinInv, GatewayStep, phoneVars, StepKeeps

LEMMA WriteKeeps ==
  ASSUME PinInv, Write, UNCHANGED course
  PROVE  StepKeeps
  <1>1. GatewayStep
    BY GatewayRests DEF PinInv, Write
  <1> QED BY <1>1, PhoneWrites DEF PinInv, GatewayStep, StepKeeps

LEMMA RestartKeeps ==
  ASSUME PinInv, Restart, UNCHANGED course
  PROVE  StepKeeps
  <1>1. GatewayStep
    BY GatewayRests DEF PinInv, Restart
  <1> QED BY <1>1, PhoneRestarts DEF PinInv, GatewayStep, StepKeeps

LEMMA EnterCodeKeeps ==
  ASSUME PinInv, NEW p \in Person, EnterCode(p), UNCHANGED course
  PROVE  StepKeeps
  <1> DEFINE session == [who |-> p, device |-> OfferedKey]
  <1>1. PICK k \in Key : k = OfferedKey
    BY DEF EnterCode, KeepKey
  <1>2. KeepKey(k) /\ Spend(p, k) /\ UNCHANGED <<request, verifying>>
    BY <1>1 DEF EnterCode
  <1>3. GatewayStep /\ Truthful([who |-> p, device |-> k])'
    BY <1>2, SpendKeeps DEF PinInv
  <1>4. /\ StoreOK' /\ made' \in 0..MaxKey
        /\ SameSlots({"device", "who"}) /\ SameSlots(PinNames)
    BY <1>2, KeyIsKept DEF PinInv
  <1>5. SignedOutScreen /\ UNCHANGED <<outbox, cuts, course>>
    BY DEF EnterCode, Plain, Aside
  <1>6. CASE writes' = Landing([who |-> p, device |-> k])
    <2>1. [who |-> p, device |-> k] \in Session
      BY DEF Session
    <2>2. Landing([who |-> p, device |-> k]) \in Seq(Entry)
      <3>1. /\ Put("token", [who |-> p, device |-> k]) \in Entry
            /\ Put("device", k) \in Entry /\ Put("who", p) \in Entry
        <4>1. [who |-> p, device |-> k] \in Value("token") /\ k \in Value("device")
              /\ p \in Value("who")
          BY <2>1 DEF Value
        <4> QED BY <4>1, PutIsWrite DEF Slot
      <3> QED BY <3>1 DEF Landing
    <2>3. <<>> \in Seq(Entry)
      OBVIOUS
    <2>4. writes' = Landing([who |-> p, device |-> k]) \o <<>>
      BY <1>6, <2>2, ConcatEmptySeq
    <2>5. PhoneStep
      BY <1>3, <1>4, <1>5, <2>1, <2>3, <2>4, PhoneLands DEF PinInv, GatewayStep
    <2> QED BY <1>3, <2>5 DEF StepKeeps
  <1>7. CASE writes' = writes
    <2>1. writes' \in Seq(Entry)
      BY <1>7 DEF PinInv, PhoneTypes
    <2>2. PhoneStep
      BY <1>3, <1>4, <1>5, <1>7, <2>1, PhoneKeepsNames DEF PinInv, GatewayStep
    <2> QED BY <1>3, <2>2 DEF StepKeeps
  <1>8. writes' = Landing([who |-> p, device |-> k]) \/ writes' = writes
    BY <1>1 DEF EnterCode
  <1> QED BY <1>6, <1>7, <1>8

LEMMA EnterCodeOldKeyKeeps ==
  ASSUME PinInv, NEW p \in Person, EnterCodeOldKey(p), UNCHANGED course
  PROVE  StepKeeps
  <1>1. /\ AtScreen /\ ~SignedIn
        /\ UNCHANGED <<accountVars, request, verifying, store, outbox, made, cuts>>
        /\ writes' = <<Clear("key"), Clear("device")>>
    BY DEF EnterCodeOldKey, SignedOutScreen, Plain
  <1>2. GatewayStep
    BY <1>1, GatewayRests DEF PinInv
  <1>3. /\ Clear("key") \in Entry /\ Clear("key").slot = "key"
        /\ Clear("device") \in Entry
        /\ Clear("device").slot = "device" /\ Clear("device").value = None
    BY ClearIsWrite DEF Slot
  <1>4. /\ writes' \in Seq(Entry) /\ Len(writes') = 2
        /\ writes'[1] = Clear("key") /\ writes'[2] = Clear("device")
    BY <1>1, <1>3
  <1>5. \A i \in 1..Len(writes') : i = 1 \/ i = 2
    BY <1>4
  <1>6. StoreOK' /\ SameSlots({"device", "who"}) /\ SameSlots(PinNames)
    BY <1>1, StoreIsSame DEF PinInv
  <1>7. PhoneTypes'
    BY <1>1, <1>4, <1>6 DEF PinInv, PhoneTypes
  <1>8. NamesBelong'
    <2>1. OnlyCleared({"device", "who"})'
      BY <1>3, <1>4, <1>5 DEF OnlyCleared
    <2> QED BY <1>1, <1>2, <1>6, <2>1, NamesClear DEF PinInv, GatewayStep
  <1>9. PinFollows'
    <2>1. \A i \in 1..Len(writes') : writes'[i].slot # "hash"
      BY <1>3, <1>4, <1>5
    <2> QED BY <1>1, <1>6, <2>1, PinNobodys DEF PinInv
  <1>10. OutboxIsNamed'
    BY <1>1, <1>2, OutboxShrinks DEF PinInv, GatewayStep
  <1> QED BY <1>2, <1>7, <1>8, <1>9, <1>10 DEF PhoneStep, StepKeeps

LEMMA CodeRefusedKeeps ==
  ASSUME PinInv, NEW p \in Person, CodeRefused(p), UNCHANGED course
  PROVE  StepKeeps
  <1>1. GatewayStep
    BY GatewayRests DEF PinInv, CodeRefused
  <1>2. PICK k : k = OfferedKey /\ KeepKey(k)
    BY DEF CodeRefused
  <1>3. /\ StoreOK' /\ made' \in 0..MaxKey
        /\ SameSlots({"device", "who"}) /\ SameSlots(PinNames)
    BY <1>2, KeyIsKept DEF PinInv
  <1>4. UNCHANGED <<writes, outbox, cuts>>
    BY DEF CodeRefused, Aside
  <1>5. writes' \in Seq(Entry)
    BY <1>4 DEF PinInv, PhoneTypes
  <1>6. PhoneStep
    BY <1>1, <1>3, <1>4, <1>5, PhoneKeepsNames DEF PinInv, GatewayStep
  <1> QED BY <1>1, <1>6 DEF StepKeeps

\* A queue of one write, to the ticket.
LEMMA TicketQueue ==
  ASSUME NEW value \in Value("ticket")
  PROVE  /\ <<Put("ticket", value)>> \in Seq(Entry)
         /\ \A i \in 1..Len(<<Put("ticket", value)>>) :
              <<Put("ticket", value)>>[i].slot \notin {"device", "who", "salt", "hash"}
  <1>1. Put("ticket", value) \in Entry /\ Put("ticket", value).slot = "ticket"
    BY PutIsWrite DEF Slot
  <1> QED BY <1>1

LEMMA AskToJoinKeeps ==
  ASSUME PinInv, NEW r \in Request, NEW p \in Person, AskToJoin(r, p), UNCHANGED course
  PROVE  StepKeeps
  <1>1. PICK k \in Key : k = OfferedKey /\ KeepKey(k) /\ StartRequest(r, p, k)
    BY DEF AskToJoin, KeepKey
  <1>2. GatewayStep
    BY <1>1, StartKeeps DEF PinInv
  <1>3. /\ StoreOK' /\ made' \in 0..MaxKey
        /\ SameSlots({"device", "who"}) /\ SameSlots(PinNames)
    BY <1>1, KeyIsKept DEF PinInv
  <1>4. AtScreen /\ UNCHANGED <<outbox, cuts>>
    BY DEF AskToJoin, SignedOutScreen, Plain, Aside
  <1>5. CASE writes' = <<Put("ticket", r)>>
    <2>1. r \in Value("ticket")
      BY DEF Value
    <2>2. writes' \in Seq(Entry) /\ \A i \in 1..Len(writes') :
            writes'[i].slot \notin {"device", "who", "salt", "hash"}
      BY <1>5, <2>1, TicketQueue
    <2>3. PhoneStep
      BY <1>2, <1>3, <1>4, <2>2, PhoneKeepsNames DEF PinInv, GatewayStep
    <2> QED BY <1>2, <2>3 DEF StepKeeps
  <1>6. CASE writes' = writes
    <2>1. writes' \in Seq(Entry)
      BY <1>6 DEF PinInv, PhoneTypes
    <2>2. PhoneStep
      BY <1>2, <1>3, <1>4, <1>6, <2>1, PhoneKeepsNames DEF PinInv, GatewayStep
    <2> QED BY <1>2, <2>2 DEF StepKeeps
  <1> QED BY <1>5, <1>6 DEF AskToJoin

LEMMA CheckKeeps ==
  ASSUME PinInv, Check, UNCHANGED course
  PROVE  StepKeeps
  <1>1. PICK r \in Request : r = store.ticket /\ Land(r)
    <2>1. store.ticket \in Request
      BY DEF Check, PinInv, PhoneTypes, StoreOK, Slot, Value
    <2> QED BY <2>1 DEF Check
  <1>2. SignedOutScreen /\ AtScreen
        /\ UNCHANGED <<accountVars, request, verifying, store, outbox, made, cuts>>
    BY <1>1 DEF Check, Land, SignedOutScreen, Plain
  <1>3. GatewayStep
    BY <1>2, GatewayRests DEF PinInv
  <1>4. StoreOK' /\ SameSlots({"device", "who"}) /\ SameSlots(PinNames)
    BY <1>2, StoreIsSame DEF PinInv
  <1>5. made' \in 0..MaxKey
    BY <1>2 DEF PinInv, PhoneTypes
  <1>6. <<Clear("ticket")>> \in Seq(Entry) /\ <<>> \in Seq(Entry)
    BY ClearIsWrite DEF Slot
  <1>7. CASE AnswersSession(r)
    <2>1. request[r].session
      BY <1>7 DEF AnswersSession
    <2>2. Truthful(SessionOf(r))
      BY <2>1 DEF PinInv, Registers, SessionsAreTruthful
    <2>3. PICK session \in Session : session = SessionOf(r)
      BY <2>2 DEF Truthful
    <2>4. Truthful(session)'
      BY <1>2, <2>2, <2>3 DEF Truthful, accountVars
    <2>5. writes' = Landing(session) \o <<Clear("ticket")>>
      BY <1>1, <1>7, <2>3 DEF Land
    <2>6. PhoneStep
      BY <1>2, <1>3, <1>4, <1>5, <1>6, <2>4, <2>5, PhoneLands DEF PinInv, GatewayStep
    <2> QED BY <1>3, <2>6 DEF StepKeeps
  <1>8. CASE ~AnswersSession(r)
    <2>1. writes' = <<Put("ticket", None)>> \/ writes' = <<>>
      BY <1>1, <1>8 DEF Land, Clear
    <2>2. None \in Value("ticket")
      BY DEF Value
    <2>3. writes' \in Seq(Entry) /\ \A i \in 1..Len(writes') :
            writes'[i].slot \notin {"device", "who", "salt", "hash"}
      <3>1. CASE writes' = <<Put("ticket", None)>>
        BY <2>2, <3>1, TicketQueue
      <3>2. CASE writes' = <<>>
        BY <1>6, <3>2
      <3> QED BY <2>1, <3>1, <3>2
    <2>4. PhoneStep
      BY <1>2, <1>3, <1>4, <1>5, <2>3, PhoneKeepsNames DEF PinInv, GatewayStep
    <2> QED BY <1>3, <2>4 DEF StepKeeps
  <1> QED BY <1>7, <1>8

LEMMA StartOverKeeps ==
  ASSUME PinInv, StartOver, UNCHANGED course
  PROVE  StepKeeps
  <1>1. /\ AtScreen
        /\ UNCHANGED <<accountVars, request, verifying, store, outbox, made, cuts>>
        /\ writes' = <<Put("ticket", None)>>
    BY DEF StartOver, SignedOutScreen, Plain, Aside, Clear
  <1>2. GatewayStep
    BY <1>1, GatewayRests DEF PinInv
  <1>3. StoreOK' /\ SameSlots({"device", "who"}) /\ SameSlots(PinNames)
    BY <1>1, StoreIsSame DEF PinInv
  <1>4. made' \in 0..MaxKey
    BY <1>1 DEF PinInv, PhoneTypes
  <1>5. writes' \in Seq(Entry) /\ \A i \in 1..Len(writes') :
          writes'[i].slot \notin {"device", "who", "salt", "hash"}
    BY <1>1, TicketQueue DEF Value
  <1>6. PhoneStep
    BY <1>1, <1>2, <1>3, <1>4, <1>5, PhoneKeepsNames DEF PinInv, GatewayStep
  <1> QED BY <1>2, <1>6 DEF StepKeeps

\* What is recorded is its author's: the names in the store belong together.
LEMMA RecordKeeps ==
  ASSUME PinInv, Record, UNCHANGED course
  PROVE  StepKeeps
  <1> DEFINE event == [key |-> store.key, device |-> store.device, actor |-> store.who]
  <1>1. /\ AtScreen /\ SignedIn /\ store.key # None /\ outbox = {}
        /\ outbox' = {event}
        /\ UNCHANGED <<accountVars, request, verifying, store, writes, made, cuts>>
    BY DEF Record, Plain
  <1>2. GatewayStep
    BY <1>1, GatewayRests DEF PinInv
  <1>3. StoreOK' /\ SameSlots({"device", "who"}) /\ SameSlots(PinNames)
    BY <1>1, StoreIsSame DEF PinInv
  <1>4. /\ store.key \in Key \cup {None} /\ store.device \in Key \cup {None}
        /\ store.who \in Person \cup {None}
    BY DEF PinInv, PhoneTypes, StoreOK, Slot, Value
  <1>5. event \in Event
    BY <1>1, <1>4 DEF Event, SignedIn
  <1>6. event.key = store.key /\ event.device = store.device /\ event.actor = store.who
    OBVIOUS
  <1> HIDE DEF event
  <1>7. PhoneTypes'
    BY <1>1, <1>3, <1>5 DEF PinInv, PhoneTypes
  <1>8. NamesBelong'
    BY <1>1, <1>2, <1>3, <1>7, NamesUntouched DEF PinInv, GatewayStep, PhoneTypes
  <1>9. PinFollows'
    BY <1>1, <1>3, PinUntouched DEF PinInv
  <1>10. OutboxIsNamed'
    <2>1. ASSUME cuts <= 1, event.device = event.key
          PROVE  device[event.key].owner = event.actor
      <3>1. Names
        BY <1>1, <2>1, NamesAtScreen DEF PinInv
      <3> QED BY <1>1, <1>6, <2>1, <3>1 DEF Names, SignedIn
    <2>2. device' = device /\ cuts' = cuts
      BY <1>1 DEF accountVars
    <2> QED BY <1>1, <2>1, <2>2 DEF OutboxIsNamed
  <1> QED BY <1>2, <1>7, <1>8, <1>9, <1>10 DEF PhoneStep, StepKeeps

LEMMA SyncKeeps ==
  ASSUME PinInv, Sync, UNCHANGED course
  PROVE  StepKeeps
  <1>1. /\ UNCHANGED <<accountVars, request, verifying, store, writes, made, cuts>>
        /\ outbox' \subseteq outbox
    BY DEF Sync, SyncWork, SyncIdle, Plain
  <1>2. GatewayStep
    BY <1>1, GatewayRests DEF PinInv
  <1>3. PhoneStep
    BY <1>1, <1>2, PhoneRests DEF PinInv, GatewayStep
  <1> QED BY <1>2, <1>3 DEF StepKeeps

\* What signing out deletes: writes that only clear, and with the others of
\* a sign-out they still do.
AllClear(w) == w \in Seq(Entry) /\ \A i \in 1..Len(w) : w[i].value = None
Deletes(w, slot) == \E i \in 1..Len(w) : w[i].slot = slot /\ w[i].value = None

LEMMA TwoClears ==
  ASSUME NEW slot1 \in Slot, NEW slot2 \in Slot
  PROVE  /\ AllClear(<<Clear(slot1), Clear(slot2)>>)
         /\ Deletes(<<Clear(slot1), Clear(slot2)>>, slot1)
         /\ Deletes(<<Clear(slot1), Clear(slot2)>>, slot2)
  <1>1. /\ Clear(slot1) \in Entry /\ Clear(slot1).slot = slot1 /\ Clear(slot1).value = None
        /\ Clear(slot2) \in Entry /\ Clear(slot2).slot = slot2 /\ Clear(slot2).value = None
    BY ClearIsWrite
  <1> DEFINE w == <<Clear(slot1), Clear(slot2)>>
  <1>2. w \in Seq(Entry) /\ Len(w) = 2 /\ w[1] = Clear(slot1) /\ w[2] = Clear(slot2)
    BY <1>1
  <1> HIDE DEF w
  <1>3. 1 \in 1..Len(w) /\ 2 \in 1..Len(w) /\ \A i \in 1..Len(w) : i = 1 \/ i = 2
    BY <1>2
  <1>4. AllClear(w)
    BY <1>1, <1>2, <1>3 DEF AllClear
  <1>5. Deletes(w, slot1)
    BY <1>1, <1>2, <1>3 DEF Deletes
  <1>6. Deletes(w, slot2)
    BY <1>1, <1>2, <1>3 DEF Deletes
  <1> QED BY <1>4, <1>5, <1>6 DEF w

LEMMA ClearsJoin ==
  ASSUME NEW s, NEW t, AllClear(s), AllClear(t)
  PROVE  /\ AllClear(s \o t)
         /\ \A slot \in Slot : Deletes(s, slot) \/ Deletes(t, slot) => Deletes(s \o t, slot)
  <1>1. s \in Seq(Entry) /\ t \in Seq(Entry)
    BY DEF AllClear
  <1>2. /\ s \o t \in Seq(Entry)
        /\ \A i \in 1..Len(s \o t) : \/ \E j \in 1..Len(s) : (s \o t)[i] = s[j]
                                     \/ \E j \in 1..Len(t) : (s \o t)[i] = t[j]
        /\ \A j \in 1..Len(s) : \E i \in 1..Len(s \o t) : (s \o t)[i] = s[j]
        /\ \A j \in 1..Len(t) : \E i \in 1..Len(s \o t) : (s \o t)[i] = t[j]
    BY <1>1, TwoParts
  <1> DEFINE w == s \o t
  <1>3. /\ w \in Seq(Entry)
        /\ \A i \in 1..Len(w) : \/ \E j \in 1..Len(s) : w[i] = s[j]
                                \/ \E j \in 1..Len(t) : w[i] = t[j]
        /\ \A j \in 1..Len(s) : \E i \in 1..Len(w) : w[i] = s[j]
        /\ \A j \in 1..Len(t) : \E i \in 1..Len(w) : w[i] = t[j]
    BY <1>2
  <1> HIDE DEF w
  <1>4. AllClear(w)
    <2>1. ASSUME NEW i \in 1..Len(w) PROVE w[i].value = None
      <3>1. CASE \E j \in 1..Len(s) : w[i] = s[j]
        BY <3>1 DEF AllClear
      <3>2. CASE \E j \in 1..Len(t) : w[i] = t[j]
        BY <3>2 DEF AllClear
      <3> QED BY <1>3, <3>1, <3>2
    <2> QED BY <1>3, <2>1 DEF AllClear
  <1>5. ASSUME NEW slot \in Slot, Deletes(s, slot) \/ Deletes(t, slot) PROVE Deletes(w, slot)
    <2>1. CASE Deletes(s, slot)
      <3>1. PICK j \in 1..Len(s) : s[j].slot = slot /\ s[j].value = None
        BY <2>1 DEF Deletes
      <3>2. PICK i \in 1..Len(w) : w[i] = s[j]
        BY <1>3
      <3> QED BY <3>1, <3>2 DEF Deletes
    <2>2. CASE Deletes(t, slot)
      <3>1. PICK j \in 1..Len(t) : t[j].slot = slot /\ t[j].value = None
        BY <2>2 DEF Deletes
      <3>2. PICK i \in 1..Len(w) : w[i] = t[j]
        BY <1>3
      <3> QED BY <3>1, <3>2 DEF Deletes
    <2> QED BY <1>5, <2>1, <2>2
  <1> QED BY <1>4, <1>5 DEF w

LEMMA ClearPinClears ==
  ASSUME NEW clears \in ClearPin
  PROVE  AllClear(clears) /\ Deletes(clears, "hash")
  <1>1. /\ clears \in [1..3 -> {Clear(slot) : slot \in PinSlot}]
        /\ \E i \in 1..3 : clears[i] = Clear("hash")
    BY DEF ClearPin, PinSlot
  <1>2. PinSlot \subseteq Slot
    BY DEF PinSlot, Slot
  <1>3. {Clear(slot) : slot \in PinSlot} \subseteq Entry
    BY <1>2, ClearIsWrite
  <1>4. clears \in [1..3 -> Entry]
    BY <1>1, <1>3
  <1>5. clears \in Seq(Entry)
    <2>1. \E n \in Nat : clears \in [1..n -> Entry]
      BY <1>4
    <2>2. Seq(Entry) = UNION {[1..n -> Entry] : n \in Nat}
      BY SeqDef
    <2> QED BY <2>1, <2>2
  <1>6. Len(clears) = 3
    BY <1>4, <1>5, LenProperties
  <1>7. \A i \in 1..3 : clears[i].value = None
    BY <1>1, <1>2, ClearIsWrite
  <1>8. AllClear(clears)
    BY <1>5, <1>6, <1>7 DEF AllClear
  <1>9. Clear("hash").slot = "hash" /\ Clear("hash").value = None
    BY ClearIsWrite DEF Slot
  <1>10. Deletes(clears, "hash")
    BY <1>1, <1>6, <1>9 DEF Deletes
  <1> QED BY <1>8, <1>10

LEMMA SignOutKeeps ==
  ASSUME PinInv, NEW clears, SignOut(clears), UNCHANGED <<cuts, course>>,
         AllClear(clears), course = "accounts" \/ Deletes(clears, "hash")
  PROVE  StepKeeps
  <1> DEFINE first == <<Clear("key"), Clear("device")>>
             last == <<Clear("who"), Clear("token")>>
  <1>1. /\ AtScreen
        /\ UNCHANGED <<accountVars, request, verifying, store, outbox, made>>
    BY DEF SignOut
  <1>2. writes' = first \o clears \o last
    BY DEF SignOut
  <1>3. AllClear(first) /\ AllClear(last) /\ Deletes(last, "who")
    BY TwoClears DEF Slot
  <1> HIDE DEF first, last
  <1>4. /\ AllClear(first \o clears)
        /\ Deletes(clears, "hash") => Deletes(first \o clears, "hash")
    BY <1>3, ClearsJoin DEF Slot
  <1>5. /\ AllClear((first \o clears) \o last)
        /\ Deletes((first \o clears) \o last, "who")
        /\ Deletes(first \o clears, "hash") => Deletes((first \o clears) \o last, "hash")
    BY <1>3, <1>4, ClearsJoin DEF Slot
  <1>6. AllClear(writes') /\ Deletes(writes', "who")
        /\ (course = "accounts" \/ Deletes(writes', "hash"))
    BY <1>2, <1>4, <1>5
  <1>7. Clearing("who")' /\ (course = "accounts" \/ Clearing("hash")')
    BY <1>6 DEF Clearing, Deletes
  <1>8. GatewayStep
    BY <1>1, GatewayRests DEF PinInv
  <1>9. writes' \in Seq(Entry) /\ \A i \in 1..Len(writes') : writes'[i].value = None
    BY <1>6 DEF AllClear
  <1>10. StoreOK' /\ SameSlots({"device", "who"}) /\ SameSlots(PinNames)
    BY <1>1, StoreIsSame DEF PinInv
  <1>11. PhoneStep
    BY <1>1, <1>7, <1>8, <1>9, <1>10, PhoneClears DEF PinInv, GatewayStep
  <1> QED BY <1>8, <1>11 DEF StepKeeps

\* signOutKeepingWork(), from the gate.
LEMMA KeepingWorkKeeps ==
  ASSUME PinInv, AtScreen, course = "pin", NEW clears \in ClearPin,
         writes' = KeepingWork(clears), GatewayStep,
         StoreOK', SameSlots({"device", "who"}), SameSlots(PinNames),
         UNCHANGED <<outbox, made, cuts, course>>
  PROVE  StepKeeps
  <1> DEFINE last == <<Clear("token"), Clear("who")>>
  <1>1. writes' = clears \o last
    BY DEF KeepingWork
  <1>2. AllClear(last) /\ Deletes(last, "who")
    BY TwoClears DEF Slot
  <1> HIDE DEF last
  <1>3. AllClear(clears) /\ Deletes(clears, "hash")
    BY ClearPinClears
  <1>4. AllClear(clears \o last) /\ Deletes(clears \o last, "who")
        /\ Deletes(clears \o last, "hash")
    BY <1>2, <1>3, ClearsJoin DEF Slot
  <1>5. Clearing("who")' /\ Clearing("hash")'
    BY <1>1, <1>4 DEF Clearing, Deletes
  <1>6. writes' \in Seq(Entry) /\ \A i \in 1..Len(writes') : writes'[i].value = None
    BY <1>1, <1>4 DEF AllClear
  <1>7. PhoneStep
    BY <1>5, <1>6, PhoneClears DEF PinInv, GatewayStep
  <1> QED BY <1>7 DEF StepKeeps

LEMMA ForgetPinKeeps ==
  ASSUME PinInv, ForgetPin, course = "accounts", UNCHANGED course
  PROVE  StepKeeps
  <1>1. /\ AtScreen /\ writes' = <<Clear("token"), Clear("who")>>
        /\ UNCHANGED <<accountVars, request, verifying, store, outbox, made, cuts>>
    BY DEF ForgetPin, Aside
  <1>2. AllClear(writes') /\ Deletes(writes', "who")
    BY <1>1, TwoClears DEF Slot
  <1>3. Clearing("who")'
    BY <1>2 DEF Clearing, Deletes
  <1>4. writes' \in Seq(Entry) /\ \A i \in 1..Len(writes') : writes'[i].value = None
    BY <1>2 DEF AllClear
  <1>5. GatewayStep
    BY <1>1, GatewayRests DEF PinInv
  <1>6. StoreOK' /\ SameSlots({"device", "who"}) /\ SameSlots(PinNames)
    BY <1>1, StoreIsSame DEF PinInv
  <1>7. PhoneStep
    BY <1>1, <1>3, <1>4, <1>5, <1>6, PhoneClears DEF PinInv, GatewayStep
  <1> QED BY <1>5, <1>7 DEF StepKeeps

LEMMA LeaveKeeps ==
  ASSUME PinInv, NEW clears, LeaveWith(clears) \/ LeaveUnusableWith(clears),
         UNCHANGED course, AllClear(clears),
         course = "accounts" \/ Deletes(clears, "hash")
  PROVE  StepKeeps
  <1>1. SignOut(clears) /\ UNCHANGED cuts
    BY DEF LeaveWith, LeaveUnusableWith, Plain, Aside
  <1> QED BY <1>1, SignOutKeeps

\* A PIN of one's own begins to be set.
LEMMA ChoosePinKeeps ==
  ASSUME PinInv, ChoosePin, course = "pin"
  PROVE  StepKeeps
  <1>1. /\ AtScreen /\ SignedIn
        /\ UNCHANGED <<accountVars, request, verifying, store, outbox, made, cuts, course>>
    BY DEF ChoosePin, PinScreens, Aside, Plain, gateVars
  <1>2. PICK salt \in 1..2 : writes' = NewPin(salt)
    BY DEF ChoosePin
  <1> DEFINE hash == [by |-> store.who, salt |-> salt]
  <1>3. store.who \in Person
    BY <1>1 DEF PinInv, PhoneTypes, StoreOK, Slot, Value, SignedIn
  <1>4. hash \in Hash /\ hash.by = store.who /\ hash.salt = salt
    BY <1>3 DEF Hash
  <1>5. writes' = <<Put("salt", salt), Put("hash", hash), Clear("fails")>>
    BY <1>2 DEF NewPin
  <1> HIDE DEF hash
  <1>6. /\ Put("salt", salt) \in Entry /\ Put("salt", salt).slot = "salt"
        /\ Put("hash", hash) \in Entry /\ Put("hash", hash).slot = "hash"
        /\ Clear("fails") \in Entry /\ Clear("fails").slot = "fails"
    BY <1>4, PutIsWrite, ClearIsWrite DEF Value, Slot
  <1>7. /\ writes' \in Seq(Entry) /\ Len(writes') = 3
        /\ writes'[1] = Put("salt", salt) /\ writes'[2] = Put("hash", hash)
        /\ writes'[3] = Clear("fails")
    BY <1>5, <1>6
  <1>8. \A i \in 1..Len(writes') : i = 1 \/ i = 2 \/ i = 3
    BY <1>7
  <1>9. GatewayStep
    BY <1>1, GatewayRests DEF PinInv
  <1>10. StoreOK' /\ SameSlots({"device", "who"}) /\ SameSlots(PinNames)
    BY <1>1, StoreIsSame DEF PinInv
  <1>11. PhoneTypes'
    BY <1>1, <1>7, <1>10 DEF PinInv, PhoneTypes
  <1>12. NamesBelong'
    <2>1. \A i \in 1..Len(writes') : writes'[i].slot \notin {"device", "who"}
      BY <1>6, <1>7, <1>8
    <2> QED BY <1>1, <1>7, <1>9, <1>10, <2>1, NamesUntouched DEF PinInv, GatewayStep
  <1>13. PinFollows'
    BY <1>1, <1>4, <1>6, <1>7, <1>10, PinComes DEF PinInv
  <1>14. OutboxIsNamed'
    BY <1>1, <1>9, OutboxShrinks DEF PinInv, GatewayStep
  <1> QED BY <1>9, <1>11, <1>12, <1>13, <1>14 DEF PhoneStep, StepKeeps

\* The tries are counted: neither the names nor the PIN change.
LEMMA TriesKeep ==
  ASSUME PinInv, NEW n \in Nat \cup {None}, store' = [store EXCEPT !.fails = n],
         UNCHANGED <<accountVars, request, verifying, writes, outbox, made, cuts, course>>
  PROVE  StepKeeps
  <1>1. GatewayStep
    BY GatewayRests DEF PinInv
  <1>2. StoreOK' /\ SameSlots({"device", "who"}) /\ SameSlots(PinNames)
    BY TriesAreCounted DEF PinInv
  <1>3. made' \in 0..MaxKey /\ writes' \in Seq(Entry)
    BY DEF PinInv, PhoneTypes
  <1>4. PhoneStep
    BY <1>1, <1>2, <1>3, PhoneKeepsNames DEF PinInv, GatewayStep
  <1> QED BY <1>1, <1>4 DEF StepKeeps

LEMMA RightPinKeeps ==
  ASSUME PinInv, RightPin
  PROVE  StepKeeps
  <1>1. UNCHANGED <<accountVars, request, verifying, writes, outbox, made, cuts, course>>
    BY DEF RightPin, Plain
  <1>2. CASE store' = store
    <2>1. GatewayStep
      BY <1>1, GatewayRests DEF PinInv
    <2>2. PhoneStep
      BY <1>1, <1>2, <2>1, PhoneRests DEF PinInv, GatewayStep
    <2> QED BY <2>1, <2>2 DEF StepKeeps
  <1>3. CASE store' = [store EXCEPT !.fails = None]
    BY <1>1, <1>3, TriesKeep
  <1> QED BY <1>2, <1>3 DEF RightPin

LEMMA WrongPinKeeps ==
  ASSUME PinInv, WrongPin, course = "pin"
  PROVE  StepKeeps
  <1>1. /\ AtScreen
        /\ UNCHANGED <<accountVars, request, verifying, outbox, made, cuts, course>>
    BY DEF WrongPin, Attempt, Plain
  <1>2. Fails + 1 \in Nat
    BY AccountsAssumption DEF Fails, PinInv, PhoneTypes, StoreOK, Slot, Value
  <1>3. store' = [store EXCEPT !.fails = Fails + 1]
    BY DEF WrongPin
  <1>4. CASE writes' = writes
    BY <1>1, <1>2, <1>3, <1>4, TriesKeep
  <1>5. CASE \E clears \in ClearPin : writes' = KeepingWork(clears)
    <2>1. PICK clears \in ClearPin : writes' = KeepingWork(clears)
      BY <1>5
    <2>2. GatewayStep
      BY <1>1, GatewayRests DEF PinInv
    <2>3. PICK n \in Nat : n = Fails + 1
      BY <1>2
    <2>4. store' = [store EXCEPT !.fails = n]
      BY <1>3, <2>3
    <2>5. StoreOK' /\ SameSlots({"device", "who"}) /\ SameSlots(PinNames)
      BY <2>4, TriesAreCounted DEF PinInv
    <2> QED BY <1>1, <2>1, <2>2, <2>5, KeepingWorkKeeps
  <1> QED BY <1>4, <1>5 DEF WrongPin

LEMMA ForgotPinKeeps ==
  ASSUME PinInv, ForgotPin, course = "pin"
  PROVE  StepKeeps
  <1>1. /\ AtScreen
        /\ UNCHANGED <<accountVars, request, verifying, store, outbox, made, cuts, course>>
    BY DEF ForgotPin, Plain
  <1>2. PICK clears \in ClearPin : writes' = KeepingWork(clears)
    BY DEF ForgotPin
  <1>3. GatewayStep
    BY <1>1, GatewayRests DEF PinInv
  <1>4. StoreOK' /\ SameSlots({"device", "who"}) /\ SameSlots(PinNames)
    BY <1>1, StoreIsSame DEF PinInv
  <1> QED BY <1>1, <1>2, <1>3, <1>4, KeepingWorkKeeps

-----------------------------------------------------------------------------
(* The two courses.                                                        *)

LEMMA AccountsKeep ==
  ASSUME PinInv, Next, UNCHANGED gateVars, course = "accounts"
  PROVE  StepKeeps
  <1>1. UNCHANGED course
    BY DEF gateVars
  <1>2. CASE Write BY <1>1, <1>2, WriteKeeps
  <1>3. CASE Restart BY <1>1, <1>3, RestartKeeps
  <1>4. ASSUME NEW p \in Person, EnterCode(p) \/ EnterCodeOldKey(p) \/ CodeRefused(p)
        PROVE  StepKeeps
    BY <1>1, <1>4, EnterCodeKeeps, EnterCodeOldKeyKeeps, CodeRefusedKeeps
  <1>5. ASSUME NEW r \in Request, NEW p \in Person, AskToJoin(r, p) PROVE StepKeeps
    BY <1>1, <1>5, AskToJoinKeeps
  <1>6. ASSUME NEW codes \in SUBSET Channel \ {{}}, Confirm(codes) PROVE StepKeeps
    <2>1. PICK r \in Request : r = store.ticket /\ VerifyRead(r, codes)
      <3>1. store.ticket \in Request
        BY <1>6 DEF Confirm, PinInv, PhoneTypes, StoreOK, Slot, Value
      <3> QED BY <1>6, <3>1 DEF Confirm
    <2>2. GatewayStep
      BY <2>1, VerifyReadKeeps DEF PinInv
    <2>3. UNCHANGED <<phoneVars, cuts>>
      BY <1>6 DEF Confirm, Plain, Aside
    <2> QED BY <1>1, <2>2, <2>3, NothingOnPhone
  <1>7. CASE Check BY <1>1, <1>7, CheckKeeps
  <1>8. CASE SendNewCodes
    <2>1. PICK r \in Request : r = store.ticket /\ Resend(r)
      <3>1. store.ticket \in Request
        BY <1>8 DEF SendNewCodes, PinInv, PhoneTypes, StoreOK, Slot, Value
      <3> QED BY <1>8, <3>1 DEF SendNewCodes
    <2>2. GatewayStep
      BY <2>1, RequestsKeep DEF PinInv
    <2>3. UNCHANGED <<phoneVars, cuts>>
      BY <1>8 DEF SendNewCodes, Plain, Aside
    <2> QED BY <1>1, <2>2, <2>3, NothingOnPhone
  <1>9. CASE StartOver BY <1>1, <1>9, StartOverKeeps
  <1>10. CASE Record BY <1>1, <1>10, RecordKeeps
  <1>11. CASE Sync BY <1>1, <1>11, SyncKeeps
  <1>12. CASE Leave \/ LeaveUnusable
    <2>1. AllClear(<<>>)
      BY DEF AllClear
    <2>2. LeaveWith(<<>>) \/ LeaveUnusableWith(<<>>)
      BY <1>12 DEF Leave, LeaveUnusable
    <2> QED BY <1>1, <2>1, <2>2, LeaveKeeps
  <1>13. CASE ForgetPin BY <1>1, <1>13, ForgetPinKeeps
  <1>14. CASE Administer
    <2>1. GatewayStep
      BY <1>14, AdministerKeeps DEF PinInv, PhoneTypes
    <2>2. UNCHANGED <<phoneVars, cuts>>
      BY <1>14 DEF Administer, Plain, Aside, Rare
    <2> QED BY <1>1, <2>1, <2>2, NothingOnPhone
  <1>15. CASE Elsewhere
    <2>1. GatewayStep
      BY <1>15, ElsewhereKeeps DEF PinInv
    <2>2. UNCHANGED <<phoneVars, cuts>>
      BY <1>15 DEF Elsewhere, Plain, Aside
    <2> QED BY <1>1, <2>1, <2>2, NothingOnPhone
  <1> QED BY <1>2, <1>3, <1>4, <1>5, <1>6, <1>7, <1>8, <1>9, <1>10, <1>11, <1>12,
             <1>13, <1>14, <1>15 DEF Next

LEMMA PinCourseKeeps ==
  ASSUME PinInv, PinCourse, course = "pin"
  PROVE  StepKeeps
  <1>1. CASE Behind(Write)
    <2>1. Write /\ UNCHANGED course
      BY <1>1 DEF Behind, gateVars
    <2> QED BY <2>1, WriteKeeps
  <1>2. CASE Behind(Sync)
    <2>1. Sync /\ UNCHANGED course
      BY <1>2 DEF Behind, gateVars
    <2> QED BY <2>1, SyncKeeps
  <1>3. CASE Killed
    BY <1>3, RestartKeeps DEF Killed
  <1>4. CASE Lock
    <2>1. UNCHANGED <<accountVars, request, verifying, phoneVars, cuts, course>>
      BY <1>4 DEF Lock, Aside, Plain
    <2>2. GatewayStep
      BY <2>1, GatewayRests DEF PinInv
    <2> QED BY <2>1, <2>2, NothingOnPhone
  <1>5. CASE ChoosePin BY <1>5, ChoosePinKeeps
  <1>6. CASE RightPin BY <1>6, RightPinKeeps
  <1>7. CASE WrongPin BY <1>7, WrongPinKeeps
  <1>8. CASE ForgotPin BY <1>8, ForgotPinKeeps
  <1>9. CASE ToActivation
    <2>1. UNCHANGED <<accountVars, request, verifying, phoneVars, cuts, course>>
      BY <1>9 DEF ToActivation, vars
    <2>2. GatewayStep
      BY <2>1, GatewayRests DEF PinInv
    <2> QED BY <2>1, <2>2, NothingOnPhone
  <1>10. CASE UnderGate(EnterAnyCode)
    <2>1. EnterAnyCode /\ UNCHANGED course
      BY <1>10 DEF UnderGate, gateVars
    <2> QED BY <2>1, EnterCodeKeeps, EnterCodeOldKeyKeeps DEF EnterAnyCode
  <1>11. CASE UnderGate(Record)
    <2>1. Record /\ UNCHANGED course
      BY <1>11 DEF UnderGate, gateVars
    <2> QED BY <2>1, RecordKeeps
  <1>12. CASE UnderGate(LeaveIt) \/ UnderGate(LeaveItUnusable)
    <2>1. (LeaveIt \/ LeaveItUnusable) /\ UNCHANGED course
      BY <1>12 DEF UnderGate, gateVars
    <2>2. Clears = ClearPin
      BY DEF Clears, PinCleared
    <2>3. PICK clears \in ClearPin : LeaveWith(clears) \/ LeaveUnusableWith(clears)
      BY <2>1, <2>2 DEF LeaveIt, LeaveItUnusable
    <2> QED BY <2>1, <2>3, LeaveKeeps, ClearPinClears
  <1>13. CASE Office
    <2>1. PICK p \in Person : Register(Invite(p)) \/ Register(SendCode(p))
      BY <1>13 DEF Office
    <2>2. (Invite(p) \/ Reinvite(p)) /\ UNCHANGED <<request, verifying>>
      BY <2>1 DEF Register, SendCode
    <2>3. GatewayStep
      BY <2>2, PeopleKeep DEF PinInv
    <2>4. UNCHANGED <<phoneVars, cuts, course>>
      BY <1>13 DEF Office, Plain, gateVars
    <2> QED BY <2>3, <2>4, NothingOnPhone
  <1> QED BY <1>1, <1>2, <1>3, <1>4, <1>5, <1>6, <1>7, <1>8, <1>9, <1>10, <1>11, <1>12,
             <1>13 DEF PinCourse

LEMMA StutterKeeps ==
  ASSUME PinInv, UNCHANGED pinVars
  PROVE  StepKeeps
  <1>1. UNCHANGED <<accountVars, request, verifying, phoneVars, cuts, course>>
    BY DEF pinVars, gateVars, vars
  <1>2. GatewayStep
    BY <1>1, GatewayRests DEF PinInv
  <1> QED BY <1>1, <1>2, NothingOnPhone

LEMMA PinInvStarts ==
  ASSUME PinInit
  PROVE  PinInv
  <1>1. /\ AccountsInit /\ RegistrationInit /\ store = EmptyStore /\ writes = <<>>
        /\ outbox = {} /\ made = 0 /\ cuts = 0 /\ course \in {"accounts", "pin"}
    BY DEF PinInit, Init
  <1>2. AccountsTypeOK /\ LostIsRevoked
    BY <1>1, AccountsAssumption
    DEF AccountsInit, AccountsTypeOK, LostIsRevoked, NoDevice, DeviceStatus, InviteStatus
  <1>3. NoRequest \in RequestRow /\ ~NoRequest.session /\ NoRequest.status = "none"
    BY RegistrationAssumption DEF NoRequest, RequestRow, RequestStatus
  <1>4. request = [r \in Request |-> NoRequest] /\ verifying = {}
    BY <1>1 DEF RegistrationInit
  <1>5. RegistrationTypeOK
    BY <1>3, <1>4 DEF RegistrationTypeOK, RequestRow
  <1>6. RequestsAreNamed
    BY <1>3, <1>4 DEF RequestsAreNamed
  <1>7. SessionsAreTruthful
    BY <1>3, <1>4 DEF SessionsAreTruthful
  <1>8. DOMAIN store = Slot /\ \A slot \in Slot : store[slot] = None
    BY <1>1 DEF EmptyStore
  <1>9. StoreOK
    BY <1>8 DEF StoreOK, Value
  <1>10. store.who = None /\ store.hash = None
    BY <1>8 DEF Slot
  <1>11. PhoneTypes
    BY <1>1, <1>9, AccountsAssumption DEF PhoneTypes
  <1>12. \A slots : OnlyCleared(slots)
    BY <1>1 DEF OnlyCleared
  <1>13. Settled
    BY <1>10, <1>12 DEF Settled, Names
  <1>14. PinSettled
    BY <1>10, <1>12 DEF PinSettled
  <1>15. PinFollows
    BY <1>10, <1>12, <1>14 DEF PinFollows
  <1>16. OutboxIsNamed
    BY <1>1 DEF OutboxIsNamed
  <1> QED BY <1>2, <1>5, <1>6, <1>7, <1>11, <1>13, <1>15, <1>16
          DEF PinInv, Registers, NamesBelong

LEMMA PinInvStays ==
  ASSUME PinInv, [PinNext]_pinVars
  PROVE  PinInv'
  <1>1. StepKeeps
    BY AccountsKeep, PinCourseKeeps, StutterKeeps DEF PinNext
  <1> QED BY <1>1 DEF StepKeeps, GatewayStep, PhoneStep, PinInv

-----------------------------------------------------------------------------
(* Theorems.                                                               *)

\* Between any two writes, on either course, what the store names and what is
\* still to be written into it fit what the gateway has registered.
THEOREM PinInvHolds == PinSpec => []PinInv
  <1>1. PinInit => PinInv
    BY PinInvStarts
  <1>2. PinInv /\ [PinNext]_pinVars => PinInv'
    BY PinInvStays
  <1> QED BY <1>1, <1>2, PTL DEF PinSpec

\* Only a sync with work sends it.
LEMMA OnlySyncSends ==
  ASSUME [PinNext]_pinVars, Sending
  PROVE  SyncWork
  <1>1. ~UNCHANGED outbox /\ outbox # {} /\ outbox' = {}
    BY DEF Sending
  <1>2. ASSUME Next PROVE SyncWork
    <2>1. ~Administer /\ ~Elsewhere
      BY <1>1 DEF Administer, Elsewhere, phoneVars
    <2>2. \A p \in Person : ~EnterCode(p) /\ ~EnterCodeOldKey(p) /\ ~CodeRefused(p)
      BY <1>1 DEF EnterCode, EnterCodeOldKey, CodeRefused
    <2>3. \A r \in Request, p \in Person : ~AskToJoin(r, p)
      BY <1>1 DEF AskToJoin
    <2>4. ~SendNewCodes /\ \A codes \in SUBSET Channel \ {{}} : ~Confirm(codes)
      BY <1>1 DEF SendNewCodes, Confirm, phoneVars
    <2>5. ~Write /\ ~Restart /\ ~StartOver /\ ~ForgetPin
      BY <1>1 DEF Write, Restart, StartOver, ForgetPin
    <2>6. ~Check
      BY <1>1 DEF Check, Land
    <2>7. ~Leave /\ ~LeaveUnusable
      BY <1>1 DEF Leave, LeaveUnusable, LeaveWith, LeaveUnusableWith, SignOut
    <2>8. ~Record /\ ~SyncIdle
      BY <1>1 DEF Record, SyncIdle
    <2> QED BY <1>2, <2>1, <2>2, <2>3, <2>4, <2>5, <2>6, <2>7, <2>8 DEF Next, Sync
  <1>3. ASSUME PinCourse PROVE SyncWork
    <2>1. ~Killed /\ ~Lock /\ ~ChoosePin /\ ~RightPin /\ ~WrongPin /\ ~ForgotPin
          /\ ~ToActivation /\ ~Office
      BY <1>1 DEF Killed, Restart, Lock, ChoosePin, RightPin, WrongPin, ForgotPin,
                  ToActivation, Office, phoneVars, vars
    <2>2. ~Behind(Write) /\ ~UnderGate(Record)
      BY <1>1 DEF Behind, Write, UnderGate, Record
    <2>3. ~UnderGate(EnterAnyCode)
      BY <1>1 DEF UnderGate, EnterAnyCode, EnterCode, EnterCodeOldKey
    <2>4. ~UnderGate(LeaveIt) /\ ~UnderGate(LeaveItUnusable)
      BY <1>1 DEF UnderGate, LeaveIt, LeaveItUnusable, LeaveWith, LeaveUnusableWith, SignOut
    <2>5. CASE Behind(Sync)
      BY <1>1, <2>5 DEF Behind, Sync, SyncIdle
    <2> QED BY <1>3, <2>1, <2>2, <2>3, <2>4, <2>5 DEF PinCourse
  <1>4. ~UNCHANGED pinVars
    BY <1>1 DEF pinVars, vars, phoneVars
  <1> QED BY <1>2, <1>3, <1>4 DEF PinNext

\* However a phone is set up again, and whatever codes are sent: a key that
\* was ever signed out remotely signs nothing the gateway appends.
THEOREM SignedOutStaysOutTheorem == PinSpec => SignedOutStaysOut
  <1>1. ASSUME PinInv, [PinNext]_pinVars, Sending, NEW e \in outbox
        PROVE  e.key \notin lost
    <2>1. SyncWork /\ outbox # {} /\ outbox' = {}
      BY <1>1, OnlySyncSends DEF Sending
    <2>2. PushAccepted
      BY <2>1 DEF SyncWork
    <2>3. device[e.key].status = "active"
      BY <1>1, <2>2 DEF PushAccepted, Served
    <2> QED BY <1>1, <2>3 DEF PinInv, Registers, LostIsRevoked
  <1>2. PinInv /\ [PinNext]_pinVars => [Sending => \A e \in outbox : e.key \notin lost]_vars
    BY <1>1
  <1> QED BY <1>2, PinInvHolds, PTL DEF PinSpec, SignedOutStaysOut

\* Whatever the phone went through between two people, what the gateway
\* appends was written by the person its key is registered to, unless two
\* screens were cut short on it.
THEOREM AttributedTheorem == PinSpec => Attributed
  <1>1. PinInv => (Sending => \/ cuts > 1
                              \/ \A e \in outbox :
                                   e.device = e.key => device[e.key].owner = e.actor)
    BY DEF PinInv, PhoneTypes, OutboxIsNamed
  <1> QED BY <1>1, PinInvHolds, PTL DEF PinSpec, Attributed

\* However the phone changes hands, the gate never stands on a former person's
\* PIN, where no screen was cut short.
THEOREM PinIsOwnTheorem == PinSpec => []PinIsOwn
  <1>1. PinInv => PinIsOwn
    BY PinAtScreen DEF PinInv, PinIsOwn, AnyPinOpens
  <1> QED BY <1>1, PinInvHolds, PTL
=============================================================================
