------------------------------- MODULE Access -------------------------------
(***************************************************************************)
(* One phone getting in and out: the secure store of the field app and the *)
(* screens that write it (activate.tsx, register.tsx, account.tsx, the PIN *)
(* gate), composed with the gateway's register and its requests to join.   *)
(*                                                                         *)
(* The secure store has no transactions: a screen awaits one slot after    *)
(* the other, and the app may be closed between two of them.  What a       *)
(* screen has still to write is the queue writes.                          *)
(***************************************************************************)
EXTENDS Registration, Sequences

CONSTANT MaxAsides  \* how often something other than the plain course happens

ASSUME AccessAssumption == MaxAsides \in Nat

VARIABLES
  store,     \* the slots of the secure store
  writes,    \* the slots the screen in front is about to write, in order
  seen,      \* the status the register screen last showed, None before that
  refused,   \* whether the last sync ended in "signedOut"
  outbox,    \* events not yet acknowledged
  made,      \* how many keys the phone has generated
  cuts,      \* history: how often a screen was cut short
  asides     \* how much of MaxAsides is spent

phoneVars == <<store, writes, seen, refused, outbox, made>>
vars == <<accountVars, request, verifying, phoneVars, cuts, asides>>

Session == [who : Person, device : Key]
Event == [key : Key, device : Key, actor : Person]
Slot == {"key", "device", "who", "token", "ticket", "salt", "hash", "fails"}
EmptyStore == [s \in Slot |-> None]

TypeOK ==
  /\ AccountsTypeOK
  /\ RegistrationTypeOK
  /\ DOMAIN store = Slot
  /\ store.key \in Key \cup {None} /\ store.device \in Key \cup {None}
  /\ store.who \in Person \cup {None} /\ store.token \in Session \cup {None}
  /\ store.ticket \in Request \cup {None}
  /\ \A i \in 1..Len(writes) : writes[i].slot \in Slot
  /\ seen \in RequestStatus \cup {None}
  /\ refused \in BOOLEAN
  /\ outbox \subseteq Event
  /\ made \in 0..MaxKey
  /\ cuts \in 0..MaxAsides
  /\ asides \in 0..MaxAsides

Init ==
  /\ AccountsInit
  /\ RegistrationInit
  /\ store = EmptyStore
  /\ writes = <<>>
  /\ seen = None
  /\ refused = FALSE
  /\ outbox = {}
  /\ made = 0
  /\ cuts = 0
  /\ asides = 0

-----------------------------------------------------------------------------
Put(slot, value) == [slot |-> slot, value |-> value]
Clear(slot) == Put(slot, None)

SignedIn == store.device # None /\ store.who # None
AtScreen == writes = <<>>
SignedOutScreen == AtScreen /\ ~SignedIn

\* The budget of what is not the plain course; the rarest take two of it.
Cost(n) == asides + n <= MaxAsides /\ asides' = asides + n
Plain == Cost(0) /\ UNCHANGED cuts
Aside == Cost(1) /\ UNCHANGED cuts
Rare == Cost(2) /\ UNCHANGED cuts

\* One await of a screen's handler.
Write ==
  /\ writes # <<>>
  /\ store' = [store EXCEPT ![Head(writes).slot] = Head(writes).value]
  /\ writes' = Tail(writes)
  /\ UNCHANGED <<accountVars, request, verifying, seen, refused, outbox, made>>
  /\ Plain

\* The app is closed in the middle of that, by the person or by the system,
\* and opened again.  At any other time it forgets nothing that the next check
\* and the next sync do not find again.
Restart ==
  /\ writes # <<>>
  /\ writes' = <<>>
  /\ seen' = None
  /\ refused' = FALSE
  /\ cuts' = cuts + 1
  /\ UNCHANGED <<accountVars, request, verifying, store, outbox, made>>
  /\ Cost(1)

\* generateKeypair(): the key in the store, or a new one.
OfferedKey == IF store.key = None THEN made + 1 ELSE store.key
KeepKey(k) ==
  /\ k \in Key
  /\ made' = IF k > made THEN k ELSE made
  /\ store' = [store EXCEPT !.key = k]

\* The slots a session fills, the same for a code and for an approval.
Landing(session) ==
  <<Put("token", session), Put("device", session.device), Put("who", session.who)>>

-----------------------------------------------------------------------------
(* activate.tsx *)

\* submit(), the code spent: its answer arrives, or is lost on the way.
EnterCode(p) ==
  /\ SignedOutScreen
  /\ KeepKey(OfferedKey)
  /\ Spend(p, OfferedKey)
  /\ \/ /\ writes' = Landing([who |-> p, device |-> OfferedKey])
        /\ Plain
        /\ seen' = None /\ refused' = FALSE
     \/ /\ UNCHANGED <<writes, seen, refused>>
        /\ Aside
  /\ UNCHANGED <<request, verifying, outbox>>

\* Mutant: the identity is forgotten without its key.
EnterCodeOldKey_KeyStays(p) ==
  /\ SignedOutScreen
  /\ store.key # None
  /\ NeedsNewKey(p, store.key)
  /\ writes' = <<Clear("device")>>
  /\ UNCHANGED <<accountVars, request, verifying, store, seen, refused, outbox, made>>
  /\ Plain

\* submit(), the key signed out remotely: the identity is forgotten, and the
\* app comes back with the same code and a new key, which is EnterCode again.
EnterCodeOldKey(p) ==
  /\ SignedOutScreen
  /\ store.key # None
  /\ NeedsNewKey(p, store.key)
  /\ writes' = <<Clear("key"), Clear("device")>>
  /\ UNCHANGED <<accountVars, request, verifying, store, seen, refused, outbox, made>>
  /\ Plain

\* Any other refusal leaves the key that was made to be offered.
CodeRefused(p) ==
  /\ SignedOutScreen
  /\ store.key = None
  /\ invite[p] \notin {"none", "live"} \/ account[p] = "suspended"
  /\ KeepKey(OfferedKey)
  /\ UNCHANGED <<accountVars, request, verifying, writes, seen, refused, outbox>>
  /\ Aside

-----------------------------------------------------------------------------
(* register.tsx *)

\* Details: ask to join; the ticket comes back, or the answer is lost.
AskToJoin(r, p) ==
  /\ SignedOutScreen
  /\ store.ticket = None
  /\ KeepKey(OfferedKey)
  /\ StartRequest(r, p, OfferedKey)
  /\ \/ /\ writes' = <<Put("ticket", r)>>
        /\ IF r = 1 THEN Plain ELSE Aside
     \/ /\ UNCHANGED writes
        /\ Aside
  /\ UNCHANGED <<seen, refused, outbox>>

\* land(), after the answer to whichever call it was: where the request stands.
Land(r) ==
  /\ seen' = IF AnswersSession(r) \/ request[r].status = "withdrawn"
             THEN None ELSE request[r].status
  /\ writes' = IF AnswersSession(r)
               THEN Landing(SessionOf(r)) \o <<Clear("ticket")>>
               ELSE IF request[r].status = "withdrawn" THEN <<Clear("ticket")>>
               ELSE <<>>
  /\ refused' = (refused /\ ~AnswersSession(r))
  /\ UNCHANGED <<accountVars, request, verifying, store, outbox, made>>

\* Opening the screen, the waiting screen's timer, and its button.
Check ==
  /\ SignedOutScreen
  /\ store.ticket # None
  /\ Land(store.ticket)
  /\ Plain

\* Codes: a call that has not answered keeps the button busy until the phone
\* gives it up.
Confirm(codes) ==
  /\ SignedOutScreen
  /\ seen = "verifying" /\ store.ticket # None
  /\ VerifyRead(store.ticket, codes)
  /\ IF verifying = {} /\ codes = Channel THEN Plain ELSE Aside
  /\ UNCHANGED phoneVars

SendNewCodes ==
  /\ SignedOutScreen
  /\ seen = "verifying" /\ store.ticket # None
  /\ Resend(store.ticket)
  /\ IF request[store.ticket].fresh THEN Aside ELSE Plain
  /\ UNCHANGED phoneVars

\* "Start again" under the codes and under a rejection; "Back" for somebody
\* approved for office work.
StartOver ==
  /\ SignedOutScreen
  /\ seen \in {"verifying", "rejected", "approved"} /\ store.ticket # None
  /\ writes' = <<Clear("ticket")>>
  /\ seen' = None
  /\ IF seen = "verifying" /\ MayResend(store.ticket) THEN Aside ELSE Plain
  /\ UNCHANGED <<accountVars, request, verifying, store, refused, outbox, made>>

-----------------------------------------------------------------------------
(* Work and sync *)

\* Authoring needs both halves of the identity (getSigner).
Record ==
  /\ AtScreen /\ SignedIn /\ store.key # None
  /\ outbox = {}
  /\ outbox' = {[key |-> store.key, device |-> store.device, actor |-> store.who]}
  /\ UNCHANGED <<accountVars, request, verifying, store, writes, seen, refused, made>>
  /\ Plain

\* The guard, the token's device against the body's, the device's status and
\* the signatures under the key of its row.
PushAccepted ==
  /\ Served(store.token)
  /\ store.token.device = store.device
  /\ \A e \in outbox : e.key = store.device

\* syncNow() with something to send: drain() turns every refusal into blocked.
\* What is accepted is taken to be answered; DeviceSync has the requests, and the
\* projector that may stand before the answer.
SyncWork ==
  /\ store.device # None /\ outbox # {}
  /\ IF PushAccepted
     THEN outbox' = {}
     ELSE UNCHANGED outbox
  /\ refused' = FALSE
  /\ UNCHANGED <<accountVars, request, verifying, store, writes, seen, made>>
  /\ Plain

\* syncNow() with an empty outbox: the bootstrap alone finds a 401.
SyncIdle ==
  /\ store.device # None /\ outbox = {}
  /\ refused' = (store.token # None /\ ~Served(store.token))
  /\ UNCHANGED <<accountVars, request, verifying, store, writes, seen, outbox, made>>
  /\ Plain

Sync == SyncWork \/ SyncIdle

-----------------------------------------------------------------------------
(* account.tsx, and the PIN gate where the PIN itself is left open *)

\* Unsent work keeps a person, unless the gateway has signed the phone out.
MaySignOut == outbox = {} \/ refused

\* clears is what is deleted of a PIN.
SignOut(clears) ==
  /\ AtScreen /\ SignedIn
  /\ MaySignOut
  /\ writes' = <<Clear("key"), Clear("device")>> \o clears
               \o <<Clear("who"), Clear("token")>>
  /\ UNCHANGED <<accountVars, request, verifying, store, seen, refused, outbox, made>>

\* What the person can see on the phone that has stopped working for them.
Unusable ==
  SignedIn /\ (refused \/ store.token = None \/ store.key # store.device)

LeaveWith(clears) == SignOut(clears) /\ ~Unusable /\ Aside
LeaveUnusableWith(clears) == SignOut(clears) /\ Unusable /\ Plain
Leave == LeaveWith(<<>>)
LeaveUnusable == LeaveUnusableWith(<<>>)

\* "Forgot PIN", or five wrong ones: signOutKeepingWork().
ForgetPin ==
  /\ AtScreen /\ SignedIn
  /\ writes' = <<Clear("token"), Clear("who")>>
  /\ UNCHANGED <<accountVars, request, verifying, store, seen, refused, outbox, made>>
  /\ Aside

-----------------------------------------------------------------------------
(* The administrators *)

\* What the administrator of somebody without a working phone goes on doing.
SendCode(p) == invite[p] # "live" /\ Reinvite(p)
Decide(r) == (\E role \in {"inspector", "office"} : Approve(r, role))
             \/ (request[r].status = "pending" /\ Reject(r))

Register(A) == A /\ UNCHANGED <<request, verifying>>

Administer ==
  /\ UNCHANGED phoneVars
  /\ \/ Plain /\ \E p \in Person : Register(Invite(p)) \/ Register(SendCode(p))
     \/ Plain /\ \E r \in Request : Decide(r)
     \/ Aside /\ \E r \in Request : request[r].status = "verifying" /\ Reject(r)
     \/ Aside /\ Register(\E p \in Person : RevokeInspector(p) \/ SuspendUser(p))
     \/ Aside /\ Register(\E k \in 1..made : RevokeDevice(k))
     \/ Plain /\ Register(\E k \in 1..made : ApproveDevice(k))
     \/ Rare /\ Register(\E p \in Person :
          \/ \E inspector \in BOOLEAN : CreateUser(p, inspector)
          \/ GrantInspector(p) \/ CancelInvite(p) \/ ExpireInvite(p)
          \/ \E k \in 1..made : EnrollDevice(k, p) \/ RequestEnrolment(k, p))

\* Requests go on without the phone: verify() ends, codes age, and the same
\* person may ask again on the website.
Elsewhere ==
  /\ UNCHANGED phoneVars
  /\ \/ Plain /\ \E v \in verifying : VerifyWrite(v)
     \/ Aside /\ \E r \in Request : CodesSpoil(r)
     \/ Aside /\ \E r \in Request, p \in Person : StartRequest(r, p, None)
     \/ Plain /\ verifying = {} /\ \E r \in Request :
          request[r].key = None /\ VerifyRead(r, Channel)

Next ==
  \/ Write \/ Restart
  \/ \E p \in Person : EnterCode(p) \/ EnterCodeOldKey(p) \/ CodeRefused(p)
  \/ \E r \in Request, p \in Person : AskToJoin(r, p)
  \/ \E codes \in SUBSET Channel \ {{}} : Confirm(codes)
  \/ Check \/ SendNewCodes \/ StartOver
  \/ Record \/ Sync \/ Leave \/ LeaveUnusable \/ ForgetPin
  \/ Administer \/ Elsewhere

Spec == Init /\ [][Next]_vars

-----------------------------------------------------------------------------
Sending == outbox # {} /\ outbox' = {}

\* Work the gateway appends was written by the person its key is registered
\* to, whatever the phone went through between two people.  Two exceptions:
\* two screens were cut short on it, a sign-out before it had forgotten the
\* person and the next person's sign-in before it had named them; and a ticket
\* left over from an earlier request landed its names beside another key.
Attributed ==
  [][Sending => \/ cuts > 1
                \/ \A e \in outbox :
                     e.device = e.key => device[e.key].owner = e.actor]_vars

\* A key that was ever signed out remotely signs nothing the gateway appends,
\* whatever codes are sent and entered afterwards.
SignedOutStaysOut == [][Sending => \A e \in outbox : e.key \notin lost]_vars

\* The slots of the secure store all come from one sign-in.
OneSignIn ==
  /\ store.key = store.device
  /\ store.token = [who |-> store.who, device |-> store.device]

\* The states the code has no way out of: work that cannot be sent, and which
\* the account screen will not leave behind; and a key kept for somebody who
\* is no longer an inspector.
UnsendableWork ==
  /\ outbox # {}
  /\ \/ SignedIn /\ ~OneSignIn
     \/ \E e \in outbox :
          e.key \notin {store.key} \ lost \/ e.device # e.key \/ ~ActiveInspector(e.actor)
KeptForAnother ==
  /\ ~SignedIn /\ store.key # None
  /\ \A p \in Person : ActiveInspector(p) => device[store.key].owner \notin {None, p}
Stuck == UnsendableWork \/ KeptForAnother

\* Nobody is kept on a phone the administrator signed out.
SignedOutMayLeave ==
  (SignedIn /\ store.device \in lost) ~> (~SignedIn \/ store.device \notin lost)
=============================================================================
