------------------------------ MODULE PinGate ------------------------------
(***************************************************************************)
(* The PIN in front of the app (pin.ts, pin-gate.tsx, finish-setup.tsx),   *)
(* over Access.  A PIN is three slots of the secure store, and setting,    *)
(* checking and forgetting one are awaits like those of every screen.      *)
(*                                                                         *)
(* A phone takes one of two courses: "accounts", with requests to join and *)
(* everything an administrator may do, on which whether a PIN is set is    *)
(* left open; and "pin", with codes alone, on which it is followed slot by *)
(* slot.                                                                   *)
(***************************************************************************)
EXTENDS Access

CONSTANT MaxTries  \* MAX_TRIES, 5 in the code

ASSUME PinAssumption == MaxTries \in Nat \ {0}

VARIABLES
  course,   \* "accounts" or "pin"
  gate      \* "open", "locked" in front of the app, or "leaving" it

gateVars == <<course, gate>>
pinVars == <<vars, gateVars>>

Hash == [by : Person, salt : 1..2]
PinSlot == {"salt", "hash", "fails"}

PinTypeOK ==
  /\ course \in {"accounts", "pin"}
  /\ gate \in {"open", "locked", "leaving"}
  /\ store.hash \in Hash \cup {None}
  /\ store.salt \in 1..2 \cup {None}
  /\ store.fails \in 1..(MaxTries * (1 + MaxAsides)) \cup {None}

PinInit ==
  /\ Init
  /\ course \in {"accounts", "pin"}
  /\ gate = "open"

-----------------------------------------------------------------------------
HasPin == store.hash # None
Fails == IF store.fails = None THEN 0 ELSE store.fails

\* checkPin() has nothing to compare with.
AnyPinOpens == store.hash = None \/ store.salt = None
OwnPinOpens ==
  HasPin /\ store.hash.by = store.who /\ store.hash.salt = store.salt

\* The gate as it is when the app has just been opened.
AtStart == IF SignedIn /\ HasPin THEN "locked" ELSE "open"

\* clearPin(): the three are deleted at once, and end in any order.
ClearPin ==
  {clears \in [1..3 -> {Clear(slot) : slot \in PinSlot}] :
     \A slot \in PinSlot : \E i \in 1..3 : clears[i] = Clear(slot)}

\* Mutant: the PIN is kept for the next person.
PinCleared_Keeps(clears) == <<>>

\* What signing out deletes of the PIN.
PinCleared(clears) == clears

\* signOutKeepingWork(): the key stays.
KeepingWork(clears) == clears \o <<Clear("token"), Clear("who")>>

\* setPin(): a new salt, then the hash made with it, then the wrong tries.
NewPin(salt) ==
  <<Put("salt", salt), Put("hash", [by |-> store.who, salt |-> salt]), Clear("fails")>>

-----------------------------------------------------------------------------
\* The screens' awaits go on behind the gate, and so does the sync.
Behind(A) ==
  /\ A
  /\ UNCHANGED gateVars

Killed ==
  /\ Restart
  /\ gate' = AtStart
  /\ UNCHANGED course

\* The app comes back after five minutes or more, or is opened again.
Lock ==
  /\ SignedIn /\ HasPin
  /\ gate = "open"
  /\ gate' = "locked"
  /\ UNCHANGED <<accountVars, request, verifying, phoneVars>>
  /\ UNCHANGED course
  /\ IF Unusable THEN Aside ELSE Plain

\* Where a PIN may be chosen, or changed.
PinScreens == gate = "open" /\ AtScreen /\ SignedIn

\* PinSetup, after setting the phone up and from the account screen.
ChoosePin ==
  /\ PinScreens
  /\ \E salt \in 1..2 \ {store.salt} : writes' = NewPin(salt)
  /\ UNCHANGED <<accountVars, request, verifying, store, seen, refused, outbox, made>>
  /\ UNCHANGED gateVars
  /\ IF Unusable THEN Aside ELSE Plain

\* Four digits on the pad, which takes no more until they are answered.
Attempt == gate = "locked" /\ AtScreen

RightPin ==
  /\ Attempt
  /\ AnyPinOpens \/ OwnPinOpens
  /\ gate' = "open"
  /\ store' = IF AnyPinOpens THEN store ELSE [store EXCEPT !.fails = None]
  /\ UNCHANGED <<accountVars, request, verifying, writes, seen, refused, outbox, made>>
  /\ UNCHANGED course
  /\ Plain

\* What checkPin() answers of them.
TriesLeft(fails) == MaxTries - fails

WrongPin ==
  /\ Attempt
  /\ ~AnyPinOpens
  /\ store' = [store EXCEPT !.fails = Fails + 1]
  /\ IF TriesLeft(Fails + 1) <= 0
     THEN gate' = "leaving" /\ \E clears \in ClearPin : writes' = KeepingWork(clears)
     ELSE UNCHANGED <<gate, writes>>
  /\ UNCHANGED <<accountVars, request, verifying, seen, refused, outbox, made>>
  /\ UNCHANGED course
  /\ Plain

ForgotPin ==
  /\ gate = "locked" /\ AtScreen
  /\ gate' = "leaving"
  /\ \E clears \in ClearPin : writes' = KeepingWork(clears)
  /\ UNCHANGED <<accountVars, request, verifying, store, seen, refused, outbox, made>>
  /\ UNCHANGED course
  /\ Plain

\* "Enter a new code".
ToActivation ==
  /\ gate = "leaving" /\ AtScreen
  /\ gate' = "open"
  /\ UNCHANGED <<vars, course>>

\* The screens under an open gate.
UnderGate(A) == gate = "open" /\ A /\ UNCHANGED gateVars

\* What signing out deletes of the PIN, on either course.
Clears == IF course = "pin" THEN {PinCleared(clears) : clears \in ClearPin} ELSE {<<>>}

EnterAnyCode == \E p \in Person : EnterCode(p) \/ EnterCodeOldKey(p)
LeaveIt == \E clears \in Clears : LeaveWith(clears)
LeaveItUnusable == \E clears \in Clears : LeaveUnusableWith(clears)

Office ==
  /\ Plain /\ UNCHANGED phoneVars
  /\ \E p \in Person : Register(Invite(p)) \/ Register(SendCode(p))
  /\ UNCHANGED gateVars

PinCourse ==
  \/ Behind(Write) \/ Behind(Sync)
  \/ Killed \/ Lock \/ ChoosePin \/ RightPin \/ WrongPin \/ ForgotPin \/ ToActivation
  \/ UnderGate(EnterAnyCode) \/ UnderGate(Record)
  \/ UnderGate(LeaveIt) \/ UnderGate(LeaveItUnusable)
  \/ Office

PinNext ==
  \/ course = "accounts" /\ Next /\ UNCHANGED gateVars
  \/ course = "pin" /\ PinCourse

PinSpec == PinInit /\ [][PinNext]_pinVars

\* The person keeps trying to get in, gives up a PIN that is not theirs, and
\* signs out of a phone that has stopped working; the administrator goes on
\* sending codes to inspectors; the app's own timers and its return to the
\* foreground run the sync.
PinFairness ==
  /\ WF_pinVars(Behind(Write)) /\ WF_pinVars(Behind(Sync))
  /\ WF_pinVars(RightPin) /\ WF_pinVars(~OwnPinOpens /\ ForgotPin)
  /\ WF_pinVars(ToActivation)
  /\ WF_pinVars(UnderGate(EnterAnyCode)) /\ WF_pinVars(UnderGate(LeaveItUnusable))
  /\ WF_pinVars(Administer /\ UNCHANGED gateVars /\ \E p \in Person : SendCode(p))

PinFairSpec == PinSpec /\ PinFairness

-----------------------------------------------------------------------------
\* Whoever is signed in is let in by their own PIN: the gate never stands on
\* a former person's, however the phone changes hands.  A screen cut short
\* between the slots is the exception, and then forgetting the PIN is the way.
PinIsOwn == gate = "locked" /\ AtScreen /\ cuts = 0 => AnyPinOpens \/ OwnPinOpens

Working == gate = "open" /\ AtScreen /\ SignedIn /\ OneSignIn /\ Served(store.token)

\* However often a phone is signed out, its answers lost, its PIN forgotten or
\* its screens cut short, codes get an inspector back to work on it.
GetsIn == []<>(Working \/ Stuck \/ \A p \in Person : ~ActiveInspector(p))
=============================================================================
