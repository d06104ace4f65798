------------------------------ MODULE WorkLog -------------------------------
(***************************************************************************)
(* What the phone and the gateway promise each other about one phone's     *)
(* work, whoever holds the phone: events are written one after another,    *)
(* recorded once each and in the order they were written, and only what is *)
(* recorded is ever confirmed, for good.  DeviceSync implements it.        *)
(***************************************************************************)
EXTENDS Naturals

VARIABLES
  written,    \* number of events written on the phone
  recorded,   \* how many of them, from the first, are in the event store
  confirmed   \* the events the phone has stopped offering

vars == <<written, recorded, confirmed>>

Init == written = 0 /\ recorded = 0 /\ confirmed = {}

Write ==
  /\ written' = written + 1
  /\ UNCHANGED <<recorded, confirmed>>

Record ==
  /\ recorded < written
  /\ recorded' = recorded + 1
  /\ UNCHANGED <<written, confirmed>>

Confirm ==
  /\ confirmed' \in SUBSET (1..recorded)
  /\ confirmed \subseteq confirmed'
  /\ UNCHANGED <<written, recorded>>

Next == Write \/ Record \/ Confirm

Spec == Init /\ [][Next]_vars
=============================================================================
