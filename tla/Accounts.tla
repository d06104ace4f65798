------------------------------ MODULE Accounts ------------------------------
(***************************************************************************)
(* The gateway's register of people, of their phones and of the codes that *)
(* set a phone up: console/admin.service.ts, invitations.service.ts,       *)
(* common/user-directory.ts.  A transaction, or a single statement, is one *)
(* step.  The administrators who call these operations are not among       *)
(* Person; Roles says who they are.                                        *)
(***************************************************************************)
EXTENDS Naturals, FiniteSets

CONSTANTS
  Person,   \* the people who may come to hold the phone, one e-mail each
  Staff,    \* those of them who are inspectors already
  MaxKey,   \* how many signing keys the phone may generate
  None

ASSUME AccountsAssumption ==
  Staff \subseteq Person /\ MaxKey \in Nat /\ None \notin Person /\ None \notin Nat

\* The phone's keys, in the order it generates them.  No two rows of device
\* are given one key by the operations below, so a key also names its row.
Key == 1..MaxKey

VARIABLES
  account,     \* app_user.status by person, "none" for no account
  inspectors,  \* who holds the inspector role
  device,      \* device rows by public key: whose it is, and its status
  invite,      \* the person's latest invitation
  lost         \* history: the keys that were ever signed out remotely

accountVars == <<account, inspectors, device, invite, lost>>

DeviceStatus == {"none", "pending", "active", "revoked"}
InviteStatus == {"none", "live", "used", "cancelled", "expired"}
NoDevice == [owner |-> None, status |-> "none"]

AccountsTypeOK ==
  /\ account \in [Person -> {"none", "active", "suspended"}]
  /\ inspectors \subseteq Person
  /\ device \in [Key -> [owner : Person \cup {None}, status : DeviceStatus]]
  /\ invite \in [Person -> InviteStatus]
  /\ lost \subseteq Key

AccountsInit ==
  /\ account = [p \in Person |-> IF p \in Staff THEN "active" ELSE "none"]
  /\ inspectors = Staff
  /\ device = [k \in Key |-> NoDevice]
  /\ invite = [p \in Person |-> "none"]
  /\ lost = {}

-----------------------------------------------------------------------------
(* People *)

ActiveInspector(p) == account[p] = "active" /\ p \in inspectors

CreateUser(p, asInspector) ==
  /\ account[p] = "none"
  /\ account' = [account EXCEPT ![p] = "active"]
  /\ inspectors' = IF asInspector THEN inspectors \cup {p} ELSE inspectors
  /\ UNCHANGED <<device, invite, lost>>

GrantInspector(p) ==
  /\ account[p] # "none"
  /\ inspectors' = inspectors \cup {p}
  /\ UNCHANGED <<account, device, invite, lost>>

RevokeInspector(p) ==
  /\ account[p] # "none"
  /\ inspectors' = inspectors \ {p}
  /\ UNCHANGED <<account, device, invite, lost>>

SuspendUser(p) ==
  /\ account[p] # "none"
  /\ account' = [account EXCEPT ![p] = "suspended"]
  /\ UNCHANGED <<inspectors, device, invite, lost>>

-----------------------------------------------------------------------------
(* Invitations.  Issuing a code retires the one before it, so the latest   *)
(* says all: an older code is refused like a wrong one.                    *)

Issue(p) == invite' = [invite EXCEPT ![p] = "live"]

\* listOpen(): a code that ran out is listed with the live ones.
OpenInvitations == {p \in DOMAIN invite : invite[p] \in {"live", "expired"}}

Invite(p) ==
  /\ account[p] = "none"
  /\ account' = [account EXCEPT ![p] = "active"]
  /\ inspectors' = inspectors \cup {p}
  /\ Issue(p)
  /\ UNCHANGED <<device, lost>>

Reinvite(p) ==
  /\ ActiveInspector(p)
  /\ Issue(p)
  /\ UNCHANGED <<account, inspectors, device, lost>>

CancelInvite(p) ==
  /\ p \in OpenInvitations
  /\ invite' = [invite EXCEPT ![p] = "cancelled"]
  /\ UNCHANGED <<account, inspectors, device, lost>>

ExpireInvite(p) ==
  /\ invite[p] = "live"
  /\ invite' = [invite EXCEPT ![p] = "expired"]
  /\ UNCHANGED <<account, inspectors, device, lost>>

CodeIsGood(p) == invite[p] = "live" /\ account[p] = "active"

\* Mutants: any key is taken over by whoever brings it; a key that was signed
\* out is made active again.
Spendable_AnyOwner(p, k) == CodeIsGood(p) /\ device[k].status # "revoked"
Spendable_SignedOut(p, k) == CodeIsGood(p) /\ device[k].owner \in {None, p}

\* activate() refuses a key that is another's, then one that was signed out.
Spendable(p, k) ==
  /\ CodeIsGood(p)
  /\ device[k].owner \in {None, p}
  /\ device[k].status # "revoked"

\* The refusal "device_signed_out", the only one the app acts on.
NeedsNewKey(p, k) ==
  CodeIsGood(p) /\ device[k].owner = p /\ device[k].status = "revoked"

Spend(p, k) ==
  /\ Spendable(p, k)
  /\ device' = [device EXCEPT ![k] = [owner |-> p, status |-> "active"]]
  /\ invite' = [invite EXCEPT ![p] = "used"]
  /\ UNCHANGED <<account, inspectors, lost>>

-----------------------------------------------------------------------------
(* Devices *)

EnrollDevice(k, p) ==
  /\ account[p] = "active"
  /\ device[k] = NoDevice
  /\ device' = [device EXCEPT ![k] = [owner |-> p, status |-> "active"]]
  /\ UNCHANGED <<account, inspectors, invite, lost>>

RequestEnrolment(k, p) ==
  /\ account[p] = "active"
  /\ device[k] = NoDevice
  /\ device' = [device EXCEPT ![k] = [owner |-> p, status |-> "pending"]]
  /\ UNCHANGED <<account, inspectors, invite, lost>>

ApproveDevice(k) ==
  /\ device[k].status = "pending"
  /\ device' = [device EXCEPT ![k].status = "active"]
  /\ UNCHANGED <<account, inspectors, invite, lost>>

RevokeDevice(k) ==
  /\ device[k].status = "active"
  /\ device' = [device EXCEPT ![k].status = "revoked"]
  /\ lost' = lost \cup {k}
  /\ UNCHANGED <<account, inspectors, invite>>

-----------------------------------------------------------------------------
\* Whether the guard lets this phone session through: everything but the
\* token's two names is read from the register, on every request.
Served(session) ==
  /\ session # None
  /\ device[session.device] = [owner |-> session.who, status |-> "active"]
  /\ ActiveInspector(session.who)
=============================================================================
