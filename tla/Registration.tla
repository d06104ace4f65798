---------------------------- MODULE Registration ----------------------------
(***************************************************************************)
(* Asking to join: registration/registration.service.ts.  verify() reads   *)
(* the row and updates it in two statements without a transaction, so the  *)
(* two are steps of their own and others come between them.                *)
(***************************************************************************)
EXTENDS Accounts

CONSTANTS
  MaxRequest,  \* how many requests are ever made
  MaxSends     \* MAX_SENDS: how often codes are sent for one request

ASSUME RegistrationAssumption == MaxRequest \in Nat /\ MaxSends \in Nat \ {0}

Request == 1..MaxRequest
Channel == {"email", "sms"}
RequestStatus ==
  {"none", "verifying", "pending", "approved", "rejected", "withdrawn"}
Open == {"verifying", "pending"}

VARIABLES
  request,    \* rows of registration
  verifying   \* calls of verify() between their read and their update

NoRequest == [who |-> None, key |-> None, status |-> "none", proven |-> {},
              fresh |-> FALSE, sends |-> 0, session |-> FALSE]

RegistrationTypeOK ==
  /\ request \in [Request ->
       [who : Person \cup {None}, key : Key \cup {None}, status : RequestStatus,
        proven : SUBSET Channel, fresh : BOOLEAN, sends : 0..MaxSends,
        session : BOOLEAN]]
  /\ verifying \subseteq [request : Request, ok : SUBSET Channel]

RegistrationInit ==
  /\ request = [r \in Request |-> NoRequest]
  /\ verifying = {}

NextRequest(r) ==
  request[r].status = "none" /\ \A q \in 1..(r - 1) : request[q].status # "none"

-----------------------------------------------------------------------------
\* start(): k is the phone's key, or None for a request made on the website.
\* Asking again withdraws the requests this e-mail has open.
StartRequest(r, p, k) ==
  /\ NextRequest(r)
  /\ account[p] = "none"
  /\ k # None => device[k] = NoDevice
  /\ request' = [q \in Request |->
       IF q = r
       THEN [NoRequest EXCEPT !.who = p, !.key = k, !.status = "verifying",
                              !.fresh = TRUE, !.sends = 1]
       ELSE IF request[q].who = p /\ request[q].status \in Open
            THEN [request[q] EXCEPT !.status = "withdrawn"]
            ELSE request[q]]
  /\ UNCHANGED <<accountVars, verifying>>

\* verify(), to the end of its reading: the right codes of the channels in
\* codes were given, beside those the row already shows as confirmed.
VerifyRead(r, codes) ==
  /\ request[r].status = "verifying"
  /\ request[r].fresh
  /\ verifying' = verifying \cup {[request |-> r, ok |-> request[r].proven \cup codes]}
  /\ UNCHANGED <<accountVars, request>>

\* What the update makes of the row, whatever the row has become meanwhile.
Verified(v) ==
  [request[v.request] EXCEPT
     !.proven = v.ok, !.status = IF v.ok = Channel THEN "pending" ELSE @]

\* The table's constraints refuse an open or approved request with a contact
\* unconfirmed, and a second open request of one e-mail.
RowAllowed(r, row) ==
  /\ row.status \in {"pending", "approved"} => row.proven = Channel
  /\ row.status \in Open =>
       \A q \in Request \ {r} :
          request[q].who = row.who => request[q].status \notin Open

VerifyWrite(v) ==
  /\ v \in verifying
  /\ verifying' = verifying \ {v}
  /\ request' = IF RowAllowed(v.request, Verified(v))
                THEN [request EXCEPT ![v.request] = Verified(v)]
                ELSE request
  /\ UNCHANGED accountVars

\* The codes are half an hour old, or eight wrong ones were tried.
CodesSpoil(r) ==
  /\ request[r].status = "verifying" /\ request[r].fresh
  /\ request' = [request EXCEPT ![r].fresh = FALSE]
  /\ UNCHANGED <<accountVars, verifying>>

MayResend(r) == request[r].status = "verifying" /\ request[r].sends < MaxSends

Resend(r) ==
  /\ MayResend(r)
  /\ request' = [request EXCEPT ![r].fresh = TRUE, ![r].sends = @ + 1]
  /\ UNCHANGED <<accountVars, verifying>>

-----------------------------------------------------------------------------
BringsPhone(r, role) == role = "inspector" /\ request[r].key # None

\* approve(): one transaction, and after it the code for an inspector who has
\* no phone on file.  A key that meanwhile has a row undoes the transaction.
Approve(r, role) ==
  LET p == request[r].who
      k == request[r].key
  IN
  /\ request[r].status = "pending"
  /\ account[p] = "none"
  /\ BringsPhone(r, role) => device[k] = NoDevice
  /\ account' = [account EXCEPT ![p] = "active"]
  /\ inspectors' = IF role = "inspector" THEN inspectors \cup {p} ELSE inspectors
  /\ device' = IF BringsPhone(r, role)
               THEN [device EXCEPT ![k] = [owner |-> p, status |-> "active"]]
               ELSE device
  /\ invite' = IF role = "inspector" /\ k = None
               THEN [invite EXCEPT ![p] = "live"]
               ELSE invite
  /\ request' = [request EXCEPT ![r].status = "approved",
                                ![r].session = BringsPhone(r, role)]
  /\ UNCHANGED <<lost, verifying>>

Reject(r) ==
  /\ request[r].status \in Open
  /\ request' = [request EXCEPT ![r].status = "rejected"]
  /\ UNCHANGED <<accountVars, verifying>>

\* describe(): an approved request that brought its phone answers with the
\* session, as often as it is asked.
SessionOf(r) == [who |-> request[r].who, device |-> request[r].key]
AnswersSession(r) == request[r].status = "approved" /\ request[r].session
=============================================================================
