----------------------------- MODULE JoinRequests -----------------------------
(***************************************************************************)
(* Requests to join, call by call: registration.service.ts with its        *)
(* controller, for one person (one e-mail address).                        *)
(*                                                                         *)
(* start(), verify() and resend() read, then write in a statement that     *)
(* does not look again at what they read; each of the two is a step, and   *)
(* the caller may have stopped listening meanwhile.  Registration          *)
(* has the same rows beside phones and accounts of several people, with    *)
(* start() and resend() as single steps.                                   *)
(***************************************************************************)
EXTENDS Naturals, FiniteSets

CONSTANTS
  MaxRequest,  \* requests one e-mail may start in an hour (startsPerEmail)
  MaxSends,    \* MAX_SENDS
  MaxTries     \* MAX_CODE_ATTEMPTS

ASSUME JoinAssumption ==
  MaxRequest \in Nat \ {0} /\ MaxSends \in Nat \ {0} /\ MaxTries \in Nat \ {0}

Request == 1..MaxRequest
Ticket == Request \cup {0}
Channel == {"email", "sms"}
Open == {"verifying", "pending"}
Decided == {"approved", "rejected"}

VARIABLES
  registration,  \* rows of table registration
  account,       \* the role of the app_user with this e-mail, or "none"
  calls,         \* calls of the four operations that are not over
  inbox,         \* the code that arrived last, by channel
  entered        \* history: the channels whose right code was ever handed in

joinVars == <<registration, account, calls, inbox, entered>>

Op == {"start", "status", "verify", "resend"}

\* A code is known by where it was sent, for which request and in which sending.
Code(ch, r, n) == [channel |-> ch, request |-> r, n |-> n]
NoCode(ch) == Code(ch, 0, 0)

NoRow == [status |-> "none", source |-> "none", role |-> "none", proven |-> {},
          sends |-> 0, tries |-> 0, old |-> FALSE, n |-> [ch \in Channel |-> 0]]

RowStatus == {"none", "withdrawn"} \cup Open \cup Decided
Row == [status : RowStatus, source : {"none", "app", "web"},
        role : {"none", "inspector", "office"}, proven : SUBSET Channel,
        sends : Nat, tries : Nat, old : BOOLEAN, n : [Channel -> Nat]]
Sent == [channel : Channel, request : Ticket, n : Nat]
Calls == [op : Op, by : {"app", "web"}, request : Ticket, typed : SUBSET Sent,
          at : {"asked", "read", "answered"}, ok : SUBSET Channel,
          got : RowStatus \cup {"refused", "started", "wrong", "failed", "session"},
          heard : BOOLEAN]

JoinTypeOK ==
  /\ registration \in [Request -> Row]
  /\ account \in {"none", "inspector", "office"}
  /\ calls \subseteq Calls
  /\ inbox \in [Channel -> Sent]
  /\ entered \in [Request -> SUBSET Channel]

JoinInit ==
  /\ registration = [r \in Request |-> NoRow]
  /\ account = "none"
  /\ calls = {}
  /\ inbox = [ch \in Channel |-> NoCode(ch)]
  /\ entered = [r \in Request |-> {}]

-----------------------------------------------------------------------------
(* Calls *)

Call(op, by, r, typed) ==
  [op |-> op, by |-> by, request |-> r, typed |-> typed, at |-> "asked",
   ok |-> {}, got |-> "none", heard |-> TRUE]

Proceed(c, d) == calls' = (calls \ {c}) \cup {d}

AnswerAs(c, d, got, ok) ==
  calls' = (calls \ {c}) \cup
    IF c.heard THEN {[d EXCEPT !.at = "answered", !.typed = {}, !.got = got, !.ok = ok]}
               ELSE {}
Answer(c, got, ok) == AnswerAs(c, c, got, ok)

\* describe(): only status() answers with the session an approved phone gets.
BringsPhone(r) == registration[r].source = "app" /\ registration[r].role = "inspector"
Stands(r, op) ==
  IF registration[r].status = "approved" /\ BringsPhone(r) /\ op = "status"
  THEN "session" ELSE registration[r].status

\* The three later operations find a row that is no longer being verified.
Describe(c) == Answer(c, Stands(c.request, c.op), registration[c.request].proven)

Status(c) ==
  /\ c.op = "status" /\ c.at = "asked"
  /\ Describe(c)
  /\ UNCHANGED <<registration, account, inbox, entered>>

-----------------------------------------------------------------------------
(* start() *)

\* Whether a request may still be started in this hour.
Used == {r \in Request : registration[r].status # "none"}
Starting == {c \in calls : c.op = "start" /\ c.at \in {"asked", "read"}}
MayStart == Cardinality(Used) + Cardinality(Starting) < MaxRequest

StartCheck(c) ==
  /\ c.op = "start" /\ c.at = "asked"
  /\ IF account = "none" THEN Proceed(c, [c EXCEPT !.at = "read"])
                         ELSE Answer(c, "refused", {})
  /\ UNCHANGED <<registration, account, inbox, entered>>

Withdrawn_Everything(row) ==
  IF row.status # "none" THEN [row EXCEPT !.status = "withdrawn"] ELSE row
Withdrawn(row) ==
  IF row.status \in Open THEN [row EXCEPT !.status = "withdrawn"] ELSE row

\* Each message arrives or does not; what the sender answers is not looked at.
Received(ch, codes, arrived) ==
  IF ch \in arrived \cap DOMAIN codes THEN codes[ch] ELSE inbox[ch]
SendCodes(codes, arrived) ==
  inbox' = [ch \in Channel |-> Received(ch, codes, arrived)]

\* One transaction: what is open is withdrawn, and the new row gets its codes,
\* which are then sent.
StartWrite(c, arrived) ==
  /\ c.op = "start" /\ c.at = "read"
  /\ LET r == Cardinality(Used) + 1
         row == [NoRow EXCEPT !.status = "verifying", !.source = c.by,
                              !.sends = 1, !.n = [ch \in Channel |-> 1]]
     IN  /\ registration' = [q \in Request |->
                               IF q = r THEN row ELSE Withdrawn(registration[q])]
         /\ SendCodes([ch \in Channel |-> Code(ch, r, 1)], arrived)
         /\ AnswerAs(c, [c EXCEPT !.request = r], "started", {})
  /\ UNCHANGED <<account, entered>>

-----------------------------------------------------------------------------
(* verify() *)

\* hashCode() covers the request and the channel.
IsRight_AnyRequest(code, r) == code.n = registration[r].n[code.channel]
IsRight(code, r) ==
  code.request = r /\ code.n = registration[r].n[code.channel]

Spoilt(r) == registration[r].tries >= MaxTries \/ registration[r].old

VerifyRead(c) ==
  LET r == c.request
      asked == {code \in c.typed : code.channel \notin registration[r].proven}
      right == {code \in asked : IsRight(code, r)}
  IN
  /\ c.op = "verify" /\ c.at = "asked"
  /\ IF registration[r].status # "verifying" THEN Describe(c)
     ELSE IF Spoilt(r) THEN Answer(c, "refused", {})
     ELSE Proceed(c, [c EXCEPT
            !.at = "read", !.typed = {},
            !.ok = registration[r].proven \cup {code.channel : code \in right},
            !.got = IF right = asked THEN "none" ELSE "wrong"])
  /\ entered' = [entered EXCEPT ![r] = @ \cup
       {code.channel : code \in {x \in c.typed :
          x.request = r /\ x.n = registration[r].n[x.channel]}}]
  /\ UNCHANGED <<registration, account, inbox>>

\* The update sets what was read, whatever the row has become meanwhile.
Verified(c) ==
  LET row == registration[c.request]
  IN  [row EXCEPT !.proven = c.ok,
                  !.tries = IF c.got = "wrong" /\ @ < MaxTries THEN @ + 1 ELSE @,
                  !.status = IF c.ok = Channel THEN "pending" ELSE @]

\* The table's constraints: what is pending or approved is proven, and an
\* e-mail has one open request.
RowAllowed(r, row) ==
  /\ row.status \in {"pending", "approved"} => row.proven = Channel
  /\ row.status \in Open =>
       \A q \in Request \ {r} : registration[q].status \notin Open

VerifyWrite(c) ==
  LET row == Verified(c) IN
  /\ c.op = "verify" /\ c.at = "read"
  /\ IF RowAllowed(c.request, row)
     THEN /\ registration' = [registration EXCEPT ![c.request] = row]
          /\ Answer(c, IF c.got = "wrong" THEN "wrong" ELSE row.status, row.proven)
     ELSE UNCHANGED registration /\ Answer(c, "failed", {})
  /\ UNCHANGED <<account, inbox, entered>>

-----------------------------------------------------------------------------
(* resend() *)

MayResend(r) ==
  /\ registration[r].status = "verifying"
  /\ registration[r].sends < MaxSends

\* soon: the codes before were sent less than a minute ago.
ResendRead(c, soon) ==
  LET r == c.request IN
  /\ c.op = "resend" /\ c.at = "asked"
  /\ IF registration[r].status # "verifying" THEN Describe(c)
     ELSE IF ~MayResend(r) \/ soon THEN Answer(c, "refused", {})
     ELSE Proceed(c, [c EXCEPT !.at = "read", !.ok = registration[r].proven])
  /\ UNCHANGED <<registration, account, inbox, entered>>

ResendWrite(c, arrived) ==
  LET r == c.request
      n == registration[r].sends + 1
      new == Channel \ c.ok
  IN
  /\ c.op = "resend" /\ c.at = "read"
  /\ registration' = [registration EXCEPT
       ![r].n = [ch \in Channel |-> IF ch \in new THEN n ELSE @[ch]],
       ![r].sends = n, ![r].tries = 0, ![r].old = FALSE]
  /\ SendCodes([ch \in new |-> Code(ch, r, n)], arrived)
  /\ Answer(c, "verifying", c.ok)
  /\ UNCHANGED <<account, entered>>

\* The codes of a request grow too old.
HalfHour(r) ==
  /\ registration[r].status = "verifying" /\ ~registration[r].old
  /\ registration' = [registration EXCEPT ![r].old = TRUE]
  /\ UNCHANGED <<account, calls, inbox, entered>>

-----------------------------------------------------------------------------
(* The administrator's operations *)

\* One transaction under the row's lock.  For a request of the website an
\* inspector's code follows it (Registration!Approve).
Approve(r, role) ==
  /\ registration[r].status = "pending"
  /\ account = "none"
  /\ account' = role
  /\ registration' = [registration EXCEPT ![r].status = "approved", ![r].role = role]
  /\ UNCHANGED <<calls, inbox, entered>>

Reject(r) ==
  /\ registration[r].status \in Open
  /\ registration' = [registration EXCEPT ![r].status = "rejected"]
  /\ UNCHANGED <<account, calls, inbox, entered>>

\* What the gateway does next in a call, with the messages of some channels
\* arriving and no resend coming too soon.
Serve(c, arrived) ==
  \/ Status(c) \/ StartCheck(c) \/ StartWrite(c, arrived)
  \/ VerifyRead(c) \/ VerifyWrite(c)
  \/ ResendRead(c, FALSE) \/ ResendWrite(c, arrived)
=============================================================================
