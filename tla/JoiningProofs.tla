---------------------------- MODULE JoiningProofs ----------------------------
(***************************************************************************)
(* What is proved of joining, for any number of requests, sendings of      *)
(* codes, tries and mishaps: what is pending or approved had both contacts *)
(* proven, and a decision is only undone by a verify() that had read the   *)
(* row before it.                                                          *)
(***************************************************************************)
EXTENDS Joining, FiniteSetTheorems, TLAPS

USE JoinAssumption, MishapAssumption

-----------------------------------------------------------------------------
(* The invariants                                                           *)

\* Requests are numbered in the order they were started.
Numbered == \E k \in 0..MaxRequest : Used = 1..k

\* What a call says of its request, and what it can be answered.
CallOK(c) ==
  /\ c \in Calls
  /\ c.op # "start" \/ c.got = "started" => c.request \in Used
  /\ c.op = "verify" /\ c.at = "read" => c.ok \subseteq entered[c.request]
  /\ c.at = "answered" =>
       /\ c.op = "status" => c.got \in RowStatus \cup {"session"}
       /\ c.op = "verify" => c.got \in RowStatus \cup {"wrong", "refused", "failed"}
       /\ c.op # "start" => c.got # "none"

Rows ==
  /\ registration \in [Request -> Row]
  /\ entered \in [Request -> SUBSET Channel]
  /\ \A r \in Request :
       /\ registration[r].proven \subseteq entered[r]
       /\ registration[r].status \in {"pending", "approved"} =>
            registration[r].proven = Channel

\* No more requests are on their way than may still be started.
Counted ==
  /\ IsFiniteSet(calls)
  /\ Cardinality(Used) + Cardinality(Starting) <= MaxRequest

Screens ==
  /\ phone \in [stage : Stage, ticket : Ticket, shown : SUBSET Channel, session : Ticket]
  /\ web \in [page : Page, ticket : Ticket, shown : SUBSET Channel]
  /\ phone.ticket \in Used \cup {0} /\ phone.session \in Ticket
  /\ web.ticket \in Used \cup {0}
  /\ web.page # "details" => web.ticket # 0

Rest ==
  /\ account \in {"none", "inspector", "office"}
  /\ inbox \in [Channel -> Sent]
  /\ mishaps \in 0..Mishaps

Inv ==
  /\ Rows /\ Numbered /\ Counted /\ Screens /\ Rest
  /\ \A c \in calls : CallOK(c)

-----------------------------------------------------------------------------
(* Rows and calls                                                           *)

LEMMA UsedIs ==
  ASSUME Rows
  PROVE  /\ Used \subseteq Request
         /\ \A r \in Request : r \in Used <=> registration[r].status # "none"
  BY DEF Used

LEMMA Count ==
  ASSUME NEW k \in 0..MaxRequest, Used = 1..k
  PROVE  Cardinality(Used) = k /\ IsFiniteSet(Used)
  BY FS_Interval

\* A call stays what it is while requests are added and codes are entered.
LEMMA CallStays ==
  ASSUME NEW c, CallOK(c), Rows, Used \subseteq Used',
         \A r \in Request : entered[r] \subseteq entered'[r]
  PROVE  CallOK(c)'
<1>1. c.op = "verify" => c.request \in Request
  BY UsedIs DEF CallOK
<1> QED
  BY <1>1 DEF CallOK

LEMMA NewCall ==
  ASSUME NEW op \in Op, NEW by \in {"app", "web"}, NEW r \in Ticket, NEW typed \in SUBSET Sent,
         op # "start" => r \in Used
  PROVE  CallOK(Call(op, by, r, typed)) /\ Call(op, by, r, typed).op = op
  BY DEF CallOK, Call, Calls, Op, RowStatus

LEMMA UnheardCall ==
  ASSUME NEW c, CallOK(c), NEW d \in Unheard(c)
  PROVE  /\ CallOK(d) /\ d = [c EXCEPT !.heard = FALSE]
         /\ d.op = c.op /\ d.at = c.at
<1>1. d = [c EXCEPT !.heard = FALSE] /\ c \in Calls
  BY DEF Unheard, CallOK
<1>2. /\ d \in Calls /\ d.op = c.op /\ d.at = c.at /\ d.got = c.got /\ d.ok = c.ok
      /\ d.request = c.request
  BY <1>1 DEF Calls
<1> QED
  BY <1>1, <1>2 DEF CallOK

\* The answer to a call.
LEMMA AnswerIs ==
  ASSUME NEW c \in calls, NEW d \in Calls, d.op = c.op,
         NEW got \in RowStatus \cup {"refused", "started", "wrong", "failed", "session"},
         NEW ok \in SUBSET Channel, AnswerAs(c, d, got, ok)
  PROVE  \E e \in Calls :
           /\ calls' \subseteq (calls \ {c}) \cup {e}
           /\ e.op = c.op /\ e.at = "answered" /\ e.got = got /\ e.request = d.request
<1> DEFINE d1 == [d EXCEPT !.at = "answered"]
           d2 == [d1 EXCEPT !.typed = {}]
           d3 == [d2 EXCEPT !.got = got]
           d4 == [d3 EXCEPT !.ok = ok]
<1>1. d1 \in Calls /\ d1.at = "answered" /\ d1.op = d.op /\ d1.request = d.request
  BY DEF Calls
<1>2. d2 \in Calls /\ d2.at = "answered" /\ d2.op = d.op /\ d2.request = d.request
  <2> HIDE DEF d1
  <2> QED
    BY <1>1 DEF Calls
<1>3. /\ d3 \in Calls /\ d3.at = "answered" /\ d3.op = d.op /\ d3.request = d.request
      /\ d3.got = got
  <2> HIDE DEF d2
  <2> QED
    BY <1>2 DEF Calls
<1>4. /\ d4 \in Calls /\ d4.at = "answered" /\ d4.op = d.op /\ d4.request = d.request
      /\ d4.got = got
  <2> HIDE DEF d3
  <2> QED
    BY <1>3 DEF Calls
<1>5. calls' \subseteq (calls \ {c}) \cup {d4}
  BY DEF AnswerAs
<1> HIDE DEF d4
<1> QED
  BY <1>4, <1>5

-----------------------------------------------------------------------------
(* What the gateway does to the rows                                        *)

\* A step leaves the rows alone, but for the codes entered.
RowsStay == UNCHANGED <<registration, entered>>

LEMMA RowsKept ==
  ASSUME Rows, Numbered, RowsStay
  PROVE  Rows' /\ Numbered' /\ Used' = Used
  BY DEF Rows, Numbered, RowsStay, Used

\* Codes are entered.
LEMMA EnteredGrows ==
  ASSUME Rows, Numbered, UNCHANGED registration, entered' \in [Request -> SUBSET Channel],
         \A r \in Request : entered[r] \subseteq entered'[r]
  PROVE  Rows' /\ Numbered' /\ Used' = Used
  BY DEF Rows, Numbered, Used

\* One row changes, and is in use before and after.
LEMMA RowChanges ==
  ASSUME Rows, Numbered, NEW r \in Used, NEW row \in Row, UNCHANGED entered,
         registration' = [registration EXCEPT ![r] = row],
         row.status # "none", row.proven \subseteq entered[r],
         row.status \in {"pending", "approved"} => row.proven = Channel
  PROVE  Rows' /\ Numbered' /\ Used' = Used
<1>1. r \in Request /\ registration[r].status # "none"
  BY UsedIs
<1>2. registration' \in [Request -> Row] /\ registration'[r] = row
      /\ \A q \in Request \ {r} : registration'[q] = registration[q]
  BY <1>1 DEF Rows
<1>3. Used' = Used
  BY <1>1, <1>2 DEF Used
<1>4. Rows'
  BY <1>1, <1>2 DEF Rows
<1> QED
  BY <1>3, <1>4 DEF Numbered

-----------------------------------------------------------------------------
(* The operations of the gateway: each leaves the rows sound, lets codes    *)
(* only be added, and puts at most one call in the place of the one it      *)
(* served.                                                                  *)

Served(c) ==
  /\ Rows' /\ Numbered' /\ Used \subseteq Used'
  /\ \A r \in Request : entered[r] \subseteq entered'[r]
  /\ inbox' \in [Channel -> Sent] /\ UNCHANGED account
  /\ \E d : /\ CallOK(d)' /\ calls' \subseteq (calls \ {c}) \cup {d}
            /\ d.op = c.op
            /\ d.at \in {"asked", "read"} => c.at \in {"asked", "read"}
            /\ \/ Used' = Used
               \/ /\ c \in Starting /\ d.at = "answered"
                  /\ \E k \in 0..MaxRequest : Used = 1..k /\ Used' = 1..(k + 1)
  /\ \A r \in Request :
       registration[r].status \in Decided /\ registration'[r].status # registration[r].status
         => c.op = "verify" /\ c.at = "read" /\ c.request = r

Sound == Rows /\ Numbered /\ Counted /\ Rest /\ \A c \in calls : CallOK(c)

LEMMA AnsweredOK ==
  ASSUME NEW e \in Calls, e.at = "answered", e.op \in {"verify", "status", "resend"},
         e.request \in Used, e.got # "none",
         e.op = "status" => e.got \in RowStatus \cup {"session"},
         e.op = "verify" => e.got \in RowStatus \cup {"wrong", "refused", "failed"}
  PROVE  CallOK(e)
  BY DEF CallOK

LEMMA DescribeServes ==
  ASSUME Sound, NEW c \in calls, c.at = "asked", c.op # "start", Describe(c), RowsStay,
         UNCHANGED <<account, inbox>>
  PROVE  Served(c)
<1> DEFINE r == c.request
           got == Stands(r, c.op)
<1>1. /\ CallOK(c) /\ c \in Calls /\ r \in Used /\ r \in Request
      /\ registration[r] \in Row /\ registration[r].status # "none"
  BY UsedIs DEF Sound, CallOK, Rows
<1>2. /\ got \in RowStatus \cup {"session"} /\ got # "none"
      /\ c.op # "status" => got \in RowStatus
      /\ registration[r].proven \in SUBSET Channel
  BY <1>1 DEF Stands, Row, RowStatus
<1>3. AnswerAs(c, c, got, registration[r].proven)
  BY DEF Describe, Answer
<1> HIDE DEF got
<1>4. PICK e \in Calls :
        /\ calls' \subseteq (calls \ {c}) \cup {e}
        /\ e.op = c.op /\ e.at = "answered" /\ e.got = got /\ e.request = c.request
  BY <1>1, <1>2, <1>3, AnswerIs
<1>5. e.op \in {"verify", "status", "resend"}
  BY <1>1, <1>4 DEF Calls, Op
<1>6. CallOK(e)
  BY <1>1, <1>2, <1>4, <1>5, AnsweredOK
<1>7. Rows' /\ Numbered' /\ Used' = Used
  BY RowsKept DEF Sound
<1>8. CallOK(e)'
  BY <1>6, <1>7, CallStays DEF Sound, RowsStay
<1> QED
  BY <1>4, <1>7, <1>8 DEF Served, RowsStay, Sound, Rest

\* An answer that is the same for every row: a refusal or a failure.
LEMMA RefusalServes ==
  ASSUME Sound, NEW c \in calls, c.op # "status", NEW got \in {"refused", "failed"},
         Answer(c, got, {}), RowsStay, UNCHANGED <<account, inbox>>
  PROVE  Served(c)
<1>1. CallOK(c) /\ c \in Calls /\ (c.op # "start" => c.request \in Used)
  BY DEF Sound, CallOK
<1>2. PICK e \in Calls :
        /\ calls' \subseteq (calls \ {c}) \cup {e}
        /\ e.op = c.op /\ e.at = "answered" /\ e.got = got /\ e.request = c.request
  BY <1>1, AnswerIs DEF Answer
<1>3. CallOK(e)
  BY <1>1, <1>2 DEF CallOK, RowStatus
<1>4. Rows' /\ Numbered' /\ Used' = Used
  BY RowsKept DEF Sound
<1>5. CallOK(e)'
  BY <1>3, <1>4, CallStays DEF Sound, RowsStay
<1> QED
  BY <1>2, <1>4, <1>5 DEF Served, RowsStay, Sound, Rest

LEMMA StatusServes ==
  ASSUME Sound, NEW c \in calls, Status(c)
  PROVE  Served(c)
  BY DescribeServes DEF Status, RowsStay

LEMMA StartCheckServes ==
  ASSUME Sound, NEW c \in calls, StartCheck(c)
  PROVE  Served(c)
<1>1. CASE account = "none"
  <2> DEFINE d == [c EXCEPT !.at = "read"]
  <2>1. CallOK(c) /\ c \in Calls /\ c.op = "start" /\ c.at = "asked"
    BY DEF Sound, CallOK, StartCheck
  <2>2. d \in Calls /\ d.op = "start" /\ d.at = "read" /\ d.got = c.got /\ d.request = c.request
    BY <2>1 DEF Calls
  <2>3. calls' = (calls \ {c}) \cup {d} /\ RowsStay /\ UNCHANGED <<account, inbox>>
    BY <1>1 DEF StartCheck, Proceed, RowsStay
  <2> HIDE DEF d
  <2>4. CallOK(d)
    BY <2>1, <2>2 DEF CallOK
  <2>5. Rows' /\ Numbered' /\ Used' = Used
    BY <2>3, RowsKept DEF Sound
  <2>6. CallOK(d)'
    BY <2>3, <2>4, <2>5, CallStays DEF Sound, RowsStay
  <2> QED
    BY <2>1, <2>2, <2>3, <2>5, <2>6 DEF Served, RowsStay, Sound, Rest
<1>2. CASE account # "none"
  BY <1>2, RefusalServes DEF StartCheck, RowsStay
<1> QED
  BY <1>1, <1>2

\* There is room for a request that is being started.
LEMMA RoomToStart ==
  ASSUME Sound, NEW c \in Starting, NEW k \in 0..MaxRequest, Used = 1..k
  PROVE  k + 1 \in Request /\ Cardinality(Used) = k
<1>1. Cardinality(Used) = k
  BY Count
<1>2. IsFiniteSet(Starting)
  BY FS_Subset DEF Sound, Counted, Starting
<1>3. Cardinality(Starting) \in Nat /\ Cardinality(Starting) # 0
  BY <1>2, FS_CardinalityType, FS_EmptySet
<1> QED
  BY <1>1, <1>3 DEF Sound, Counted, Request

\* Codes that are sent arrive, or the last ones stay.
LEMMA InboxOK ==
  ASSUME inbox \in [Channel -> Sent], NEW new \in SUBSET Channel, NEW r \in Request,
         NEW n \in Nat, NEW arrived, SendCodes([ch \in new |-> Code(ch, r, n)], arrived)
  PROVE  inbox' \in [Channel -> Sent]
<1>1. \A ch \in new : Code(ch, r, n) \in Sent
  BY DEF Code, Sent, Ticket
<1> QED
  BY <1>1 DEF SendCodes, Received

LEMMA NewRow ==
  ASSUME NEW source \in {"app", "web"},
         NEW row, row = [NoRow EXCEPT !.status = "verifying", !.source = source, !.sends = 1,
                                      !.n = [ch \in Channel |-> 1]]
  PROVE  row \in Row /\ row.status = "verifying" /\ row.proven = {}
<1> DEFINE one == [ch \in Channel |-> 1]
           r1 == [NoRow EXCEPT !.status = "verifying"]
           r2 == [r1 EXCEPT !.source = source]
           r3 == [r2 EXCEPT !.sends = 1]
           r4 == [r3 EXCEPT !.n = one]
<1>1. r1 \in Row /\ r1.status = "verifying" /\ r1.proven = {}
  BY DEF NoRow, Row, RowStatus, Open
<1>2. r2 \in Row /\ r2.status = "verifying" /\ r2.proven = {}
  <2> HIDE DEF r1
  <2> QED
    BY <1>1 DEF Row
<1>3. r3 \in Row /\ r3.status = "verifying" /\ r3.proven = {}
  <2> HIDE DEF r2
  <2> QED
    BY <1>2 DEF Row
<1>4. r4 \in Row /\ r4.status = "verifying" /\ r4.proven = {}
  <2>1. one \in [Channel -> Nat]
    OBVIOUS
  <2> HIDE DEF r3, one
  <2> QED
    BY <1>3, <2>1 DEF Row
<1>5. row = r4
  OBVIOUS
<1> HIDE DEF r4
<1> QED
  BY <1>4, <1>5

LEMMA WithdrawnRow ==
  ASSUME NEW row \in Row
  PROVE  LET w == Withdrawn(row)
         IN  /\ w \in Row /\ w.proven = row.proven
             /\ w.status = "none" <=> row.status = "none"
             /\ \/ w.status = row.status
                \/ w.status = "withdrawn" /\ row.status \in Open
<1>1. CASE row.status \in Open
  <2> DEFINE w == [row EXCEPT !.status = "withdrawn"]
  <2>1. w \in Row /\ w.proven = row.proven /\ w.status = "withdrawn"
    BY DEF Row, RowStatus
  <2>2. Withdrawn(row) = w /\ row.status # "none"
    BY <1>1 DEF Withdrawn, Open
  <2> HIDE DEF w
  <2> QED
    BY <1>1, <2>1, <2>2
<1>2. CASE row.status \notin Open
  <2>1. Withdrawn(row) = row
    BY <1>2 DEF Withdrawn
  <2> QED
    BY <2>1
<1> QED
  BY <1>1, <1>2

\* A call of verify() that has read its row.
ReadAs(c, ok, got) == [c EXCEPT !.at = "read", !.typed = {}, !.ok = ok, !.got = got]

LEMMA ReadCall ==
  ASSUME NEW c \in Calls, NEW ok \in SUBSET Channel, NEW got \in {"none", "wrong"}
  PROVE  LET d == ReadAs(c, ok, got)
         IN  /\ d \in Calls /\ d.op = c.op /\ d.request = c.request
             /\ d.at = "read" /\ d.ok = ok /\ d.got = got
<1> DEFINE d1 == [c EXCEPT !.at = "read"]
           d2 == [d1 EXCEPT !.typed = {}]
           d3 == [d2 EXCEPT !.ok = ok]
           d4 == [d3 EXCEPT !.got = got]
<1>1. d1 \in Calls /\ d1.op = c.op /\ d1.request = c.request /\ d1.at = "read"
  BY DEF Calls
<1>2. d2 \in Calls /\ d2.op = c.op /\ d2.request = c.request /\ d2.at = "read"
  <2> HIDE DEF d1
  <2> QED
    BY <1>1 DEF Calls
<1>3. /\ d3 \in Calls /\ d3.op = c.op /\ d3.request = c.request /\ d3.at = "read"
      /\ d3.ok = ok
  <2> HIDE DEF d2
  <2> QED
    BY <1>2 DEF Calls
<1>4. /\ d4 \in Calls /\ d4.op = c.op /\ d4.request = c.request /\ d4.at = "read"
      /\ d4.ok = ok /\ d4.got = got
  <2> HIDE DEF d3
  <2> QED
    BY <1>3 DEF Calls, RowStatus
<1>5. ReadAs(c, ok, got) = d4
  BY DEF ReadAs
<1> HIDE DEF d4
<1> QED
  BY <1>4, <1>5

LEMMA VerifiedRow ==
  ASSUME NEW c \in Calls, registration[c.request] \in Row
  PROVE  /\ Verified(c) \in Row /\ Verified(c).proven = c.ok
         /\ Verified(c).status = IF c.ok = Channel THEN "pending"
                                 ELSE registration[c.request].status
<1> DEFINE row == registration[c.request]
           more == IF c.got = "wrong" /\ row.tries < MaxTries THEN row.tries + 1 ELSE row.tries
           stands == IF c.ok = Channel THEN "pending" ELSE row.status
           r1 == [row EXCEPT !.proven = c.ok]
           r2 == [r1 EXCEPT !.tries = more]
           r3 == [r2 EXCEPT !.status = stands]
<1>1. more \in Nat /\ stands \in RowStatus /\ c.ok \in SUBSET Channel
  BY DEF Row, Calls, RowStatus, Open
<1>2. /\ r1 \in Row /\ r1.proven = c.ok /\ r1.tries = row.tries
      /\ r1.status = row.status
  <2> HIDE DEF row
  <2> QED
    BY <1>1 DEF Row, row
<1>3. r2 \in Row /\ r2.proven = c.ok /\ r2.status = row.status
  <2> HIDE DEF r1, more
  <2> QED
    BY <1>1, <1>2 DEF Row
<1>4. r3 \in Row /\ r3.proven = c.ok /\ r3.status = stands
  <2> HIDE DEF r2, stands
  <2> QED
    BY <1>1, <1>3 DEF Row
<1>5. Verified(c) = r3
  <2>1. Verified(c) = [[[row EXCEPT !.proven = c.ok] EXCEPT !.tries = IF c.got = "wrong" /\ @ < MaxTries THEN @ + 1 ELSE @]
                        EXCEPT !.status = IF c.ok = Channel THEN "pending" ELSE @]
    BY DEF Verified
  <2> QED
    BY <2>1, <1>2, <1>3
<1> HIDE DEF r3
<1> QED
  BY <1>4, <1>5

\* The row of a request whose codes were sent again.
Resent(row, new, n) ==
  [row EXCEPT !.n = [ch \in Channel |-> IF ch \in new THEN n ELSE @[ch]],
              !.sends = n, !.tries = 0, !.old = FALSE]

LEMMA ResentRow ==
  ASSUME NEW row \in Row, NEW new, NEW n \in Nat
  PROVE  /\ Resent(row, new, n) \in Row /\ Resent(row, new, n).status = row.status
         /\ Resent(row, new, n).proven = row.proven
<1> DEFINE ns == [ch \in Channel |-> IF ch \in new THEN n ELSE row.n[ch]]
           r1 == [row EXCEPT !.n = ns]
           r2 == [r1 EXCEPT !.sends = n]
           r3 == [r2 EXCEPT !.tries = 0]
           r4 == [r3 EXCEPT !.old = FALSE]
<1>1. ns \in [Channel -> Nat]
  BY DEF Row
<1>2. r1 \in Row /\ r1.status = row.status /\ r1.proven = row.proven
  <2> HIDE DEF ns
  <2> QED
    BY <1>1 DEF Row
<1>3. r2 \in Row /\ r2.status = row.status /\ r2.proven = row.proven
  <2> HIDE DEF r1
  <2> QED
    BY <1>2 DEF Row
<1>4. r3 \in Row /\ r3.status = row.status /\ r3.proven = row.proven
  <2> HIDE DEF r2
  <2> QED
    BY <1>3 DEF Row
<1>5. r4 \in Row /\ r4.status = row.status /\ r4.proven = row.proven
  <2> HIDE DEF r3
  <2> QED
    BY <1>4 DEF Row
<1>6. Resent(row, new, n) = r4
  BY DEF Resent
<1> HIDE DEF r4
<1> QED
  BY <1>5, <1>6

LEMMA StartWriteServes ==
  ASSUME Sound, NEW c \in calls, NEW arrived, StartWrite(c, arrived)
  PROVE  Served(c)
<1>1. /\ CallOK(c) /\ c \in Calls /\ c.op = "start" /\ c.at = "read" /\ c \in Starting
  BY DEF Sound, CallOK, StartWrite, Starting
<1>2. PICK k \in 0..MaxRequest : Used = 1..k
  BY DEF Sound, Numbered
<1> DEFINE r == k + 1
           row == [NoRow EXCEPT !.status = "verifying", !.source = c.by, !.sends = 1,
                                !.n = [ch \in Channel |-> 1]]
<1>3. r \in Request /\ Cardinality(Used) + 1 = r /\ r \notin Used
  BY <1>1, <1>2, RoomToStart
<1>5. /\ registration' = [q \in Request |-> IF q = r THEN row ELSE Withdrawn(registration[q])]
      /\ SendCodes([ch \in Channel |-> Code(ch, r, 1)], arrived)
      /\ AnswerAs(c, [c EXCEPT !.request = r], "started", {})
      /\ UNCHANGED <<account, entered>>
  BY <1>3 DEF StartWrite
<1>6. row \in Row /\ row.status = "verifying" /\ row.proven = {}
  <2>1. c.by \in {"app", "web"}
    BY <1>1 DEF Calls
  <2> HIDE DEF row
  <2> QED
    BY <2>1, NewRow DEF row
<1> HIDE DEF r, row
<1>7. ASSUME NEW q \in Request
      PROVE  LET w == Withdrawn(registration[q])
             IN  /\ w \in Row /\ w.proven = registration[q].proven
                 /\ w.status = "none" <=> registration[q].status = "none"
                 /\ \/ w.status = registration[q].status
                    \/ w.status = "withdrawn" /\ registration[q].status \in Open
  <2>1. registration[q] \in Row
    BY DEF Sound, Rows
  <2> QED
    BY <2>1, WithdrawnRow
<1>8. registration' \in [Request -> Row]
  BY <1>5, <1>6, <1>7
<1>9. Used' = Used \cup {r}
  BY <1>3, <1>5, <1>6, <1>7 DEF Used
<1>10. Used' = 1..(k + 1) /\ k + 1 \in 0..MaxRequest
  BY <1>2, <1>3, <1>9 DEF r, Request
<1>11. Rows'
  <2>1. /\ registration \in [Request -> Row] /\ entered \in [Request -> SUBSET Channel]
        /\ \A q \in Request :
             /\ registration[q].proven \subseteq entered[q]
             /\ registration[q].status \in {"pending", "approved"} =>
                  registration[q].proven = Channel
    BY DEF Sound, Rows
  <2>2. entered' = entered
    BY <1>5
  <2>3. ASSUME NEW q \in Request
        PROVE  /\ registration'[q].proven \subseteq entered[q]
               /\ registration'[q].status \in {"pending", "approved"} =>
                    registration'[q].proven = Channel
    <3>1. CASE q = r
      BY <1>5, <1>6, <3>1
    <3>2. CASE q # r
      BY <1>5, <1>7, <2>1, <3>2 DEF Open
    <3> QED
      BY <3>1, <3>2
  <2> QED
    BY <1>8, <2>1, <2>2, <2>3 DEF Rows
<1>12. inbox' \in [Channel -> Sent]
  <2>1. inbox \in [Channel -> Sent] /\ r \in Request /\ 1 \in Nat
    BY <1>3 DEF Sound, Rest
  <2>2. SendCodes([ch \in Channel |-> Code(ch, r, 1)], arrived)
    BY <1>5
  <2> QED
    BY <2>1, <2>2, InboxOK
<1>13. \A q \in Request : registration[q].status \in Decided =>
         registration'[q].status = registration[q].status
  <2>1. registration[r].status = "none"
    BY <1>3 DEF Used
  <2> QED
    BY <1>5, <1>7, <2>1 DEF Decided, Open
<1>14. PICK e \in Calls :
         /\ calls' \subseteq (calls \ {c}) \cup {e}
         /\ e.op = c.op /\ e.at = "answered" /\ e.got = "started" /\ e.request = r
  <2> DEFINE d == [c EXCEPT !.request = r]
  <2>1. d \in Calls /\ d.op = c.op /\ d.request = r
    BY <1>1, <1>3 DEF Calls, Ticket
  <2>2. AnswerAs(c, d, "started", {})
    BY <1>5
  <2> HIDE DEF d
  <2> QED
    BY <2>1, <2>2, AnswerIs
<1>15. CallOK(e)'
  BY <1>1, <1>9, <1>14 DEF CallOK
<1> QED
  <2>1. c \in Starting /\ e.op = c.op /\ e.at = "answered" /\ CallOK(e)'
        /\ calls' \subseteq (calls \ {c}) \cup {e}
    BY <1>1, <1>14, <1>15
  <2>2. \E j \in 0..MaxRequest : Used = 1..j /\ Used' = 1..(j + 1)
    BY <1>2, <1>10
  <2>3. Numbered' /\ Used \subseteq Used'
    BY <1>9, <1>10 DEF Numbered
  <2> QED
    BY <1>5, <1>11, <1>12, <1>13, <2>1, <2>2, <2>3 DEF Served

LEMMA VerifyReadServes ==
  ASSUME Sound, NEW c \in calls, VerifyRead(c)
  PROVE  Served(c)
<1> DEFINE r == c.request
           hit == {x \in c.typed : x.request = r /\ x.n = registration[r].n[x.channel]}
           asked == {code \in c.typed : code.channel \notin registration[r].proven}
           right == {code \in asked : IsRight(code, r)}
<1>1. /\ CallOK(c) /\ c \in Calls /\ r \in Used /\ r \in Request /\ c.op = "verify"
      /\ c.at = "asked" /\ registration[r] \in Row /\ registration[r].proven \subseteq entered[r]
      /\ registration \in [Request -> Row] /\ entered \in [Request -> SUBSET Channel]
  BY UsedIs DEF Sound, CallOK, VerifyRead, Rows
<1>2. /\ entered' = [entered EXCEPT ![r] = @ \cup {code.channel : code \in hit}]
      /\ UNCHANGED <<registration, account, inbox>>
  BY DEF VerifyRead
<1>3. hit \subseteq Sent /\ right \subseteq hit
  BY <1>1 DEF Calls, IsRight
<1>4. \A x \in hit : x.channel \in Channel
  BY <1>3 DEF Sent
<1> DEFINE channels == {code.channel : code \in hit}
           ok == registration[r].proven \cup {code.channel : code \in right}
<1>5. channels \subseteq Channel
  BY <1>4
<1>6. /\ entered' \in [Request -> SUBSET Channel] /\ entered'[r] = entered[r] \cup channels
      /\ \A q \in Request : entered[q] \subseteq entered'[q]
  <2> HIDE DEF channels
  <2>1. entered' = [entered EXCEPT ![r] = @ \cup channels]
    BY <1>2 DEF channels
  <2> QED
    BY <1>1, <1>5, <2>1
<1>7. ok \subseteq entered'[r]
  <2>1. {code.channel : code \in right} \subseteq channels
    BY <1>3
  <2> HIDE DEF channels, right
  <2> QED
    BY <1>1, <1>6, <2>1
<1>8. Rows' /\ Numbered' /\ Used' = Used
  BY <1>2, <1>6, EnteredGrows DEF Sound
<1> HIDE DEF hit, channels, ok
<1>9. ok \subseteq Channel
  BY <1>1, <1>6, <1>7
<1>10. ASSUME NEW e, CallOK(e)', calls' \subseteq (calls \ {c}) \cup {e}, e.op = c.op
       PROVE  Served(c)
  BY <1>1, <1>2, <1>6, <1>8, <1>10 DEF Served, Sound, Rest
<1>11. ASSUME NEW e, CallOK(e) PROVE CallOK(e)'
  BY <1>6, <1>8, <1>11, CallStays DEF Sound
<1>12. CASE registration[r].status # "verifying"
  <2> DEFINE got == Stands(r, "verify")
  <2>1. got \in RowStatus /\ got # "none"
    BY <1>1, UsedIs DEF Stands, Row, Sound
  <2>2. AnswerAs(c, c, got, registration[r].proven)
    BY <1>1, <1>12 DEF VerifyRead, Describe, Answer
  <2>3. registration[r].proven \in SUBSET Channel
    BY <1>1 DEF Row
  <2> HIDE DEF got
  <2>4. PICK e \in Calls :
          /\ calls' \subseteq (calls \ {c}) \cup {e}
          /\ e.op = c.op /\ e.at = "answered" /\ e.got = got /\ e.request = c.request
    BY <1>1, <2>1, <2>2, <2>3, AnswerIs
  <2>5. CallOK(e)
    BY <1>1, <2>1, <2>4, AnsweredOK
  <2> QED
    BY <1>10, <1>11, <2>4, <2>5
<1>13. CASE registration[r].status = "verifying" /\ Spoilt(r)
  <2>1. AnswerAs(c, c, "refused", {})
    BY <1>13 DEF VerifyRead, Answer
  <2>2. PICK e \in Calls :
          /\ calls' \subseteq (calls \ {c}) \cup {e}
          /\ e.op = c.op /\ e.at = "answered" /\ e.got = "refused" /\ e.request = c.request
    <3>1. c \in Calls
      BY <1>1
    <3> QED
      BY <2>1, <3>1, AnswerIs
  <2>3. CallOK(e)
    BY <1>1, <2>2, AnsweredOK
  <2> QED
    BY <1>10, <1>11, <2>2, <2>3
<1>14. CASE registration[r].status = "verifying" /\ ~Spoilt(r)
  <2> DEFINE got == IF right = asked THEN "none" ELSE "wrong"
             d == ReadAs(c, ok, got)
  <2>1. calls' = (calls \ {c}) \cup {d}
    BY <1>14 DEF VerifyRead, ok, Proceed, ReadAs
  <2>2. got \in {"none", "wrong"}
    OBVIOUS
  <2> HIDE DEF got
  <2>3. PICK e : e = d
    OBVIOUS
  <2> HIDE DEF d
  <2>4. /\ e \in Calls /\ e.op = c.op /\ e.request = c.request
        /\ e.at = "read" /\ e.ok = ok /\ e.got = got
    <3>1. c \in Calls /\ ok \in SUBSET Channel
      BY <1>1, <1>9
    <3>2. e = ReadAs(c, ok, got)
      BY <2>3 DEF d
    <3> QED
      BY <2>2, <3>1, <3>2, ReadCall
  <2>5. CallOK(e)'
    BY <1>1, <1>7, <1>8, <2>2, <2>4 DEF CallOK
  <2> QED
    BY <1>10, <2>1, <2>3, <2>4, <2>5
<1> QED
  BY <1>12, <1>13, <1>14

LEMMA VerifyWriteServes ==
  ASSUME Sound, NEW c \in calls, VerifyWrite(c)
  PROVE  Served(c)
<1> DEFINE r == c.request
           row == Verified(c)
<1>1. /\ CallOK(c) /\ c \in Calls /\ r \in Used /\ r \in Request /\ c.op = "verify"
      /\ c.at = "read" /\ registration[r] \in Row /\ registration[r].status # "none"
      /\ c.ok \subseteq entered[r] /\ c.ok \in SUBSET Channel
  BY UsedIs DEF Sound, CallOK, VerifyWrite, Rows, Calls
<1>2. CASE ~RowAllowed(r, row)
  <2>1. Answer(c, "failed", {}) /\ RowsStay /\ UNCHANGED <<account, inbox>>
    BY <1>2 DEF VerifyWrite, RowsStay
  <2> QED
    BY <1>1, <2>1, RefusalServes
<1>3. CASE RowAllowed(r, row)
  <2> DEFINE got == IF c.got = "wrong" THEN "wrong" ELSE row.status
  <2>1. /\ registration' = [registration EXCEPT ![r] = row]
        /\ AnswerAs(c, c, got, row.proven) /\ UNCHANGED <<account, inbox, entered>>
    BY <1>3 DEF VerifyWrite, Answer
  <2>2. /\ row \in Row /\ row.proven = c.ok
        /\ row.status = IF c.ok = Channel THEN "pending" ELSE registration[r].status
    BY <1>1, VerifiedRow
  <2>3. row.status # "none" /\ (row.status \in {"pending", "approved"} => row.proven = Channel)
    BY <1>1, <1>3, <2>2 DEF RowAllowed
  <2> HIDE DEF row
  <2>4. Rows' /\ Numbered' /\ Used' = Used
    BY <1>1, <2>1, <2>2, <2>3, RowChanges DEF Sound
  <2>5. got \in RowStatus \cup {"wrong"} /\ got # "none" /\ row.proven \in SUBSET Channel
    BY <1>1, <2>2, <2>3 DEF Row
  <2> HIDE DEF got
  <2>6. PICK e \in Calls :
          /\ calls' \subseteq (calls \ {c}) \cup {e}
          /\ e.op = c.op /\ e.at = "answered" /\ e.got = got /\ e.request = c.request
    <3>1. /\ c \in Calls
          /\ got \in RowStatus \cup {"refused", "started", "wrong", "failed", "session"}
      BY <1>1, <2>5
    <3>2. row.proven \in SUBSET Channel /\ AnswerAs(c, c, got, row.proven)
      BY <2>1, <2>5
    <3> QED
      BY <3>1, <3>2, AnswerIs
  <2>7. CallOK(e)
    BY <1>1, <2>5, <2>6, AnsweredOK
  <2>8. CallOK(e)'
    BY <2>1, <2>4, <2>7, CallStays DEF Sound
  <2>9. \A q \in Request : q # r => registration'[q] = registration[q]
    BY <2>1 DEF Sound, Rows
  <2> QED
    BY <1>1, <2>1, <2>4, <2>6, <2>8, <2>9 DEF Served, Sound, Rest
<1> QED
  BY <1>2, <1>3

LEMMA ResendReadServes ==
  ASSUME Sound, NEW c \in calls, NEW soon \in BOOLEAN, ResendRead(c, soon)
  PROVE  Served(c)
<1> DEFINE r == c.request
<1>1. /\ CallOK(c) /\ c \in Calls /\ r \in Used /\ r \in Request /\ c.op = "resend"
      /\ c.at = "asked" /\ registration[r].proven \in SUBSET Channel
  BY UsedIs DEF Sound, CallOK, ResendRead, Rows, Row
<1>2. RowsStay /\ UNCHANGED <<account, inbox>>
  BY DEF ResendRead, RowsStay
<1>3. CASE Describe(c)
  BY <1>1, <1>2, <1>3, DescribeServes
<1>4. CASE Answer(c, "refused", {})
  BY <1>1, <1>2, <1>4, RefusalServes
<1>5. CASE Proceed(c, [c EXCEPT !.at = "read", !.ok = registration[r].proven])
  <2> DEFINE d1 == [c EXCEPT !.at = "read"]
             d == [d1 EXCEPT !.ok = registration[r].proven]
  <2>1. d1 \in Calls /\ d1.op = c.op /\ d1.at = "read" /\ d1.request = r
    BY <1>1 DEF Calls
  <2>2. PICK e : e = d
    OBVIOUS
  <2>3. e \in Calls /\ e.op = c.op /\ e.at = "read" /\ e.request = r
    <3> HIDE DEF d1
    <3> QED
      BY <1>1, <2>1, <2>2 DEF Calls
  <2>4. calls' = (calls \ {c}) \cup {e}
    BY <1>5, <2>2 DEF Proceed
  <2> HIDE DEF d
  <2>5. CallOK(e)
    BY <1>1, <2>3 DEF CallOK
  <2>6. Rows' /\ Numbered' /\ Used' = Used
    BY <1>2, RowsKept DEF Sound
  <2>7. CallOK(e)'
    BY <1>2, <2>5, <2>6, CallStays DEF Sound, RowsStay
  <2> QED
    BY <1>1, <1>2, <2>3, <2>4, <2>6, <2>7 DEF Served, RowsStay, Sound, Rest
<1> QED
  BY <1>3, <1>4, <1>5 DEF ResendRead

LEMMA ResendWriteServes ==
  ASSUME Sound, NEW c \in calls, NEW arrived, ResendWrite(c, arrived)
  PROVE  Served(c)
<1> DEFINE r == c.request
           n == registration[r].sends + 1
           new == Channel \ c.ok
           row == Resent(registration[r], new, n)
<1>1. /\ CallOK(c) /\ c \in Calls /\ r \in Used /\ r \in Request /\ c.op = "resend"
      /\ registration[r] \in Row /\ registration[r].status # "none"
      /\ c.ok \in SUBSET Channel /\ n \in Nat
      /\ registration[r].proven \subseteq entered[r]
      /\ registration[r].status \in {"pending", "approved"} => registration[r].proven = Channel
      /\ registration \in [Request -> Row]
  <2>1. /\ CallOK(c) /\ c \in Calls /\ r \in Used /\ r \in Request /\ c.op = "resend"
        /\ registration[r] \in Row /\ registration[r].status # "none"
        /\ registration[r].proven \subseteq entered[r]
        /\ registration[r].status \in {"pending", "approved"} => registration[r].proven = Channel
        /\ registration \in [Request -> Row]
    BY UsedIs DEF Sound, CallOK, ResendWrite, Rows
  <2>2. c.ok \in SUBSET Channel
    BY <2>1 DEF Calls
  <2>3. n \in Nat
    BY <2>1 DEF Row
  <2> QED
    BY <2>1, <2>2, <2>3
<1>2. /\ registration' = [registration EXCEPT ![r] = row]
      /\ SendCodes([ch \in new |-> Code(ch, r, n)], arrived)
      /\ AnswerAs(c, c, "verifying", c.ok) /\ UNCHANGED <<account, entered>>
  <2>1. registration' = [registration EXCEPT ![r] = row]
    <3> DEFINE ns == [ch \in Channel |-> IF ch \in new THEN n ELSE registration[r].n[ch]]
               a1 == [registration EXCEPT ![r].n = ns]
               a2 == [a1 EXCEPT ![r].sends = n]
               a3 == [a2 EXCEPT ![r].tries = 0]
               a4 == [a3 EXCEPT ![r].old = FALSE]
    <3>1. registration' = a4
      BY DEF ResendWrite
    <3> QED
      BY <1>1, <3>1 DEF Resent
  <2> QED
    BY <2>1 DEF ResendWrite, Answer
<1>3. row \in Row /\ row.status = registration[r].status /\ row.proven = registration[r].proven
  BY <1>1, ResentRow
<1> HIDE DEF row
<1>4. Rows' /\ Numbered' /\ Used' = Used
  BY <1>1, <1>2, <1>3, RowChanges DEF Sound
<1>5. inbox' \in [Channel -> Sent]
  <2>1. new \in SUBSET Channel
    OBVIOUS
  <2> HIDE DEF n, new
  <2> QED
    BY <1>1, <1>2, <2>1, InboxOK DEF Sound, Rest
<1>6. PICK e \in Calls :
        /\ calls' \subseteq (calls \ {c}) \cup {e}
        /\ e.op = c.op /\ e.at = "answered" /\ e.got = "verifying" /\ e.request = c.request
  <2>1. "verifying" \in RowStatus
    BY DEF RowStatus, Open
  <2> QED
    BY <1>1, <1>2, <2>1, AnswerIs
<1>7. CallOK(e)
  BY <1>1, <1>6, AnsweredOK
<1>8. CallOK(e)'
  BY <1>2, <1>4, <1>7, CallStays DEF Sound
<1>9. \A q \in Request : registration'[q].status = registration[q].status
  BY <1>1, <1>2, <1>3
<1> QED
  BY <1>1, <1>2, <1>4, <1>5, <1>6, <1>8, <1>9 DEF Served, Sound

-----------------------------------------------------------------------------
(* What each step leaves of the invariant                                   *)

LEMMA ServedSound ==
  ASSUME Sound, NEW c \in calls, Served(c), mishaps' \in 0..Mishaps
  PROVE  Sound'
<1>1. PICK d : /\ CallOK(d)' /\ calls' \subseteq (calls \ {c}) \cup {d}
               /\ d.op = c.op
               /\ d.at \in {"asked", "read"} => c.at \in {"asked", "read"}
               /\ \/ Used' = Used
                  \/ /\ c \in Starting /\ d.at = "answered"
                     /\ \E k \in 0..MaxRequest : Used = 1..k /\ Used' = 1..(k + 1)
  BY DEF Served
<1>2. \A x \in calls' : CallOK(x)'
  BY <1>1, CallStays DEF Served, Sound
<1>3. IsFiniteSet(calls') /\ IsFiniteSet(Starting) /\ IsFiniteSet(Used) /\ Cardinality(Used) \in Nat
  <2>1. IsFiniteSet(calls \ {c}) /\ IsFiniteSet(Starting)
    BY FS_RemoveElement, FS_Subset DEF Sound, Counted, Starting
  <2>2. IsFiniteSet((calls \ {c}) \cup {d})
    BY <2>1, FS_AddElement
  <2>3. PICK k \in 0..MaxRequest : Used = 1..k
    BY DEF Sound, Numbered
  <2> QED
    BY <1>1, <2>1, <2>2, <2>3, Count, FS_Subset
<1>4. /\ IsFiniteSet(Starting \ {c})
      /\ Cardinality(Starting \ {c}) = IF c \in Starting THEN Cardinality(Starting) - 1
                                       ELSE Cardinality(Starting)
      /\ Cardinality(Starting) \in Nat
  BY <1>3, FS_RemoveElement, FS_CardinalityType
<1>5. ASSUME Used' = Used, c \in Starting
      PROVE  Counted'
  <2>1. Starting' \subseteq (Starting \ {c}) \cup {d}
    BY <1>1 DEF Starting
  <2>2. /\ IsFiniteSet((Starting \ {c}) \cup {d})
        /\ Cardinality((Starting \ {c}) \cup {d}) <= Cardinality(Starting)
    BY <1>4, <1>5, FS_AddElement
  <2>3. /\ Cardinality(Starting') <= Cardinality((Starting \ {c}) \cup {d})
        /\ Cardinality(Starting') \in Nat
        /\ Cardinality((Starting \ {c}) \cup {d}) \in Nat
    BY <2>1, <2>2, FS_Subset, FS_CardinalityType
  <2>4. Cardinality(Used') = Cardinality(Used)
    BY <1>5
  <2> QED
    BY <1>3, <1>4, <2>2, <2>3, <2>4 DEF Sound, Counted
<1>6. ASSUME Used' = Used, c \notin Starting
      PROVE  Counted'
  <2>1. Starting' \subseteq Starting
    BY <1>1, <1>6 DEF Starting
  <2>2. Cardinality(Starting') <= Cardinality(Starting) /\ Cardinality(Starting') \in Nat
    BY <1>3, <2>1, FS_Subset, FS_CardinalityType
  <2>3. Cardinality(Used') = Cardinality(Used)
    BY <1>6
  <2> QED
    BY <1>3, <1>4, <2>2, <2>3 DEF Sound, Counted
<1>7. ASSUME Used' # Used
      PROVE  Counted'
  <2>1. PICK k \in 0..MaxRequest : Used = 1..k /\ Used' = 1..(k + 1)
    BY <1>1, <1>7
  <2>2. c \in Starting /\ Starting' \subseteq Starting \ {c}
    BY <1>1, <1>7 DEF Starting
  <2>3. /\ Cardinality(Starting') <= Cardinality(Starting) - 1
        /\ Cardinality(Starting') \in Nat
    BY <1>4, <2>2, FS_Subset, FS_CardinalityType
  <2>4. Cardinality(1..k) = k /\ Cardinality(1..(k + 1)) = k + 1
    <3>1. ASSUME NEW m \in Nat PROVE Cardinality(1..m) = m
      BY FS_Interval
    <3> QED
      BY <3>1
  <2>5. Cardinality(Used) = k /\ Cardinality(Used') = k + 1
    BY <2>1, <2>4
  <2> QED
    BY <1>3, <1>4, <2>3, <2>5 DEF Sound, Counted
<1>8. Counted'
  BY <1>5, <1>6, <1>7
<1> QED
  BY <1>2, <1>8 DEF Served, Sound, Rest

\* A function's values are no more than its arguments.
LEMMA ImageCount ==
  ASSUME NEW S, IsFiniteSet(S), NEW f, DOMAIN f = S, NEW T, \A t \in T : \E s \in S : t = f[s]
  PROVE  IsFiniteSet(T) /\ Cardinality(T) <= Cardinality(S) /\ Cardinality(T) \in Nat
<1> DEFINE image == {f[s] : s \in S}
           g == [s \in S |-> f[s]]
<1>1. g \in Surjection(S, image)
  BY DEF Surjection
<1>2. IsFiniteSet(image) /\ Cardinality(image) <= Cardinality(S)
  BY <1>1, FS_Surjection
<1>3. T \subseteq image
  OBVIOUS
<1> HIDE DEF image
<1> QED
  BY <1>2, <1>3, FS_Subset, FS_CardinalityType

\* A screen's step that keeps the rows keeps the calls sound, if no more
\* requests are on their way than before, or one more when there is room.
LEMMA QuietSound ==
  ASSUME Sound, Quiet, mishaps' \in 0..Mishaps,
         \A x \in calls' : CallOK(x),
         Counted'
  PROVE  Sound' /\ Used' = Used
<1>1. RowsStay /\ UNCHANGED <<account, inbox>>
  BY DEF Quiet, RowsStay
<1>2. Rows' /\ Numbered' /\ Used' = Used
  BY <1>1, RowsKept DEF Sound
<1>3. \A x \in calls' : CallOK(x)'
  BY <1>1, <1>2, CallStays DEF Sound, RowsStay
<1> QED
  BY <1>1, <1>2, <1>3 DEF Sound, Rest

\* Calls of gone are given up and perhaps go on unheard; those that are added
\* start nothing.
Exchanged(gone) ==
  \A x \in calls' : \/ x \in calls \ gone
                    \/ \E c \in gone : x \in Unheard(c)
                    \/ CallOK(x) /\ x.op # "start"

LEMMA ExchangeSound ==
  ASSUME Sound, Quiet, mishaps' \in 0..Mishaps, IsFiniteSet(calls'),
         NEW gone \in SUBSET calls, Exchanged(gone)
  PROVE  Sound' /\ Used' = Used
<1> DEFINE f == [c \in Starting |-> IF c \in gone THEN [c EXCEPT !.heard = FALSE] ELSE c]
<1>1. \A x \in calls' : CallOK(x)
  BY UnheardCall DEF Exchanged, Sound
<1>2. ASSUME NEW x \in Starting' PROVE \E c \in Starting : x = f[c]
  <2>1. x \in calls' /\ x.op = "start" /\ x.at \in {"asked", "read"}
    BY DEF Starting
  <2>2. CASE x \in calls \ gone
    <3>1. x \in Starting /\ f[x] = x
      BY <2>1, <2>2 DEF Starting
    <3> QED
      BY <3>1
  <2>3. CASE \E c \in gone : x \in Unheard(c)
    <3>1. PICK c \in gone : x \in Unheard(c)
      BY <2>3
    <3>2. x = [c EXCEPT !.heard = FALSE] /\ c.op = x.op /\ c.at = x.at
      BY <3>1, UnheardCall DEF Sound
    <3>3. c \in Starting
      BY <2>1, <3>2 DEF Starting
    <3>4. f[c] = x
      BY <3>2, <3>3
    <3> QED
      BY <3>3, <3>4
  <2> QED
    BY <2>1, <2>2, <2>3 DEF Exchanged
<1>3. IsFiniteSet(Starting) /\ DOMAIN f = Starting
  BY FS_Subset DEF Sound, Counted, Starting
<1> HIDE DEF f
<1>4. Cardinality(Starting') <= Cardinality(Starting) /\ Cardinality(Starting') \in Nat
  <2>1. PICK T : T = Starting'
    OBVIOUS
  <2>2. \A t \in T : \E c \in Starting : t = f[c]
    BY <1>2, <2>1
  <2>3. Cardinality(T) <= Cardinality(Starting) /\ Cardinality(T) \in Nat
    BY <1>3, <2>2, ImageCount
  <2> QED
    BY <2>1, <2>3
<1>5. Used' = Used /\ Cardinality(Used') = Cardinality(Used)
  BY DEF Used, Quiet
<1>6. Cardinality(Used) \in Nat /\ Cardinality(Starting) \in Nat
  <2>1. PICK k \in 0..MaxRequest : Used = 1..k
    BY DEF Sound, Numbered
  <2> QED
    BY <1>3, <2>1, Count, FS_CardinalityType
<1>7. Counted'
  BY <1>4, <1>5, <1>6 DEF Sound, Counted
<1> QED
  BY <1>1, <1>7, QuietSound

\* A request is sent off while there is room for it.
LEMMA SubmitSound ==
  ASSUME Sound, Quiet, mishaps' \in 0..Mishaps, MayStart, NEW by \in {"app", "web"},
         calls' = calls \cup {Call("start", by, 0, {})}
  PROVE  Sound' /\ Used' = Used
<1> DEFINE new == Call("start", by, 0, {})
<1>1. CallOK(new)
  BY NewCall DEF Op, Ticket
<1>2. \A x \in calls' : CallOK(x)
  BY <1>1 DEF Sound
<1> HIDE DEF new
<1>3. IsFiniteSet(calls') /\ Starting' \subseteq Starting \cup {new}
  BY FS_AddElement DEF Sound, Counted, Starting, new
<1>4. IsFiniteSet(Starting) /\ Cardinality(Starting) \in Nat
  BY FS_Subset, FS_CardinalityType DEF Sound, Counted, Starting
<1>5. /\ IsFiniteSet(Starting \cup {new})
      /\ Cardinality(Starting \cup {new}) <= Cardinality(Starting) + 1
  BY <1>4, FS_AddElement
<1>6. /\ Cardinality(Starting') <= Cardinality(Starting) + 1
      /\ Cardinality(Starting') \in Nat
  <2>1. /\ Cardinality(Starting') <= Cardinality(Starting \cup {new})
        /\ Cardinality(Starting') \in Nat /\ Cardinality(Starting \cup {new}) \in Nat
    BY <1>3, <1>5, FS_Subset, FS_CardinalityType
  <2> QED
    BY <1>4, <1>5, <2>1
<1>7. Used' = Used /\ Cardinality(Used') = Cardinality(Used)
  BY DEF Used, Quiet
<1>8. Cardinality(Used) \in Nat
  <2>1. PICK k \in 0..MaxRequest : Used = 1..k
    BY DEF Sound, Numbered
  <2> QED
    BY <2>1, Count
<1>9. Counted'
  BY <1>3, <1>4, <1>6, <1>7, <1>8 DEF Counted, MayStart
<1> QED
  BY <1>2, <1>9, QuietSound

-----------------------------------------------------------------------------
(* The screens' steps                                                       *)

\* A step of a screen: the rows stay, and what the screen shows is sound.
ScreenStep == Sound' /\ Screens'

PhoneOK(p) ==
  /\ p \in [stage : Stage, ticket : Ticket, shown : SUBSET Channel, session : Ticket]
  /\ p.ticket \in Used \cup {0}
WebOK(w) ==
  /\ w \in [page : Page, ticket : Ticket, shown : SUBSET Channel]
  /\ w.ticket \in Used \cup {0}
  /\ w.page # "details" => w.ticket # 0

LEMMA ScreensAre ==
  ASSUME Used' = Used
  PROVE  Screens' <=> PhoneOK(phone') /\ WebOK(web')
  BY DEF Screens, PhoneOK, WebOK

LEMMA CodesTyped ==
  ASSUME Sound, NEW shown
  PROVE  Latest(shown) \in SUBSET Sent
  BY DEF Sound, Rest, Latest

LEMMA AskedCall ==
  ASSUME Sound, Screens, NEW op \in Op \ {"start"}, NEW by \in {"app", "web"},
         NEW r \in Used, NEW typed \in SUBSET Sent
  PROVE  CallOK(Call(op, by, r, typed)) /\ Call(op, by, r, typed).op # "start"
  BY NewCall, UsedIs DEF Sound, Ticket

\* A screen asks about the request it goes by.
LEMMA AskSound ==
  ASSUME Sound, Screens, Quiet, mishaps' \in 0..Mishaps,
         NEW op \in Op \ {"start"}, NEW by \in {"app", "web"},
         NEW r \in Used, NEW typed \in SUBSET Sent,
         calls' = calls \cup {Call(op, by, r, typed)}
  PROVE  Sound' /\ Used' = Used
<1> DEFINE new == Call(op, by, r, typed)
<1>1. CallOK(new) /\ new.op # "start"
  BY AskedCall
<1> HIDE DEF new
<1>2. IsFiniteSet(calls') /\ Exchanged({})
  BY <1>1, FS_AddElement DEF Sound, Counted, Exchanged, new
<1> QED
  BY <1>2, ExchangeSound

\* A call is over, and at most one follows it, about a request there is.
LEMMA OverSound ==
  ASSUME Sound, Screens, Quiet, mishaps' \in 0..Mishaps, NEW c,
         NEW more, IsFiniteSet(more), \A x \in more : CallOK(x) /\ x.op # "start",
         calls' = (calls \ {c}) \cup more
  PROVE  Sound' /\ Used' = Used
<1>1. IsFiniteSet(calls \ {c})
  BY FS_RemoveElement DEF Sound, Counted
<1>2. IsFiniteSet(calls') /\ Exchanged({})
  BY <1>1, FS_Union DEF Exchanged
<1> QED
  BY <1>2, ExchangeSound

LEMMA SameCalls ==
  ASSUME Sound, Quiet, mishaps' \in 0..Mishaps, UNCHANGED calls
  PROVE  Sound' /\ Used' = Used
<1>1. IsFiniteSet(calls') /\ Exchanged({})
  BY DEF Sound, Counted, Exchanged
<1> QED
  BY <1>1, ExchangeSound

\* What is left of a call nobody listens to any more.
LEMMA UnheardFinite ==
  ASSUME NEW c
  PROVE  IsFiniteSet(Unheard(c))
  BY FS_EmptySet, FS_Singleton DEF Unheard

LEMMA MishapsLeft ==
  ASSUME Rest, Plain \/ Mishap \/ Cost(1) \/ Cost(2)
  PROVE  mishaps' \in 0..Mishaps
  BY DEF Rest, Plain, Mishap, Cost

\* The changes of the phone's screen, one field at a time.
LEMMA PhoneField ==
  ASSUME NEW p, PhoneOK(p), NEW stage \in Stage, NEW ticket \in Used \cup {0},
         NEW shown \in SUBSET Channel, NEW session \in Ticket, Used \subseteq Request
  PROVE  /\ PhoneOK([p EXCEPT !.stage = stage]) /\ PhoneOK([p EXCEPT !.ticket = ticket])
         /\ PhoneOK([p EXCEPT !.shown = shown]) /\ PhoneOK([p EXCEPT !.session = session])
<1>1. ticket \in Ticket
  BY DEF Ticket
<1>2. PhoneOK([p EXCEPT !.stage = stage])
  BY DEF PhoneOK
<1>3. PhoneOK([p EXCEPT !.ticket = ticket])
  BY <1>1 DEF PhoneOK
<1>4. PhoneOK([p EXCEPT !.shown = shown])
  BY DEF PhoneOK
<1>5. PhoneOK([p EXCEPT !.session = session])
  BY DEF PhoneOK
<1> QED
  BY <1>2, <1>3, <1>4, <1>5

LEMMA PhoneMoves ==
  ASSUME NEW p, PhoneOK(p), NEW stage \in Stage, NEW ticket \in Used \cup {0},
         Used \subseteq Request
  PROVE  PhoneOK([p EXCEPT !.stage = stage, !.ticket = ticket])
<1> DEFINE p1 == [p EXCEPT !.stage = stage]
<1>1. PhoneOK(p1)
  BY PhoneField, 0 \in Used \cup {0}, {} \in SUBSET Channel, 0 \in Ticket DEF Ticket
<1> HIDE DEF p1
<1>2. PhoneOK([p1 EXCEPT !.ticket = ticket])
  BY <1>1, PhoneField, {} \in SUBSET Channel, 0 \in Ticket DEF Ticket
<1> QED
  BY <1>2 DEF p1

\* The answer a screen lands on is one it knows.
LEMMA LandedOK ==
  ASSUME PhoneOK(phone), NEW c \in Calls, Used \subseteq Request,
         c.got \in (RowStatus \ {"none"}) \cup {"session"}
  PROVE  PhoneOK(Landed(c))
<1> USE DEF Ticket
<1>1. c.ok \in SUBSET Channel /\ c.request \in Ticket /\ 0 \in Used \cup {0}
  BY DEF Calls
<1>2. CASE c.got = "verifying"
  <2> DEFINE p1 == [phone EXCEPT !.stage = "codes"]
  <2>1. PhoneOK(p1)
    BY <1>1, PhoneField DEF Stage
  <2> HIDE DEF p1
  <2>2. PhoneOK([p1 EXCEPT !.shown = c.ok])
    BY <1>1, <2>1, PhoneField DEF Stage
  <2>3. Landed(c) = [p1 EXCEPT !.shown = c.ok]
    BY <1>2 DEF Landed, p1
  <2> QED
    BY <2>2, <2>3
<1>3. CASE c.got = "pending"
  BY <1>1, <1>3, PhoneField DEF Stage, Landed
<1>4. CASE c.got = "rejected"
  BY <1>1, <1>4, PhoneField DEF Stage, Landed
<1>5. CASE c.got = "withdrawn"
  BY <1>1, <1>5, PhoneMoves DEF Stage, Landed
<1>6. CASE c.got = "approved"
  BY <1>1, <1>6, PhoneField DEF Stage, Landed
<1>7. CASE c.got = "session"
  <2> DEFINE p1 == [phone EXCEPT !.stage = "finish", !.ticket = 0]
  <2>1. PhoneOK(p1)
    BY <1>1, PhoneMoves DEF Stage
  <2> HIDE DEF p1
  <2>2. PhoneOK([p1 EXCEPT !.session = c.request])
    BY <1>1, <2>1, PhoneField DEF Stage
  <2>3. Landed(c) = [p1 EXCEPT !.session = c.request]
    BY <1>7 DEF Landed, p1
  <2> QED
    BY <2>2, <2>3
<1> QED
  BY <1>2, <1>3, <1>4, <1>5, <1>6, <1>7 DEF RowStatus, Open, Decided

\* A page made from a request.
LEMMA RenderedOK ==
  ASSUME Rows, NEW r \in Used \cup {0}
  PROVE  WebOK(Rendered(r))
<1>1. CASE r = 0
  BY <1>1 DEF WebOK, Rendered, PageOf, Page, Ticket
<1>2. CASE r # 0
  <2>1. r \in Request /\ registration[r] \in Row /\ r \in Ticket
    BY <1>2, UsedIs DEF Rows, Ticket
  <2>2. registration[r].proven \in SUBSET Channel /\ registration[r].status \in RowStatus
    BY <2>1 DEF Row
  <2>3. PageOf(r) \in Page
    BY <1>2, <2>2 DEF PageOf, Page, RowStatus, Open, Decided
  <2> QED
    BY <1>2, <2>1, <2>2, <2>3 DEF WebOK, Rendered
<1> QED
  BY <1>1, <1>2

-----------------------------------------------------------------------------
(* One lemma for each of them                                               *)

Whole == Sound /\ Screens

LEMMA WholeIs ==
  ASSUME Whole
  PROVE  /\ Sound /\ Screens /\ PhoneOK(phone) /\ WebOK(web) /\ Rest /\ Rows
         /\ Used \subseteq Request /\ \A c \in calls : CallOK(c) /\ c \in Calls
  BY UsedIs DEF Whole, Sound, Screens, PhoneOK, WebOK, CallOK

LEMMA OpenScreenKeeps ==
  ASSUME Whole, OpenScreen
  PROVE  Whole'
<1>1. Quiet /\ mishaps' \in 0..Mishaps /\ UNCHANGED web
  BY WholeIs, MishapsLeft DEF OpenScreen
<1>2. Sound' /\ Used' = Used
  <2>1. CASE phone.ticket = 0
    BY <1>1, <2>1, WholeIs, SameCalls DEF OpenScreen
  <2>2. CASE phone.ticket # 0
    BY <1>1, <2>2, WholeIs, AskSound DEF OpenScreen, Ask, PhoneOK, Op
  <2> QED
    BY <2>1, <2>2
<1>3. PhoneOK(phone')
  BY WholeIs, PhoneField, 0 \in Used \cup {0}, {} \in SUBSET Channel DEF OpenScreen, Stage, Ticket
<1> QED
  BY <1>1, <1>2, <1>3, WholeIs, ScreensAre DEF Whole

LEMMA SubmitDetailsKeeps ==
  ASSUME Whole, SubmitDetails
  PROVE  Whole'
<1>1. Quiet /\ mishaps' \in 0..Mishaps /\ UNCHANGED <<phone, web>>
  BY WholeIs, MishapsLeft DEF SubmitDetails, If
<1>2. Sound' /\ Used' = Used
  BY <1>1, WholeIs, SubmitSound DEF SubmitDetails
<1> QED
  BY <1>1, <1>2, WholeIs, ScreensAre DEF Whole

LEMMA ConfirmKeeps ==
  ASSUME Whole, Confirm
  PROVE  Whole'
<1>1. Quiet /\ mishaps' \in 0..Mishaps /\ UNCHANGED <<phone, web>>
  BY WholeIs, MishapsLeft DEF Confirm, If
<1>2. phone.ticket \in Used
  BY WholeIs DEF Confirm, PhoneOK
<1>3. Sound' /\ Used' = Used
  BY <1>1, <1>2, WholeIs, CodesTyped, AskSound DEF Confirm, Ask, Op
<1> QED
  BY <1>1, <1>3, WholeIs, ScreensAre DEF Whole

LEMMA ResendKeeps ==
  ASSUME Whole, Resend
  PROVE  Whole'
<1>1. Quiet /\ mishaps' \in 0..Mishaps /\ UNCHANGED <<phone, web>>
  BY WholeIs, MishapsLeft DEF Resend, If
<1>2. phone.ticket \in Used
  BY WholeIs DEF Resend, PhoneOK
<1>3. Sound' /\ Used' = Used
  BY <1>1, <1>2, WholeIs, AskSound DEF Resend, Ask, Op
<1> QED
  BY <1>1, <1>3, WholeIs, ScreensAre DEF Whole

LEMMA CheckKeeps ==
  ASSUME Whole, Check
  PROVE  Whole'
<1>1. Quiet /\ mishaps' \in 0..Mishaps /\ UNCHANGED <<phone, web>>
  BY WholeIs, MishapsLeft DEF Check
<1>2. phone.ticket \in Used
  BY WholeIs DEF Check, PhoneOK
<1>3. Sound' /\ Used' = Used
  BY <1>1, <1>2, WholeIs, AskSound DEF Check, Ask, Op
<1> QED
  BY <1>1, <1>3, WholeIs, ScreensAre DEF Whole

LEMMA StartOverKeeps ==
  ASSUME Whole, StartOver \/ Back
  PROVE  Whole'
<1>1. Quiet /\ mishaps' \in 0..Mishaps /\ UNCHANGED <<calls, web>>
  BY WholeIs, MishapsLeft DEF StartOver, Back, If
<1>2. Sound' /\ Used' = Used
  BY <1>1, WholeIs, SameCalls
<1>3. PhoneOK(phone')
  <2>1. PICK stage \in {"details", "away"} :
          phone' = [phone EXCEPT !.stage = stage, !.ticket = 0]
    BY DEF StartOver, Back
  <2>2. stage \in Stage /\ PhoneOK(phone) /\ Used \subseteq Request
    BY WholeIs DEF Stage
  <2> QED
    BY <2>1, <2>2, PhoneMoves, 0 \in Used \cup {0}
<1> QED
  BY <1>1, <1>2, <1>3, WholeIs, ScreensAre DEF Whole

LEMMA CloseKeeps ==
  ASSUME Whole, Close
  PROVE  Whole'
<1> DEFINE gone == {x \in calls : x.by = "app"}
           left == UNION {Unheard(c) : c \in gone}
<1>1. Quiet /\ mishaps' \in 0..Mishaps /\ UNCHANGED web
  BY WholeIs, MishapsLeft DEF Close, Left
<1>2. /\ calls' = {c \in calls : c.by = "web"} \cup left
      /\ phone' = [phone EXCEPT !.stage = "away"]
  BY DEF Close
<1>3. Exchanged(gone)
  <2>1. \A x \in calls : x.by \in {"app", "web"}
    BY WholeIs DEF Calls
  <2> QED
    BY <1>2, <2>1 DEF Exchanged
<1>4. IsFiniteSet(calls')
  <2>1. IsFiniteSet(calls) /\ IsFiniteSet(gone) /\ IsFiniteSet({c \in calls : c.by = "web"})
    BY WholeIs, FS_Subset DEF Sound, Counted
  <2>2. IsFiniteSet({Unheard(c) : c \in gone})
    <3> DEFINE f == [c \in gone |-> Unheard(c)]
               images == {Unheard(c) : c \in gone}
    <3>1. DOMAIN f = gone /\ \A t \in images : \E c \in gone : t = f[c]
      OBVIOUS
    <3> HIDE DEF f, images, gone
    <3> QED
      BY <2>1, <3>1, ImageCount DEF images
  <2>3. IsFiniteSet(left)
    BY <2>2, FS_UNION, UnheardFinite
  <2> HIDE DEF left
  <2> QED
    BY <1>2, <2>1, <2>3, FS_Union
<1>5. Sound' /\ Used' = Used
  <2> HIDE DEF left
  <2> QED
    BY <1>1, <1>3, <1>4, WholeIs, ExchangeSound
<1>6. PhoneOK(phone')
  BY <1>2, WholeIs, PhoneField, 0 \in Used \cup {0}, {} \in SUBSET Channel DEF Stage, Ticket
<1> QED
  BY <1>1, <1>5, <1>6, WholeIs, ScreensAre DEF Whole

LEMMA HearStartKeeps ==
  ASSUME Whole, NEW c \in calls, HearStart(c)
  PROVE  Whole'
<1>1. Quiet /\ mishaps' \in 0..Mishaps /\ UNCHANGED web
  BY WholeIs, MishapsLeft DEF HearStart
<1>2. CASE c.got = "started"
  <2> DEFINE new == Call("status", "app", c.request, {})
  <2>1. c.request \in Used /\ c.request \in Ticket
    BY <1>2, WholeIs DEF CallOK, Calls
  <2>2. calls' = (calls \ {c}) \cup {new} /\ phone' = [phone EXCEPT !.ticket = c.request]
    BY <1>2 DEF HearStart, Proceed
  <2>3. CallOK(new) /\ new.op # "start"
    BY <2>1, WholeIs, AskedCall, {} \in SUBSET Sent DEF Op
  <2> HIDE DEF new
  <2>4. Sound' /\ Used' = Used
    <3>1. IsFiniteSet({new}) /\ \A x \in {new} : CallOK(x) /\ x.op # "start"
      BY <2>3, FS_Singleton
    <3> QED
      BY <1>1, <2>2, <3>1, WholeIs, OverSound
  <2>5. PhoneOK(phone')
    BY <2>1, <2>2, WholeIs, PhoneField, {} \in SUBSET Channel DEF Stage, Ticket
  <2> QED
    BY <1>1, <2>4, <2>5, WholeIs, ScreensAre DEF Whole
<1>3. CASE c.got # "started"
  <2>1. calls' = (calls \ {c}) \cup {} /\ UNCHANGED phone
    BY <1>3 DEF HearStart
  <2>2. Sound' /\ Used' = Used
    BY <1>1, <2>1, WholeIs, OverSound, FS_EmptySet
  <2> QED
    BY <1>1, <2>1, <2>2, WholeIs, ScreensAre DEF Whole
<1> QED
  BY <1>2, <1>3

LEMMA HearStatusKeeps ==
  ASSUME Whole, NEW c \in calls, HearStatus(c)
  PROVE  Whole'
<1>1. Quiet /\ mishaps' \in 0..Mishaps /\ UNCHANGED web
  BY WholeIs, MishapsLeft DEF HearStatus
<1>2. calls' = (calls \ {c}) \cup {} /\ phone' = Landed(c)
  BY DEF HearStatus
<1>3. Sound' /\ Used' = Used
  BY <1>1, <1>2, WholeIs, OverSound, FS_EmptySet
<1>4. c.got \in (RowStatus \ {"none"}) \cup {"session"}
  BY WholeIs DEF HearStatus, PhoneCalls, CallOK
<1>5. PhoneOK(phone')
  BY <1>2, <1>4, WholeIs, LandedOK
<1> QED
  BY <1>1, <1>3, <1>5, WholeIs, ScreensAre DEF Whole

LEMMA HearVerifyKeeps ==
  ASSUME Whole, NEW c \in calls, HearVerify(c)
  PROVE  Whole'
<1>1. Quiet /\ mishaps' \in 0..Mishaps /\ UNCHANGED web
  BY WholeIs, MishapsLeft DEF HearVerify
<1>2. CASE c.got \in {"wrong", "refused", "failed"}
  <2> DEFINE more == IF phone.ticket = 0 THEN {} ELSE {Call("status", "app", phone.ticket, {})}
  <2>1. calls' = (calls \ {c}) \cup more /\ UNCHANGED phone
    BY <1>2 DEF HearVerify, LookAgain
  <2>2. IsFiniteSet(more) /\ \A x \in more : CallOK(x) /\ x.op # "start"
    <3>1. CASE phone.ticket = 0
      BY <3>1, FS_EmptySet
    <3>2. CASE phone.ticket # 0
      <4>1. phone.ticket \in Used
        BY <3>2, WholeIs DEF PhoneOK
      <4>2. /\ CallOK(Call("status", "app", phone.ticket, {}))
            /\ Call("status", "app", phone.ticket, {}).op # "start"
        BY <4>1, WholeIs, AskedCall, {} \in SUBSET Sent DEF Op
      <4> QED
        BY <3>2, <4>2, FS_Singleton
    <3> QED
      BY <3>1, <3>2
  <2> HIDE DEF more
  <2>3. Sound' /\ Used' = Used
    BY <1>1, <2>1, <2>2, WholeIs, OverSound
  <2> QED
    BY <1>1, <2>1, <2>3, WholeIs, ScreensAre DEF Whole
<1>3. CASE c.got \notin {"wrong", "refused", "failed"}
  <2>1. calls' = (calls \ {c}) \cup {} /\ phone' = Landed(c)
    BY <1>3 DEF HearVerify
  <2>2. Sound' /\ Used' = Used
    BY <1>1, <2>1, WholeIs, OverSound, FS_EmptySet
  <2>3. c.got \in RowStatus \ {"none"}
    BY <1>3, WholeIs DEF HearVerify, PhoneCalls, CallOK
  <2>4. PhoneOK(phone')
    BY <2>1, <2>3, WholeIs, LandedOK
  <2> QED
    BY <1>1, <2>2, <2>4, WholeIs, ScreensAre DEF Whole
<1> QED
  BY <1>2, <1>3

LEMMA HearResendKeeps ==
  ASSUME Whole, NEW c \in calls, HearResend(c)
  PROVE  Whole'
<1>1. /\ Quiet /\ mishaps' \in 0..Mishaps /\ UNCHANGED <<phone, web>>
      /\ calls' = (calls \ {c}) \cup {}
  BY WholeIs, MishapsLeft DEF HearResend
<1>2. Sound' /\ Used' = Used
  BY <1>1, WholeIs, OverSound, FS_EmptySet
<1> QED
  BY <1>1, <1>2, WholeIs, ScreensAre DEF Whole

\* A call is given up, and perhaps the request looked up.
LEMMA GoneSound ==
  ASSUME Whole, Quiet, mishaps' \in 0..Mishaps, NEW c \in calls,
         \A x \in calls' : \/ x \in (calls \ {c}) \cup Unheard(c)
                           \/ phone.ticket # 0 /\ x = Call("status", "app", phone.ticket, {})
  PROVE  Sound' /\ Used' = Used
<1> DEFINE new == Call("status", "app", phone.ticket, {})
<1>1. phone.ticket # 0 => CallOK(new) /\ new.op # "start"
  <2>1. phone.ticket # 0 => phone.ticket \in Used
    BY WholeIs DEF PhoneOK
  <2> QED
    BY <2>1, WholeIs, AskedCall, {} \in SUBSET Sent DEF Op
<1> HIDE DEF new
<1>2. Exchanged({c})
  BY <1>1 DEF Exchanged, new
<1>3. IsFiniteSet(calls')
  <2>1. IsFiniteSet((calls \ {c}) \cup Unheard(c))
    BY WholeIs, UnheardFinite, FS_RemoveElement, FS_Union DEF Sound, Counted
  <2>2. IsFiniteSet(((calls \ {c}) \cup Unheard(c)) \cup {new})
    BY <2>1, FS_AddElement
  <2>3. calls' \subseteq ((calls \ {c}) \cup Unheard(c)) \cup {new}
    BY DEF new
  <2> QED
    BY <2>2, <2>3, FS_Subset
<1> QED
  BY <1>2, <1>3, WholeIs, ExchangeSound

LEMMA GiveUpKeeps ==
  ASSUME Whole, NEW c \in calls, GiveUp(c)
  PROVE  Whole'
<1>1. Quiet /\ mishaps' \in 0..Mishaps /\ UNCHANGED web
  BY WholeIs, MishapsLeft DEF GiveUp, Left
<1>2. Sound' /\ Used' = Used
  <2>1. \A x \in calls' : \/ x \in (calls \ {c}) \cup Unheard(c)
                          \/ phone.ticket # 0 /\ x = Call("status", "app", phone.ticket, {})
    BY DEF GiveUp
  <2> QED
    BY <1>1, <2>1, GoneSound
<1>3. PhoneOK(phone')
  <2>1. phone' = phone \/ phone' = [phone EXCEPT !.stage = "details"]
    BY DEF GiveUp, OutOfReach
  <2>2. PhoneOK([phone EXCEPT !.stage = "details"])
    BY WholeIs, PhoneField, 0 \in Used \cup {0}, {} \in SUBSET Channel DEF Stage, Ticket
  <2> QED
    BY <2>1, <2>2, WholeIs
<1> QED
  BY <1>1, <1>2, <1>3, WholeIs, ScreensAre DEF Whole

LEMMA WebLosesKeeps ==
  ASSUME Whole, NEW c \in calls, WebLoses(c)
  PROVE  Whole'
<1>1. Quiet /\ mishaps' \in 0..Mishaps /\ UNCHANGED <<phone, web>>
  BY WholeIs, MishapsLeft DEF WebLoses
<1>2. Sound' /\ Used' = Used
  <2>1. \A x \in calls' : \/ x \in (calls \ {c}) \cup Unheard(c)
                          \/ phone.ticket # 0 /\ x = Call("status", "app", phone.ticket, {})
    BY DEF WebLoses
  <2> QED
    BY <1>1, <2>1, GoneSound
<1> QED
  BY <1>1, <1>2, WholeIs, ScreensAre DEF Whole

LEMMA WebHearsKeeps ==
  ASSUME Whole, NEW c \in calls, WebHears(c)
  PROVE  Whole'
<1>1. Quiet /\ mishaps' \in 0..Mishaps /\ UNCHANGED phone /\ calls' = (calls \ {c}) \cup {}
  BY WholeIs, MishapsLeft DEF WebHears
<1>2. Sound' /\ Used' = Used
  BY <1>1, WholeIs, OverSound, FS_EmptySet
<1>3. WebOK(web')
  <2>1. c.got = "started" => c.request \in Used \cup {0}
    BY WholeIs DEF CallOK
  <2>2. web.ticket \in Used \cup {0}
    BY WholeIs DEF WebOK
  <2>3. \/ c.got = "started" /\ web' = Rendered(c.request)
        \/ web' = Rendered(web.ticket) \/ web' = web
    BY DEF WebHears
  <2> QED
    BY <2>1, <2>2, <2>3, WholeIs, RenderedOK
<1> QED
  BY <1>1, <1>2, <1>3, WholeIs, ScreensAre DEF Whole

LEMMA WebTurnsKeeps ==
  ASSUME Whole, Reload \/ WebStartOver \/ ReloadBlind
  PROVE  Whole'
<1>1. Quiet /\ mishaps' \in 0..Mishaps /\ UNCHANGED <<calls, phone>>
  BY WholeIs, MishapsLeft DEF Reload, WebStartOver, ReloadBlind, If
<1>2. Sound' /\ Used' = Used
  BY <1>1, WholeIs, SameCalls
<1>3. WebOK(web')
  <2>1. WebOK(Rendered(0)) /\ WebOK(Rendered(web.ticket))
    <3>1. web.ticket \in Used \cup {0} /\ Rows
      BY WholeIs DEF WebOK
    <3> QED
      BY <3>1, RenderedOK
  <2>2. WebOK([web EXCEPT !.page = "details"])
    BY WholeIs DEF WebOK, Page
  <2> QED
    BY <2>1, <2>2 DEF Reload, WebStartOver, ReloadBlind
<1> QED
  BY <1>1, <1>2, <1>3, WholeIs, ScreensAre DEF Whole

LEMMA WebSubmitKeeps ==
  ASSUME Whole, WebSubmit
  PROVE  Whole'
<1>1. Quiet /\ mishaps' \in 0..Mishaps /\ UNCHANGED <<phone, web>>
  BY WholeIs, MishapsLeft DEF WebSubmit
<1>2. Sound' /\ Used' = Used
  BY <1>1, WholeIs, SubmitSound DEF WebSubmit
<1> QED
  BY <1>1, <1>2, WholeIs, ScreensAre DEF Whole

LEMMA WebAsksKeep ==
  ASSUME Whole, WebConfirm \/ WebResend
  PROVE  Whole'
<1>1. Quiet /\ mishaps' \in 0..Mishaps /\ UNCHANGED <<phone, web>>
  BY WholeIs, MishapsLeft DEF WebConfirm, WebResend, If
<1>2. web.ticket \in Used
  BY WholeIs DEF WebConfirm, WebResend, WebOK
<1>3. PICK op \in {"verify", "resend"}, typed \in SUBSET Sent :
        calls' = calls \cup {Call(op, "web", web.ticket, typed)}
  BY WholeIs, CodesTyped, {} \in SUBSET Sent DEF WebConfirm, WebResend, WebAsk
<1>4. Sound' /\ Used' = Used
  <2>1. op \in Op \ {"start"}
    BY DEF Op
  <2> QED
    BY <1>1, <1>2, <1>3, <2>1, WholeIs, AskSound
<1> QED
  BY <1>1, <1>4, WholeIs, ScreensAre DEF Whole

\* The gateway's steps.
LEMMA ServeIs ==
  ASSUME Whole, NEW c \in calls, NEW arrived,
         Serve(c, arrived) \/ StartWrite(c, arrived) \/ ResendWrite(c, arrived)
           \/ ResendRead(c, TRUE)
  PROVE  Served(c)
  BY WholeIs, StatusServes, StartCheckServes, StartWriteServes, VerifyReadServes,
     VerifyWriteServes, ResendReadServes, ResendWriteServes, TRUE \in BOOLEAN, FALSE \in BOOLEAN
  DEF Serve

LEMMA GatewayStep ==
  ASSUME Whole, (\E by \in {"app", "web"} : Gateway(by, Op)) \/ MessageLost \/ ResendTooSoon
  PROVE  /\ \E c \in calls : Served(c)
         /\ UNCHANGED <<phone, web>> /\ mishaps' \in 0..Mishaps
<1>1. UNCHANGED <<phone, web>> /\ mishaps' \in 0..Mishaps
  BY WholeIs, MishapsLeft DEF Gateway, MessageLost, ResendTooSoon
<1>2. CASE \E by \in {"app", "web"} : Gateway(by, Op)
  <2>1. PICK c \in calls : Serve(c, Channel)
    BY <1>2 DEF Gateway
  <2> QED
    BY <1>1, <2>1, ServeIs
<1>3. CASE MessageLost
  <2>1. PICK c \in calls, arrived \in {{}, {"email"}} :
          StartWrite(c, arrived) \/ ResendWrite(c, arrived)
    BY <1>3 DEF MessageLost
  <2> QED
    BY <1>1, <2>1, ServeIs
<1>4. CASE ResendTooSoon
  <2>1. PICK c \in calls : ResendRead(c, TRUE)
    BY <1>4 DEF ResendTooSoon
  <2> QED
    BY <1>1, <2>1, ServeIs
<1> QED
  BY <1>2, <1>3, <1>4

LEMMA ScreensStay ==
  ASSUME Screens, Used \subseteq Used', UNCHANGED <<phone, web>>
  PROVE  Screens'
  BY DEF Screens

LEMMA GatewayKeeps ==
  ASSUME Whole, (\E by \in {"app", "web"} : Gateway(by, Op)) \/ MessageLost \/ ResendTooSoon
  PROVE  Whole'
<1>1. PICK c \in calls : Served(c)
  BY GatewayStep
<1>2. Sound'
  BY <1>1, GatewayStep, WholeIs, ServedSound
<1>3. Screens'
  BY <1>1, GatewayStep, WholeIs, ScreensStay DEF Served
<1> QED
  BY <1>2, <1>3 DEF Whole

\* The fields of a row that time and the administrator change.
LEMMA RowField ==
  ASSUME NEW row \in Row
  PROVE  /\ [row EXCEPT !.old = TRUE] \in Row
         /\ [row EXCEPT !.old = TRUE].status = row.status
         /\ [row EXCEPT !.old = TRUE].proven = row.proven
BY DEF Row

LEMMA RowStatusField ==
  ASSUME NEW row \in Row, NEW status \in RowStatus
  PROVE  /\ [row EXCEPT !.status = status] \in Row
         /\ [row EXCEPT !.status = status].status = status
         /\ [row EXCEPT !.status = status].proven = row.proven
BY DEF Row

LEMMA RowRoleField ==
  ASSUME NEW row \in Row, NEW role \in {"none", "inspector", "office"}
  PROVE  /\ [row EXCEPT !.role = role] \in Row
         /\ [row EXCEPT !.role = role].status = row.status
         /\ [row EXCEPT !.role = role].proven = row.proven
BY DEF Row

\* What the administrator and time do to a row: it was open, and its contacts
\* are as proven as before.
Turned(r) ==
  \E row \in Row :
    /\ registration' = [registration EXCEPT ![r] = row]
    /\ row.status # "none" /\ row.proven = registration[r].proven
    /\ row.status \in {"pending", "approved"} => row.proven = Channel
    /\ registration[r].status \in Open

LEMMA TurnedRows ==
  ASSUME Whole, (\E r \in Request : Decide(r)) \/ CodesExpire
  PROVE  /\ \E r \in Request : Turned(r)
         /\ UNCHANGED <<calls, inbox, entered, phone, web>> /\ mishaps' \in 0..Mishaps
         /\ account' \in {"none", "inspector", "office"}
<1>1. /\ UNCHANGED <<calls, inbox, entered, phone, web>> /\ mishaps' \in 0..Mishaps
      /\ account' \in {"none", "inspector", "office"}
  BY WholeIs, MishapsLeft DEF Decide, CodesExpire, HalfHour, Reject, Approve, Rest
<1>2. \A r \in Request :
        /\ registration[r] \in Row /\ registration \in [Request -> Row]
        /\ registration[r].status \in {"pending", "approved"} => registration[r].proven = Channel
  BY WholeIs DEF Rows
<1>3. ASSUME NEW r \in Request, HalfHour(r) PROVE Turned(r)
  <2>1. PICK row : row = [registration[r] EXCEPT !.old = TRUE]
    OBVIOUS
  <2>2. registration' = [registration EXCEPT ![r] = row] /\ registration[r].status = "verifying"
    BY <1>3, <2>1 DEF HalfHour
  <2>3. row \in Row /\ row.status = "verifying" /\ row.proven = registration[r].proven
    <3>1. registration[r] \in Row
      BY <1>2
    <3> QED
      BY <2>1, <2>2, <3>1, RowField
  <2> QED
    BY <2>2, <2>3 DEF Turned, Open
<1>4. ASSUME NEW r \in Request, Reject(r) PROVE Turned(r)
  <2>1. PICK row : row = [registration[r] EXCEPT !.status = "rejected"]
    OBVIOUS
  <2>2. registration' = [registration EXCEPT ![r] = row] /\ registration[r].status \in Open
    BY <1>4, <2>1 DEF Reject
  <2>3. row \in Row /\ row.status = "rejected" /\ row.proven = registration[r].proven
    <3>1. registration[r] \in Row /\ "rejected" \in RowStatus
      BY <1>2 DEF RowStatus, Decided
    <3> QED
      BY <2>1, <3>1, RowStatusField
  <2> QED
    BY <2>2, <2>3 DEF Turned
<1>5. ASSUME NEW r \in Request, NEW role \in {"inspector", "office"}, Approve(r, role)
      PROVE  Turned(r)
  <2>1. PICK row1 : row1 = [registration[r] EXCEPT !.status = "approved"]
    OBVIOUS
  <2>2. PICK row : row = [row1 EXCEPT !.role = role]
    OBVIOUS
  <2>3. row1 \in Row /\ row1.status = "approved" /\ row1.proven = registration[r].proven
    <3>1. registration[r] \in Row /\ "approved" \in RowStatus
      BY <1>2 DEF RowStatus, Decided
    <3> QED
      BY <2>1, <3>1, RowStatusField
  <2>4. row \in Row /\ row.status = "approved" /\ row.proven = registration[r].proven
    <3>1. row1 \in Row /\ role \in {"none", "inspector", "office"}
      BY <2>3
    <3> QED
      BY <2>2, <2>3, <3>1, RowRoleField
  <2>5. registration' = [registration EXCEPT ![r] = row]
    <3> DEFINE a1 == [registration EXCEPT ![r].status = "approved"]
    <3>1. registration' = [a1 EXCEPT ![r].role = role]
      BY <1>5 DEF Approve
    <3>2. a1[r] = row1 /\ a1 \in [Request -> Row]
      BY <1>2, <2>1, <2>3
    <3> QED
      BY <1>2, <2>1, <2>2, <3>1, <3>2
  <2>6. registration[r].status = "pending" /\ registration[r].proven = Channel
    BY <1>2, <1>5 DEF Approve
  <2> QED
    BY <2>4, <2>5, <2>6 DEF Turned, Open
<1>6. \E r \in Request : Turned(r)
  BY <1>3, <1>4, <1>5 DEF Decide, CodesExpire
<1> QED
  BY <1>1, <1>6

LEMMA TurnedKeeps ==
  ASSUME Whole, (\E r \in Request : Decide(r)) \/ CodesExpire
  PROVE  Whole'
<1>1. PICK r \in Request : Turned(r)
  BY TurnedRows
<1>2. PICK row \in Row :
        /\ registration' = [registration EXCEPT ![r] = row]
        /\ row.status # "none" /\ row.proven = registration[r].proven
        /\ row.status \in {"pending", "approved"} => row.proven = Channel
        /\ registration[r].status \in Open
  BY <1>1 DEF Turned
<1>3. r \in Used /\ row.proven \subseteq entered[r]
  BY <1>2, WholeIs, UsedIs DEF Rows, Open
<1>4. Rows' /\ Numbered' /\ Used' = Used
  BY <1>2, <1>3, TurnedRows, WholeIs, RowChanges DEF Sound
<1>5. \A c \in calls' : CallOK(c)'
  BY <1>4, TurnedRows, WholeIs, CallStays
<1>6. Starting' = Starting
  BY TurnedRows DEF Starting
<1>7. Counted'
  BY <1>4, <1>6, TurnedRows, WholeIs DEF Sound, Counted
<1>8. Rest'
  BY TurnedRows, WholeIs DEF Rest
<1> QED
  BY <1>4, <1>5, <1>7, <1>8, TurnedRows, WholeIs, ScreensStay DEF Whole, Sound

-----------------------------------------------------------------------------
(* The theorems                                                             *)

LEMMA WholeInit ==
  ASSUME Init
  PROVE  Whole
<1>1. NoRow \in Row /\ NoRow.proven = {} /\ NoRow.status = "none"
  BY DEF NoRow, Row, RowStatus
<1>2. Rows /\ Used = {}
  BY <1>1 DEF Init, JoinInit, Rows, Used
<1>3. Numbered /\ Cardinality(Used) = 0
  <2>1. Used = 1..0 /\ 0 \in 0..MaxRequest
    BY <1>2
  <2> QED
    BY <1>2, <2>1, FS_EmptySet DEF Numbered
<1>4. Counted
  <2>1. Starting = {} /\ calls = {}
    BY DEF Init, JoinInit, Starting
  <2> QED
    BY <1>3, <2>1, FS_EmptySet DEF Counted
<1>5. Rest
  BY DEF Init, JoinInit, Rest, NoCode, Code, Sent, Ticket
<1>6. Screens
  BY DEF Init, Screens, Stage, Page, Ticket
<1> QED
  BY <1>2, <1>3, <1>4, <1>5, <1>6 DEF Whole, Sound, Init, JoinInit

\* The steps that change no row.
Screening ==
  \/ OpenScreen \/ Close \/ SubmitDetails \/ Confirm \/ Resend \/ StartOver
  \/ Back \/ Check
  \/ \E op \in Op : PhoneHears(op)
  \/ \E c \in calls : GiveUp(c) \/ WebHears(c) \/ WebLoses(c)
  \/ Reload \/ ReloadBlind \/ WebSubmit \/ WebConfirm \/ WebResend \/ WebStartOver

LEMMA ScreeningKeeps ==
  ASSUME Whole, Screening
  PROVE  Whole'
<1>1. CASE OpenScreen \/ Close \/ SubmitDetails \/ Confirm \/ Resend \/ StartOver
             \/ Back \/ Check
  BY <1>1, OpenScreenKeeps, CloseKeeps, SubmitDetailsKeeps, ConfirmKeeps, ResendKeeps,
     StartOverKeeps, CheckKeeps
<1>2. CASE \E op \in Op : PhoneHears(op)
  BY <1>2, HearStartKeeps, HearStatusKeeps, HearVerifyKeeps, HearResendKeeps DEF PhoneHears
<1>3. CASE \E c \in calls : GiveUp(c) \/ WebHears(c) \/ WebLoses(c)
  BY <1>3, GiveUpKeeps, WebHearsKeeps, WebLosesKeeps
<1>4. CASE Reload \/ ReloadBlind \/ WebSubmit \/ WebConfirm \/ WebResend \/ WebStartOver
  BY <1>4, WebTurnsKeeps, WebSubmitKeeps, WebAsksKeep
<1> QED
  BY <1>1, <1>2, <1>3, <1>4 DEF Screening

LEMMA StepIs ==
  ASSUME Next
  PROVE  \/ Screening
         \/ (\E by \in {"app", "web"} : Gateway(by, Op)) \/ MessageLost \/ ResendTooSoon
         \/ (\E r \in Request : Decide(r)) \/ CodesExpire
  BY DEF Next, Screening

LEMMA WholeNext ==
  ASSUME Whole, [Next]_vars
  PROVE  Whole'
<1>1. CASE Next
  BY <1>1, StepIs, ScreeningKeeps, GatewayKeeps, TurnedKeeps
<1>2. CASE UNCHANGED vars
  <2>1. Used' = Used /\ Starting' = Starting
    BY <1>2 DEF vars, joinVars, Used, Starting
  <2>2. Sound'
    <3>1. Quiet /\ UNCHANGED calls /\ mishaps' \in 0..Mishaps
      BY <1>2, WholeIs DEF vars, joinVars, Quiet, Rest
    <3> QED
      BY <3>1, WholeIs, SameCalls
  <2>3. Screens'
    BY <1>2, <2>1, WholeIs, ScreensStay DEF vars, joinVars
  <2> QED
    BY <2>2, <2>3 DEF Whole
<1> QED
  BY <1>1, <1>2

LEMMA WholeAlways == Spec => []Whole
<1>1. Init => Whole
  BY WholeInit
<1>2. Whole /\ [Next]_vars => Whole'
  BY WholeNext
<1> QED
  BY <1>1, <1>2, PTL DEF Spec

\* Every variable has its type, whatever is lost, closed, mistimed or asked
\* twice: among the rest, at most MaxRequest requests are ever started, and the
\* screens go by requests there are (registration.service.ts, register.tsx).
THEOREM JoiningTypes == Spec => []TypeOK
<1>1. Whole => TypeOK
  BY WholeIs DEF Sound, Screens, Rows, Rest, TypeOK, JoinTypeOK
<1> QED
  BY <1>1, WholeAlways, PTL

\* "Pending means both contacts were proven" (0011_registrations.sql:52): for
\* what reaches an administrator, and what they decided for, the right codes of
\* both channels were handed in.  A call of verify() writes what it read before,
\* so the invariant says of each such call that what it will write was entered.
THEOREM PendingIsProven == Spec => []DecidedIsProven
<1>1. Whole => DecidedIsProven
  <2> SUFFICES ASSUME Whole, NEW r \in Request, registration[r].status \in {"pending", "approved"}
               PROVE  entered[r] = Channel
    BY DEF DecidedIsProven
  <2>1. Rows
    BY WholeIs
  <2>2. Channel \subseteq entered[r] /\ entered[r] \subseteq Channel
    BY <2>1 DEF Rows
  <2> QED
    BY <2>2
<1> QED
  BY <1>1, WholeAlways, PTL

Stood ==
  \A r \in Request :
    registration[r].status \in Decided /\ registration'[r].status # registration[r].status
      => \E c \in calls : c.op = "verify" /\ c.at = "read" /\ c.request = r

LEMMA StepStands ==
  ASSUME Whole, Next
  PROVE  Stood
<1>1. CASE Screening
  <2>1. UNCHANGED registration
    BY <1>1 DEF Screening, OpenScreen, Close, SubmitDetails, Confirm, Resend, StartOver, Back,
       Check, PhoneHears, HearStart, HearStatus, HearVerify, HearResend, GiveUp, WebHears,
       WebLoses, Reload, ReloadBlind, WebSubmit, WebConfirm, WebResend, WebStartOver, Quiet
  <2> QED
    BY <2>1 DEF Stood
<1>2. CASE (\E by \in {"app", "web"} : Gateway(by, Op)) \/ MessageLost \/ ResendTooSoon
  <2>1. PICK c \in calls : Served(c)
    BY <1>2, GatewayStep
  <2> QED
    BY <2>1 DEF Served, Stood
<1>3. CASE (\E r \in Request : Decide(r)) \/ CodesExpire
  <2>1. PICK r \in Request : Turned(r)
    BY <1>3, TurnedRows
  <2>2. /\ \A q \in Request \ {r} : registration'[q] = registration[q]
        /\ registration[r].status \notin Decided
    BY <2>1, WholeIs DEF Turned, Rows, Open, Decided
  <2> QED
    BY <2>2 DEF Stood
<1> QED
  BY <1>1, <1>2, <1>3, StepIs

\* A decision is undone by nothing but a verify() that read the row before it
\* (registration.service.ts:301).
THEOREM OnlyStaleVerifyUndoes == Spec => DecisionsStand
<1>1. Whole /\ [Next]_vars => [Stood]_vars
  BY StepStands
<1>2. Spec => [][Stood]_vars
  BY <1>1, WholeAlways, PTL DEF Spec
<1> QED
  BY <1>2 DEF DecisionsStand, Stood
=============================================================================
