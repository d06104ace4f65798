---------------------------- MODULE RecordsProofs ---------------------------
(***************************************************************************)
(* What an officer can rely on of two records the gateway keeps beside the *)
(* event store, whatever is lost or comes late: an exhibit shown locked    *)
(* can be read back, and a licence registered twice, or a preview that did *)
(* not hold, has one of the causes the checks cannot exclude.              *)
(*                                                                         *)
(* Exhibits and Registry share no variable; each theorem is of one of      *)
(* them.                                                                   *)
(***************************************************************************)
EXTENDS Exhibits, Registry, FiniteSetTheorems, TLAPS

-----------------------------------------------------------------------------
(* Photographs and their bytes.                                            *)

\* What the uploads under way, the queue and the rows are, as far as the bytes
\* are concerned.
ExhibitTypes ==
  /\ queue \in [Exhibit -> {"none", "pending", "uploaded"}]
  /\ row \in [Exhibit -> {"none", "awaiting", "locked"}]
  /\ blob \in [Exhibit -> Versions]
  /\ request \subseteq [of : Exhibit, at : {"sent", "stored", "marked"}, live : BOOLEAN]

\* A key holds nothing or, whoever writes over it, a version that hashes to it.
Kept(x) == Present(blob[x])
KeysAreOwn == \A x \in Exhibit : Kept(x) => Authentic(blob[x])

\* An upload that is past the put has bytes to show for it, and so has whatever
\* it leaves behind, on the phone and in the read model.
BytesAreKept ==
  /\ \A r \in request : r.at \in {"stored", "marked"} => Kept(r.of)
  /\ \A x \in Exhibit : queue[x] = "uploaded" \/ row[x] = "locked" => Kept(x)

ExhibitInv == ExhibitTypes /\ KeysAreOwn /\ BytesAreKept

\* get() finds a version that hashes to the key, wherever it is.
LEMMA GetFindsIt ==
  ASSUME NEW vs \in Versions, Authentic(vs)
  PROVE  Get(vs) = "own"
BY DEF Versions, Authentic, Get, Present

\* The put leaves something under the key, and its own bytes where it was empty.
LEMMA PutKeeps ==
  ASSUME NEW vs \in Versions
  PROVE  /\ PutIfAbsent(vs) \in Versions
         /\ Present(PutIfAbsent(vs))
         /\ Present(vs) => PutIfAbsent(vs) = vs
         /\ ~Present(vs) => Authentic(PutIfAbsent(vs))
BY DEF Versions, PutIfAbsent, Authentic, Present

\* A version written over the others hides none of them.
LEMMA OverKeeps ==
  ASSUME NEW vs \in Versions
  PROVE  /\ Append(vs, "other") \in Versions
         /\ Present(Append(vs, "other"))
         /\ Authentic(vs) => Authentic(Append(vs, "other"))
BY DEF Versions, Authentic, Present

\* Requests the phone has given up on go on where they were, and no others begin.
LEMMA LeftUnattended ==
  ASSUME ExhibitTypes,
         NEW r \in request
  PROVE  \A q \in Unattended(r) :
           /\ q \in [of : Exhibit, at : {"sent", "stored", "marked"}, live : BOOLEAN]
           /\ q.of = r.of /\ q.at = r.at
BY DEF ExhibitTypes, Unattended

LEMMA ExhibitStarts == Init => ExhibitInv
BY DEF Init, ExhibitInv, ExhibitTypes, KeysAreOwn, Kept, BytesAreKept,
       Versions, Present

\* What a step may do to the requests: some go, and the others are where they
\* were.
Fewer(before, after) ==
  \A q \in after : \E r \in before :
    /\ q \in [of : Exhibit, at : {"sent", "stored", "marked"}, live : BOOLEAN]
    /\ q.of = r.of /\ q.at = r.at

\* A step that only lets requests go, and neither uploads nor locks.
LEMMA RequestsGo ==
  ASSUME ExhibitInv, UNCHANGED <<row, blob>>,
         queue' \in [Exhibit -> {"none", "pending", "uploaded"}],
         \A x \in Exhibit : queue'[x] = "uploaded" => queue[x] = "uploaded",
         Fewer(request, request')
  PROVE  ExhibitInv'
BY DEF ExhibitInv, ExhibitTypes, KeysAreOwn, Kept, BytesAreKept, Fewer

\* A step of the projector: rows come back unlocked, or are as they were.
LEMMA RowsReturn ==
  ASSUME ExhibitInv, UNCHANGED <<queue, blob, request>>,
         NEW n, NEW events, NEW rows \in [Exhibit -> {"none", "awaiting", "locked"}],
         row' = Rows(n, events, rows),
         \A x \in Exhibit : rows[x] = "locked" => row[x] = "locked"
  PROVE  ExhibitInv'
BY DEF ExhibitInv, ExhibitTypes, KeysAreOwn, Kept, BytesAreKept, Rows

LEMMA ExhibitStays == ExhibitInv /\ [Next]_vars => ExhibitInv'
<1> SUFFICES ASSUME ExhibitInv, [Next]_vars PROVE ExhibitInv'
  OBVIOUS
<1> USE DEF ExhibitInv, ExhibitTypes, KeysAreOwn, BytesAreKept
<1> DEFINE Req == [of : Exhibit, at : {"sent", "stored", "marked"}, live : BOOLEAN]
<1>1. Fewer(request, request)
  BY DEF Fewer
<1>2. Fewer(request, UNION {Unattended(r) : r \in request})
  BY LeftUnattended DEF Fewer
<1>3. ASSUME NEW x \in Exhibit, Capture(x) PROVE ExhibitInv'
  BY <1>1, <1>3, RequestsGo DEF Capture, gateway
<1>4. ASSUME NEW x \in Exhibit, CaptureDies(x) PROVE ExhibitInv'
  BY <1>2, <1>4, RequestsGo DEF CaptureDies, gateway
<1>5. ASSUME NEW x \in Exhibit, SendUpload(x) PROVE ExhibitInv'
  <2>1. request' = request \cup {Sent(x)} /\ UNCHANGED <<queue, row, blob>>
    BY <1>5 DEF SendUpload, phone, gateway
  <2>2. Sent(x) \in Req /\ Sent(x).at = "sent"
    BY DEF Sent
  <2> QED BY <2>1, <2>2 DEF Kept
<1>6. ASSUME NEW x \in Exhibit, SkipSpoiled(x) PROVE ExhibitInv'
  BY <1>1, <1>6, RequestsGo DEF SkipSpoiled, phone, gateway
<1>7. ASSUME NEW x \in Exhibit, UploadAnswered(x) PROVE ExhibitInv'
  <2>1. PICK r \in request : r.of = x /\ r.at = "marked" /\ request' = request \ {r}
    BY <1>7 DEF UploadAnswered, Uploaded, Live
  <2>2. Kept(x)
    BY <2>1
  <2>3. queue' = [queue EXCEPT ![x] = "uploaded"] /\ UNCHANGED <<row, blob>>
    BY <1>7 DEF UploadAnswered, gateway
  <2> QED BY <2>1, <2>2, <2>3 DEF Kept
<1>8. ASSUME NEW x \in Exhibit, WriteOver(x) PROVE ExhibitInv'
  <2>1. /\ blob' = [blob EXCEPT ![x] = Append(@, "other")]
        /\ Present(blob[x]) /\ UNCHANGED <<request, queue, row>>
    BY <1>8 DEF WriteOver, phone, gateway
  <2>2. \A y \in Exhibit : Kept(y) => Kept(y)'
    BY <2>1, OverKeeps DEF Kept
  <2>3. KeysAreOwn'
    BY <2>1, OverKeeps DEF Kept
  <2> QED BY <2>1, <2>2, <2>3, OverKeeps
<1>9. ASSUME NEW r \in request, UploadFails(r) PROVE ExhibitInv'
  <2>1. Fewer(request, (request \ {r}) \cup Unattended(r))
    BY LeftUnattended DEF Fewer
  <2> QED BY <1>9, <2>1, RequestsGo DEF UploadFails, phone, gateway
<1>10. ASSUME NEW r \in request, StoreBytes(r) PROVE ExhibitInv'
  <2>1. /\ blob' = [blob EXCEPT ![r.of] = PutIfAbsent(@)]
        /\ request' = (request \ {r}) \cup {[r EXCEPT !.at = "stored"]}
        /\ UNCHANGED <<queue, row>> /\ r \in Req
    BY <1>10 DEF StoreBytes, phone, gateway
  <2>2. \A y \in Exhibit : (y = r.of \/ Kept(y)) => Kept(y)'
    BY <2>1, PutKeeps DEF Kept
  <2>3. KeysAreOwn'
    BY <2>1, PutKeeps DEF Kept
  <2>4. [r EXCEPT !.at = "stored"] \in Req /\ [r EXCEPT !.at = "stored"].of = r.of
    BY <2>1
  <2> QED BY <2>1, <2>2, <2>3, <2>4, PutKeeps
<1>11. ASSUME NEW r \in request, RefuseBytes(r) PROVE ExhibitInv'
  <2>1. Fewer(request, request \ {r})
    BY DEF Fewer
  <2> QED BY <1>11, <2>1, RequestsGo DEF RefuseBytes, phone, gateway
<1>12. ASSUME NEW r \in request, MarkLocked(r) PROVE ExhibitInv'
  <2>1. /\ row' = [row EXCEPT ![r.of] = IF @ = "none" THEN "none" ELSE "locked"]
        /\ request' = (request \ {r}) \cup
                        (IF r.live THEN {[r EXCEPT !.at = "marked"]} ELSE {})
        /\ UNCHANGED <<queue, blob>> /\ r \in Req /\ r.at = "stored"
    BY <1>12 DEF MarkLocked, phone
  <2>2. [r EXCEPT !.at = "marked"] \in Req /\ [r EXCEPT !.at = "marked"].of = r.of
    BY <2>1
  <2>3. \A y \in Exhibit : Kept(y)' = Kept(y)
    BY <2>1 DEF Kept
  <2> QED BY <2>1, <2>2, <2>3
<1>13. ASSUME AppKilled PROVE ExhibitInv'
  BY <1>2, <1>13, RequestsGo DEF AppKilled, phone, gateway
<1>14. ASSUME StartRound PROVE ExhibitInv'
  BY <1>1, <1>14, RequestsGo DEF StartRound, phone, gateway
<1>15. ASSUME PushArrives PROVE ExhibitInv'
  BY <1>15, RowsReturn DEF PushArrives, phone
<1>16. ASSUME PushAnswered \/ PushFails PROVE ExhibitInv'
  BY <1>1, <1>16, RequestsGo DEF PushAnswered, PushFails, phone, gateway
<1>17. ASSUME PullAnswered \/ PullFails PROVE ExhibitInv'
  BY <1>1, <1>17, RequestsGo DEF PullAnswered, PullFails, phone, gateway
<1>18. ASSUME BundleApplied \/ BundleFails PROVE ExhibitInv'
  BY <1>1, <1>18, RequestsGo DEF BundleApplied, BundleFails, phone, gateway
<1>19. ASSUME NEW k \in Kinds, FindingMoves(k) PROVE ExhibitInv'
  BY <1>1, <1>19, RequestsGo DEF FindingMoves, phone
<1>20. ASSUME ApplyPending PROVE ExhibitInv'
  BY <1>20, RowsReturn DEF ApplyPending, phone
<1>21. ASSUME Rebuild PROVE ExhibitInv'
  <2> DEFINE none == [x \in Exhibit |-> "none"]
  <2>1. none \in [Exhibit -> {"none", "awaiting", "locked"}]
    OBVIOUS
  <2>2. \A x \in Exhibit : none[x] # "locked"
    OBVIOUS
  <2> QED BY <1>21, <2>1, <2>2, RowsReturn DEF Rebuild, phone
<1>22. CASE GetStuck \/ Repaired \/ UNCHANGED vars
  BY <1>1, <1>22, RequestsGo DEF GetStuck, Repaired, phone, vars
<1> QED
  BY <1>3, <1>4, <1>5, <1>6, <1>7, <1>8, <1>9, <1>10, <1>11, <1>12, <1>13, <1>14,
     <1>15, <1>16, <1>17, <1>18, <1>19, <1>20, <1>21, <1>22
     DEF Next, Foreground, TimerFires

\* An exhibit leaves the phone's queue, and is shown as locked, only when the
\* bytes that were hashed at capture can be read back, whatever requests are
\* lost, given up or overtaken, and whoever writes over the object.
THEOREM KeptIsReadableTheorem == Spec => []KeptIsReadable
<1>1. ExhibitInv => KeptIsReadable
  BY GetFindsIt DEF ExhibitInv, ExhibitTypes, KeysAreOwn, BytesAreKept, KeptIsReadable
<1> QED BY ExhibitStarts, ExhibitStays, <1>1, PTL DEF Spec

-----------------------------------------------------------------------------
(* Facilities.  What the store says of the read model.                     *)

\* The log is one a registry writes: an event is about itself, or about a
\* facility registered before it.
AboutFacilities ==
  \A i \in 1..Len(log) : log[i].id \in 1..i /\ IsNew(log[i].id)

\* The read model has the facilities projected so far, each with a licence that
\* one of the events about it gave it.
FacilitiesFollow ==
  /\ DOMAIN facility = {i \in 1..projected : IsNew(i)}
  /\ \A f \in DOMAIN facility :
       \E k \in 1..projected : log[k].id = f /\ facility[f] = log[k].licence

Store == RegistryTypeOK /\ AboutFacilities /\ FacilitiesFollow

-----------------------------------------------------------------------------
(* What a clerk's request is about to write.                               *)

\* The rows that would be ready if nothing were registered.
Candidates(rows) == PlanImport(rows, {})

\* A finite choice of licences: from the form, or from the sheet.
ChoiceOK(d) ==
  /\ Chosen(d) \subseteq Licence /\ IsFiniteSet(Chosen(d))
  /\ d.page = "checked" => d.typed = {} /\ d.sheet \in Sheets

\* No facility that the look-up could see has one of the licences, unless it has
\* been given another since.
LookedUpFirst(d) ==
  d.at = "planned" /\ ~d.sheet.blind =>
    \A licence \in Chosen(d), i \in 1..d.saw :
      IsNew(i) /\ log[i].licence.number = licence.number => Relicensed(i)

\* A candidate that the preview did not promise had its licence registered.
PreviewWasTrue(d) ==
  d.page = "checked" =>
    /\ d.promised \subseteq Candidates(d.sheet.rows)
    /\ \A i \in Candidates(d.sheet.rows) \ d.promised :
         /\ ~d.sheet.blind
         /\ \E k \in 1..Len(log) :
              /\ log[k].licence.number = d.sheet.rows[i].number
              /\ log[k].id \in DOMAIN facility

\* PreviewHolds, of one clerk.
PreviewHeld(d) ==
  d.at = "planned" /\ d.page = "checked" =>
    LET number(i) == d.sheet.rows[i].number IN
    /\ \A i \in d.ready \ d.promised :
         \E k \in DOMAIN log : log[k].licence.number = number(i) /\ Relicensed(log[k].id)
    /\ \A i \in d.promised \ d.ready :
         \E k \in DOMAIN log : log[k].licence.number = number(i)

DeskOK(d) ==
  /\ d \in Desk /\ d.saw <= Len(log)
  /\ ChoiceOK(d) /\ LookedUpFirst(d) /\ PreviewWasTrue(d) /\ PreviewHeld(d)

RegistryInv ==
  /\ Store
  /\ \A c \in Clerk : DeskOK(desk[c])
  /\ DuplicatesWereUnseen

-----------------------------------------------------------------------------
(* The log grows.                                                          *)

Grows ==
  /\ log' \in Seq(Event) /\ Len(log) <= Len(log')
  /\ \A i \in 1..Len(log) : log'[i] = log[i]

\* What has been registered stays registered, and what has been relicensed
\* stays relicensed.
LEMMA NewStays ==
  ASSUME log \in Seq(Event), Grows
  PROVE  /\ \A i \in 1..Len(log) : IsNew(i)' <=> IsNew(i)
         /\ \A i \in Nat : Relicensed(i) => Relicensed(i)'
BY DEF Grows, IsNew, Relicensed

\* A facility projected by now whose licence is not the one it was registered
\* with has been relicensed, and so has one that an event gave another.
LEMMA TwoLicences ==
  ASSUME Store, NEW f \in DOMAIN facility, NEW k \in 1..Len(log),
         log[k].id = f, log[k].licence # facility[f]
  PROVE  Relicensed(f)
<1>1. PICK n \in 1..projected : log[n].id = f /\ facility[f] = log[n].licence
  BY DEF Store, FacilitiesFollow
<1>2. n # k /\ n \in DOMAIN log /\ k \in DOMAIN log
  BY <1>1 DEF Store, RegistryTypeOK
<1>3. ~IsNew(n) \/ ~IsNew(k)
  BY <1>1, <1>2 DEF IsNew
<1> QED BY <1>1, <1>2, <1>3 DEF Relicensed

\* A licence that no facility has belongs to relicensed ones alone.
LEMMA NobodyHasIt ==
  ASSUME Store, NEW number, RegisteredLicences({number}) = {},
         NEW i \in 1..projected, IsNew(i), log[i].licence.number = number
  PROVE  Relicensed(i)
<1>1. i \in DOMAIN facility /\ i \in 1..Len(log)
  BY DEF Store, FacilitiesFollow, RegistryTypeOK
<1>2. facility[i].number # number
  BY <1>1 DEF RegisteredLicences
<1> QED BY <1>1, <1>2, TwoLicences DEF IsNew

\* A row that is ready is a candidate whose licence nobody has, if the look-up
\* went to the right column.
LEMMA ReadyRows ==
  ASSUME NEW sheet \in Sheets
  PROVE  /\ Plan(sheet) \subseteq Candidates(sheet.rows)
         /\ Candidates(sheet.rows) \subseteq 1..Len(sheet.rows)
         /\ Candidates(sheet.rows) \subseteq Nat
         /\ sheet.rows \in Seq(Row) /\ sheet.blind \in BOOLEAN
         /\ \A i \in Candidates(sheet.rows) : sheet.rows[i].number \in Number
         /\ \A i \in Candidates(sheet.rows) :
              i \in Plan(sheet) <=>
                sheet.blind \/ RegisteredLicences({sheet.rows[i].number}) = {}
<1>1. sheet.rows \in Seq(Row) /\ sheet.blind \in BOOLEAN
  BY RegistryAssumption
<1>2. /\ DOMAIN sheet.rows = 1..Len(sheet.rows)
      /\ \A i \in DOMAIN sheet.rows : sheet.rows[i].number \in Number \cup {Missing}
  <2> DEFINE rows == sheet.rows
  <2>1. rows \in Seq(Row)
    BY <1>1
  <2> HIDE DEF rows
  <2>2. DOMAIN rows = 1..Len(rows) /\ \A i \in DOMAIN rows : rows[i] \in Row
    BY <2>1
  <2>3. \A r \in Row : r.number \in Number \cup {Missing}
    BY DEF Row
  <2> QED BY <2>2, <2>3 DEF rows
<1>3. ASSUME NEW i \in Candidates(sheet.rows)
      PROVE  /\ i \in DOMAIN sheet.rows /\ sheet.rows[i].number # Missing
             /\ ~sheet.blind => sheet.rows[i].number \in LookedUp(sheet)
  BY <1>3 DEF Candidates, PlanImport, LookedUp
<1>4. ASSUME NEW i \in Candidates(sheet.rows)
      PROVE  i \in Plan(sheet) <=>
                sheet.rows[i].number \notin RegisteredLicences(LookedUp(sheet))
  BY <1>4 DEF Candidates, Plan, PlanImport
<1>5. Candidates(sheet.rows) \subseteq Nat
  BY <1>2, <1>3
<1>6. \A i \in Candidates(sheet.rows) :
        i \in Plan(sheet) <=>
          sheet.blind \/ RegisteredLicences({sheet.rows[i].number}) = {}
  BY <1>3, <1>4 DEF RegisteredLicences, LookedUp
<1>7. Plan(sheet) \subseteq Candidates(sheet.rows)
  BY DEF Plan, Candidates, PlanImport
<1> QED BY <1>1, <1>2, <1>3, <1>5, <1>6, <1>7

\* What a sheet's rows come to is finite.
LEMMA RowsAreFinite ==
  ASSUME NEW sheet \in Sheets, NEW S \in SUBSET Candidates(sheet.rows)
  PROVE  LET licences == {[number |-> sheet.rows[i].number, upper |-> TRUE] : i \in S}
         IN  licences \subseteq Licence /\ IsFiniteSet(licences)
<1> DEFINE f == [i \in S |-> [number |-> sheet.rows[i].number, upper |-> TRUE]]
           licences == {[number |-> sheet.rows[i].number, upper |-> TRUE] : i \in S}
<1>1. S \subseteq 1..Len(sheet.rows) /\ Len(sheet.rows) \in Nat
  BY ReadyRows
<1>2. IsFiniteSet(S)
  <2>1. IsFiniteSet(1..Len(sheet.rows))
    BY <1>1, FS_Interval
  <2> QED BY <1>1, <2>1, FS_Subset
<1>3. IsFiniteSet({f[i] : i \in S})
  <2>1. f \in Surjection(S, {f[i] : i \in S})
    BY DEF Surjection
  <2> HIDE DEF f
  <2> QED BY <1>2, <2>1, FS_Surjection
<1>4. licences = {f[i] : i \in S}
  OBVIOUS
<1>5. licences \subseteq Licence
  <2> SUFFICES ASSUME NEW i \in S
              PROVE  [number |-> sheet.rows[i].number, upper |-> TRUE] \in Licence
    OBVIOUS
  <2>1. sheet.rows[i].number \in Number
    BY ReadyRows
  <2> QED BY <2>1 DEF Licence
<1> QED BY <1>3, <1>4, <1>5

-----------------------------------------------------------------------------
(* What a step leaves of a clerk's request.                                *)

\* A request that a step does not touch is as good as it was.
LEMMA DeskStays ==
  ASSUME Store, Grows, DOMAIN facility \subseteq DOMAIN facility',
         NEW d, DeskOK(d)
  PROVE  DeskOK(d)'
<1>1. /\ d \in Desk /\ d.saw \in Nat /\ d.saw <= Len(log)
      /\ ChoiceOK(d) /\ LookedUpFirst(d) /\ PreviewWasTrue(d) /\ PreviewHeld(d)
      /\ log \in Seq(Event) /\ DOMAIN log = 1..Len(log) /\ DOMAIN log' = 1..Len(log')
      /\ AboutFacilities
  BY DEF DeskOK, Desk, Store, RegistryTypeOK, Grows
<1>2. \A i \in 1..Len(log) : (IsNew(i)' <=> IsNew(i)) /\ log'[i] = log[i]
  BY <1>1, NewStays DEF Grows
<1>3. \A i \in Nat : Relicensed(i) => Relicensed(i)'
  BY <1>1, NewStays
<1>4. Len(log) <= Len(log') /\ Len(log) \in Nat /\ Len(log') \in Nat
  BY <1>1 DEF Grows
<1>5. \A i \in 1..d.saw : i \in 1..Len(log) /\ i \in Nat
  BY <1>1, <1>4
<1>6. \A k \in 1..Len(log) : k \in 1..Len(log') /\ log[k].id \in Nat
  BY <1>1, <1>4 DEF AboutFacilities
<1>7. ChoiceOK(d)' /\ d.saw <= Len(log)'
  BY <1>1, <1>4 DEF ChoiceOK, Chosen
<1>8. LookedUpFirst(d)'
  BY <1>1, <1>2, <1>3, <1>5 DEF LookedUpFirst, Chosen
<1>9. PreviewWasTrue(d)'
  BY <1>1, <1>2, <1>6 DEF PreviewWasTrue, Candidates, PlanImport
<1>10. PreviewHeld(d)'
  <2> SUFFICES ASSUME d.at = "planned", d.page = "checked"
               PROVE  PreviewHeld(d)'
    BY DEF PreviewHeld
  <2>1. ASSUME NEW k \in 1..Len(log), Relicensed(log[k].id)
        PROVE  k \in 1..Len(log') /\ log'[k] = log[k] /\ Relicensed(log[k].id)'
    <3>1. k \in 1..Len(log') /\ log'[k] = log[k] /\ log[k].id \in Nat
      BY <1>2, <1>6
    <3>2. \A i \in Nat : i = log[k].id => Relicensed(i)'
      BY <1>3, <2>1
    <3> QED BY <3>1, <3>2 DEF Relicensed
  <2> QED BY <1>1, <1>2, <1>6, <2>1 DEF PreviewHeld
<1> QED BY <1>1, <1>7, <1>8, <1>9, <1>10 DEF DeskOK

-----------------------------------------------------------------------------
(* The clerks' steps.                                                      *)

\* A step of one clerk, by which nothing is written.
LEMMA OneDesk ==
  ASSUME RegistryInv, NEW c \in Clerk, NEW d, DeskOK(d),
         desk' = [desk EXCEPT ![c] = d],
         UNCHANGED <<log, projected, facility>>, mishaps' \in 0..Mishaps
  PROVE  RegistryInv'
<1>1. Store'
  <2>1. RegistryTypeOK'
    BY DEF RegistryInv, Store, RegistryTypeOK, DeskOK
  <2>2. AboutFacilities' /\ FacilitiesFollow'
    BY DEF RegistryInv, Store, AboutFacilities, FacilitiesFollow, IsNew
  <2> QED BY <2>1, <2>2 DEF Store
<1>2. Grows /\ Store
  BY DEF RegistryInv, Store, RegistryTypeOK, Grows
<1>3. DuplicatesWereUnseen'
  BY DEF RegistryInv, DuplicatesWereUnseen, IsNew, Relicensed
<1>4. ASSUME NEW e \in Clerk PROVE DeskOK(desk[e])'
  <2>1. /\ DeskOK(desk[e]) /\ facility' = facility
        /\ desk'[e] = IF e = c THEN d ELSE desk[e]
    BY DEF RegistryInv, Store, RegistryTypeOK
  <2>2. \A x : DeskOK(x) => DeskOK(x)'
    BY <1>2, <2>1, DeskStays
  <2>3. DeskOK(IF e = c THEN d ELSE desk[e])
    BY <2>1
  <2>4. \A x : x = desk'[e] => DeskOK(x)'
    BY <2>1, <2>2, <2>3
  <2> QED BY <2>4
<1> QED BY <1>1, <1>3, <1>4 DEF RegistryInv

\* A clerk's page, field by field.
Page(page, sheet, promised, at, typed, ready, saw) ==
  [page |-> page, sheet |-> sheet, promised |-> promised, at |-> at, typed |-> typed,
   ready |-> ready, saw |-> saw, awaits |-> 0]

LEMMA Pages ==
  /\ AtForm = Page("form", NoSheet, {}, "idle", {}, {}, 0)
  /\ [AtForm EXCEPT !.page = "imported"] = Page("imported", NoSheet, {}, "idle", {}, {}, 0)
  /\ \A sheet, promised :
       [AtForm EXCEPT !.page = "checked", !.sheet = sheet, !.promised = promised]
         = Page("checked", sheet, promised, "idle", {}, {}, 0)
  /\ \A typed, saw :
       [AtForm EXCEPT !.at = "planned", !.typed = typed, !.saw = saw]
         = Page("form", NoSheet, {}, "planned", typed, {}, saw)
<1>1. AtForm = Page("form", NoSheet, {}, "idle", {}, {}, 0)
  BY DEF AtForm, Page
<1>2. [AtForm EXCEPT !.page = "imported"] = Page("imported", NoSheet, {}, "idle", {}, {}, 0)
  BY <1>1 DEF Page
<1>3. ASSUME NEW sheet, NEW promised
      PROVE  [AtForm EXCEPT !.page = "checked", !.sheet = sheet, !.promised = promised]
               = Page("checked", sheet, promised, "idle", {}, {}, 0)
  <2> DEFINE d1 == [AtForm EXCEPT !.page = "checked"]
             d2 == [d1 EXCEPT !.sheet = sheet]
  <2>1. d1 = Page("checked", NoSheet, {}, "idle", {}, {}, 0)
    BY <1>1 DEF Page
  <2>2. [AtForm EXCEPT !.page = "checked", !.sheet = sheet, !.promised = promised]
          = [d2 EXCEPT !.promised = promised]
    BY Zenon
  <2> HIDE DEF d1
  <2>3. d2 = Page("checked", sheet, {}, "idle", {}, {}, 0)
    BY <2>1 DEF Page
  <2> HIDE DEF d2
  <2> QED BY <2>2, <2>3 DEF Page
<1>4. ASSUME NEW typed, NEW saw
      PROVE  [AtForm EXCEPT !.at = "planned", !.typed = typed, !.saw = saw]
               = Page("form", NoSheet, {}, "planned", typed, {}, saw)
  <2> DEFINE d1 == [AtForm EXCEPT !.at = "planned"]
             d2 == [d1 EXCEPT !.typed = typed]
  <2>1. d1 = Page("form", NoSheet, {}, "planned", {}, {}, 0)
    BY <1>1 DEF Page
  <2>2. [AtForm EXCEPT !.at = "planned", !.typed = typed, !.saw = saw]
          = [d2 EXCEPT !.saw = saw]
    BY Zenon
  <2> HIDE DEF d1
  <2>3. d2 = Page("form", NoSheet, {}, "planned", typed, {}, 0)
    BY <2>1 DEF Page
  <2> HIDE DEF d2
  <2> QED BY <2>2, <2>3 DEF Page
<1> QED BY <1>1, <1>2, <1>3, <1>4

\* Before anything has been chosen there is nothing to be wrong.
LEMMA AtFormOK ==
  ASSUME log \in Seq(Event), NEW page \in {"form", "imported"}
  PROVE  DeskOK(Page(page, NoSheet, {}, "idle", {}, {}, 0))
<1> DEFINE d == Page(page, NoSheet, {}, "idle", {}, {}, 0)
<1>1. d \in Desk /\ d.saw = 0 /\ d.at = "idle" /\ d.page # "checked"
  BY DEF Page, Desk
<1>2. Chosen(d) = {}
  BY DEF Page, Chosen
<1>3. ChoiceOK(d)
  BY <1>1, <1>2, FS_EmptySet DEF ChoiceOK
<1> HIDE DEF d
<1>4. d.saw <= Len(log)
  BY <1>1
<1>5. LookedUpFirst(d) /\ PreviewWasTrue(d) /\ PreviewHeld(d)
  BY <1>1 DEF LookedUpFirst, PreviewWasTrue, PreviewHeld
<1>6. DeskOK(d)
  BY <1>1, <1>3, <1>4, <1>5 DEF DeskOK
<1> QED BY <1>6 DEF d

LEMMA RegistryStarts == RegistryInit => RegistryInv
<1> SUFFICES ASSUME RegistryInit PROVE RegistryInv
  OBVIOUS
<1>0. log \in Seq(Event) /\ DeskOK(AtForm)
  <2>1. log \in Seq(Event)
    BY DEF RegistryInit
  <2>2. DeskOK(Page("form", NoSheet, {}, "idle", {}, {}, 0))
    BY <2>1, AtFormOK
  <2> QED BY <2>1, <2>2, Pages
<1>1. Store
  BY <1>0, RegistryAssumption
     DEF RegistryInit, Store, RegistryTypeOK, AboutFacilities, FacilitiesFollow, DeskOK
<1>2. DuplicatesWereUnseen
  BY DEF RegistryInit, DuplicatesWereUnseen
<1> QED BY <1>0, <1>1, <1>2 DEF RegistryInv, RegistryInit

\* ChooseFile(): what the preview promises is what the sheet would come to now.
LEMMA ChooseFileKeeps ==
  ASSUME RegistryInv, NEW c \in Clerk, NEW sheet \in Sheets, ChooseFile(c, sheet)
  PROVE  RegistryInv'
<1> DEFINE d == Page("checked", sheet, Plan(sheet), "idle", {}, {}, 0)
<1>1. /\ d.page = "checked" /\ d.sheet = sheet /\ d.promised = Plan(sheet)
      /\ d.at = "idle" /\ d.typed = {} /\ d.ready = {} /\ d.saw = 0
  BY DEF Page
<1>2. Plan(sheet) \subseteq Candidates(sheet.rows) /\ Plan(sheet) \subseteq Nat
  <2>1. Plan(sheet) \subseteq Candidates(sheet.rows)
    BY ReadyRows
  <2>2. Candidates(sheet.rows) \subseteq Nat
    BY ReadyRows
  <2> QED BY <2>1, <2>2
<1>3. d \in Desk /\ Chosen(d) = {}
  BY <1>1, <1>2 DEF Desk, Chosen, Page
<1>4. ASSUME NEW i \in Candidates(sheet.rows) \ Plan(sheet)
      PROVE  /\ ~sheet.blind
             /\ \E k \in 1..Len(log) :
                  /\ log[k].licence.number = sheet.rows[i].number
                  /\ log[k].id \in DOMAIN facility
  <2>1. ~sheet.blind /\ RegisteredLicences({sheet.rows[i].number}) # {}
    BY <1>4, ReadyRows
  <2>2. PICK f \in DOMAIN facility : facility[f].number = sheet.rows[i].number
    BY <2>1 DEF RegisteredLicences
  <2>3. PICK k \in 1..projected : log[k].id = f /\ facility[f] = log[k].licence
    BY <2>2 DEF RegistryInv, Store, FacilitiesFollow
  <2>4. k \in 1..Len(log)
    BY DEF RegistryInv, Store, RegistryTypeOK
  <2> QED BY <2>1, <2>2, <2>3, <2>4
<1>6. desk' = [desk EXCEPT ![c] = d]
  BY Pages DEF ChooseFile
<1> HIDE DEF d
<1>5. DeskOK(d)
  <2>1. ChoiceOK(d) /\ LookedUpFirst(d) /\ PreviewHeld(d)
    BY <1>1, <1>3, FS_EmptySet DEF ChoiceOK, LookedUpFirst, PreviewHeld
  <2>2. PreviewWasTrue(d)
    BY <1>1, <1>2, <1>4 DEF PreviewWasTrue
  <2>3. d.saw <= Len(log)
    BY <1>1 DEF RegistryInv, Store, RegistryTypeOK
  <2> QED BY <1>3, <2>1, <2>2, <2>3 DEF DeskOK
<1> QED BY <1>5, <1>6, OneDesk DEF ChooseFile, RegistryInv, Store, RegistryTypeOK

\* The clerk is answered, begins again, or finds that the sheet has nothing left.
LEMMA BackToForm ==
  ASSUME RegistryInv, NEW c \in Clerk, NEW page \in {"form", "imported"},
         desk' = [desk EXCEPT ![c] = [AtForm EXCEPT !.page = page]],
         UNCHANGED <<log, projected, facility>>, mishaps' \in 0..Mishaps
  PROVE  RegistryInv'
<1>1. [AtForm EXCEPT !.page = page] = Page(page, NoSheet, {}, "idle", {}, {}, 0)
  BY DEF AtForm, Page
<1>2. DeskOK([AtForm EXCEPT !.page = page])
  BY <1>1, AtFormOK DEF RegistryInv, Store, RegistryTypeOK
<1> QED BY <1>2, OneDesk

\* Add(): the look-up comes before the event, if not in one step with it.
LEMMA AddKeeps ==
  ASSUME RegistryInv, NEW c \in Clerk, NEW licence \in Licence, Add(c, licence)
  PROVE  RegistryInv'
<1> DEFINE d == Page("form", NoSheet, {}, "planned", {licence}, {}, projected)
<1>1. /\ d.page = "form" /\ d.at = "planned" /\ d.typed = {licence} /\ d.ready = {}
      /\ d.saw = projected /\ d.sheet = NoSheet
  BY DEF Page
<1>2. Store /\ projected \in Nat /\ projected <= Len(log) /\ mishaps \in 0..Mishaps
  BY DEF RegistryInv, Store, RegistryTypeOK
<1>3. d \in Desk /\ Chosen(d) = {licence}
  BY <1>1, <1>2 DEF Desk, Chosen, Page
<1>4. desk' = [desk EXCEPT ![c] = d]
  <2>1. [AtForm EXCEPT !.at = "planned", !.typed = {licence}, !.saw = projected] = d
    BY Pages, Zenon
  <2> HIDE DEF d
  <2> QED BY <2>1 DEF Add
<1> HIDE DEF d
<1>5. ChoiceOK(d)
  BY <1>1, <1>3, FS_Singleton DEF ChoiceOK
<1>6. LookedUpFirst(d)
  BY <1>1, <1>2, <1>3, NobodyHasIt DEF LookedUpFirst, Add
<1>7. PreviewWasTrue(d) /\ PreviewHeld(d)
  BY <1>1 DEF PreviewWasTrue, PreviewHeld
<1>8. DeskOK(d)
  BY <1>1, <1>2, <1>3, <1>5, <1>6, <1>7 DEF DeskOK
<1> QED BY <1>2, <1>4, <1>8, OneDesk DEF Add

\* PressImport(): the rows that are ready by now, against what the preview said.
LEMMA PressImportKeeps ==
  ASSUME RegistryInv, NEW c \in Clerk, PressImport(c)
  PROVE  RegistryInv'
<1> DEFINE b == desk[c]
           d == [b EXCEPT !.at = "planned", !.ready = Import(c), !.saw = projected]
           rows == b.sheet.rows
<1>1. /\ Store /\ projected \in Nat /\ projected <= Len(log) /\ mishaps \in 0..Mishaps
      /\ b \in Desk /\ DeskOK(b) /\ b.page = "checked" /\ b.sheet \in Sheets /\ b.typed = {}
      /\ desk \in [Clerk -> Desk]
  BY DEF RegistryInv, Store, RegistryTypeOK, DeskOK, ChoiceOK, PressImport
<1>2. CASE Import(c) = {}
  <2>1. desk' = [desk EXCEPT ![c] = [AtForm EXCEPT !.page = "imported"]]
    BY <1>2 DEF PressImport
  <2> QED BY <1>1, <2>1, BackToForm DEF PressImport
<1>3. CASE Import(c) # {}
  <2>1. desk' = [desk EXCEPT ![c] = d]
    BY <1>3 DEF PressImport
  <2>2. /\ Plan(b.sheet) \subseteq Candidates(rows) /\ Candidates(rows) \subseteq Nat
        /\ \A i \in Candidates(rows) :
             /\ rows[i].number \in Number
             /\ i \in Plan(b.sheet) <=>
                  b.sheet.blind \/ RegisteredLicences({rows[i].number}) = {}
    <3>1. Candidates(rows) \subseteq Nat
      BY <1>1, ReadyRows
    <3>2. \A i \in Candidates(rows) :
            /\ rows[i].number \in Number
            /\ i \in Plan(b.sheet) <=>
                 b.sheet.blind \/ RegisteredLicences({rows[i].number}) = {}
      BY <1>1, ReadyRows
    <3>3. Plan(b.sheet) \subseteq Candidates(rows)
      BY <1>1, ReadyRows
    <3> QED BY <3>1, <3>2, <3>3
  <2>3. Import(c) = Plan(b.sheet)
    BY DEF Import
  <2>4. /\ d.page = "checked" /\ d.at = "planned" /\ d.typed = {} /\ d.ready = Plan(b.sheet)
        /\ d.saw = projected /\ d.sheet = b.sheet /\ d.promised = b.promised
    BY <1>1, <2>3 DEF Desk
  <2>5. d \in Desk
    BY <1>1, <2>2, <2>3 DEF Desk
  <2> HIDE DEF d
  <2>6. Chosen(d) = {[number |-> rows[i].number, upper |-> TRUE] : i \in Plan(b.sheet)}
    BY <2>4 DEF Chosen
  <2>7. ChoiceOK(d)
    BY <1>1, <2>2, <2>4, <2>6, RowsAreFinite DEF ChoiceOK
  <2>8. LookedUpFirst(d)
    <3> SUFFICES ASSUME ~b.sheet.blind, NEW n \in Plan(b.sheet), NEW i \in 1..projected,
                        IsNew(i), log[i].licence.number = rows[n].number
                 PROVE  Relicensed(i)
      BY <2>4, <2>6 DEF LookedUpFirst
    <3> QED BY <1>1, <2>2, NobodyHasIt
  <2>9. PreviewWasTrue(d)
    BY <1>1, <2>4 DEF DeskOK, PreviewWasTrue
  <2>10. ASSUME NEW i \in Plan(b.sheet) \ b.promised
         PROVE  \E k \in DOMAIN log :
                  log[k].licence.number = rows[i].number /\ Relicensed(log[k].id)
    <3>1. PICK k \in 1..Len(log) : /\ log[k].licence.number = rows[i].number
                                   /\ log[k].id \in DOMAIN facility
      BY <1>1, <2>2, <2>10 DEF DeskOK, PreviewWasTrue
    <3>2. ~b.sheet.blind
      BY <1>1, <2>2, <2>10 DEF DeskOK, PreviewWasTrue
    <3>3. RegisteredLicences({rows[i].number}) = {}
      BY <2>2, <2>10, <3>2
    <3>4. facility[log[k].id].number # rows[i].number
      BY <3>1, <3>3 DEF RegisteredLicences
    <3>5. Relicensed(log[k].id)
      BY <1>1, <3>1, <3>4, TwoLicences
    <3> QED BY <1>1, <3>1, <3>5 DEF Store, RegistryTypeOK
  <2>11. ASSUME NEW i \in b.promised \ Plan(b.sheet)
         PROVE  \E k \in DOMAIN log : log[k].licence.number = rows[i].number
    <3>1. i \in Candidates(rows)
      BY <1>1, <2>11 DEF DeskOK, PreviewWasTrue
    <3>2. PICK f \in DOMAIN facility : facility[f].number = rows[i].number
      BY <2>2, <2>11, <3>1 DEF RegisteredLicences
    <3> QED BY <1>1, <3>2 DEF Store, FacilitiesFollow, RegistryTypeOK
  <2>12. PreviewHeld(d)
    BY <2>4, <2>10, <2>11 DEF PreviewHeld
  <2>13. DeskOK(d)
    BY <1>1, <2>4, <2>5, <2>7, <2>8, <2>9, <2>12 DEF DeskOK
  <2> QED BY <1>1, <2>1, <2>13, OneDesk DEF PressImport
<1> QED BY <1>2, <1>3

\* The answer, and a death, leave the form.
LEMMA AnswerKeeps ==
  ASSUME RegistryInv, NEW c \in Clerk, Answer(c) \/ Dies(c)
  PROVE  RegistryInv'
<1>1. mishaps \in Nat /\ mishaps \in 0..Mishaps /\ mishaps' \in 0..Mishaps
  BY RegistryAssumption DEF RegistryInv, Store, RegistryTypeOK, Answer, Dies, Spare
<1>2. AtForm = [AtForm EXCEPT !.page = "form"]
  BY DEF AtForm
<1>3. PICK page \in {"form", "imported"} :
        desk' = [desk EXCEPT ![c] = [AtForm EXCEPT !.page = page]]
  BY <1>2 DEF Answer, Dies
<1> QED BY <1>1, <1>3, BackToForm DEF Answer, Dies

-----------------------------------------------------------------------------
(* The steps that write or project.                                        *)

\* What \o appends to.
LEMMA Concatenates ==
  ASSUME NEW T, NEW s \in Seq(T), NEW t \in Seq(T)
  PROVE  /\ s \o t \in Seq(T) /\ Len(s \o t) = Len(s) + Len(t)
         /\ \A i \in 1..Len(s) : (s \o t)[i] = s[i]
         /\ \A j \in 1..(Len(s) + Len(t)) :
              j > Len(s) => (s \o t)[j] = t[j - Len(s)]
OBVIOUS

\* Write(): whatever the look-up could not see was appended after it.
LEMMA WriteKeeps ==
  ASSUME RegistryInv, NEW c \in Clerk, Write(c)
  PROVE  RegistryInv'
<1> DEFINE b == desk[c]
           d == [b EXCEPT !.at = "written", !.awaits = Len(log')]
<1>1. /\ Store /\ log \in Seq(Event) /\ Len(log) \in Nat /\ DOMAIN log = 1..Len(log)
      /\ projected \in 0..Len(log) /\ desk \in [Clerk -> Desk]
      /\ DeskOK(b) /\ b \in Desk /\ b.at = "planned" /\ b.saw <= Len(log) /\ b.saw \in Nat
      /\ Chosen(b) \subseteq Licence /\ IsFiniteSet(Chosen(b))
      /\ b.sheet.blind \in BOOLEAN
  <2>1. b \in Desk /\ DeskOK(b)
    BY DEF RegistryInv, DeskOK
  <2>2. b.sheet.blind \in BOOLEAN
    <3>1. b.sheet \in Sheets \cup {NoSheet}
      BY <2>1 DEF Desk
    <3>2. NoSheet.blind \in BOOLEAN /\ \A sheet \in Sheets : sheet.blind \in BOOLEAN
      BY RegistryAssumption DEF NoSheet
    <3> QED BY <3>1, <3>2
  <2> QED BY <2>1, <2>2 DEF RegistryInv, Store, RegistryTypeOK, DeskOK, ChoiceOK, Desk, Write
<1>2. PICK order \in [1..Cardinality(Chosen(b)) -> Chosen(b)] :
        log' = log \o [i \in DOMAIN order |->
                        [id |-> Len(log) + i, licence |-> order[i], saw |-> b.saw,
                         blind |-> b.sheet.blind]]
  BY DEF Write
<1> DEFINE N == Cardinality(Chosen(b))
           new == [i \in 1..N |-> [id |-> Len(log) + i, licence |-> order[i], saw |-> b.saw,
                                   blind |-> b.sheet.blind]]
<1>3. N \in Nat
  BY <1>1, FS_CardinalityType
<1>4. new \in Seq(Event) /\ Len(new) = N
  <2>1. \A i \in 1..N : order[i] \in Licence /\ Len(log) + i \in Nat
    BY <1>1, <1>2, <1>3
  <2>2. \A i \in 1..N : new[i] \in Event
    BY <1>1, <2>1 DEF Event
  <2> QED BY <1>3, <2>2
<1>5. log' = log \o new
  BY <1>2
<1> HIDE DEF N, new
<1>6. /\ Grows /\ Len(log') = Len(log) + N
      /\ \A j \in 1..Len(log') : j > Len(log) => log'[j] = new[j - Len(log)]
  <2>1. /\ log \o new \in Seq(Event) /\ Len(log \o new) = Len(log) + N
        /\ \A i \in 1..Len(log) : (log \o new)[i] = log[i]
        /\ \A j \in 1..(Len(log) + N) :
             j > Len(log) => (log \o new)[j] = new[j - Len(log)]
    <3>1. Len(log) \in Nat /\ log \in Seq(Event)
      BY <1>1
    <3>2. QED BY <1>3, <1>4, <3>1, Concatenates
  <2> QED BY <1>1, <1>3, <1>5, <2>1 DEF Grows
<1>7. ASSUME NEW j \in 1..Len(log'), j > Len(log)
      PROVE  /\ log'[j].id = j /\ log'[j].saw = b.saw /\ log'[j].blind = b.sheet.blind
             /\ log'[j].licence \in Chosen(b)
  <2>1. j - Len(log) \in 1..N
    BY <1>1, <1>3, <1>6, <1>7
  <2>2. order[j - Len(log)] \in Chosen(b)
    BY <1>2, <2>1 DEF N
  <2>3. new[j - Len(log)] = [id |-> Len(log) + (j - Len(log)), licence |-> order[j - Len(log)],
                             saw |-> b.saw, blind |-> b.sheet.blind]
    BY <2>1 DEF new
  <2>4. Len(log) + (j - Len(log)) = j /\ log'[j] = new[j - Len(log)]
    BY <1>1, <1>3, <1>6, <1>7
  <2> QED BY <2>2, <2>3, <2>4
<1>8. UNCHANGED <<projected, facility, mishaps>>
  BY DEF Write
<1>9. \A i \in 1..Len(log) : (IsNew(i)' <=> IsNew(i)) /\ (Relicensed(i) => Relicensed(i)')
  BY <1>1, <1>6, NewStays
<1>10. d \in Desk
  <2>1. Len(log') \in Nat
    BY <1>1, <1>3, <1>6
  <2> QED BY <1>1, <2>1 DEF Desk
<1>11. desk' = [desk EXCEPT ![c] = d]
  BY <1>1 DEF Write
<1>12. Store'
  <2>1. RegistryTypeOK'
    BY <1>1, <1>3, <1>6, <1>8, <1>10, <1>11 DEF Store, RegistryTypeOK, Grows
  <2>2. ASSUME NEW i \in 1..Len(log') PROVE log'[i].id \in 1..i /\ IsNew(log[i].id)'
    <3>1. CASE i \in 1..Len(log)
      <4>1. log[i].id \in 1..i /\ log[i].id \in 1..Len(log) /\ IsNew(log[i].id)
        BY <1>1, <3>1 DEF Store, AboutFacilities
      <4>2. log'[i] = log[i]
        BY <1>6, <3>1 DEF Grows
      <4>3. \A n \in 1..Len(log) : n = log'[i].id /\ IsNew(n) => IsNew(n)'
        BY <1>9
      <4> QED BY <4>1, <4>2, <4>3 DEF IsNew
    <3>2. CASE i > Len(log)
      BY <1>1, <1>7, <3>2 DEF IsNew
    <3> QED BY <1>1, <1>3, <1>6, <3>1, <3>2
  <2>3. FacilitiesFollow'
    <3>1. DOMAIN facility = {i \in 1..projected : IsNew(i)'}
      BY <1>1, <1>9 DEF Store, FacilitiesFollow
    <3>2. ASSUME NEW f \in DOMAIN facility
          PROVE  \E k \in 1..projected : log'[k].id = f /\ facility[f] = log'[k].licence
      <4>1. PICK k \in 1..projected : log[k].id = f /\ facility[f] = log[k].licence
        BY <1>1, <3>2 DEF Store, FacilitiesFollow
      <4>2. log'[k] = log[k]
        BY <1>1, <1>6, <4>1 DEF Grows
      <4> QED BY <4>1, <4>2
    <3> QED BY <1>8, <3>1, <3>2 DEF FacilitiesFollow
  <2> QED BY <2>1, <2>2, <2>3 DEF Store, AboutFacilities
<1>13. DuplicatesWereUnseen'
  <2> SUFFICES ASSUME NEW i \in 1..Len(log'), NEW j \in 1..Len(log'), i < j,
                      IsNew(i)', IsNew(j)', log'[i].licence.number = log'[j].licence.number,
                      ~(log'[j].saw < i), ~log'[j].blind
               PROVE  Relicensed(i)'
    <3>1. log' \in Seq(Event)
      BY <1>12 DEF Store, RegistryTypeOK
    <3>2. DOMAIN log' = 1..Len(log')
      BY <3>1
    <3>3. QED BY <3>2 DEF DuplicatesWereUnseen
  <2>1. CASE j \in 1..Len(log)
    <3>1. i \in 1..Len(log) /\ log'[i] = log[i] /\ log'[j] = log[j] /\ IsNew(i) /\ IsNew(j)
      BY <1>1, <1>6, <1>9, <2>1 DEF Grows
    <3>2. ~(log[j].saw < i) /\ ~log[j].blind /\ i \in DOMAIN log /\ j \in DOMAIN log
      BY <1>1, <2>1, <3>1
    <3>3. log[i].licence.number = log[j].licence.number
      BY <3>1
    <3>4. Relicensed(i)
      BY <3>1, <3>2, <3>3 DEF RegistryInv, DuplicatesWereUnseen
    <3> QED BY <1>9, <3>1, <3>4
  <2>2. CASE j > Len(log)
    <3>1. log'[j].saw = b.saw /\ ~b.sheet.blind /\ log'[j].licence \in Chosen(b)
      BY <1>7, <2>2
    <3>2. i \in 1..b.saw /\ i \in 1..Len(log)
      BY <1>1, <3>1
    <3>3. IsNew(i) /\ log[i].licence.number = log'[j].licence.number
      BY <1>6, <1>9, <3>2 DEF Grows
    <3>4. Relicensed(i)
      BY <1>1, <3>1, <3>2, <3>3 DEF DeskOK, LookedUpFirst
    <3> QED BY <1>9, <3>2, <3>4
  <2> QED BY <1>1, <1>3, <1>6, <2>1, <2>2
<1>14. ASSUME NEW e \in Clerk, e # c PROVE DeskOK(desk[e])'
  <2>1. DeskOK(desk[e]) /\ desk'[e] = desk[e] /\ facility' = facility
    BY <1>1, <1>8, <1>11, <1>14 DEF RegistryInv
  <2>2. \A x : x = desk[e] => DeskOK(x)'
    BY <1>1, <1>6, <2>1, DeskStays
  <2> QED BY <2>1, <2>2
<1>15. DeskOK(desk[c])'
  <2>1. /\ desk'[c] = d /\ d \in Desk /\ d.at = "written" /\ d.saw = b.saw /\ d.page = b.page
        /\ d.sheet = b.sheet /\ d.promised = b.promised /\ d.typed = b.typed /\ d.ready = b.ready
    BY <1>1, <1>10, <1>11 DEF Desk
  <2>2. \A x : x = b => DeskOK(x)'
    BY <1>1, <1>6, <1>8, DeskStays
  <2> HIDE DEF d
  <2>3. ChoiceOK(desk[c])' /\ desk'[c].saw <= Len(log)'
    <3>1. Chosen(d) = Chosen(b)
      BY <2>1 DEF Chosen
    <3>2. d.saw <= Len(log')
      BY <1>1, <1>3, <1>6, <2>1
    <3> QED BY <1>1, <2>1, <3>1, <3>2 DEF DeskOK, ChoiceOK, Chosen
  <2>4. LookedUpFirst(desk[c])' /\ PreviewHeld(desk[c])'
    BY <2>1 DEF LookedUpFirst, PreviewHeld
  <2>5. PreviewWasTrue(desk[c])'
    BY <2>1, <2>2 DEF DeskOK, PreviewWasTrue
  <2> QED BY <2>1, <2>3, <2>4, <2>5 DEF DeskOK
<1> QED BY <1>12, <1>13, <1>14, <1>15 DEF RegistryInv

\* Update(): a licence is given to a facility that is registered.
LEMMA UpdateKeeps ==
  ASSUME RegistryInv, NEW f \in DOMAIN facility, NEW licence \in Licence, Update(f, licence)
  PROVE  RegistryInv'
<1> DEFINE new == [id |-> f, licence |-> licence, saw |-> 0, blind |-> TRUE]
<1>1. /\ Store /\ log \in Seq(Event) /\ Len(log) \in Nat /\ DOMAIN log = 1..Len(log)
      /\ projected \in 0..Len(log) /\ mishaps' \in 0..Mishaps
      /\ UNCHANGED <<projected, facility, desk>>
  BY RegistryAssumption DEF RegistryInv, Store, RegistryTypeOK, Update, Spare
<1>2. f \in 1..Len(log) /\ IsNew(f)
  BY <1>1 DEF Store, FacilitiesFollow
<1>3. new \in Event /\ log' = Append(log, new)
  BY <1>2 DEF Event, Update
<1>4. new.id = f /\ new.blind
  OBVIOUS
<1> HIDE DEF new
<1>5. /\ Grows /\ Len(log') = Len(log) + 1 /\ log'[Len(log) + 1] = new
      /\ DOMAIN log' = 1..Len(log')
  BY <1>1, <1>3 DEF Grows
<1>6. \A i \in 1..Len(log) : (IsNew(i)' <=> IsNew(i)) /\ (Relicensed(i) => Relicensed(i)')
  BY <1>1, <1>5, NewStays
<1>7. \A n : n = Len(log) + 1 => ~IsNew(n)'
  BY <1>1, <1>2, <1>4, <1>5 DEF IsNew
<1>8. Store'
  <2>1. RegistryTypeOK'
    BY <1>1, <1>5 DEF Store, RegistryTypeOK, Grows
  <2>2. ASSUME NEW i \in 1..Len(log') PROVE log'[i].id \in 1..i /\ IsNew(log[i].id)'
    <3>1. CASE i \in 1..Len(log)
      <4>1. log[i].id \in 1..i /\ log[i].id \in 1..Len(log) /\ IsNew(log[i].id)
        BY <1>1, <3>1 DEF Store, AboutFacilities
      <4>2. log'[i] = log[i]
        BY <1>5, <3>1 DEF Grows
      <4>3. \A n \in 1..Len(log) : n = log'[i].id /\ IsNew(n) => IsNew(n)'
        BY <1>6
      <4> QED BY <4>1, <4>2, <4>3 DEF IsNew
    <3>2. CASE i = Len(log) + 1
      <4>1. log'[i].id = f /\ IsNew(f)'
        BY <1>2, <1>4, <1>5, <1>6, <3>2
      <4> QED BY <1>1, <1>2, <3>2, <4>1 DEF IsNew
    <3> QED BY <1>1, <1>5, <3>1, <3>2
  <2>3. FacilitiesFollow'
    <3>1. DOMAIN facility = {i \in 1..projected : IsNew(i)'}
      BY <1>1, <1>6 DEF Store, FacilitiesFollow
    <3>2. ASSUME NEW g \in DOMAIN facility
          PROVE  \E k \in 1..projected : log'[k].id = g /\ facility[g] = log'[k].licence
      <4>1. PICK k \in 1..projected : log[k].id = g /\ facility[g] = log[k].licence
        BY <1>1, <3>2 DEF Store, FacilitiesFollow
      <4>2. log'[k] = log[k]
        BY <1>1, <1>5, <4>1 DEF Grows
      <4> QED BY <4>1, <4>2
    <3> QED BY <1>1, <3>1, <3>2 DEF FacilitiesFollow
  <2> QED BY <2>1, <2>2, <2>3 DEF Store, AboutFacilities
<1>9. DuplicatesWereUnseen'
  <2> SUFFICES ASSUME NEW i \in 1..Len(log'), NEW j \in 1..Len(log'), i < j,
                      IsNew(i)', IsNew(j)', log'[i].licence.number = log'[j].licence.number,
                      ~(log'[j].saw < i), ~log'[j].blind
               PROVE  Relicensed(i)'
    BY <1>5 DEF DuplicatesWereUnseen
  <2>1. j # Len(log) + 1
    BY <1>7
  <2>2. i \in 1..Len(log) /\ j \in 1..Len(log)
    BY <1>1, <1>5, <2>1
  <2>3. log'[i] = log[i] /\ log'[j] = log[j] /\ IsNew(i) /\ IsNew(j)
    BY <1>5, <1>6, <2>2 DEF Grows
  <2>4. /\ ~(log[j].saw < i) /\ ~log[j].blind /\ i \in DOMAIN log /\ j \in DOMAIN log
        /\ log[i].licence.number = log[j].licence.number
    BY <1>1, <2>2, <2>3
  <2>5. Relicensed(i)
    BY <2>3, <2>4 DEF RegistryInv, DuplicatesWereUnseen
  <2> QED BY <1>6, <2>2, <2>5
<1>10. ASSUME NEW e \in Clerk PROVE DeskOK(desk[e])'
  <2>1. DeskOK(desk[e]) /\ desk' = desk /\ facility' = facility
    BY <1>1 DEF RegistryInv
  <2>2. \A x : x = desk[e] => DeskOK(x)'
    BY <1>1, <1>5, <2>1, DeskStays
  <2> QED BY <2>1, <2>2
<1> QED BY <1>8, <1>9, <1>10 DEF RegistryInv

\* ProjectNext(): the read model follows the store by one event.
LEMMA ProjectNextKeeps ==
  ASSUME RegistryInv, ProjectNext
  PROVE  RegistryInv'
<1> DEFINE n == projected + 1
           e == log[n]
<1>1. /\ Store /\ log \in Seq(Event) /\ Len(log) \in Nat /\ DOMAIN log = 1..Len(log)
      /\ projected \in 0..Len(log) /\ UNCHANGED <<log, desk, mishaps>>
      /\ n \in 1..Len(log) /\ projected' = n
      /\ facility' = [f \in DOMAIN facility \cup {e.id} |->
                        IF f = e.id THEN e.licence ELSE facility[f]]
  BY DEF RegistryInv, Store, RegistryTypeOK, ProjectNext
<1>2. e \in Event /\ e.licence \in Licence /\ e.id \in 1..n /\ IsNew(e.id)
  <2>1. log[n] \in Event /\ log[n].id \in 1..n /\ IsNew(log[n].id)
    BY <1>1 DEF Store, AboutFacilities
  <2> QED BY <2>1 DEF Event
<1>3. Grows
  BY <1>1 DEF Grows
<1>4. DOMAIN facility' = {i \in 1..n : IsNew(i)}
  <2>1. DOMAIN facility = {i \in 1..projected : IsNew(i)}
    BY <1>1 DEF Store, FacilitiesFollow
  <2>2. IsNew(n) => e.id = n
    BY DEF IsNew
  <2> HIDE DEF e
  <2>3. DOMAIN facility' = DOMAIN facility \cup {e.id}
    BY <1>1
  <2> QED BY <1>1, <1>2, <2>1, <2>2, <2>3
<1>5. ASSUME NEW f \in DOMAIN facility'
      PROVE  /\ facility'[f] \in Licence
             /\ \E k \in 1..n : log[k].id = f /\ facility'[f] = log[k].licence
  <2>1. CASE f = e.id
    BY <1>1, <1>2, <2>1
  <2>2. CASE f # e.id
    <3>1. f \in DOMAIN facility /\ facility'[f] = facility[f]
      BY <1>1, <1>5, <2>2
    <3>2. PICK k \in 1..projected : log[k].id = f /\ facility[f] = log[k].licence
      BY <1>1, <3>1 DEF Store, FacilitiesFollow
    <3>3. facility[f] \in Licence
      BY <1>1, <3>1 DEF Store, RegistryTypeOK
    <3> QED BY <1>1, <3>1, <3>2, <3>3
  <2> QED BY <2>1, <2>2
<1>6. Store'
  <2>1. facility' \in [DOMAIN facility' -> Licence] /\ DOMAIN facility' \subseteq 1..Len(log)
    <3>1. facility' \in [DOMAIN facility' -> Licence]
      <4> DEFINE F == facility'
      <4>1. F = [f \in DOMAIN F |-> F[f]]
        BY <1>1
      <4>2. \A f \in DOMAIN F : F[f] \in Licence
        BY <1>5
      <4> HIDE DEF F
      <4>3. F \in [DOMAIN F -> Licence]
        BY <4>1, <4>2
      <4> QED BY <4>3 DEF F
    <3>2. DOMAIN facility' \subseteq 1..Len(log)
      BY <1>1, <1>4
    <3> QED BY <3>1, <3>2
  <2>2. RegistryTypeOK'
    BY <1>1, <2>1 DEF Store, RegistryTypeOK
  <2>3. AboutFacilities' /\ \A i : IsNew(i)' <=> IsNew(i)
    BY <1>1 DEF Store, AboutFacilities, IsNew
  <2>4. FacilitiesFollow'
    <3>1. DOMAIN facility' = {i \in 1..projected' : IsNew(i)'}
      BY <1>1, <1>4, <2>3
    <3>2. \A f \in DOMAIN facility' :
            \E k \in 1..projected' : log'[k].id = f /\ facility'[f] = log'[k].licence
      <4> SUFFICES ASSUME NEW f \in DOMAIN facility'
                   PROVE  \E k \in 1..projected' :
                            log'[k].id = f /\ facility'[f] = log'[k].licence
        OBVIOUS
      <4>1. PICK k \in 1..n : log[k].id = f /\ facility'[f] = log[k].licence
        BY <1>5
      <4>2. log' = log /\ projected' = n
        BY <1>1
      <4> QED BY <4>1, <4>2
    <3> QED BY <3>1, <3>2 DEF FacilitiesFollow
  <2> QED BY <2>2, <2>3, <2>4 DEF Store
<1>7. DuplicatesWereUnseen'
  BY <1>1 DEF RegistryInv, DuplicatesWereUnseen, IsNew, Relicensed
<1>8. ASSUME NEW c \in Clerk PROVE DeskOK(desk[c])'
  <2>1. DeskOK(desk[c]) /\ desk' = desk /\ DOMAIN facility \subseteq DOMAIN facility'
    BY <1>1 DEF RegistryInv
  <2>2. \A x : x = desk[c] => DeskOK(x)'
    BY <1>1, <1>3, <2>1, DeskStays
  <2> QED BY <2>1, <2>2
<1> QED BY <1>6, <1>7, <1>8 DEF RegistryInv

LEMMA RegistryStays == RegistryInv /\ [RegistryNext]_registryVars => RegistryInv'
<1> SUFFICES ASSUME RegistryInv, [RegistryNext]_registryVars PROVE RegistryInv'
  OBVIOUS
<1>1. CASE UNCHANGED registryVars
  <2>1. UNCHANGED <<log, projected, facility, desk, mishaps>>
    BY <1>1 DEF registryVars
  <2>2. Store' /\ Store /\ Grows
    BY <2>1 DEF RegistryInv, Store, RegistryTypeOK, AboutFacilities, FacilitiesFollow, IsNew,
       Grows
  <2>3. DuplicatesWereUnseen'
    BY <2>1 DEF RegistryInv, DuplicatesWereUnseen, IsNew, Relicensed
  <2>4. ASSUME NEW c \in Clerk PROVE DeskOK(desk[c])'
    <3>1. DeskOK(desk[c]) /\ desk' = desk /\ facility' = facility
      BY <2>1 DEF RegistryInv
    <3>2. \A x : x = desk[c] => DeskOK(x)'
      BY <2>2, <3>1, DeskStays
    <3> QED BY <3>1, <3>2
  <2> QED BY <2>2, <2>3, <2>4 DEF RegistryInv
<1> QED
  BY <1>1, PressImportKeeps, WriteKeeps, AnswerKeeps, ChooseFileKeeps, AddKeeps, UpdateKeeps,
     ProjectNextKeeps
     DEF RegistryNext

\* The store, the read model and the clerks' pages keep their shapes.
THEOREM RegistryTypesTheorem == RegistrySpec => []RegistryTypeOK
<1>1. RegistryInv => RegistryTypeOK
  BY DEF RegistryInv, Store
<1> QED BY RegistryStarts, RegistryStays, <1>1, PTL DEF RegistrySpec

\* A licence is registered twice only where the look-up before the second could
\* not have seen the first, or the first was relicensed, however many clerks add
\* facilities and however far the projector is behind.
THEOREM DuplicatesWereUnseenTheorem == RegistrySpec => []DuplicatesWereUnseen
<1>1. RegistryInv => DuplicatesWereUnseen
  BY DEF RegistryInv
<1> QED BY RegistryStarts, RegistryStays, <1>1, PTL DEF RegistrySpec

\* An import departs from its preview only where somebody has registered or
\* relicensed one of its licences meanwhile.
THEOREM PreviewHoldsTheorem == RegistrySpec => []PreviewHolds
<1>1. RegistryInv => PreviewHolds
  BY DEF RegistryInv, DeskOK, PreviewHeld, PreviewHolds
<1> QED BY RegistryStarts, RegistryStays, <1>1, PTL DEF RegistrySpec
=============================================================================
