------------------------------ MODULE Registry ------------------------------
(***************************************************************************)
(* The facilities of one state and the clerks who add to them, one at a    *)
(* time or from a spreadsheet (console/registry.service.ts,                *)
(* console/facility-import.ts, the console's pages under facilities/).     *)
(*                                                                         *)
(* A licence is compared without case by whoever is about to register one, *)
(* and as it is written by the read model's unique key.  What a clerk is   *)
(* told is already registered is read from the read model, which follows   *)
(* the store; between that read and the append nothing is held.            *)
(***************************************************************************)
EXTENDS Naturals, Sequences, FiniteSets

CONSTANTS
  Clerk,    \* people adding facilities
  Number,   \* licence numbers, without regard to case
  Missing,  \* a row without one
  Sheets,   \* spreadsheets they import
  MaxLog,   \* bound: nothing is begun or changed beyond this many events
  Mishaps   \* bound: processes that die, and relicensings

Row == [number : Number \cup {Missing}, good : BOOLEAN]

\* rows as parseSheet() leaves them, good when everything but the licence is;
\* blind when another column's heading is taken for the licence's by the look-up.
ASSUME RegistryAssumption ==
  /\ Missing \notin Number
  /\ Sheets \subseteq [rows : Seq(Row), blind : BOOLEAN]
  /\ MaxLog \in Nat /\ Mishaps \in Nat

VARIABLES
  log,       \* facility events in the store
  projected, \* how many of them are projected
  facility,  \* the read model: the licence of each facility
  desk,      \* each clerk's page, and the request it is waiting for
  mishaps

registryVars == <<log, projected, facility, desk, mishaps>>

Licence == [number : Number, upper : BOOLEAN]

\* A facility is named by the place of its registration in the log.  An event
\* keeps, for the record, what the check before it could see.
Event == [id : Nat, licence : Licence, saw : Nat, blind : BOOLEAN]

NoSheet == [rows |-> <<>>, blind |-> FALSE]
Desk ==
  [page : {"form", "checked", "imported"}, sheet : Sheets \cup {NoSheet},
   promised : SUBSET Nat, at : {"idle", "planned", "written"}, typed : SUBSET Licence,
   ready : SUBSET Nat, saw : Nat, awaits : Nat]

AtForm ==
  [page |-> "form", sheet |-> NoSheet, promised |-> {}, at |-> "idle", typed |-> {},
   ready |-> {}, saw |-> 0, awaits |-> 0]

RegistryTypeOK ==
  /\ log \in Seq(Event) /\ projected \in 0..Len(log)
  /\ facility \in [DOMAIN facility -> Licence] /\ DOMAIN facility \subseteq 1..Len(log)
  /\ desk \in [Clerk -> Desk] /\ mishaps \in 0..Mishaps

RegistryInit ==
  /\ log = <<>> /\ projected = 0 /\ facility = <<>>
  /\ desk = [c \in Clerk |-> AtForm]
  /\ mishaps = Mishaps

Spare == mishaps > 0 /\ mishaps' = mishaps - 1
-----------------------------------------------------------------------------
(* What a row will become *)

\* A mutant: licences compared as they are written.
RegisteredLicences_AsWritten(numbers) ==
  {n \in numbers : \E f \in DOMAIN facility : facility[f] = [number |-> n, upper |-> TRUE]}

\* upper(licence_number) on both sides.
RegisteredLicences(numbers) ==
  {n \in numbers : \E f \in DOMAIN facility : facility[f].number = n}

\* The cells under the first heading that says licence or registration.
LookedUp(sheet) ==
  IF sheet.blind THEN {} ELSE {sheet.rows[i].number : i \in DOMAIN sheet.rows} \ {Missing}

\* The rows that are ready.  A row that is refused for something else still
\* takes its licence from the rows below it.
PlanImport(rows, registered) ==
  {i \in DOMAIN rows :
     /\ rows[i].good /\ rows[i].number # Missing
     /\ rows[i].number \notin registered
     /\ \A j \in 1..(i - 1) : rows[j].number # rows[i].number}

Plan(sheet) == PlanImport(sheet.rows, RegisteredLicences(LookedUp(sheet)))

-----------------------------------------------------------------------------
(* The clerk *)

MayBegin(c) == desk[c].at = "idle" /\ Len(log) < MaxLog

\* load(): the file is checked as soon as it is chosen, by a dry run.
ChooseFile(c, sheet) ==
  /\ MayBegin(c)
  /\ desk' = [desk EXCEPT ![c] = [AtForm EXCEPT !.page = "checked", !.sheet = sheet,
                                                !.promised = Plan(sheet)]]
  /\ UNCHANGED <<log, projected, facility, mishaps>>

\* A mutant: only the dry run looks anything up.
Import_Unchecked(c) == PlanImport(desk[c].sheet.rows, {})

\* The import plans again, from what is registered by now.
Import(c) == Plan(desk[c].sheet)

PressImport(c) ==
  /\ MayBegin(c) /\ desk[c].page = "checked" /\ desk[c].promised # {}
  /\ desk' = [desk EXCEPT ![c] =
       IF Import(c) = {} THEN [AtForm EXCEPT !.page = "imported"]
       ELSE [@ EXCEPT !.at = "planned", !.ready = Import(c), !.saw = projected]]
  /\ UNCHANGED <<log, projected, facility, mishaps>>

\* The form; the licence is kept as it was typed.
Add(c, licence) ==
  /\ MayBegin(c)
  /\ RegisteredLicences({licence.number}) = {}
  /\ desk' = [desk EXCEPT ![c] = [AtForm EXCEPT !.at = "planned", !.typed = {licence},
                                                !.saw = projected]]
  /\ UNCHANGED <<log, projected, facility, mishaps>>

\* The licences of the rows that were ready, or of the form.
Chosen(d) ==
  d.typed \cup {[number |-> d.sheet.rows[i].number, upper |-> TRUE] : i \in d.ready}

\* append() or appendAll(): one transaction, its events in some order.
Write(c) ==
  /\ desk[c].at = "planned"
  /\ \E order \in {s \in [1..Cardinality(Chosen(desk[c])) -> Chosen(desk[c])] :
                     \A i, j \in DOMAIN s : i # j => s[i] # s[j]} :
       log' = log \o [i \in DOMAIN order |->
                        [id |-> Len(log) + i, licence |-> order[i],
                         saw |-> desk[c].saw, blind |-> desk[c].sheet.blind]]
  /\ desk' = [desk EXCEPT ![c].at = "written", ![c].awaits = Len(log')]
  /\ UNCHANGED <<projected, facility, mishaps>>

\* The answer waits for applyPending(), which either comes that far or throws.
Clashes(e) == \E f \in DOMAIN facility \ {e.id} : facility[f] = e.licence
Stuck == projected < Len(log) /\ Clashes(log[projected + 1])

\* A mutant: an answer that waits however long it takes.
Answer_Waits(c) ==
  /\ desk[c].at = "written" /\ projected >= desk[c].awaits
  /\ desk' = [desk EXCEPT ![c] =
       [AtForm EXCEPT !.page = IF desk[c].page = "checked" THEN "imported" ELSE "form"]]
  /\ UNCHANGED <<log, projected, facility, mishaps>>

Answer(c) ==
  /\ desk[c].at = "written" /\ (projected >= desk[c].awaits \/ Stuck)
  /\ desk' = [desk EXCEPT ![c] =
       [AtForm EXCEPT !.page = IF desk[c].page = "checked" /\ projected >= desk[c].awaits
                               THEN "imported" ELSE "form"]]
  /\ UNCHANGED <<log, projected, facility, mishaps>>

\* The gateway dies, or its answer is lost; the clerk begins again.
Dies(c) ==
  /\ desk[c].at # "idle" /\ Spare
  /\ desk' = [desk EXCEPT ![c] = AtForm]
  /\ UNCHANGED <<log, projected, facility>>

\* update(): PATCH, which looks nothing up.
Update(f, licence) ==
  /\ f \in DOMAIN facility /\ Len(log) < MaxLog /\ Spare
  /\ log' = Append(log, [id |-> f, licence |-> licence, saw |-> 0, blind |-> TRUE])
  /\ UNCHANGED <<projected, facility, desk>>

-----------------------------------------------------------------------------
(* The projector *)

ProjectNext ==
  /\ projected < Len(log) /\ ~Stuck
  /\ LET e == log[projected + 1] IN
       facility' = [f \in DOMAIN facility \cup {e.id} |->
                      IF f = e.id THEN e.licence ELSE facility[f]]
  /\ projected' = projected + 1
  /\ UNCHANGED <<log, desk, mishaps>>

-----------------------------------------------------------------------------
RegistryNext ==
  \/ ProjectNext
  \/ \E c \in Clerk :
       \/ PressImport(c) \/ Write(c) \/ Answer(c) \/ Dies(c)
       \/ \E sheet \in Sheets : ChooseFile(c, sheet)
       \/ \E licence \in Licence : Add(c, licence)
  \/ \E f \in DOMAIN facility, licence \in Licence : Update(f, licence)

RegistryFairness ==
  /\ WF_registryVars(ProjectNext)
  /\ \A c \in Clerk : WF_registryVars(Write(c)) /\ WF_registryVars(Answer(c))

RegistrySpec == RegistryInit /\ [][RegistryNext]_registryVars /\ RegistryFairness

-----------------------------------------------------------------------------
(* Properties *)

IsNew(i) == log[i].id = i
Relicensed(i) == \E k \in DOMAIN log : ~IsNew(k) /\ log[k].id = i

\* "Checked before the event is written" (registry.service.ts:47-50): a licence
\* is registered twice only where the check before the second could not have
\* seen the first, because it was not yet projected or its column was taken for
\* another, or where the first facility has been given a new licence.
DuplicatesWereUnseen ==
  \A i, j \in DOMAIN log :
    i < j /\ IsNew(i) /\ IsNew(j) /\ log[i].licence.number = log[j].licence.number
      => log[j].saw < i \/ log[j].blind \/ Relicensed(i)

\* "What the preview promises is what happens" (import-sheet.tsx:16-20): a row
\* is registered that was not promised only where a licence has been given up
\* meanwhile, and one promised is left out only where its licence has been taken.
PreviewHolds ==
  \A c \in Clerk : desk[c].at = "planned" /\ desk[c].page = "checked" =>
    LET number(i) == desk[c].sheet.rows[i].number IN
    /\ \A i \in desk[c].ready \ desk[c].promised :
         \E k \in DOMAIN log : log[k].licence.number = number(i) /\ Relicensed(log[k].id)
    /\ \A i \in desk[c].promised \ desk[c].ready :
         \E k \in DOMAIN log : log[k].licence.number = number(i)

\* A clerk is answered, and what has been written is listed, unless an event
\* that breaks the unique key is in front of it.
RegisteredIsListed ==
  /\ []<>(projected = Len(log) \/ Stuck)
  /\ \A c \in Clerk : []<>(desk[c].at = "idle")
=============================================================================
