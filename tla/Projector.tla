------------------------------ MODULE Projector -----------------------------
(***************************************************************************)
(* The event store and the projector: how recorded events become the read  *)
(* model the console shows (services/sync-gateway events/, projections/).  *)
(*                                                                         *)
(* An event is named by its place in record order, that is by the pair     *)
(* (recorded_at, event_id); recorded_at is now(), the time its transaction *)
(* began, not the time it committed.  The events are those of one finding, *)
(* whose row stands for the read model.                                    *)
(*                                                                         *)
(* applyPending() runs in every command handler that has appended, in      *)
(* every push, and in a sweep, so several of them read batches and apply   *)
(* them at the same time; each event is applied with its cursor advance in *)
(* one transaction, and any of them can stop between two transactions.     *)
(***************************************************************************)
EXTENDS Findings, FiniteSets

CONSTANTS
  Worker,         \* calls of applyPending() that may be in progress
  MaxEvents,      \* bound: events ever recorded
  BatchSize,      \* batchSize
  MayCommitLate,  \* may a transaction commit after one that began later?
  Modes           \* the ways of running looked at

ASSUME ProjectorAssumption ==
  /\ MaxEvents \in Nat
  /\ BatchSize \in Nat \ {0}
  /\ MayCommitLate \in BOOLEAN
  /\ Modes \subseteq {"alone", "crowded"}

VARIABLES
  mode,       \* "alone": one call at a time, rebuilds, and no clash; "crowded":
              \* calls overlap, no rebuild, events as the finding allows them
  began,      \* number of appending transactions begun
  open,       \* those neither committed nor rolled back
  committed,  \* event_store: the events a query can see
  kind,       \* event_type of each event
  cursor,     \* projection_cursor, 0 where there is no row
  status,     \* status of the finding's row, "none" where there is no row
  applied,    \* history: events applied since the read model was last empty
  worker      \* what each call of applyPending() is doing

\* A "Clash" breaks a constraint of the read model that the store does not have:
\* a second finding with the same reference, a second certificate with the
\* same serial.
Recordable == Kinds \cup (IF mode = "crowded" THEN {"Clash"} ELSE {})

store == <<mode, began, open, committed, kind>>
model == <<cursor, status, applied>>
vars == <<mode, began, open, committed, kind, cursor, status, applied, worker>>

-----------------------------------------------------------------------------
Idle == [at |-> "idle", batch |-> {}, more |-> FALSE]
Reading == [at |-> "reading", batch |-> {}, more |-> FALSE]

\* The events the cursor has not passed; lag() counts them.
Ahead == {e \in committed : e > cursor}

\* nextBatch(): the first BatchSize of them, in record order.
NextBatch == {e \in Ahead : Cardinality({f \in Ahead : f < e}) < BatchSize}

First(e, S) == e \in S /\ \A f \in S : e <= f

\* What a replay of the whole store would make of the finding.
Replay ==
  LET after[n \in 0..MaxEvents] ==
        IF n = 0 THEN "none"
        ELSE IF n \in committed /\ kind[n] # "Clash" THEN Project(kind[n], after[n - 1])
        ELSE after[n - 1]
  IN  after[MaxEvents]

Init ==
  /\ mode \in Modes
  /\ began = 0 /\ open = {} /\ committed = {}
  /\ kind = [e \in 1..MaxEvents |-> "none"]
  /\ cursor = 0 /\ status = "none" /\ applied = {}
  /\ worker = [w \in Worker |-> Idle]

-----------------------------------------------------------------------------
(* The store.  A transaction takes its record time when it begins; it may   *)
(* then wait (for the advisory lock, for instance) while later ones commit. *)
Begin(k) ==
  /\ began < MaxEvents
  /\ MayCommitLate \/ open = {}
  /\ k \in Kinds /\ mode = "crowded" => Replay \in Accepts[k]
  /\ began' = began + 1
  /\ open' = open \cup {began + 1}
  /\ kind' = [kind EXCEPT ![began + 1] = k]
  /\ UNCHANGED <<mode, committed, worker>> /\ UNCHANGED model

Commit(e) ==
  /\ e \in open
  /\ open' = open \ {e} /\ committed' = committed \cup {e}
  /\ UNCHANGED <<mode, began, kind, worker>> /\ UNCHANGED model

Rollback(e) ==
  /\ e \in open
  /\ open' = open \ {e}
  /\ UNCHANGED <<mode, began, committed, kind, worker>> /\ UNCHANGED model

-----------------------------------------------------------------------------
(* applyPending().                                                          *)
MayStart(w) ==
  /\ worker[w].at = "idle"
  /\ mode = "alone" => \A v \in Worker : worker[v].at = "idle"

Start(w) ==
  /\ MayStart(w)
  /\ worker' = [worker EXCEPT ![w] = Reading]
  /\ UNCHANGED store /\ UNCHANGED model

ReadBatch(w) ==
  /\ worker[w].at = "reading"
  /\ worker' = [worker EXCEPT ![w] =
                  IF NextBatch = {} THEN Idle
                  ELSE [at |-> "applying", batch |-> NextBatch,
                        more |-> Cardinality(NextBatch) = BatchSize]]
  /\ UNCHANGED store /\ UNCHANGED model

\* What is left of w's batch after event e; a full batch is followed by another.
After(w, e) ==
  LET rest == worker[w].batch \ {e}
  IN  IF rest # {} THEN [worker[w] EXCEPT !.batch = rest]
      ELSE IF worker[w].more THEN Reading ELSE Idle

\* The cursor goes to the event just applied, wherever another worker left it.
CursorAfter_EndOfBatch(w, e) ==
  CHOOSE f \in worker[w].batch : \A g \in worker[w].batch : g <= f
CursorAfter(w, e) == e

Apply(w, e) ==
  /\ worker[w].at = "applying" /\ First(e, worker[w].batch)
  /\ kind[e] # "Clash"
  /\ status' = Project(kind[e], status)
  /\ applied' = applied \cup {e}
  /\ cursor' = CursorAfter(w, e)
  /\ worker' = [worker EXCEPT ![w] = After(w, e)]
  /\ UNCHANGED store

\* A handler that throws rolls its transaction back and ends the call; the
\* cursor stays in front of the event.
Throw(w, e) ==
  /\ worker[w].at = "applying" /\ First(e, worker[w].batch)
  /\ kind[e] = "Clash"
  /\ worker' = [worker EXCEPT ![w] = Idle]
  /\ UNCHANGED store /\ UNCHANGED model

\* The process is killed or the database fails: nothing half done remains.
Crash(w) ==
  /\ worker[w].at # "idle"
  /\ worker' = [worker EXCEPT ![w] = Idle]
  /\ UNCHANGED store /\ UNCHANGED model

\* rebuild(): the rows and the cursor go in one transaction, then applyPending().
Rebuild(w) ==
  /\ mode = "alone" /\ MayStart(w) /\ cursor > 0
  /\ status' = "none" /\ applied' = {} /\ cursor' = 0
  /\ worker' = [worker EXCEPT ![w] = Reading]
  /\ UNCHANGED store

-----------------------------------------------------------------------------
Next ==
  \/ \E k \in Recordable : Begin(k)
  \/ \E e \in open : Commit(e) \/ Rollback(e)
  \/ \E w \in Worker :
       \/ Start(w) \/ ReadBatch(w) \/ Crash(w) \/ Rebuild(w)
       \/ \E e \in worker[w].batch : Apply(w, e) \/ Throw(w, e)

Spec == Init /\ [][Next]_vars

\* The sweep starts every five seconds and awaits resolve.  A worker may be
\* killed over and over, but not for ever.
Fairness ==
  \A w \in Worker :
    /\ WF_vars(Start(w)) /\ SF_vars(ReadBatch(w))
    /\ SF_vars(\E e \in worker[w].batch : Apply(w, e) \/ Throw(w, e))

FairSpec == Spec /\ Fairness

-----------------------------------------------------------------------------
(* Properties *)

WorkerType ==
  [at : {"idle", "reading", "applying"}, batch : SUBSET committed,
   more : BOOLEAN]

\* The variables have the shapes their comments say, and nothing is projected
\* or handed to a worker that is not in the store.
TypeOK ==
  /\ mode \in Modes
  /\ began \in 0..MaxEvents
  /\ open \subseteq 1..began /\ committed \subseteq 1..began
  /\ open \cap committed = {}
  /\ kind \in [1..MaxEvents -> Kinds \cup {"Clash", "none"}]
  /\ \A e \in 1..began : kind[e] # "none"
  /\ cursor \in committed \cup {0}
  /\ status \in Statuses \cup {"none"}
  /\ applied \subseteq committed
  /\ worker \in [Worker -> WorkerType]

\* "Apply every event recorded after the cursor, in record order": the cursor
\* never passes an event that has not been applied, however many workers run
\* at once and wherever they stop (projector.service.ts:50-54).  What it has
\* passed is never looked at again.
NoneSkipped == \A e \in committed : e <= cursor => e \in applied

\* Why: when the events before a later one are all applied or in a worker's
\* batch, that worker moves the cursor past nothing; and an event that commits
\* is later than all that have.
NothingBehind ==
  /\ NoneSkipped
  /\ \A e \in open : open = {e} /\ \A f \in committed : f < e
  /\ \A w \in Worker : worker[w].at = "idle" => worker[w].batch = {}
  /\ \A w \in Worker : \A b \in worker[w].batch :
       \A e \in committed : e < b => e \in applied \cup worker[w].batch

\* An event is applied for the first time only when every earlier one has been:
\* no worker overtakes another into a state the store does not have.
FirstTimeInOrder ==
  [][\A e \in applied' \ applied, f \in committed : f < e => f \in applied]_vars

\* "If a projection disagrees with the event store, the event store wins": when
\* all is applied and nobody is at work, the read model is what a replay of
\* the store would make it, although workers apply events more than once.
QuietModelIsReplay ==
  mode = "alone" /\ Ahead = {} /\ (\A w \in Worker : worker[w].at # "applying")
    => status = Replay

\* Where no event clashes, every recorded one reaches the read model, once the
\* rebuilds, which send the cursor back to the start, have come to an end.
EventuallyApplied ==
  mode = "alone" /\ <>[][cursor' # 0]_cursor =>
    \A e \in 1..MaxEvents : (e \in committed) ~> (e \in applied)
=============================================================================
