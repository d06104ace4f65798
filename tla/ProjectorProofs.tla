--------------------------- MODULE ProjectorProofs --------------------------
(***************************************************************************)
(* What Projector guarantees for any number of workers and events, workers *)
(* stopping anywhere, as long as transactions commit in the order they     *)
(* began: the cursor passes no event that has not been applied, no event   *)
(* is applied before an earlier one, and while calls come one at a time    *)
(* the read model is a replay of the store, rebuilt or not.  The run       *)
(* projector_late shows what a late commit does to the first.              *)
(***************************************************************************)
EXTENDS Projector, FiniteSetTheorems, WellFoundedInduction, TLAPS

LEMMA IdleFacts ==
  /\ Idle.at = "idle" /\ Idle.batch = {} /\ Idle.more = FALSE
  /\ Reading.at = "reading" /\ Reading.batch = {} /\ Reading.more = FALSE
BY DEF Idle, Reading

LEMMA IdleType == Idle \in WorkerType /\ Reading \in WorkerType
BY DEF Idle, Reading, WorkerType

LEMMA NextBatchType == NextBatch \subseteq Ahead /\ Ahead \subseteq committed
BY DEF NextBatch, Ahead

\* A batch that grows with the store is still a batch.
LEMMA WorkerTypeGrows ==
  ASSUME committed \subseteq committed', worker \in [Worker -> WorkerType]
  PROVE  worker \in [Worker -> WorkerType']
BY DEF WorkerType

LEMMA ProjectType ==
  ASSUME NEW k \in Kinds, NEW s \in Statuses \cup {"none"}
  PROVE  Project(k, s) \in Statuses \cup {"none"}
<1>1. Sets[k] \in Statuses
  BY DEF Kinds, Sets, Statuses
<1>2. QED BY <1>1 DEF Project

\* The first events of the batch are NextBatch's: no event of the store that is
\* ahead of the cursor comes before one of them and is not among them.
LEMMA NextBatchIsFirst ==
  ASSUME TypeOK, NEW b \in NextBatch, NEW e \in Ahead, e < b
  PROVE  e \in NextBatch
<1> DEFINE before(x) == {f \in Ahead : f < x}
<1>1. committed \subseteq 1..began /\ began \in Nat /\ BatchSize \in Nat
  BY ProjectorAssumption DEF TypeOK
<1>2. b \in Nat /\ e \in Nat /\ \A f \in Ahead : f \in Nat
  BY <1>1, NextBatchType
<1>3. IsFiniteSet(1..began)
  BY <1>1, FS_Interval
<1>4. IsFiniteSet(before(b)) /\ Cardinality(before(b)) < BatchSize
  <2>1. before(b) \in SUBSET (1..began)
    BY <1>1, NextBatchType
  <2>2. QED BY <1>3, <2>1, FS_Subset DEF NextBatch
<1>5. before(e) \in SUBSET before(b)
  <2>1. ASSUME NEW f \in Ahead, f < e PROVE f < b
    BY <1>2, <2>1
  <2>2. QED BY <2>1
<1>6. /\ IsFiniteSet(before(e))
      /\ Cardinality(before(e)) <= Cardinality(before(b))
  BY <1>4, <1>5, FS_Subset
<1>7. Cardinality(before(e)) \in Nat /\ Cardinality(before(b)) \in Nat
  BY <1>4, <1>6, FS_CardinalityType
<1>8. Cardinality(before(e)) < BatchSize
  BY <1>1, <1>4, <1>6, <1>7
<1>9. QED BY <1>8 DEF NextBatch

-----------------------------------------------------------------------------
(* Types *)

LEMMA InitType == Init => TypeOK
<1> SUFFICES ASSUME Init PROVE TypeOK
  OBVIOUS
<1>1. worker \in [Worker -> WorkerType]
  BY IdleType DEF Init
<1>2. QED BY <1>1, ProjectorAssumption DEF Init, TypeOK

LEMMA NextType == TypeOK /\ [Next]_vars => TypeOK'
<1> SUFFICES ASSUME TypeOK, [Next]_vars PROVE TypeOK'
  OBVIOUS
<1> USE ProjectorAssumption DEF store, model
<1>1. ASSUME NEW k \in Recordable, Begin(k) PROVE TypeOK'
  <2>1. began + 1 \in 1..MaxEvents /\ k \in Kinds \cup {"Clash"}
    BY <1>1 DEF Begin, TypeOK, Recordable
  <2>2. UNCHANGED WorkerType
    BY <1>1 DEF Begin, WorkerType
  <2>3. kind' \in [1..MaxEvents -> Kinds \cup {"Clash", "none"}]
    BY <1>1, <2>1 DEF Begin, TypeOK
  <2>4. /\ began' \in 0..MaxEvents /\ open' \subseteq 1..began'
        /\ committed' \subseteq 1..began' /\ open' \cap committed' = {}
    BY <1>1, <2>1 DEF Begin, TypeOK
  <2>5. \A e \in 1..began' : kind'[e] # "none"
    BY <1>1, <2>1 DEF Begin, TypeOK, Kinds
  <2>6. QED BY <1>1, <2>2, <2>3, <2>4, <2>5 DEF Begin, TypeOK
<1>2. ASSUME NEW e \in open, Commit(e) PROVE TypeOK'
  <2>1. worker' \in [Worker -> WorkerType']
    BY <1>2, WorkerTypeGrows DEF Commit, TypeOK
  <2>2. QED BY <1>2, <2>1 DEF Commit, TypeOK
<1>3. ASSUME NEW e \in open, Rollback(e) PROVE TypeOK'
  BY <1>3 DEF Rollback, TypeOK, WorkerType
\* The steps of a worker leave the store and hence WorkerType alone.
<1>4. ASSUME NEW w \in Worker, UNCHANGED store, NEW s \in WorkerType,
             worker' = [worker EXCEPT ![w] = s]
      PROVE  worker' \in [Worker -> WorkerType']
  BY <1>4 DEF TypeOK, WorkerType
<1>5. ASSUME NEW w \in Worker, Start(w) PROVE TypeOK'
  BY <1>4, <1>5, IdleType DEF Start, TypeOK
<1>6. ASSUME NEW w \in Worker, ReadBatch(w) PROVE TypeOK'
  <2> DEFINE s == [at |-> "applying", batch |-> NextBatch,
                   more |-> Cardinality(NextBatch) = BatchSize]
  <2>1. s \in WorkerType
    <3>1. NextBatch \in SUBSET committed
      BY NextBatchType
    <3>2. (Cardinality(NextBatch) = BatchSize) \in BOOLEAN
      OBVIOUS
    <3> HIDE DEF NextBatch
    <3>3. QED BY <3>1, <3>2, Zenon DEF WorkerType
  <2>2. worker' \in [Worker -> WorkerType']
    BY <1>4, <1>6, <2>1, IdleType DEF ReadBatch
  <2>3. QED BY <1>6, <2>2 DEF ReadBatch, TypeOK
<1>7. ASSUME NEW w \in Worker, NEW e \in worker[w].batch, Apply(w, e)
      PROVE  TypeOK'
  <2>1. e \in committed /\ worker[w].batch \in SUBSET committed
    BY <1>7 DEF TypeOK, WorkerType
  <2>2. After(w, e) \in WorkerType
    BY <2>1, IdleType DEF After, TypeOK, WorkerType
  <2>3. worker' \in [Worker -> WorkerType']
    BY <1>4, <1>7, <2>2 DEF Apply
  <2>4. kind[e] \in Kinds
    <3>1. began \in 0..MaxEvents /\ MaxEvents \in Nat /\ e \in 1..began
      BY <2>1, ProjectorAssumption, Zenon DEF TypeOK
    <3>2. e \in 1..began /\ e \in 1..MaxEvents
      BY <3>1
    <3>3. kind[e] \in Kinds \cup {"Clash", "none"} /\ kind[e] # "none"
      BY <3>2 DEF TypeOK
    <3>4. kind[e] # "Clash"
      BY <1>7 DEF Apply
    <3>5. QED BY <3>3, <3>4
  <2>5. status' \in Statuses \cup {"none"}
    BY <1>7, <2>4, ProjectType DEF Apply, TypeOK
  <2>6. QED BY <1>7, <2>1, <2>3, <2>5 DEF Apply, TypeOK, CursorAfter
<1>8. ASSUME NEW w \in Worker, NEW e \in worker[w].batch, Throw(w, e)
      PROVE  TypeOK'
  BY <1>4, <1>8, IdleType DEF Throw, TypeOK
<1>9. ASSUME NEW w \in Worker, Crash(w) PROVE TypeOK'
  BY <1>4, <1>9, IdleType DEF Crash, TypeOK
<1>10. ASSUME NEW w \in Worker, Rebuild(w) PROVE TypeOK'
  BY <1>4, <1>10, IdleType DEF Rebuild, TypeOK
<1>11. CASE UNCHANGED vars
  BY <1>11 DEF TypeOK, vars, WorkerType
<1>12. QED
  BY <1>1, <1>2, <1>3, <1>5, <1>6, <1>7, <1>8, <1>9, <1>10, <1>11 DEF Next

\* The variables keep their shapes; only what the store holds is projected.
THEOREM TypeCorrect == Spec => []TypeOK
BY InitType, NextType, PTL DEF Spec

-----------------------------------------------------------------------------
(* The cursor *)

LEMMA SafeInit == Init => NothingBehind
BY IdleFacts DEF Init, NothingBehind, NoneSkipped

LEMMA NextSafe ==
  ASSUME ~MayCommitLate
  PROVE  TypeOK /\ NothingBehind /\ [Next]_vars => NothingBehind'
<1> SUFFICES ASSUME TypeOK, NothingBehind, [Next]_vars PROVE NothingBehind'
  OBVIOUS
<1> USE DEF store, model
<1>1. /\ began \in Nat /\ committed \subseteq Nat /\ open \subseteq Nat
      /\ cursor \in committed \cup {0}
  BY ProjectorAssumption DEF TypeOK
\* A worker's step that leaves the store and the model alone is safe when the
\* batch it leaves is.
<1>2. ASSUME NEW w \in Worker, NEW s, UNCHANGED store, UNCHANGED model,
             worker' = [worker EXCEPT ![w] = s],
             \A b \in s.batch : \A e \in committed :
               e < b => e \in applied \cup s.batch,
             s.at = "idle" => s.batch = {}
      PROVE  NothingBehind'
  BY <1>2 DEF NothingBehind, NoneSkipped, TypeOK
<1>3. ASSUME NEW k \in Recordable, Begin(k) PROVE NothingBehind'
  <2>1. open = {} /\ open' = {began + 1}
    BY <1>3 DEF Begin
  <2>2. \A f \in committed : f < began + 1
    BY <1>1 DEF TypeOK
  <2>3. QED BY <1>3, <2>1, <2>2 DEF Begin, NothingBehind, NoneSkipped
<1>4. ASSUME NEW e \in open, Commit(e) PROVE NothingBehind'
  <2>1. open' = {} /\ committed' = committed \cup {e}
        /\ \A f \in committed : f < e
    BY <1>4 DEF Commit, NothingBehind
  <2>2. e > cursor
    <3>1. e \in 1..began
      BY DEF TypeOK
    <3>2. QED BY <1>1, <2>1, <3>1
  <2>3. NoneSkipped'
    BY <1>1, <1>4, <2>1, <2>2 DEF Commit, NothingBehind, NoneSkipped
  <2>4. ASSUME NEW w \in Worker, NEW b \in worker[w].batch,
               NEW f \in committed', f < b
        PROVE  f \in applied \cup worker[w].batch
    <3>1. b \in committed
      BY DEF TypeOK, WorkerType
    <3>2. f # e
      <4>1. b \in Nat /\ e \in Nat /\ b < e
        BY <1>1, <2>1, <3>1
      <4>2. QED BY <2>4, <4>1
    <3>3. QED BY <2>1, <2>4, <3>2 DEF NothingBehind
  <2>5. QED BY <1>4, <2>1, <2>3, <2>4 DEF Commit, NothingBehind
<1>5. ASSUME NEW e \in open, Rollback(e) PROVE NothingBehind'
  BY <1>5 DEF Rollback, NothingBehind, NoneSkipped
<1>6. ASSUME NEW w \in Worker, Start(w) \/ Crash(w) PROVE NothingBehind'
  BY <1>2, <1>6, IdleFacts DEF Start, Crash
<1>7. ASSUME NEW w \in Worker, ReadBatch(w) PROVE NothingBehind'
  <2> DEFINE s == [at |-> "applying", batch |-> NextBatch,
                   more |-> Cardinality(NextBatch) = BatchSize]
  <2>1. CASE NextBatch = {}
    BY <1>2, <1>7, <2>1, IdleFacts DEF ReadBatch
  <2>2. CASE NextBatch # {}
    <3>1. worker' = [worker EXCEPT ![w] = s]
      BY <1>7, <2>2 DEF ReadBatch
    <3>2. ASSUME NEW b \in NextBatch, NEW e \in committed, e < b
          PROVE  e \in applied \cup NextBatch
      <4>1. CASE e <= cursor
        BY <4>1 DEF NothingBehind, NoneSkipped
      <4>2. CASE e > cursor
        BY <3>2, <4>2, NextBatchIsFirst DEF Ahead
      <4>3. QED BY <1>1, <4>1, <4>2
    <3>3. s.batch = NextBatch /\ s.at # "idle"
      OBVIOUS
    <3> HIDE DEF s
    <3>4. QED BY <1>2, <1>7, <3>1, <3>2, <3>3 DEF ReadBatch
  <2>3. QED BY <2>1, <2>2
<1>8. ASSUME NEW w \in Worker, NEW e \in worker[w].batch, Apply(w, e)
      PROVE  NothingBehind'
  <2> DEFINE batch == worker[w].batch
  <2>1. /\ applied' = applied \cup {e} /\ cursor' = e /\ UNCHANGED store
        /\ worker' = [worker EXCEPT ![w] = After(w, e)]
        /\ \A f \in batch : e <= f
    BY <1>8 DEF Apply, CursorAfter, First
  <2>2. /\ batch \in SUBSET committed
        /\ \A b \in batch : \A f \in committed : f < b => f \in applied \cup batch
    BY DEF NothingBehind, TypeOK, WorkerType
  <2>3. After(w, e).batch = batch \ {e} \/ After(w, e).batch = {}
    BY IdleFacts DEF After, TypeOK, WorkerType
  <2>4. NoneSkipped'
    <3>1. SUFFICES ASSUME NEW f \in committed, f <= e
                   PROVE  f \in applied \cup {e}
      BY <2>1 DEF NoneSkipped
    <3>2. f \in Nat /\ e \in Nat
      BY <1>1, <2>2
    <3>3. CASE f = e
      BY <3>3
    <3>4. CASE f < e
      BY <2>1, <2>2, <3>2, <3>4
    <3>5. QED BY <3>1, <3>2, <3>3, <3>4
  <2>5. ASSUME NEW b \in After(w, e).batch, NEW f \in committed, f < b
        PROVE  f \in applied' \cup After(w, e).batch
    BY <2>1, <2>2, <2>3, <2>5
  <2>6. ASSUME NEW v \in Worker, NEW b \in worker'[v].batch,
               NEW f \in committed, f < b
        PROVE  f \in applied' \cup worker'[v].batch
    <3>1. CASE v = w
      BY <2>1, <2>5, <2>6, <3>1 DEF TypeOK
    <3>2. CASE v # w
      BY <2>1, <2>6, <3>2 DEF TypeOK, NothingBehind
    <3>3. QED BY <3>1, <3>2
  <2>7. After(w, e).at = "idle" => After(w, e).batch = {}
    BY <1>8, IdleFacts DEF Apply, After, TypeOK, WorkerType
  <2>8. \A v \in Worker : worker'[v].at = "idle" => worker'[v].batch = {}
    BY <2>1, <2>7 DEF TypeOK, NothingBehind
  <2>9. QED BY <2>1, <2>4, <2>6, <2>8 DEF NothingBehind
<1>9. ASSUME NEW w \in Worker, NEW e \in worker[w].batch, Throw(w, e)
      PROVE  NothingBehind'
  BY <1>2, <1>9, IdleFacts DEF Throw
<1>10. ASSUME NEW w \in Worker, Rebuild(w) PROVE NothingBehind'
  <2>1. /\ cursor' = 0 /\ applied' = {} /\ UNCHANGED store
        /\ worker' = [worker EXCEPT ![w] = Reading]
    BY <1>10 DEF Rebuild
  <2>2. \A v \in Worker : worker[v].batch = {} /\ worker[v].at = "idle"
    BY <1>10 DEF Rebuild, MayStart, NothingBehind
  <2>3. \A v \in Worker : worker'[v].batch = {}
    BY <2>1, <2>2, IdleFacts DEF TypeOK
  <2>4. NoneSkipped'
    <3>1. \A e \in committed : e \in Nat /\ e > 0
      BY ProjectorAssumption DEF TypeOK
    <3>2. QED BY <2>1, <3>1 DEF NoneSkipped
  <2>5. QED BY <2>1, <2>3, <2>4 DEF NothingBehind
<1>11. CASE UNCHANGED vars
  BY <1>11 DEF NothingBehind, NoneSkipped, vars
<1>12. QED
  BY <1>1, <1>3, <1>4, <1>5, <1>6, <1>7, <1>8, <1>9, <1>10, <1>11 DEF Next

\* The cursor never passes an event that has not been applied, however many
\* workers run and wherever they stop.
THEOREM NoneSkippedTheorem ==
  ASSUME ~MayCommitLate
  PROVE  Spec => []NoneSkipped
<1>1. TypeOK /\ NothingBehind /\ [Next]_vars => NothingBehind'
  BY NextSafe
<1>2. NothingBehind => NoneSkipped
  BY DEF NothingBehind
<1>3. QED BY <1>1, <1>2, SafeInit, TypeCorrect, PTL DEF Spec

\* An event is first applied only when every earlier one has been.
THEOREM FirstTimeInOrderTheorem ==
  ASSUME ~MayCommitLate
  PROVE  Spec => FirstTimeInOrder
<1> DEFINE InOrder == \A e \in applied' \ applied, f \in committed :
                        f < e => f \in applied
<1>1. TypeOK /\ NothingBehind /\ [Next]_vars => NothingBehind'
  BY NextSafe
<1>2. ASSUME TypeOK, NothingBehind, [Next]_vars PROVE InOrder
  <2> USE DEF store, model
  <2>1. ASSUME NEW w \in Worker, NEW e \in worker[w].batch, Apply(w, e)
        PROVE  InOrder
    <3>1. applied' = applied \cup {e} /\ \A f \in worker[w].batch : e <= f
      BY <2>1 DEF Apply, First
    <3>2. e \in Nat /\ \A f \in committed : f \in Nat
      BY <1>2, <2>1, ProjectorAssumption DEF TypeOK, WorkerType
    <3>3. QED BY <1>2, <2>1, <3>1, <3>2 DEF NothingBehind
  <2>2. ASSUME NEW w \in Worker, Rebuild(w) PROVE InOrder
    BY <2>2 DEF Rebuild
  <2>3. CASE UNCHANGED applied
    BY <2>3
  <2>4. QED
    BY <1>2, <2>1, <2>2, <2>3 DEF Next, Begin, Commit, Rollback, Start,
       ReadBatch, Throw, Crash, vars
<1>3. QED
  BY <1>1, <1>2, SafeInit, TypeCorrect, PTL DEF Spec, FirstTimeInOrder

-----------------------------------------------------------------------------
(* Replays                                                                  *)

\* The row after the event n of a store with the events C, of kinds K.
Replayed(C, K, n, s) == IF n \in C /\ K[n] # "Clash" THEN Project(K[n], s) ELSE s

IsReplay(f, C, K, m) ==
  f = [n \in 0..m |-> IF n = 0 THEN "none" ELSE Replayed(C, K, n, f[n - 1])]

ReplayTo(C, K) == CHOOSE f : IsReplay(f, C, K, MaxEvents)

LEMMA LeastOfNats ==
  ASSUME NEW S, S \subseteq Nat, S # {}
  PROVE  \E x \in S : \A y \in S : x <= y
<1>1. \E x \in S : \A y \in S : ~(<<y, x>> \in OpToRel(<, Nat))
  BY WFMin, NatLessThanWellFounded, Zenon
<1>2. \E x \in S : \A y \in S : ~(y < x)
  BY <1>1, Zenon DEF OpToRel
<1> QED
  BY <1>2

LEMMA ReplayAt ==
  ASSUME NEW C, NEW K, NEW m \in Nat, NEW f, IsReplay(f, C, K, m)
  PROVE  /\ f[0] = "none"
         /\ \A n \in 1..m : f[n] = Replayed(C, K, n, f[n - 1])
<1>1. f = [n \in 0..m |-> IF n = 0 THEN "none" ELSE Replayed(C, K, n, f[n - 1])]
  BY DEF IsReplay
<1>2. 0 \in 0..m /\ \A n \in 1..m : n \in 0..m /\ n # 0
  OBVIOUS
<1> QED
  BY <1>1, <1>2

\* There is a replay, up to any event: were there none up to some event, there
\* would be a first such, and a replay up to the one before it.
LEMMA ReplayExists ==
  ASSUME NEW C, NEW K, NEW m \in Nat
  PROVE  \E f : IsReplay(f, C, K, m)
<1> DEFINE Bad == {n \in Nat : ~ \E f : IsReplay(f, C, K, n)}
<1> SUFFICES ASSUME Bad # {} PROVE FALSE
  OBVIOUS
<1>1. PICK n \in Bad : \A b \in Bad : n <= b
  BY LeastOfNats
<1>2. n # 0
  <2>1. IsReplay([i \in 0..0 |-> "none"], C, K, 0)
    BY DEF IsReplay
  <2> QED
    BY <2>1
<1>3. n - 1 \in Nat /\ n \in Nat /\ n - 1 \notin Bad
  BY <1>1, <1>2
<1>4. PICK f : IsReplay(f, C, K, n - 1)
  BY <1>3
<1> DEFINE g == [i \in 0..n |-> IF i = n THEN Replayed(C, K, n, f[n - 1]) ELSE f[i]]
<1>5. \A i \in 0..n : g[i] = IF i = 0 THEN "none" ELSE Replayed(C, K, i, g[i - 1])
  <2>1. f[0] = "none" /\ \A i \in 1..(n - 1) : f[i] = Replayed(C, K, i, f[i - 1])
    BY <1>3, <1>4, ReplayAt
  <2>2. CASE n = 0
    BY <1>2, <2>2
  <2>3. g[0] = "none" /\ g[n] = Replayed(C, K, n, f[n - 1]) /\ g[n - 1] = f[n - 1]
    BY <1>2, <1>3, <2>1
  <2>4. ASSUME NEW i \in 1..(n - 1) PROVE g[i] = Replayed(C, K, i, g[i - 1])
    <3>1. i \in 0..n /\ i # n /\ i - 1 \in 0..n /\ i - 1 # n
      BY <1>3
    <3>2. g[i] = f[i] /\ g[i - 1] = f[i - 1]
      BY <3>1
    <3> QED
      BY <2>1, <3>2
  <2> HIDE DEF g
  <2> QED
    BY <1>2, <1>3, <2>3, <2>4
<1>6. g = [i \in 0..n |-> IF i = 0 THEN "none" ELSE Replayed(C, K, i, g[i - 1])]
  <2>1. g = [i \in 0..n |-> g[i]]
    OBVIOUS
  <2> HIDE DEF g
  <2> QED
    BY <1>5, <2>1
<1>7. IsReplay(g, C, K, n)
  BY <1>6 DEF IsReplay
<1> QED
  BY <1>1, <1>7

LEMMA ReplayToIs ==
  ASSUME NEW C, NEW K
  PROVE  IsReplay(ReplayTo(C, K), C, K, MaxEvents)
  BY ReplayExists, ProjectorAssumption DEF ReplayTo

LEMMA ReplayIs == Replay = ReplayTo(committed, kind)[MaxEvents]
  BY DEF Replay, ReplayTo, IsReplay, Replayed

\* Two stores with the same events up to one replay the same up to it.
LEMMA SameReplay ==
  ASSUME NEW C, NEW K, NEW D, NEW L, NEW m \in 0..MaxEvents,
         \A n \in 1..m : (n \in C <=> n \in D) /\ (n \in C => K[n] = L[n])
  PROVE  ReplayTo(C, K)[m] = ReplayTo(D, L)[m]
<1> DEFINE f == ReplayTo(C, K)
           g == ReplayTo(D, L)
           Bad == {n \in Nat : n \in 0..m /\ f[n] # g[n]}
<1>0. m \in Nat /\ MaxEvents \in Nat /\ m <= MaxEvents
  BY ProjectorAssumption
<1>1. /\ f[0] = "none" /\ \A n \in 1..MaxEvents : f[n] = Replayed(C, K, n, f[n - 1])
      /\ g[0] = "none" /\ \A n \in 1..MaxEvents : g[n] = Replayed(D, L, n, g[n - 1])
  BY <1>0, ReplayToIs, ReplayAt
<1> HIDE DEF f, g
<1> SUFFICES ASSUME Bad # {} PROVE FALSE
  <2>1. m \notin Bad => f[m] = g[m]
    BY <1>0
  <2> QED
    BY <2>1 DEF f, g
<1>2. PICK n \in Bad : \A b \in Bad : n <= b
  BY LeastOfNats
<1>3. n \in 1..m /\ n \in 1..MaxEvents /\ n - 1 \in Nat /\ n - 1 \in 0..m
  BY <1>0, <1>1, <1>2
<1>4. f[n - 1] = g[n - 1]
  BY <1>2, <1>3
<1>5. Replayed(C, K, n, f[n - 1]) = Replayed(D, L, n, g[n - 1])
  BY <1>3, <1>4 DEF Replayed
<1> QED
  BY <1>1, <1>2, <1>3, <1>5

\* Where there are no events the row stays.
LEMMA GapReplay ==
  ASSUME NEW C, NEW K, NEW a \in 0..MaxEvents, NEW z \in 0..MaxEvents, a <= z,
         \A n \in (a + 1)..z : n \notin C
  PROVE  ReplayTo(C, K)[z] = ReplayTo(C, K)[a]
<1> DEFINE f == ReplayTo(C, K)
           Bad == {n \in Nat : n \in a..z /\ f[n] # f[a]}
<1>0. MaxEvents \in Nat /\ a \in Nat /\ z \in Nat /\ z <= MaxEvents
  BY ProjectorAssumption
<1>1. \A n \in 1..MaxEvents : f[n] = Replayed(C, K, n, f[n - 1])
  BY <1>0, ReplayToIs, ReplayAt
<1> HIDE DEF f
<1> SUFFICES ASSUME Bad # {} PROVE FALSE
  <2>1. z \notin Bad => f[z] = f[a]
    BY <1>0
  <2> QED
    BY <2>1 DEF f
<1>2. PICK n \in Bad : \A b \in Bad : n <= b
  BY LeastOfNats
<1>3. n \in (a + 1)..z /\ n \in 1..MaxEvents /\ n - 1 \in Nat /\ n - 1 \in a..z
  BY <1>0, <1>2
<1>4. f[n - 1] = f[a]
  BY <1>2, <1>3
<1>5. f[n] = f[n - 1]
  BY <1>1, <1>3 DEF Replayed
<1> QED
  BY <1>2, <1>4, <1>5

-----------------------------------------------------------------------------
(* The read model is a replay                                               *)

\* With one call at a time: a worker's batch is the events that follow the
\* cursor, and the row is a replay up to the cursor.
Replaying ==
  mode = "alone" =>
    /\ \A e \in 1..MaxEvents : kind[e] # "Clash"
    /\ \A v, w \in Worker : worker[v].at # "idle" /\ worker[w].at # "idle" => v = w
    /\ \A w \in Worker : worker[w].at # "applying" => worker[w].batch = {}
    /\ \A w \in Worker : \A b \in worker[w].batch :
         /\ cursor < b
         /\ \A e \in committed : cursor < e /\ e < b => e \in worker[w].batch
    /\ status = ReplayTo(committed, kind)[cursor]

LEMMA ReplayingInit == Init => Replaying
<1> SUFFICES ASSUME Init PROVE Replaying
  OBVIOUS
<1>1. ReplayTo(committed, kind)[0] = "none"
  BY ReplayToIs, ReplayAt, ProjectorAssumption
<1> QED
  BY <1>1, IdleFacts DEF Init, Replaying

\* A worker's step that leaves the store and the model alone.
LEMMA WorkerReplays ==
  ASSUME TypeOK, Replaying, mode = "alone", NEW w \in Worker, NEW s \in WorkerType,
         UNCHANGED store, UNCHANGED model, worker' = [worker EXCEPT ![w] = s],
         \A v \in Worker : worker[v].at # "idle" => v = w,
         s.at # "applying" => s.batch = {},
         \A b \in s.batch :
           cursor < b /\ \A e \in committed : cursor < e /\ e < b => e \in s.batch
  PROVE  Replaying'
<1>1. UNCHANGED <<mode, began, open, committed, kind, cursor, status, applied>>
  BY DEF store, model
<1>2. worker'[w] = s /\ \A v \in Worker \ {w} : worker'[v] = worker[v]
  BY DEF TypeOK
<1>3. \A v \in Worker : worker'[v].at # "applying" => worker'[v].batch = {}
  BY <1>2 DEF Replaying
<1>4. \A u, v \in Worker : worker'[u].at # "idle" /\ worker'[v].at # "idle" => u = v
  BY <1>2
<1>5. \A v \in Worker : \A b \in worker'[v].batch :
         cursor < b /\ \A e \in committed : cursor < e /\ e < b => e \in worker'[v].batch
  BY <1>2 DEF Replaying
<1>6. /\ \A e \in 1..MaxEvents : kind[e] # "Clash"
      /\ status = ReplayTo(committed, kind)[cursor]
  BY DEF Replaying
<1> QED
  BY <1>1, <1>3, <1>4, <1>5, <1>6 DEF Replaying

LEMMA ReplayingNext ==
  ASSUME ~MayCommitLate, TypeOK, NothingBehind, Replaying, [Next]_vars
  PROVE  Replaying'
<1> SUFFICES ASSUME mode' = "alone" PROVE Replaying'
  BY DEF Replaying
<1>0. mode = "alone" /\ MaxEvents \in Nat
  BY ProjectorAssumption DEF Next, Begin, Commit, Rollback, Start, ReadBatch, Apply, Throw,
     Crash, Rebuild, store, vars
<1>1. /\ began \in Nat /\ began <= MaxEvents /\ committed \subseteq 1..began
      /\ open \subseteq 1..began /\ cursor \in committed \cup {0} /\ cursor \in 0..began
      /\ kind \in [1..MaxEvents -> Kinds \cup {"Clash", "none"}]
  BY <1>0 DEF TypeOK
<1>2. /\ \A e \in 1..MaxEvents : kind[e] # "Clash"
      /\ \A v, w \in Worker : worker[v].at # "idle" /\ worker[w].at # "idle" => v = w
      /\ \A w \in Worker : worker[w].at # "applying" => worker[w].batch = {}
      /\ \A w \in Worker : \A b \in worker[w].batch :
           /\ cursor < b
           /\ \A e \in committed : cursor < e /\ e < b => e \in worker[w].batch
      /\ status = ReplayTo(committed, kind)[cursor]
  BY <1>0 DEF Replaying
<1>3. ASSUME NEW k \in Recordable, Begin(k) PROVE Replaying'
  <2>1. /\ UNCHANGED <<mode, committed, worker, cursor, status, applied>>
        /\ kind' = [kind EXCEPT ![began + 1] = k] /\ k # "Clash" /\ began < MaxEvents
    BY <1>0, <1>3 DEF Begin, model, Recordable, Kinds
  <2>2. /\ \A e \in 1..MaxEvents : kind'[e] # "Clash"
        /\ \A e \in 1..began : kind'[e] = kind[e]
    BY <1>0, <1>1, <1>2, <2>1
  <2>3. ReplayTo(committed, kind)[cursor] = ReplayTo(committed', kind')[cursor]
    <3>1. cursor \in 0..MaxEvents
      BY <1>0, <1>1
    <3>2. PICK L : L = kind'
      OBVIOUS
    <3>3. \A n \in 1..cursor : n \in committed => kind[n] = L[n]
      BY <1>1, <2>2, <3>2
    <3>4. ReplayTo(committed, kind)[cursor] = ReplayTo(committed, L)[cursor]
      BY <3>1, <3>3, SameReplay
    <3> QED
      BY <2>1, <3>2, <3>4
  <2> QED
    BY <1>2, <2>1, <2>2, <2>3 DEF Replaying
<1>4. ASSUME NEW e \in open, Commit(e) PROVE Replaying'
  <2>1. /\ UNCHANGED <<mode, began, kind, worker, cursor, status, applied>>
        /\ committed' = committed \cup {e} /\ \A f \in committed : f < e
    BY <1>4 DEF Commit, model, NothingBehind
  <2>2. cursor < e /\ e \in Nat
    BY <1>1, <2>1
  <2>3. ReplayTo(committed, kind)[cursor] = ReplayTo(committed', kind')[cursor]
    <3>1. cursor \in 0..MaxEvents
      BY <1>0, <1>1
    <3>2. PICK D : D = committed'
      OBVIOUS
    <3>3. \A n \in 1..cursor : n \in committed <=> n \in D
      BY <1>1, <2>1, <2>2, <3>2
    <3>4. ReplayTo(committed, kind)[cursor] = ReplayTo(D, kind)[cursor]
      BY <3>1, <3>3, SameReplay
    <3> QED
      BY <2>1, <3>2, <3>4
  <2>4. ASSUME NEW w \in Worker, NEW b \in worker[w].batch, NEW f \in committed',
               cursor < f, f < b
        PROVE  f \in worker[w].batch
    <3>1. b \in committed /\ b \in Nat /\ b < e
      BY <1>1, <2>1 DEF TypeOK, WorkerType
    <3> QED
      BY <1>2, <2>1, <2>2, <2>4, <3>1
  <2> QED
    BY <1>2, <2>1, <2>3, <2>4 DEF Replaying
<1>5. ASSUME NEW e \in open, Rollback(e) PROVE Replaying'
  BY <1>2, <1>5 DEF Rollback, Replaying, model
<1>6. ASSUME NEW w \in Worker, Start(w) PROVE Replaying'
  <2>1. \A v \in Worker : worker[v].at # "idle" => v = w
    BY <1>0, <1>6 DEF Start, MayStart
  <2> QED
    BY <1>0, <1>6, <2>1, WorkerReplays, IdleFacts, IdleType DEF Start
<1>7. ASSUME NEW w \in Worker, Crash(w) \/ \E e \in worker[w].batch : Throw(w, e)
      PROVE  Replaying'
  <2>1. worker[w].at # "idle" /\ UNCHANGED store /\ UNCHANGED model
        /\ worker' = [worker EXCEPT ![w] = Idle]
    BY <1>7 DEF Crash, Throw
  <2>2. \A v \in Worker : worker[v].at # "idle" => v = w
    BY <1>2, <2>1
  <2> QED
    BY <1>0, <2>1, <2>2, WorkerReplays, IdleFacts, IdleType
<1>8. ASSUME NEW w \in Worker, ReadBatch(w) PROVE Replaying'
  <2>1. worker[w].at # "idle" /\ UNCHANGED store /\ UNCHANGED model
    BY <1>8 DEF ReadBatch
  <2>2. \A v \in Worker : worker[v].at # "idle" => v = w
    BY <1>2, <2>1
  <2>3. CASE NextBatch = {}
    <3>1. worker' = [worker EXCEPT ![w] = Idle]
      BY <1>8, <2>3 DEF ReadBatch
    <3> QED
      BY <1>0, <2>1, <2>2, <3>1, WorkerReplays, IdleFacts, IdleType
  <2>4. CASE NextBatch # {}
    <3> DEFINE s == [at |-> "applying", batch |-> NextBatch,
                     more |-> Cardinality(NextBatch) = BatchSize]
    <3>1. worker' = [worker EXCEPT ![w] = s]
      BY <1>8, <2>4 DEF ReadBatch
    <3>2. s \in WorkerType
      <4>1. NextBatch \in SUBSET committed
        BY NextBatchType
      <4>2. (Cardinality(NextBatch) = BatchSize) \in BOOLEAN
        OBVIOUS
      <4> HIDE DEF NextBatch
      <4> QED
        BY <4>1, <4>2, Zenon DEF WorkerType
    <3>3. s.batch = NextBatch /\ s.at = "applying"
      OBVIOUS
    <3>4. ASSUME NEW b \in NextBatch
          PROVE  cursor < b /\ \A e \in committed : cursor < e /\ e < b => e \in NextBatch
      <4>1. cursor < b
        BY <1>1, NextBatchType DEF Ahead
      <4>2. ASSUME NEW e \in committed, cursor < e, e < b PROVE e \in NextBatch
        <5>1. e \in Ahead
          BY <1>1, <4>2 DEF Ahead
        <5> QED
          BY <4>2, <5>1, NextBatchIsFirst
      <4> QED
        BY <4>1, <4>2
    <3> HIDE DEF s
    <3> QED
      BY <1>0, <2>1, <2>2, <3>1, <3>2, <3>3, <3>4, WorkerReplays
  <2> QED
    BY <2>3, <2>4
<1>9. ASSUME NEW w \in Worker, NEW e \in worker[w].batch, Apply(w, e) PROVE Replaying'
  <2> DEFINE batch == worker[w].batch
             R == ReplayTo(committed, kind)
  <2>1. /\ UNCHANGED <<mode, began, open, committed, kind>> /\ cursor' = e
        /\ status' = Project(kind[e], status)
        /\ worker' = [worker EXCEPT ![w] = After(w, e)]
        /\ worker[w].at = "applying" /\ \A f \in batch : e <= f
    BY <1>9 DEF Apply, store, CursorAfter, First
  <2>2. /\ batch \in SUBSET committed /\ worker[w] \in WorkerType
        /\ e \in committed /\ e \in 1..MaxEvents /\ cursor < e /\ cursor \in Nat
    BY <1>0, <1>1, <1>2 DEF TypeOK, WorkerType
  <2>3. /\ After(w, e).batch = batch \ {e} \/ After(w, e).batch = {}
        /\ After(w, e).at # "applying" => After(w, e).batch = {}
    BY <2>1, <2>2, IdleFacts DEF After, WorkerType
  <2>4. status' = R[e]
    <3>1. \A n \in (cursor + 1)..(e - 1) : n \notin committed
      <4> SUFFICES ASSUME NEW n \in (cursor + 1)..(e - 1), n \in committed PROVE FALSE
        OBVIOUS
      <4>1. n \in Nat /\ cursor < n /\ n < e
        BY <2>2
      <4>2. n \in batch
        BY <1>2, <4>1
      <4> QED
        BY <2>1, <2>2, <4>1, <4>2
    <3>2. R[e - 1] = R[cursor]
      <4>1. e - 1 \in 0..MaxEvents /\ cursor \in 0..MaxEvents /\ cursor <= e - 1
        BY <1>0, <2>2
      <4> QED
        BY <3>1, <4>1, GapReplay
    <3>3. R[e] = Replayed(committed, kind, e, R[e - 1])
      BY <1>0, <2>2, ReplayToIs, ReplayAt
    <3>4. R[e] = Project(kind[e], R[cursor])
      BY <1>2, <2>2, <3>2, <3>3 DEF Replayed
    <3> QED
      BY <1>2, <2>1, <3>4
  <2>5. worker'[w] = After(w, e) /\ \A v \in Worker \ {w} : worker'[v] = worker[v]
    BY <2>1 DEF TypeOK
  <2>6. \A v \in Worker \ {w} : worker[v].at = "idle" /\ worker[v].batch = {}
    BY <1>2, <2>1
  <2>7. ASSUME NEW v \in Worker, NEW b \in worker'[v].batch
        PROVE  e < b /\ \A f \in committed : e < f /\ f < b => f \in worker'[v].batch
    <3>1. v = w
      BY <2>5, <2>6, <2>7
    <3>2. b \in batch /\ b # e /\ worker'[w].batch = batch \ {e}
      BY <2>3, <2>5, <2>7, <3>1
    <3>3. b \in Nat /\ e \in Nat /\ e < b
      <4>1. b \in committed /\ e <= b
        BY <2>1, <2>2, <3>2
      <4>2. b \in Nat /\ e \in Nat
        BY <1>1, <2>2, <4>1
      <4> QED
        BY <3>2, <4>1, <4>2
    <3>4. ASSUME NEW f \in committed, e < f, f < b PROVE f \in batch \ {e}
      <4>1. f \in Nat /\ cursor < f
        BY <1>1, <2>2, <3>4
      <4> QED
        BY <1>2, <3>2, <3>3, <3>4, <4>1
    <3> QED
      BY <3>1, <3>2, <3>3, <3>4
  <2>8. \A v \in Worker : worker'[v].at # "applying" => worker'[v].batch = {}
    BY <2>3, <2>5, <2>6
  <2>9. \A u, v \in Worker : worker'[u].at # "idle" /\ worker'[v].at # "idle" => u = v
    BY <2>5, <2>6
  <2> QED
    BY <1>2, <2>1, <2>4, <2>7, <2>8, <2>9 DEF Replaying
<1>10. ASSUME NEW w \in Worker, Rebuild(w) PROVE Replaying'
  <2>1. /\ UNCHANGED <<mode, began, open, committed, kind>> /\ cursor' = 0 /\ status' = "none"
        /\ worker' = [worker EXCEPT ![w] = Reading]
        /\ \A v \in Worker : worker[v].at = "idle"
    BY <1>10 DEF Rebuild, MayStart, store
  <2>2. worker'[w] = Reading /\ \A v \in Worker \ {w} : worker'[v] = worker[v]
    BY <2>1 DEF TypeOK
  <2>3. ReplayTo(committed, kind)[0] = "none"
    BY <1>0, ReplayToIs, ReplayAt
  <2>4. \A v \in Worker : worker'[v].batch = {} /\ (worker'[v].at # "idle" => v = w)
    BY <1>2, <2>1, <2>2, IdleFacts
  <2> QED
    BY <1>2, <2>1, <2>3, <2>4 DEF Replaying
<1>11. CASE UNCHANGED vars
  BY <1>11 DEF Replaying, vars
<1> QED
  BY <1>3, <1>4, <1>5, <1>6, <1>7, <1>8, <1>9, <1>10, <1>11 DEF Next

\* "The event store wins": while calls come one at a time, what has been
\* projected is always a replay of the store up to the cursor, wherever a call
\* stopped and however often the read model was emptied and filled again.
THEOREM ModelIsReplayTheorem ==
  ASSUME ~MayCommitLate
  PROVE  Spec => []QuietModelIsReplay
<1>1. TypeOK /\ NothingBehind /\ [Next]_vars => NothingBehind'
  BY NextSafe
<1>2. TypeOK /\ NothingBehind /\ Replaying /\ [Next]_vars => Replaying'
  BY ReplayingNext
<1>3. TypeOK /\ Replaying => QuietModelIsReplay
  <2> SUFFICES ASSUME TypeOK, Replaying, mode = "alone", Ahead = {}
               PROVE  status = Replay
    BY DEF QuietModelIsReplay
  <2>1. /\ MaxEvents \in Nat /\ cursor \in 0..MaxEvents /\ committed \subseteq Nat
    BY ProjectorAssumption DEF TypeOK
  <2>2. \A n \in (cursor + 1)..MaxEvents : n \notin committed
    BY <2>1 DEF Ahead
  <2>3. ReplayTo(committed, kind)[MaxEvents] = ReplayTo(committed, kind)[cursor]
    BY <2>1, <2>2, GapReplay
  <2> QED
    BY <2>3, ReplayIs DEF Replaying
<1> QED
  BY <1>1, <1>2, <1>3, SafeInit, ReplayingInit, TypeCorrect, PTL DEF Spec
=============================================================================
