--------------------------- MODULE FindingWorkflow --------------------------
(***************************************************************************)
(* One finding between the people who close it and the clock that          *)
(* escalates it (services/sync-gateway console/findings.service.ts and     *)
(* workers/escalation.service.ts).                                         *)
(*                                                                         *)
(* A command reads the finding's row, checks the transition, appends an    *)
(* event and waits for the projection; the sweep reads every finding that  *)
(* is past due and then works through what it read.  Nothing is locked     *)
(* between the check and the append, so both act on a status that may have *)
(* changed.  The projector is taken to apply the events in order, each     *)
(* once, as Projector shows of a single worker.                            *)
(***************************************************************************)
EXTENDS Findings, Sequences, FiniteSets

CONSTANTS
  Command,   \* console requests that may be in progress at once
  Sweeper,   \* escalation sweeps: one per replica, or one run out of band
  Due,       \* the finding's due date, in days since it was raised
  Grace,     \* escalateAfterOverdueDays of its severity
  LastDay,   \* bound: the last day of the run
  MaxLog,    \* bound: no command starts, and nothing dies, beyond this length
  Modes      \* the deployments looked at

ASSUME WorkflowAssumption ==
  /\ Due \in Nat /\ Grace \in Nat /\ LastDay \in Nat
  /\ Modes \subseteq {"alone", "crowded"} /\ MaxLog \in [Modes -> Nat]

VARIABLES
  mode,      \* "alone": no two sweeps overlap, and no process dies
  day,       \* today
  log,       \* the finding's events in the store
  status,    \* its row's status
  seen,      \* how many of its events are projected
  command,   \* what each console request is doing
  sweep,     \* what each sweep is doing
  notified   \* how many escalation notices the supervisor has been sent

workflowVars == <<mode, day, log, status, seen, command, sweep, notified>>

-----------------------------------------------------------------------------
NoCommand == [at |-> "idle", does |-> "none", awaits |-> 0]
NoSweep == [at |-> "idle", saw |-> "none", today |-> 0, awaits |-> 0]

WorkflowInit ==
  /\ mode \in Modes
  /\ day = 0
  /\ log = <<"Raised">> /\ seen = 1 /\ status = "open"
  /\ command = [c \in Command |-> NoCommand]
  /\ sweep = [s \in Sweeper |-> NoSweep]
  /\ notified = 0

Tick ==
  /\ day < LastDay
  /\ day' = day + 1
  /\ UNCHANGED <<mode, log, status, seen, command, sweep, notified>>

\* The projector's next step for this finding.
ProjectNext ==
  /\ seen < Len(log)
  /\ seen' = seen + 1
  /\ status' = Project(log[seen + 1], status)
  /\ UNCHANGED <<mode, day, log, command, sweep, notified>>

-----------------------------------------------------------------------------
(* The console.  load() and the check of the transition are one read.       *)
Check(c, k) ==
  /\ command[c].at = "idle" /\ Len(log) < MaxLog[mode]
  /\ command' = [command EXCEPT ![c] =
                   [at |-> "checked", does |-> k, awaits |-> 0]]
  /\ UNCHANGED <<mode, day, log, status, seen, sweep, notified>>

SubmitClosure(c) == CanTransition(status, "awaiting") /\ Check(c, "ClosureSubmitted")
VerifyClosure(c) == status = "awaiting" /\ Check(c, "Closed")
RejectClosure(c) == status = "awaiting" /\ Check(c, "ClosureRejected")

\* append(): its transaction, then applyPending().
AppendCommand(c) ==
  /\ command[c].at = "checked"
  /\ log' = Append(log, command[c].does)
  /\ command' = [command EXCEPT ![c].at = "projecting",
                                ![c].awaits = Len(log) + 1]
  /\ UNCHANGED <<mode, day, status, seen, sweep, notified>>

\* The projection has caught up with the command's own event.
AnswerCommand(c) ==
  /\ command[c].at = "projecting" /\ command[c].awaits <= seen
  /\ command' = [command EXCEPT ![c] = NoCommand]
  /\ UNCHANGED <<mode, day, log, status, seen, sweep, notified>>

CommandDies(c) ==
  /\ mode = "crowded" /\ Len(log) < MaxLog[mode]
  /\ command[c].at # "idle"
  /\ command' = [command EXCEPT ![c] = NoCommand]
  /\ UNCHANGED <<mode, day, log, status, seen, sweep, notified>>

-----------------------------------------------------------------------------
(* The sweep.  "now" and the statuses are read once, at its start.          *)
MayStart(s) ==
  /\ sweep[s].at = "idle"
  /\ mode = "alone" => \A t \in Sweeper : sweep[t].at = "idle"

SweepReads(s) ==
  /\ MayStart(s)
  /\ status \in {"open", "overdue"} /\ day > Due
  /\ sweep' = [sweep EXCEPT ![s] =
                 [at |-> "marking", saw |-> status, today |-> day, awaits |-> 0]]
  /\ UNCHANGED <<mode, day, log, status, seen, command, notified>>

\* An event for a finding the sweep saw open, and none for one it saw overdue.
SweepMarks(s) ==
  /\ sweep[s].at = "marking"
  /\ log' = IF sweep[s].saw = "open" THEN Append(log, "BecameOverdue") ELSE log
  /\ sweep' = [sweep EXCEPT ![s].at = "escalating",
                            ![s].awaits = IF sweep[s].saw = "open" THEN Len(log') ELSE 0]
  /\ UNCHANGED <<mode, day, status, seen, command, notified>>

\* shouldEscalate(), asked of what the sweep saw.  It compares times where the
\* query compares dates: any moment of the day the grace period ends on is
\* past the midnight it ends at.
ShouldEscalate_DayLate(s) == sweep[s].today > Due + Grace
ShouldEscalate(s) == sweep[s].today >= Due + Grace

SweepEscalates_Untold(s) ==
  /\ sweep[s].at = "escalating" /\ sweep[s].awaits <= seen
  /\ ShouldEscalate(s)
  /\ log' = Append(log, "Escalated")
  /\ sweep' = [sweep EXCEPT ![s] = NoSweep]
  /\ UNCHANGED <<mode, day, status, seen, command, notified>>
SweepEscalates(s) ==
  /\ sweep[s].at = "escalating" /\ sweep[s].awaits <= seen
  /\ ShouldEscalate(s)
  /\ log' = Append(log, "Escalated")
  /\ sweep' = [sweep EXCEPT ![s].at = "notifying", ![s].awaits = Len(log')]
  /\ UNCHANGED <<mode, day, status, seen, command, notified>>

SweepNotifies(s) ==
  /\ sweep[s].at = "notifying" /\ sweep[s].awaits <= seen
  /\ notified' = notified + 1
  /\ sweep' = [sweep EXCEPT ![s] = NoSweep]
  /\ UNCHANGED <<mode, day, log, status, seen, command>>

SweepPasses(s) ==
  /\ sweep[s].at = "escalating" /\ sweep[s].awaits <= seen
  /\ ~ShouldEscalate(s)
  /\ sweep' = [sweep EXCEPT ![s] = NoSweep]
  /\ UNCHANGED <<mode, day, log, status, seen, command, notified>>

SweepDies(s) ==
  /\ mode = "crowded" /\ Len(log) < MaxLog[mode]
  /\ sweep[s].at # "idle"
  /\ sweep' = [sweep EXCEPT ![s] = NoSweep]
  /\ UNCHANGED <<mode, day, log, status, seen, command, notified>>

-----------------------------------------------------------------------------
SweepStep(s) ==
  SweepMarks(s) \/ SweepEscalates(s) \/ SweepNotifies(s) \/ SweepPasses(s)

WorkflowNext ==
  \/ Tick \/ ProjectNext
  \/ \E c \in Command :
       \/ SubmitClosure(c) \/ VerifyClosure(c) \/ RejectClosure(c)
       \/ AppendCommand(c) \/ AnswerCommand(c) \/ CommandDies(c)
  \/ \E s \in Sweeper : SweepReads(s) \/ SweepStep(s) \/ SweepDies(s)

WorkflowSpec == WorkflowInit /\ [][WorkflowNext]_workflowVars

\* The timers fire, awaits resolve and the projector's sweep runs; nobody has
\* to use the console.  A reader may find the finding out of its sight again
\* and again, so its read is only asked for when it keeps being possible.
WorkflowFairness ==
  /\ WF_workflowVars(Tick) /\ WF_workflowVars(ProjectNext)
  /\ \A c \in Command :
       WF_workflowVars(AppendCommand(c)) /\ WF_workflowVars(AnswerCommand(c))
  /\ \A s \in Sweeper :
       WF_workflowVars(SweepReads(s)) /\ WF_workflowVars(SweepStep(s))

WorkflowFairSpec == WorkflowSpec /\ WorkflowFairness

-----------------------------------------------------------------------------
(* Properties *)

\* The variables have the shapes their comments say.
WorkflowTypeOK ==
  /\ mode \in Modes /\ day \in 0..LastDay
  /\ log \in Seq(Kinds) /\ seen \in 1..Len(log)
  /\ status \in Statuses
  /\ command \in [Command ->
       [at : {"idle", "checked", "projecting"},
        does : {"none", "ClosureSubmitted", "Closed", "ClosureRejected"},
        awaits : Nat]]
  /\ sweep \in [Sweeper ->
       [at : {"idle", "marking", "escalating", "notifying"},
        saw : {"none", "open", "overdue"}, today : 0..LastDay, awaits : Nat]]
  /\ notified \in Nat

\* A closed finding stays closed, whatever a command or a sweep that read it
\* earlier still appends (the guards of the projector's handlers).
ClosedIsFinal == [][status = "closed" => status' = "closed"]_workflowVars

\* The row says closed only of a finding whose store holds, after a closure
\* submitted for it, a verification, and no rejection between the two.
ClosedWasVerified ==
  status = "closed" =>
    \E i, j \in 1..seen :
      /\ i < j /\ log[i] = "ClosureSubmitted" /\ log[j] = "Closed"
      /\ \A k \in i..j : log[k] # "ClosureRejected"

\* The desk supervisor, where there is one, is told of every escalation the
\* store holds, if nothing dies on the way (escalation.service.ts:75-95).
EscalationNotified ==
  mode = "alone" =>
    \A n \in 1..LastDay :
      (Cardinality({i \in 1..Len(log) : log[i] = "Escalated"}) >= n)
        ~> (notified >= n)

\* A finding left alone past its grace period does not stay open: "they happen
\* even when nobody is looking" (escalation.service.ts:12-15).
NeglectEnds ==
  mode = "alone" =>
    ((day >= Due + Grace /\ day > Due /\ status \in {"open", "overdue"})
       ~> (status \notin {"open", "overdue"}))
=============================================================================
