# A formal model of AgroAssure

AgroAssure is an inspection platform. Officers inspect facilities with a phone
that works offline; the phone signs every event it authors, chains it to the one
before, and pushes it to a gateway when it can. The gateway checks and stores
events in an append-only store, projects them into read models, and serves the
console in which supervisors plan, decide, certify and follow up findings.

This directory holds TLA+ modules of the parts where order, failure and
concurrency decide whether that works, the TLC configurations that check them on
small instances, and proofs that TLAPS checks for every value of the constants.
Paths below are relative to `src/`; `gateway/` stands for
`services/sync-gateway/src/`, `core/` for `packages/field-core/src/`, `domain/`
for `packages/domain/src/`, `field/` for `apps/field/`, `console/` for
`apps/console/`.

1. The system
2. The modules
3. The checks
4. Fairness
5. The proofs
6. Known to go wrong
7. What is abstracted, and what is left out
8. Plan

## 1. The system

| Component | State | Operations | Module |
|---|---|---|---|
| Phone outbox and sync (`core/outbox.ts`, `sync.ts`, `sqlite.ts`, `field/src/auto-sync.ts`, `transport.ts`) | SQLite outbox, chain head, cursors; one sync in flight | author, push, upload, pull, bootstrap, 60 s abort | `DeviceSync`, `Exhibits` |
| Clock (`domain/hlc.ts`) | the last stamp, in the outbox | resume, send, compare | `Clock`, in `DeviceSync` |
| Ingest (`gateway/sync/ingest.service.ts`, `pg-event-store.ts`) | `event_store`, `device_chain_head`, `device.status` | admit, read head, check, append, set head, answer | `DeviceSync`, promise in `WorkLog` |
| Event store, projector (`gateway/events/`, `projections/`) | `event_store`, read models, `projection_cursor` | append, applyPending, rebuild, 5 s sweep | `Projector` |
| Findings (`gateway/console/findings.service.ts`, `domain/finding-state.ts`) | finding row, its events | submit, verify, reject a closure | `FindingWorkflow`, `Findings` |
| Escalation (`gateway/workers/`) | what a sweep has read, notices | mark overdue, escalate, notify | `FindingWorkflow` |
| Inspection on the phone (`core/inspection.ts`, checklist and sign-off screens) | answers, visit, bound version, what the sign-off shows | start, answer, sign, submit | `FieldInspection`, `Visit`, `Scoring` |
| Pull feed and bootstrap (`gateway/sync/query.service.ts`) | pull cursor, local findings | pull, apply, bundle | `Exhibits` |
| Evidence storage (`gateway/sync/storage.service.ts`, `s3-blob-store.ts`) | queue on the phone, object versions, `evidence.locked` | upload, lock, read back | `Exhibits`, `BlobStore` |
| Decisions, certificates (`gateway/console/inspections.service.ts`, `certificates.service.ts`, public page) | decision, certificate rows, serials | decide, authorise, revoke, verify | `Oversight` |
| Instruments (`gateway/console/instruments.service.ts`) | versions, structure, content hash | draft, replace structure, list the changes, publish | `Instruments`, in `Oversight`; `Revision` |
| Planning (`gateway/console/planning.service.ts`, `domain/risk.ts`) | assignments | suggest, assign, cancel, claim, complete | `Planning`, `Risk`, in `Oversight` |
| Administration, invitations (`gateway/console/admin.service.ts`, `invitations/`) | users, devices, codes | invite, activate, enrol, revoke, suspend | `Accounts` |
| Registration (`gateway/registration/`, `field/app/register.tsx`, `console/app/register`, Team page) | request rows, tickets, codes | start, verify, resend, withdraw, decide | `Registration`, `JoinRequests`, `Joining` |
| Phone identity (`field/app/activate.tsx`, `account.tsx`, `src/pin.ts`, `session.ts`, `signer.ts`) | secure store, slot by slot | activate, land, sign out, set, check and forget a PIN | `Access`, `PinGate` |
| E-mail sign-in, console sessions (`gateway/auth/`, `console/lib/`) | links, session cookie, roles | ask, open, continue, provider callback | `SignIn` |
| Configuration (`gateway/config/`, `console/system-status.ts`) | settings | load, refuse, report | `Deployment`, in `SignIn` |
| Guard, tokens, roles (`gateway/common/`) | none | authenticate, authorise | `Roles`, `Accounts`, `DeviceSync`, `SignIn` |
| Registry, facility import (`gateway/console/registry.service.ts`, `facility-import.ts`) | facility rows | look up, register, update, preview, import | `Registry` |
| Hashing and identifiers, console read models, health, metrics, command-line tools | none that is read again | queries, I/O | not modelled |

How they interact. The phone's `drain` posts a batch to `POST /sync/events`; the
handler runs `ingest` and then `applyPending`, and its answer tells the phone
what to mark acknowledged. Console commands and the escalation worker append
through the `EventAppender`, which also ends in `applyPending`; a sweep every 5 s
runs it as well, so any number of `applyPending` calls work on one cursor.
Commands read the rows the projector wrote, check them, and append; check and
append are not one transaction. The phone learns of server events through the
pull feed and of versions, facilities and its own removal through the bootstrap.
Codes, requests to join and approvals decide which key may sign for whom; the
phone keeps the outcome in a secure store that it writes slot by slot.

What makes it hard:

- a request the phone has given up on keeps running on the gateway, beside its
  retry; each statement of `ingest` commits on its own;
- the gateway can stop between any two statements, the app between any two
  writes, and the network may lose a request or its answer;
- a phone changes hands and keys while its outbox stays;
- transactions commit in another order than they began in, and the record order
  the projector reads is the order they began in;
- several projectors apply the same batch, and a rebuild may run beside them;
- commands and sweeps act on rows that have changed since they read them;
- people press twice, come back to a screen, open links late or not at all.

What makes each part correct:

- *Phone and ingest*: the stamps of an outbox grow, so that a batch is sorted into
  the order it was authored in; the store holds a phone's events in that order,
  once each, without a gap; one identity's chain never continues another's; what is authored
  is delivered while the phone stays signed in; a sync always ends.
- *Projector*: the cursor passes nothing unapplied; a quiet read model is the
  replay of the store; every event arrives.
- *Findings*: closed is final and rests on a verified closure; an escalation is
  notified and comes to every neglected finding.
- *Inspection*: a submitted one is complete, holds the findings that were signed,
  stays as it is, and says what both people were shown.
- *Evidence and pull*: what has left the phone's queue can be read back; sound
  files are uploaded; the phone comes to show the server's status.
- *Oversight*: certificates rest on clear ground in the store; assignments are
  completed by visits; a record is scored by what the inspector was asked; the
  needy are suggested; a revocation reaches the public; the list of changes shown
  before publishing tells what changes.
- *People and phones*: work is attributed to whoever wrote it; a key signed out
  stays out; a PIN guards its own person's phone; an inspector gets back in.
- *Joining, signing in*: nobody is put before an administrator unproven; a
  decision stands and is told; a link opens once; a session acts under the
  register's roles; a pilot keeps what it promises.
- *Registry*: a duplicate is only what could not be seen; the preview holds.

## 2. The modules

**Clock, DeviceSync, WorkLog.** One phone and the gateway. An event is named by its
outbox row; `outbox[e]` records the row it follows, the identity that signed it
and its stamp. `Clock` is the hybrid logical clock: `Author` resumes it from the
last row (`ResumeClock`) and moves it on (`Send`) by what the wall clock reads,
`Now`, which may go back or stand still; `CheckEvent` takes the batch by stamps
(`Before`), not by the rows' numbers. `ingest` is `Admit`, `ReadHead` (once a batch), then for each event in order
`CheckEvent` and `AppendEvent`, then `FinishBatch`; a request can be cut short
between any two. `GiveUp` is the 60 s abort, after which the request may go on
without its phone. `mishaps` counts what goes otherwise than the plain course;
`cut` is a history of the identities whose request was cut short or overlapped.
`stuck` stands for the projector behind the answer: while it is set, by `GetStuck`,
`applyPending` throws, and every push that was stored is answered with an error.
`Repaired` clears it; nothing makes that happen. A failure of one request is both,
around it.
`WorkLog` is the promise behind it: a counter of written events, one of recorded
ones that only grows by the next event, a set of confirmed ones that only takes
what is recorded. `DeviceSync` implements it (`PromiseSpec`).

**Findings, Projector.** `Findings` holds the state machine of a finding as the
domain package states it (`Transitions`) and as the projector's guarded `UPDATE`s
implement it (`Accepts`, `Project`). `Projector` is `applyPending` in as many
callers as `Worker` has members: `ReadBatch` is `nextBatch`, `Apply` one event
with its cursor advance in one transaction, `Throw` a handler whose transaction
rolls back, `Rebuild` what it says. The store's side is the begin, commit and
rollback of an appending transaction; events are named by their place in record
order, `(recorded_at, event_id)`, where `recorded_at` is the time of the begin.
The read model is one row its events take through a state machine, which is what
makes order and repetition visible. A behaviour has a `mode`, chosen at the
start: "alone" (calls one at a time, rebuilds, any history) or "crowded" (calls
overlap, no rebuild, events that cannot be applied).

**FindingWorkflow.** One finding, console requests and sweeps. A command is
`Check`, `AppendCommand`, `AnswerCommand`; a sweep is `SweepReads` once and then
steps that act on what was read. In mode "alone" no two sweeps overlap and
nothing dies; in "crowded" both happen.

**Scoring, FieldInspection, Visit.** `Scoring` is `scoreInspection`, percentages
in hundredths. `FieldInspection` is one inspection in the phone's rows and in the
console's: the local database has no transactions, so `start`, `recordResponse`
and `submit` are followed statement by statement (`doing`), and `Interrupt` ends
any of them between two. `torn` remembers that a `start` or `submit` was cut
short, which the code does not repair. `Visit` puts the screens over it: the
day's list, the checklist, the sign-off (`sheet` is what it shows and who has
signed), and where "back" leads. Every step of `Visit` is one of
`FieldInspection` or leaves it alone (`VisitIsInspection`).

**Exhibits, BlobStore.** One phone's sync rounds for what `DeviceSync` leaves out:
photographs, whose bytes travel apart from the events that declare them, and the
status of a prior finding, which comes back with the pull feed and the bundle.
`BlobStore` is one key of a versioned, locked bucket, over which others may write.
`stuck` is as in `DeviceSync`: events are stored, the read models stay (`Reached`),
and a round that has something to push ends there.

**Oversight**, which extends **Roles, Planning, Instruments, Risk.** One facility:
planned visits, inspections, decisions, certificates and the public page.
Certificate commands are their checks on the read model and, later, their append.
`ApplyNext` is the projector, `Rebuild` a rebuild of everything but the
assignments, which are no projection. `Instruments` are drafts and `publish()`
statement by statement; `Roles` says which route asks for which role; `Risk` is
the score that orders the suggestions.

**Revision.** What a version consists of, the defaults `createDraft` and
`replaceDraftStructure` write, and `diffStructures`, the list of changes shown
before publishing, as a function of two structures. In `Instruments` a structure
is a number: publishing and binding do not look into it.

**Accounts, Registration, Access, PinGate**, each extending the one before. The
gateway's register of people, phones and codes; requests to join by several
people; one phone's secure store and the screens that write it; the PIN in front
of them. What a screen has still to write is the queue `writes`: each `Write` is
one awaited slot, and `Restart` cuts the queue short (`cuts` counts). `lost` is a
history of the keys ever signed out remotely. A phone is on one of two courses:
"accounts", with requests to join and all an administrator may do, or "pin", with
codes alone and the PIN followed slot by slot.

**JoinRequests, Joining.** One person's requests, call by call: `start`, `verify`
and `resend` read and then write without looking again, and the caller may have
stopped listening. `Joining` puts both screens over them, the phone's (ticket in
the secure store) and the website's (ticket in a cookie), and the administrator.

**Deployment, SignIn.** What the settings make of a gateway (`LoadConfig`, which
refuses to start in shapes that cannot work; `Checks`, the status page), and one
person at one browser in every deployment it agrees to start in: e-mail links, a
provider, demonstration and shared tokens, two tabs.

**Registry.** Two clerks adding facilities one at a time or from a sheet. A licence
is compared without case by whoever is about to register it, as written by the
read model's unique key. Each event remembers how much of the store its check
could see (`saw`). Its specification, and that of `FindingWorkflow`, are named
after the component (`RegistrySpec`, `WorkflowSpec`), because each is proved about
in one module with another component that has a `Spec`.

## 3. The checks

| Run | Properties | Bounds | States |
|---|---|---|---|
| `device_sync` | `StoredInOrder`, `ChainsStayApart`, `PromiseSpec`, `Delivered`, `SyncEnds` | 2 identities, 2 requests, 3 events, batch 2, a wall clock that reads 2, 1, 3; 3 mishaps | 855 557 |
| `projector` | `NoneSkipped`, `QuietModelIsReplay`, `EventuallyApplied` | 2 workers, 3 events, batch 2, both modes | 39 583 |
| `field_safety` | `SubmittedIsComplete`, `NothingObservedIsLost`, `FindingsAreThoseSigned`, `RecordIsFinal`, `SignedAsShown`, `SubmissionArrives` | 2 checkpoints, 3 answers, 2 versions, days 0-1, submissions begun at up to 4 events, 1 torn call | 832 914 |
| `finding` | `ClosedWasVerified`, `ClosedIsFinal`, `EscalationNotified`, `NeglectEnds` | 2 commands, 2 sweeps, due 1, grace 2, days 0-3, both modes | 601 292 |
| `exhibits` | `KeptIsReadable`, `SoundIsUploaded`, `StatusArrives` | 2 exhibits, one spoiled; batches 1 (push), 2 (evidence), 1 (pull); 3 events of the finding, 1 write over an object, 2 failures | 825 494 |
| `oversight` | `CertifiedIsClear`, `CompletedWasVisited`, `ScoredAsInspected`, `NeedIsSuggested`, `RevocationArrives` | 1 inspection, 2 certificates, 2 people, 2 inspectors, 2 requests, 6 events, 2 assignments, 2 versions, 2 asides | 383 777 |
| `access` | `Attributed`, `SignedOutStaysOut`, `PinIsOwn`, `GetsIn` | 2 people, 4 keys, 2 requests, 2 tries, 2 sendings, 2 asides | 583 858 |
| `sign_in` | `PilotPromises`, `LinkOpensOnce`, `ActsAsRegistered`, `GetsIn` | 2 links, 2 tabs, 2 requests for a link, 2 mishaps | 950 057 |
| `registry` | `DuplicatesWereUnseen`, `PreviewHolds`, `RegisteredIsListed` | 2 clerks, 2 numbers, sheets of two rows, 3 events, 1 mishap | 731 777 |
| `joining` | `DecidedIsProven`, `DecisionsStand`, `Told` | 2 requests, 2 sendings, 1 try, 2 mishaps | 411 926 |

Two further runs check a statement of the repository that the code does not keep;
TLC's counterexample is the run's result:

| Run | Statement | What happens |
|---|---|---|
| `projector_late` | `gateway/projections/projector.service.ts:51`, "every event ... in record order" | a transaction that began first commits last, behind the cursor (`NoneSkipped`, with `MayCommitLate`) |
| `access_trapped` | `field/app/account.tsx:40-42`, of a phone that was signed out remotely: "keeping the person here would only trap them" | with work in the outbox the sync only ever says offline, so the account screen never lets them leave (`SignedOutMayLeave`) |

What each run asks is in the comment above each property; `PROJECT.json` says it
in a sentence, names for every property a change of the code that breaks it, and
lists the hazards each one is for.

Why the bounds are enough. Three events and batches of two give a full batch, a
short one, and an event authored while a batch is out. Two request slots are a
request and its retry; a third adds a second stale head, which the inductive
invariant covers for any number. Two identities are the old one and the new one.
A wall clock that goes back once
and then jumps gives a stamp with a counter between two without.
Two workers are needed for interference, and with three events one of them gets
two batches. Two checkpoints, one critical and one that may not apply, give
ratings and bands that differ by an answer and by a finding; three answers are a
correction, or an answer after sign-off. Two exhibits in a batch of two are one
that spoils beside one that does not. Six events are an inspection with a finding,
its decision and a certificate, or with two certificates and a revocation. Two
people and four keys let a phone change hands and come back, and two asides let
an unplanned event meet another one (a sign-out that is cut short and a code for
somebody else). Two links are an old one and a new one, two tabs two provider
sign-ins that overlap. Two clerks with two numbers are the least for a licence
taken between a look and an append. Two mishaps in joining are one call left to
the gateway, or two messages lost. Where the run is small the theorems of section
5 remove the bound.

`MCOversight` also evaluates `Revision`, on 578 drafts of up to two checkpoints: the
list is empty exactly where the two structures look the same to the comparison,
and structures exist that differ and list nothing.

Deadlock is checked in `sign_in`, where somebody can always do something. The
other systems may stop: their stores, days and mishaps are bounded, and a phone
without a key waits for a code.

## 4. Fairness

- `device_sync`: weak fairness of the phone's and the gateway's steps that spend
  no mishap. The app retries every minute while work waits
  (`auto-sync.ts:127-134`), awaits resolve or abort after 60 s. Nobody has to
  author, revoke, sign out, kill the app or repair a stuck projector: a phone that is
  never acknowledged behind one is an exception of `Delivered`.
- `projector`: a sweep starts every five seconds; strong fairness of reading a
  batch and of applying or throwing, because a call is not killed at the same
  place for ever. A recorded event arrives in mode "alone", once rebuilds end.
- `field_safety`: a call that was begun ends (or the app does), and what is
  authored is projected, by `Delivered` and `EventuallyApplied`. Nobody has to
  submit.
- `finding`: the escalation timer fires, days pass, awaits resolve, the projector
  runs; nobody has to use the console.
- `exhibits`: the app comes to the foreground, rounds and the gateway's requests
  go on, the projector runs unless it is stuck, which nobody has to repair;
  `SoundIsUploaded` and `StatusArrives` name that.
- `oversight`: the projector's sweep runs. Everything else is people's choice.
- `access`: writes are awaited to their end or the app is closed; the sync's timers
  run; the person enters the codes they are sent, types their own PIN, gives up
  one that is not theirs and leaves a phone that shows it has stopped working; the
  administrator goes on sending codes to inspectors.
- `sign_in`: a person who keeps trying, a gateway that is started again, and the
  15-minute window passing.
- `registry`: the projector, and a command that was begun, go on.
- `joining`: the gateway finishes calls, the phone asks for the status and its
  person goes on, the website is looked at again, the administrator decides what
  is pending.

## 5. The proofs

Each proof module extends one component; constants are arbitrary but for the
assumptions the modules name (bounds are natural numbers, batches are not empty,
`None` is nothing else). Every theorem below holds for any number of actors,
events, requests and mishaps.

**DeviceSyncProofs.** `StoredInOrder` alone is not inductive: whether an append
keeps the order depends on the head its request has read, possibly long ago.
`StaleHeadsAreHarmless` says that any head ever read names a stored event signed
by that device, that stored events belong to one signer, and that an event about
to be appended follows its request's head. A stale head then leads to an event
that is stored already, where `ON CONFLICT` makes the append nothing, or to the
next one. Its conjunct `StampsGrow` is what makes the gateway's sort the order of
authoring, whatever `Now` reads: `Send` moves a stamp on (`SendMovesOn`), stamps are
totally ordered (`BeforeOrders`), so the earliest event of a batch is its first
(`FirstIsEarliest`). From it: `StampsGrowTheorem`, `StoredInOrderTheorem`,
`AckedAreStoredTheorem`, `ChainsStayApartTheorem`, and `Refinement`,
`Spec => PromiseSpec`.

**ProjectorProofs.** Assuming no late commits: `NoneSkippedTheorem` and
`FirstTimeInOrderTheorem` from `NothingBehind` (what lies before an event in a
worker's batch is applied or in the same batch), and `ModelIsReplayTheorem`, that
a quiet model in mode "alone" is the replay of the store. `Replay` is a recursive
function over the store; the proof gives it a defining equation (`IsReplay`) by
well-founded recursion and carries `Replaying`, which says that the row is the
replay up to the cursor at every moment, also while a batch is half applied. The
assumption is needed, as `projector_late` shows; "alone" is needed too, as
section 6 says.

**FieldInspectionProofs.**
- `SubmittedIsCompleteTheorem`: the phone counts its own rows, the console the
  projected events. `CompleteInv` ties them: an answer on the phone has an event
  (`RowsFollowEvents`), a submission comes after an answer to every checkpoint
  (`SubmittedAfterAnswers`), and a row that exists was there before the first
  answer, so it has taken every answer projected (`ResponsesKept`).
- `RecordIsFinalTheorem`: where nothing was cut short only answers follow a
  submission (`OnlyAnswersFollow`), and each meets a row that `ON CONFLICT DO
  NOTHING` leaves as it is.
- `NothingObservedIsLostTheorem`: what `submit` has still to raise and what it has
  raised together cover the adverse answers, also when it is begun again
  (`RaisedInv`).
- `FindingsAreThoseSignedTheorem`: `ExactInv` adds that every row was raised, and,
  where nothing was cut short, that nothing was raised before the submission
  began, that the checkpoints raised are those adverse and no longer left, that
  none is raised twice, and that a submission signs exactly those.
- `VisitIsInspection`, `VisitSpec => Spec`: the screens make no step that is not
  the inspection's own, so all of the above holds on them.
- `SignedAsShownTheorem`: while the sign-off is in front, what it loaded is still
  the rating and the findings of the answers on the phone, and what was signed was
  signed on one day (`SheetInv`).

**ConsoleProofs**, of the two components whose actors sit at the console. Of
`FindingWorkflow`: `ClosedIsFinalTheorem` and `ClosedWasVerifiedTheorem`, from an
invariant of what the store holds whenever a closure is awaiting. Of `SignIn`:
`SignInInv` is the types, `UnspentOpenedNothing` (a link that is not spent has
opened nothing), `Started` (the gateway runs on settings the loader agreed to) and
`HomeIsVerified` (the page is served under a token the gateway verifies). From it
`LinkOpensOnceTheorem`, `PilotPromisesTheorem` over every shape of settings, and
`ActsAsRegisteredTheorem`.

**RecordsProofs**, of two records kept beside the store. Of `Exhibits`:
`KeptIsReadable` speaks of what has left the queue or is shown as locked, and is not
inductive, because what an upload still under way will do with the row depends on
how far it has come. `ExhibitInv` adds that a key holds nothing or, whoever writes
over it, a version that hashes to it (`KeysAreOwn`), and that an upload past its put
has bytes to show for it, on the phone, in the read model and in the requests the
phone has given up (`BytesAreKept`): `KeptIsReadableTheorem`. Of `Registry`:
`RegistryInv` ties the read model to the log (`FacilitiesFollow`: the
facilities are those whose registration was projected, each under a licence that a
projected event gave it) and says of each clerk's page that what
it is about to write was not to be seen when it was looked up (`LookedUpFirst`), and
that a row the preview did not promise had its licence registered (`PreviewWasTrue`):
`DuplicatesWereUnseenTheorem`, `PreviewHoldsTheorem`, for any number of clerks, sheets
of any length and a projector any distance behind.

**OversightProofs.** Five invariants, each resting on the ones before.
`FrozenInv`: what is published is published as its version stands, and bundles and
events carry a published version (`InspectionsScoredAsInspected`). `ReadInv`:
everything the read model says is an event projected. `OrderInv`: an inspection's
findings are raised before it is submitted. `ClearInv`: a certificate command that
passed its checks has its grounds in the store. Together they give
`CertificatesAreClear`: a finding raised after the checks would have been raised
before the submission the checks have seen, and the projector applies in order, so
a read model that shows the submission shows every finding. `PlanInv` gives
`AssignmentsAreVisited`. `TheNeedyAreSuggested` combines `ReadInv` with
`SuggestionsRankByNeed`, the monotonicity of the score in every input, which needs
no invariant. Of `Revision`, for any two structures: `NothingListed` (the list is
empty exactly when thresholds, refs, English prompts, weights and severities are the
same), `ListDetermines` (drafts with the same list agree on all of these, except on
the weights and severities of checkpoints they add) and `UnlistedChange` (titles,
Hausa prompts and whether "not applicable" is allowed may change with nothing listed).

**JoiningProofs.** The invariant (`Rows`, `Numbered`, `Counted`, `Rest`, `CallOK`,
`Screens`) says that requests are numbered in the order they were started, what a
call that has read its row may still write, and which tickets the two screens may
hold. From it `JoiningTypes`, `PendingIsProven` (a `verify` that has read carries
only codes that were handed in) and `OnlyStaleVerifyUndoes`.

**PinGateProofs.** The secure store has no transactions, so an invariant of its
slots alone is false between two writes. `PinInv` therefore speaks of the queue
still to be written as well: the names are settled, or a sign-in is landing that
will settle them (`NamesBelong`); the PIN is settled, going with its person, or
coming with theirs (`PinFollows`); what waits in the outbox names a key and a
person the register knows (`OutboxIsNamed`); sessions and requests name owners
truthfully (`Registers`). From it `SignedOutStaysOutTheorem`, `AttributedTheorem`
and `PinIsOwnTheorem`, on both courses and with an app closed between any two
writes. TLC agreed with `PinInv` on all states of `access` before it was proved.

Only model-checked:
- everything that needs fairness, which is out of the prover's reach, as ENABLED
  is: `Delivered`, `SyncEnds`, `EventuallyApplied`, `SubmissionArrives`,
  `EscalationNotified`, `NeglectEnds`, `SoundIsUploaded`, `StatusArrives`,
  `RevocationArrives`, `GetsIn` of `PinGate` and of `SignIn`,
  `RegisteredIsListed`, `Told`.

Every invariant and every property of steps that a passing run checks is proved.

## 6. Known to go wrong

Seen while modelling. The properties name these as their exceptions, or leave
them out; only the two runs of section 3 state one of them as a property.

*Phone and ingest.* After a request that was cut short or overlapped between its
append and `setChainHead`, the head stays behind or is written back: the retry
skips the stored event, and the phone's next event is refused for ever. The first
event under a new key links to the old key's last and is refused as a chain break.
A batch refused in the middle leaves its first events in the store although the
gateway's README speaks of rejecting the whole batch. A batch admitted before the
device was revoked inserts after it. `author()` is atomic only because the signer
is synchronous (`core/outbox.ts:83`, `signer.ts:69`). The minute timer runs only
while events are queued (`auto-sync.ts:131`). While one stored event, of whichever
phone or facility, cannot be projected, no push is acknowledged: `pushEvents` awaits
`applyPending` after `ingest` with nothing around it (`sync.controller.ts:47-50`), so
every phone with work sends the same batch again each minute, shows "offline", uploads
no photograph, pulls nothing, and cannot be signed out, although its work is stored.

*Projector.* A late commit is skipped (`projector_late`). Two workers that hold
one batch leave the read model in a state no replay gives, when the slower applies
it again over later events. A rebuild while another worker holds a batch skips
events. A handler that always throws keeps all later events of every facility out
(finding references, certificate serials and licences are unique in the read
model only). `Projector` ("crowded"), `Registry`, `DeviceSync` and `Exhibits` have
such an event; `field_safety`, `finding` and `oversight` take the projector to go on,
so what they say will arrive does so behind no such event. While it is there every
push and every console command is answered with an error although its events are
stored (`sync.controller.ts:50`, `event-appender.service.ts:56`). A finding synced late is
due too early, because the due date the phone computed from the signature is moved
back by the delay (`projector.service.ts:410`).

*Findings.* Two sweeps that read before either appends both escalate and notify.
No notice is ever sent after a death between the escalation and it. A sweep that
saw a finding overdue escalates it after a rejected closure reopened it. A
verification that loses to a concurrent rejection is answered with success. The
console has no button for submitting or rejecting a closure.

*Inspections.* A corrected answer gives the console another rating than the one
the phone showed and signed: the phone keeps the last, the projector the first. A
`submit` that is cut short and tried again reuses finding references, and the
projector stops at the first of them; a `start` cut short leaves an inspection the
gateway has no row for. An inspection whose version a bootstrap replaced can be
neither answered nor submitted (`core/inspection.ts:340`). The checklist's refresh
loses an unsaved "No" with its remark, and the sign-off ignores one. "Back to
visits" leaves the submitted checklist below the list. When the sign-off's load
fails, nothing is missing in what it shows.

*Exhibits.* One captured while a push is out is uploaded before its row exists,
and the row stays unlocked although the bytes are there (contrary to
`storage.service.ts:29-34`); a rebuild leaves all evidence unlocked. Twenty spoiled
uploads starve the queue. The local store may keep a half-written file.

*Oversight.* Two certificates can be issued for one inspection, and two serials
can clash, which stops the projector. `publish()` freezes the hash of what it read,
not of what is in force; a version can be in force without its event. A rebuild
that replays a start may claim a second assignment; a cancelled one can be
completed; `createAssignment` does not look at existing plans. A certificate that
has expired but still says valid blocks a new one and is shown as valid on two
pages. During a rebuild a revoked certificate reads as valid until its revocation
is projected again. "Planned and not yet started" lists visits that have started. Of the risk
score: one `needs_improvement` followed by `critical_issues` scores nothing while
two `needs_improvement` score 25, and an absent or revoked certificate scores
nothing while a lapsed one scores 30. The list of changes shown before publishing
leaves out titles, Hausa prompts, `allowsNa` (which decides what a phone accepts,
`core/inspection.ts:142`) and the weight and severity of an added checkpoint, although
`instruments.service.ts:69-71` has it that a regulator "sees exactly what moves".

*Phones and people.* A phone signed out remotely with unsent work is trapped
(`access_trapped`), and so is one whose person was suspended, one without a
session token, and one whose outbox holds another key's work. `index` and
`activate` send a half-set-up phone round in a circle. A ticket left from an
earlier request lands its session beside a key made since. Two screens cut short
on one phone attribute one person's work to another. A PIN forgotten and then
another person's code ends in "key in use" with an advice ("Sign out first") that
cannot be followed. A sync in flight during a sign-out fills the tables again; work
authored between the count and the deletion is kept for the next person
(`account.tsx:51`). `setPin` cut between its writes, or by the gate locking, locks
everybody out; `clearPin` cut with the salt gone but not the hash lets any four
digits in (`pin.ts:58`), cut earlier it gives fresh tries. The last administrator
may suspend himself; `createUser` compares e-mails with case; a state
administrator may revoke a national one; `activate` does not ask for the inspector
role.

*Joining.* A `verify()` that read before a decision undoes it. `verify()` answering
an approved request gives no session, so the phone says "approved elsewhere" and
going back drops the ticket. Late answers drop a newer ticket, or show codes for
none. A stale wrong `verify` counts a try against new codes. A resend on a row
decided meanwhile renews its codes, and overlapping ones exceed `MAX_SENDS`. The
account check precedes `start()`'s transaction. A failed status on opening shows
the details form over a kept ticket. The pages say a code was sent whether or not
it was.

*Signing in.* A pilot with only a provider whose console lacks its settings shows
"Demo mode"; the provider's button is offered without asking the gateway and may
go round in 401s. A demonstration sign-in without a token secret always fails.
Opening a link spends it even for a suspended person; older links stay valid; a
provider's and a shared token carry their own roles. The "log" mailer counts as
available.

*Registry.* Overlapping checks, or one on a lagging read model, register a licence
twice and stop the projector (contrary to `registry.service.ts:47-50`). A heading
that only the look-up misreads hides duplicates; an update is not checked; an
invalid first row makes a later good row with its licence refused.

## 7. What is abstracted, and what is left out

- Cryptography, hashes and identifiers are taken as sound and injective; tampered
  bytes, layout, wording and logging are left out.
- Several phones share no rows, so one is modelled; one finding, one inspection,
  one facility stand for each. Jurisdictions are left out.
- A stamp has no node name: it would break ties between equal readings, and one
  outbox has none (`StampsGrowTheorem`). `hlcReceive` is called by tests only. The
  widths to which a stamp is padded are left out, since stamps are compared decoded.
- `FieldInspection`: two people's signatures are days and a name's presence;
  remarks and the check-in's distance, which refuses nothing, are left out.
- `Visit`: drafts that are not saved live on the screen only, and one call is torn
  in a run; the theorems hold without that bound. While the sign-off is in front
  the gateway's steps are taken before it was opened.
- `Oversight`: a day stands for a certificate's validity; months since the last
  visit and overdue findings are taken at their least when suggestions are checked.
- `Risk`: the list of suggestions is not cut after `limit` rows (20 by default,
  `planning.service.ts:275`); of one facility there is nothing to cut.
- `Access`, `PinGate`: two courses, as section 2 says; a push that is accepted is
  answered; the "forgot" card is part of
  the locked gate; enrolment is one step, so no twin keys.
- `Joining`: leaving the screen while a call runs is closing the app; a closed
  registration and its options are left out; the rate windows are `MaxRequest`,
  and "too soon" is a choice.
- `SignIn`: of three limits (address, e-mail, verification) one is modelled; a
  failed fetch of signing keys is left out, a failed discovery is not.
- Not modelled, because they keep no state that is read again: read models of the
  console, rendering, health and metrics, command-line tools other than the
  rebuild and the sweep, charts and layout.

## 8. Plan

Everything in section 2 is modelled and checked, and its safety is proved. What would
come next: the liveness properties by proof, should the prover come to reach them;
several inspections beside one another in `Oversight`, so that serials and finding
references meet; the remaining limits of `SignIn`; and, where the code is changed to
repair something of section 6, the exception dropped from the property that names it.
