# Formal model of Private Sync Gate

TLA+ modules, TLC runs and TLAPS proofs for the parts of this repository where
several actors, failures or restarts meet durable state. `PROJECT.json` ties every
definition to the lines of code it models, and lists the components and the hazards
with the line at which each bites. Paths below are under `src/internal/` unless they
say otherwise.

## The system

`syncgate` is a daemon with one SQLite database. The store opens a single
connection with foreign keys on (`storage/sqlite/store.go:28-29`), so each
transaction, and each statement outside one, is a single step of the models. Four
parts share the daemon:

- **Synchronisation.** A source share is watched and scanned; a scan records
  revisions, the file index and tombstones. Authenticated one-way work is queued
  as jobs, transferred, and applied to a target share behind a durable intent.
- **Orchestration.** Work packages are planned as assignments, claimed under
  fenced leases, executed in a Git worktree by a supervised runtime, collected,
  gated, and accepted by a person. A scheduler drives it; an operator API
  intervenes.
- **Project records.** What happened to a work package is published as immutable
  files in the project, which peers exchange; a projector makes local rows of them.
- **The node.** Devices are paired and revoked, report status, keep a key, a
  configuration and an administration credential, and serve a local browser.

### Inventory

| Part | State | Operations | What makes it hard |
|---|---|---|---|
| Control service `orchestration/control.go` | assignment, attempt, lease, resource, operation, gate, decision rows | plan, claim, bind, transition, heartbeat, retry, reconcile, gate status, decision | snapshots read before the transaction; late and repeated calls; expiry |
| Scheduler `scheduler/` | sessions in memory, attempts in the store | start, dispatch, reap, renew, pause, resume, cancel, shut down | memory, rows, leases, worktrees and processes diverge |
| Runtime, worktrees, local node `codexruntime/`, `workspace/`, `desktop/local_node.go` | sessions and state files, directories and branches, leases | prepare, start, observe, cancel, allocate, acquire, renew, release | crash between two resources |
| Integration gate `integrationgate/` | gate statuses, decisions, work history | evaluate, decide | many stores written in turn; replay |
| Records `project/`, `workhistory/`, `projector/`, `projectmigration/`, `insights/` | record files, projection rows, checkpoint, insights | record, publish, ingest, rebuild, migrate | idempotence, partial arrival, two projectors |
| Share scanning `sync/` | watcher, requests, timer, scan in progress, index, sequence | trigger, scan, reconcile, guard, commit | dropped requests, lost roots, shutdown during a scan |
| Job queue `sync/jobs.go` | `one_way_jobs`, worker pool | list, claim, run, finish, back off, recover, pause, resume, retry | unconditional writes from old copies; restart |
| One-way apply `sync/apply.go` | path, ready file, intent, history, index, revisions | prepare, receive, apply, commit, tidy | crash between file system and database; local edits |
| Peers `pairing/`, `transport/`, `nodestatus/`, `transfer/`, `sync/authenticated_work.go` | devices, permissions, sessions, replicas, partial files | invite, accept, revoke, connect, report, advertise, send | revocation during use, clocks that differ, loss and repetition |
| Node's own state `identity/`, `desktop/`, `config/`, `daemon/` | key, metadata, settings, receipts, layout marker | load, rotate, migrate, stage, apply, preflight, enable, start | crash between two files; start at any moment |
| Local API `api/` | credential, tickets, sessions | load or create, issue, exchange, authenticate | racing processes and requests |

## Modules

### Control plane

`ControlRules` holds the pure tables: the state reducer, terminal and retryable
states, recovery dispositions, gate transitions. `ControlStore` has the rows
(`asg`, `att`, `lease`, `ops`) and, for each store method, a condition under which
its transaction commits and its effect. `ControlService` adds the callers. A call
begins by sampling the clock and, for `Transition` and `Retry`, by reading the
assignment; its transaction runs in a later step with what was read. Other calls,
time, and the caller's death come in between. `AssignmentLifecycle` is the
abstract specification: an assignment is unplanned, open, held by one attempt,
closed, or accepted for good, and an attempt is used once.

| Action | Code |
|---|---|
| `BeginPlan` ... `BeginReconcile` | the `ControlService` methods up to the store call |
| `CommitPlan` ... `CommitReconcile` | the transaction of the store method |
| `Refuse`, `Abandon`, `Tick` | a transaction rolled back with an error; a caller that gives up; the clock |

Abstracted: audit rows, identifiers' syntax, resource columns, and JSON bodies. A
lease token stands for lease ID and fencing digest together.

### Job queue

`JobQueue`: rows with state, retry count and time left; the polling goroutine, its
slots, each worker's copy of a row; controls that read and later write; shutdown
that waits for workers, and crash. A statement may fail at the claim, between the
claim and the read of the row, and at the worker's last write; `stranded` remembers
whose row the last two leave in running. Transfer itself is an outcome chosen freely.

### One-way apply

`OneWayApply` follows one path. A step is one rename, link, remove or transaction,
an applier may stop after any of them, and a second applier may contend for the
path lock. Contents are model values; a directory is empty or full. `MCOneWayApply`
has the revision histories the runs use.

### Share scanning

`ShareScan`: the watcher with its bounded request channel, the supervisor that
recreates it, the schedule loop with its pending flag and timer, the scan goroutine
(check root, list index, walk path by path, guard deletions, build revisions,
commit), and the daemon's start, cancellation, close, exit and crash. The user
edits paths and the root comes and goes meanwhile.

### Integration gate and work history

`WorkHistory` is the canonical history of one work package: a record per
idempotency key, the state folded from the events in the order of their times, and
the check each operation makes against that state. `IntegrationGate` extends it
with the attempt, its lease, gate rows, operator decisions, audit keys, the intake
verdict and the desktop's saved summary. `Evaluate` and `Decide` are chains of
steps, one per durable write, with the state each loaded at its start in `call`.
A setup says which decision names the control service admits: those of
`validOperatorDecision`, or the gate's own `approve` and `reject` as well, as the
service in `gate_test.go` does. Operators' calls overlap; a call fails between two
writes, the process restarts and reconciles, the lease runs out, the worktree or the primary branch moves, and an
operator cancels, fails or retries the attempt.

| Action | Code |
|---|---|
| `BeginEvaluate`, `LoadEvaluate`, `IntakeResult` | the desktop's `evaluate`, `loadAuthority`, result intake |
| `StartHistory`, `CompleteHistory`, `Fail` | the helpers of those names, one step per record |
| `GatePending`, `RunTest`, `RecordTest`, `GateVerdict` | `runGates` for one machine gate |
| `AwaitGates` ... `SaveIntegrationSummary` | the rest of `Evaluate` and the desktop's save |
| `BeginDecide` ... `Settle` | `DecideIntegration` and `Decide` |

Abstracted: a summary's digest is its attempt, worktree and test evidence; failure
codes are one; checks of manifests, contents and reviewers have free outcomes. A
transition is one step here, since `ControlService` covers its two.

### Scheduler and execution

`Scheduler` is one dispatch cycle, a cancel and the shutdown loop, each under the
scheduler's mutex. `mu` is the call that holds the mutex and its place in the code,
so that every call to the store, to git or to a state file is a step of its own and
may fail, and anything may come between two of them. It works on four small
components: `AttemptRows` (the control rows, one step per call), `LocalNode`
(compute leases with replay by key), `Worktrees` (directory and branch by one git
command, then the record) and `RuntimeSessions` (sessions, state files, slots and the
goroutine of each child). Two pure modules decide what is dispatched:
`TaskReadiness` folds canonical events in their order into states and reduces
the dependency graph; `DispatchSelection` rules candidates out and orders the rest.

| Action | Code |
|---|---|
| `Poll`, `Reap`, `Dispatch`, `StopActive` | `Cycle`, `reapLocked`, `dispatchLocked` call by call, the stop of an active attempt in `Cancel` and `Shutdown` |
| `Children` | the adapter's goroutine: start, exit, deadline, persisting its result |
| `Command`, `Operate`, `LoseRequest` | operator commands through the ledger; a client that goes away cancels its context |
| `ShutdownMark`, `ShutdownCancel`, `DrainTimeout`, `Exit`, `Crash`, `Boot` | shutdown in its order, crash, recovery at start |
| `Lapse`, `ClearTree`, `Move` | a lease runs out, a worktree is removed, a work package advances |

A cycle may also end early: `ReduceReadiness` or `Select` returns an error, and what
was dispatched before stays dispatched (`CycleFails`). A cancel stops its child even
when its state file cannot be written. `Execute` resolves the workspace after
reconciling its record, as `resolveRuntimeWorkspace` does, and fails the session
otherwise.

The daemon composes the scheduler without a work source
(`desktop/orchestration_composition.go:254-264` passes no `Source`), so there its
polling loop never runs and the operator's commands act on what recovery found. The
module is the scheduler with a source, as `BuildLocalOrchestration` builds it for a
caller that passes one: `Pending` offers any request such a source could, one at
most per work package, new or repeated.

A child's output, budgets and exit are a free outcome. A project's policy is the
number of assignments it allows. Children that outlive a crashed daemon are not
followed: the operating system may or may not end them.

### Records

`PortableRecords` is the project on disk: a path holds a content token or something
that does not decode, and publishing links a finished file without replacing.
`RecordProjection` is what the projector accepts of what it has read, as functions
of that reading: events in order, artifacts with their blobs, whole tasks only, and
the fingerprint. `HistoryOperations` gives the records of each work-history operation
and the state it asks for. `ProjectRecords` has the calls: operations under the
write gate, migrations, the scan hook and rebuilds under a projector's gate, each
step one read or write. Files arrive from a peer in any order, are damaged, the
source of an artifact is edited, a step fails, the process stops. `MCRecords` has the
catalogue of records and the setups; `CatalogAssumption` and `SetupsAssumption` say
what any catalogue and setup must satisfy (a path tells its record's type, a manifest
has its registration, a graph pins definitions), which is what the layout and the
records' own checks give. `WorkHistory` is the smaller history of one work
package that the integration gate writes.

### Devices

`Devices` composes eight modules; a setup chooses what the parties may attempt.

| Module | State and steps |
|---|---|
| `DeviceTrust` | invitations, device and permission tables, audit log, sessions; invite, accept, revoke, handshake. Two keys share one device ID, and one peer's clock is ahead |
| `NodeStatus` | signed snapshots; three store calls per report; what the control plane lists and how it classifies it |
| `ReceiverWork` | advertised changes: checks, two permission reads, the storing transaction that authorizes again, the queue's third authorization |
| `FileTransfer` | hashing between two stats, manifest, chunks, the partial file, history and the final rename, while the source is edited and either end stops |
| `IdentityStore` | credential vault, development file and metadata, with rollback, rotation, migration and start |
| `DesktopNode` | staged and active settings, moved roots, preflight receipts, execution authority, layout marker, the node's start |
| `AdminCredential` | marker, vault and development file, daemons and a client that load or create at once |
| `BrowserSessions` | tickets, exchange under two locks, cookies, CSRF tokens, limits, expiry, drain and restart |

A hash or a digest stands for the bytes it was computed from, a token for the random
value. `RotateIdentity`, replacing an existing destination and the status receiver
have no caller in the daemon; what their API promises is modelled. In
`IdentityStore` one process runs at a time; a save that is cut short between the
vault and the metadata, or whose rollback fails, has given up the old key for the new
one (`CutShort`), and `SecretsKept` says that apart from such a moment the key is kept; a partial path has one receive at a time;
the mode changes from development to production only. In `DesktopNode` an operator
runs one command at a time, logs and cache follow the rule of the worktree root, and
layouts 1 and 2 exist, although the present program knows only 1, so that upgrades
and older programs are met.

## Runs

| Run | Question | Result |
|---|---|---|
| `control` | callers race on one assignment as its lease runs out, and one goes through its whole life beside a second for the same work package: do the tables stay in agreement, is every call applied once, do closed leases stay closed and live ones end within one grant from now, is there one chain of attempts, and is the abstract life implemented? | holds |
| `execution` | failed calls, lapsed leases, commands, lost requests, crashes and restarts between any two calls of the scheduler: is there one process per attempt, is every child and lease accounted for, does a retry happen once, is nothing replayed after a restart, are dependencies accepted at the start, does supervision end? | holds |
| `gate_decisions` | two calls evaluate and decide results while one thing goes wrong around them, under both vocabularies of decisions: is acceptance fully backed, does one decision stand, does the history replay legally? | holds |
| `gate_approval` | with the decision names the control service admits, does an undisturbed approval settle the attempt? | violated |
| `records` | operations, migrations, the hook and rebuilds while files arrive, are damaged and calls stop: are records immutable and legal, does the checkpoint never hide stale rows, is success complete, does the hook converge? | holds |
| `projection_race` | does an unchanged digest mean unchanged rows when the hook and an operation project at once? | violated |
| `jobs_restart` | two jobs, two slots, an operator, a failed statement and two stops: one worker per job, no orphaned row but the one the failed statement left, completion final, a pause of an idle job effective, every job settled? | holds |
| `jobs_pause` | does every accepted pause hold until a resume? | violated |
| `apply_recovery` | failures and crashes anywhere in an apply, at targets that follow, contend or drifted: is nothing lost, is no change rolled back, do disk and index agree, do retries settle? | holds |
| `apply_missed` | does an apply whose parent the target lacks commit in the end? | violated |
| `scan_guard` | are only things seen on disk recorded, deletions bounded, triggers remembered, revisions one chain, and do changes reach the index? | holds |
| `devices` | do trust, permissions, sessions and status follow the audit log, does no work run for a revoked peer, is a destination never a mixture, is the key kept; does an executing node run what was approved, does state follow its root, is the served credential the stored one, does a ticket open one session? | holds |

The findings in `PROJECT.json` quote the sentence each violated run contradicts.

Properties that answer one question are checked as one. `ControlInv`, `QueueInv`,
`ApplyInv`, `ScanInv`, `GateInv`, `ExecutionInv` and `RecordsInv` join the type
invariant of their module to the state invariants about agreement; the last section of
`Devices` joins its properties by subject (trust, status, work, transfer, secrets,
execution, state, browser). Each conjunct is a definition with a comment of its own.

### What the models show besides

- Reconciliation expires an attempt that is collecting or awaiting gates, which the
  state table has no row for; `StepsFollowTable` therefore names expiry separately.
- A transition repeated exactly is refused when the assignment moved on in between:
  the table is consulted on the state read before the store looks for the operation.
- An apply looks at its destination before it renames over it, so a file a user
  creates in between is replaced; the local user of the model edits the path only
  while no apply holds it, and `NothingLost` is stated for that.
- A scan goroutine that has not returned when the schedule loop is cancelled may
  still be running when the store closes; its commit then fails and the next start
  scans again.
- A control writes back the row it read earlier, and after such a write a job may be
  claimed a second time: the properties of `jobs_restart` about held rows and final
  completion are stated for histories without an operator control.
- A cancel whose client goes away stops half way. `Supervised` and `LeasesAccounted`
  are stated for histories in which no cancel lost its context.
- A session that is open when its device is revoked stays open; the work asked over
  it is refused by the permission table.
- When a worker's last write fails, or the read after its claim, the row stays in
  running and nothing in that process looks at it again; the next start queues it.
  `QueueInv` and `JobsSettle` name these rows.
- A machine gate's verdict is refused because its audit key is the one of its pending
  row, so a result that needs a machine gate always fails. Once an evaluation has
  begun the history, a retried attempt's first record conflicts with it and the
  attempt cannot be evaluated. A decision that fails after the preview gate was
  written cannot be repeated.

### What the properties do not say

- `LeaseHorizon` bounds a lease from above. A heartbeat that was issued earlier and
  commits later may shorten the lease, and no property excludes it.
- In `GateInv` an acceptance needs every machine gate satisfied. No behaviour gets
  there, for the reason just given, so that conjunct only excludes acceptance; the
  human and review gates are met both ways.
- In the `execution` run a retry's key is repeated only by a second request at the
  same time, because two attempts leave no room for a later one; `RetrySafety`, which
  is proved for any number, covers repetitions at any distance.
- In `records` the ingestions of one setup go through one projector, and
  `UnchangedIsSafe` holds; `projection_race` has two of the daemon's side by side.
- `TransferWhole` supposes that an edit of the source changes its size or its
  modification time, which is what the sender compares, and that nobody else writes
  the destination between the receiver's look at it and its rename
  (`transfer/receive_writer.go:158-166`).
- `StateFollowsRoot` does not say that an interrupted relocation can be repeated; it
  cannot, because the copy it left makes the new root a populated one.

### Bounds

- `control`: two assignments of one work package, so that every unique index can
  reject an insert; two attempts and two tokens, so that a retry and a stale fence
  occur; two callers, so that a read and a commit can enclose another commit.
  `MaxTime` lets a lease run out. `MaxOps` bounds the committed operations, and
  `RaceOps` those committed while two calls are in flight: a race concerns one
  assignment's first operations, the whole life is followed by one caller.
  Attempts, tokens, callers and assignments are symmetric; the run checks no
  liveness.
- `execution`: two assignments with two attempts each, in seven setups: calls that
  fail and a lease that lapses; cancel and retry with a restart; fail, retry and
  resume with a lost client; one retry sent twice; a dependency earlier in the queue;
  two at once while a cancel loses its client and the drain times out; two
  assignments of one work package. A setup bounds failures, lapses, commands and
  restarts, because their products are out of reach.
- `gate_decisions`: two calls, so that two evaluations, an evaluation and a decision,
  or an approval and a rejection overlap; two attempts, so that a call outlives its
  attempt; one disturbance of any kind at any point; seven combinations of what a
  contract requires and what the service is wired with, and two of them again with
  the decision names the control service admits. `gate_approval` is the plainest of
  those with one caller and no disturbance.
- `records`: thirteen setups, one for each family of operations and for arrivals and
  rebuilds, with the records that family needs, two calls where they can race, and
  one or two failures, stops, arrivals or damages. `projection_race` is the hook
  beside one transition.
- `jobs_restart`: two slots let both jobs run at once and one job be claimed twice if
  the code allowed it; two stops allow a crash during the recovery from another; one
  failed statement is enough to strand a row. The backoff reaches its cap.
- `apply_recovery`: *Following* holds the parent of each change and goes through
  add, replace, file to directory, deletion and re-creation; *Contended* has two
  appliers on one path; *Drifted* has a version of its own. `apply_missed` starts at
  a target that lacks a revision. A site says how many calls, faults and local edits
  it allows, so a retry can fail too.
- `scan_guard`: two paths make a partial walk and a percentage guard meaningful; a
  channel of one is full when a second edit comes before the first is taken, so that a
  request is dropped; `MaxUpsets = 2` allows any two edits, outages, lost watchers,
  shutdowns or crashes.
- `devices`: times are small numbers in the order of the code's constants (ticket <
  session, staleness < snapshot lifetime, skew < invitation lifetime). Limits are two,
  so that the third is refused; a file has up to two chunks and a shorter last one; two
  daemons and a client create the credential. A part that shares no state with the
  others has setups of its own.

Deadlock is checked in `apply_recovery`, `apply_missed`, `scan_guard` and `control`. In
the others a bounded setup comes to a real end: its work is done and nobody calls.

### Fairness

- `execution`: the polling loop ticks and whoever holds the mutex goes on; every
  child has a deadline. Operators, restarts and lost requests are never required.
- `gate_approval`: a call in flight runs on, as the goroutine serving it does; nobody
  is obliged to make one. `gate_decisions`, `control` and `devices` check no liveness;
  `Devices` assumes no fairness.
- `records`: scans of a share go on while the daemon runs, so the hook is called
  again and a call of it goes on to its end. Nothing else is fair.
- `jobs_restart`: the poll loop, started workers and the daemon's restart are weakly
  fair: goroutines that can run do run, and the service manager restarts the daemon.
- `apply_recovery`: a running call goes on, mutexes are starvation free, and an
  unfinished change is retried, by the queue up to its limit and then by an operator.
  Targets that keep conflict copies are left out of `ApplySettles`.
- `scan_guard`: watcher, schedule and scan goroutines run, the timer fires, a lost
  root comes back and a stopped daemon is started again. A deletion the guard holds
  back is left out of `ChangesReachIndex`: it waits for an operator by design.

## Proofs

Eight modules hold proofs. `ControlServiceProofs`, `JobQueueProofs`,
`OneWayApplyProofs`, `ShareScanProofs` and `IntegrationGateProofs` extend the module
they are about. The proofs about `Execution` are in three: `ExecutionLemmas` (the
inductive invariant, and what each call does to rows, sessions, leases and queue),
`ExecutionSteps` (one lemma per action around the dispatch) and `ExecutionProofs` (the
dispatch, the whole step, the theorems). Each theorem holds for every value of the
constants that meets the named assumptions, in particular for any number of callers,
jobs, paths, revisions or assignments and any bound on failures. Each safety theorem is
proved from an inductive invariant: it holds initially, every action keeps it, one
lemma or step per action, and it implies the property.

| Theorem | States |
|---|---|
| `ControlSafety`, `ChainSafety`, `HorizonSafety` | `ControlInv`, the chain of attempts and `LeaseHorizon` are invariants of the control plane |
| `TableSafety`, `ClosedLeaseSafety`, `OnceSafety` | `StepsFollowTable`, `ClosedLeasesStayClosed`, `AppliedOnce` hold of every step |
| `LifecycleRefinement` | the control plane implements `AssignmentLifecycle` |
| `QueueSafety`, `CompletedSafety`, `PauseSafety` | `QueueInv`, `CompletedIsFinal`, `IdlePauseHolds` |
| `ApplySafety`, `RollbackSafety`, `LossSafety` | `ApplyInv`, `NoRollback`, `NothingLost` |
| `ScanSafety`, `CommitSafety` | `ScanInv`, `CommitsJustified` |
| `GateSafety`, `HistorySafety` | `GateInv`, `HistoryReplays` |
| `ExecutionSafety`, `RetrySafety`, `StartSafety`, `BarrierSafety` | `ExecutionInv`, `RetryOnce`, `StartedOnce`, `DependencyBarrier` |

**Control plane** (`TimeAssumption`: positive lease duration and extension, a natural
clock bound; `GensAssumption`; `NoneAssumption`). Lease agreement is not inductive
alone: a late transition could close the lease of an attempt whose state moved on.
`ControlInv` adds that a lease row belongs to a claimed attempt, that an unclaimed
attempt has generation 0, that rows that do not exist have empty columns, that a
transition in flight was admitted by the table from a fenced state, and that requests
are timed in the past. For `TableSafety` the check against the table was made on an
older state; the proof uses that the transaction compares that state again. For
`ChainSafety` no older attempt can point at a row still to be inserted, because absent
rows belong to no assignment. In the refinement each commit is one abstract step or
none.

**Job queue** (`BackoffAssumption`: a positive base no greater than the cap;
`BoundsAssumption`). `HolderInv` says that until the first control each job has one
holder, that what is held is marked running for as long as the process lives, that
what is marked running in a daemon that is up is held or stranded and not both
(`HoldersMarked`), and that a stopped process holds nothing. The middle conjunct must
speak of a draining daemon too, whose workers leave their rows as they are.

**One-way apply** (`RevisionAssumption`, `EditsAssumption`, `SiteAssumption`: parents are
revisions, what a site has recorded is closed under parents). `PathInv` says that the
path lock excludes every other call and what its holder knows between its steps: from
the inspection to the commit an intent is on disk, the history path is empty before
the destination is moved to it, nothing is left where a file is installed, and what is
committed was verified.

**Share scanning** (`ScanAssumption`: some path, a percentage, a channel with room).
`IScanInv` says that the loop is running exactly while a scan is on or its outcome waits
and only then has a pending trigger, that a walking scan is the only writer (its start
number and previous index are still current), and that the index names the last
revision of each path and numbers in use, with those a commit has used and the counter
has still to pass, cover every revision. That last part is what a crash between commit
and counter needs.

**Integration gate** (`GateAssumption`, `StampsAssumption`: attempts are numbered by
times, the absent record is none of the records; nothing is assumed of the decision
names). `IGateInv` says in which order keys were published into the history, that a
preview row exists only after an evaluation and has the verdict of the decision
recorded for its digest, and for each place of each call what is on record by then.
That the fold over the history never meets an illegal event follows from the order of
the offsets.

**Execution** (`AttemptsAssumption`; `SetupsAssumption`: finitely many assignments and
work packages, an acyclic graph). `IExecInv` joins, by the part of the state they are
about: an attempt under a lease has its claim recorded; memory and state file agree on
whether there is a session, and no child was started before the file said so; whoever
holds the mutex works through supervised attempts or a queue, and has told a child to
stop before it gives it up; supervised attempts and queued requests are of different
assignments; an attempt claimed before the last start is not admitted while its row is
leased, and a session prepared for it afresh has no binding; acceptance is final in the
events handed over and in the queue. With them `Supervised`, `LeasesAccounted` and
`RunningSupervised` are inductive.

Only model-checked: liveness (`JobsSettle`, `ApplySettles`, `ChangesReachIndex`,
`ActiveSettles`, `Converges`), since fairness is out of the prover's reach; and the
properties of `records` and `devices`. What a record is rejected for, and what the
projector accepts, are computed by folds over sequences of records, and a statement
about them for every sequence needs an induction the prover cannot do. Most parts of
`devices` share no state with the rest, so their instances are small, and their setups
cover the orders of events that matter. The violated runs have no theorem.

## Not modelled

- Contracts, context documents and the registry: validation and digests of immutable
  documents, with no interleaving. The models take a document that is valid or not.
- Codecs, schema validation, redaction, rendering, request decoding and command-line
  parsing: conversions no property distinguishes. What a decoder decides is one
  predicate where it matters (a record decodes or does not).
- Read-only queries, diagnostics and listings.
- The measures of insights and telemetry: arithmetic over single events. When they are
  computed, from what and when they are stored is in `ProjectRecords`.
- Advanced features compiled as disabled, and the fake runtime, which is test code.
- Folder transfer and the resume bitmap (`transfer/folder.go`, `resume.go`,
  `state.go`): the transfer protocol does not call them.
- `Release` of a worktree: it has no caller outside tests.
- TLS, signatures, the operating system's vault, Git and SQLite themselves: modelled
  by what the code relies on (a handshake proves a key, a transaction is one step).
- Schema upgrades of the database: they run before anything else does.
- Two shares of one device whose sequences are kept in separate memory
  (`daemon/daemon.go:569`): `ShareScan` has one share.
