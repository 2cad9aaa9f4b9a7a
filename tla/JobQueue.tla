------------------------------ MODULE JobQueue ------------------------------
(***************************************************************************)
(* The persistent one-way job queue (internal/sync/jobs.go), the rows it   *)
(* keeps in one_way_jobs (internal/storage/sqlite/store.go), the operator  *)
(* controls of those rows, and the daemon that starts, stops and crashes   *)
(* around them.                                                            *)
(*                                                                         *)
(* One goroutine polls: it lists the runnable jobs, takes a slot of the    *)
(* bounded pool, claims a job with a guarded UPDATE, reads the row back in *)
(* a second statement and hands that copy to a worker.  The worker runs    *)
(* the job and writes the row from its copy, unconditionally.  A control   *)
(* reads the row, decides, and writes it from its copy, unconditionally.   *)
(*                                                                         *)
(* Time is what is left until next_attempt_at: 0 when the column is NULL   *)
(* or past.  The order of the list is left open.  Any statement of the     *)
(* queue may fail while the daemon is up; after a claim that leaves a row  *)
(* in running that no worker has, until the next restart.                  *)
(***************************************************************************)
EXTENDS Naturals, FiniteSets

CONSTANTS
    Jobs,           \* job IDs
    Slots,          \* the places in the active channel: MaxConcurrent of them
    Controllers,    \* operator calls that may be in flight together
    RetryBase, MaxBackoff,
    MaxStops,       \* bound on shutdowns and crashes
    MaxFaults,      \* bound on statements that fail while the daemon is up
    MaxControls     \* bound on operator controls

ASSUME BackoffAssumption ==
    /\ RetryBase \in Nat \ {0}
    /\ MaxBackoff \in Nat
    /\ RetryBase <= MaxBackoff

ASSUME BoundsAssumption == MaxStops \in Nat /\ MaxFaults \in Nat /\ MaxControls \in Nat

VARIABLES
    job,        \* one_way_jobs: state, retry_count and the time left to next_attempt_at
    poll,       \* the polling goroutine: jobs it listed, and the one it has claimed
    worker,     \* the copy of the row each slot works on
    control,    \* the control each operator call is about to write
    daemon,     \* "down", "up", or "draining" after its context was canceled
    stranded,   \* jobs whose row a failed statement of this process left in running
    stops,      \* shutdowns and crashes so far
    faults,     \* statements that failed so far
    controls    \* controls so far

vars == <<job, poll, worker, control, daemon, stranded, stops, faults, controls>>

States == {"queued", "running", "paused", "retry_wait", "failed", "completed"}

Absent == [state |-> "absent", retry |-> 0, wait |-> 0]
Free == [on |-> FALSE]
NoPoll == [todo |-> {}, claimed |-> {}]

Init ==
    /\ job = [j \in Jobs |-> Absent]
    /\ poll = NoPoll
    /\ worker = [s \in Slots |-> Free]
    /\ control = [c \in Controllers |-> Free]
    /\ daemon = "down"
    /\ stranded = {}
    /\ stops = 0
    /\ faults = 0
    /\ controls = 0

-----------------------------------------------------------------------------
\* The delay doubles with every failure and is capped.
Backoff(retry) ==
    LET delay[i \in 1 .. retry] ==
        IF i = 1 THEN RetryBase
        ELSE IF delay[i - 1] >= MaxBackoff \div 2 THEN MaxBackoff ELSE 2 * delay[i - 1]
    IN  delay[retry]

\* Mutant: the claim looks at the time only.
RunnableIfDue(row) == row.state \notin {"absent", "running"} /\ row.wait = 0

\* The WHERE clause the list and the claim share.
Runnable(row) == row.state \in {"queued", "retry_wait"} /\ row.wait = 0

\* A peer session of the running daemon admits authenticated work with a queued job.
Create(j) ==
    /\ daemon = "up"
    /\ job[j].state = "absent"
    /\ job' = [job EXCEPT ![j].state = "queued"]
    /\ UNCHANGED <<poll, worker, control, daemon, stranded, stops, faults, controls>>

\* Mutant: restart recovery returns finished jobs to the queue too.
RecoverAllJobs ==
    [j \in Jobs |-> IF job[j].state \in {"running", "completed"}
                    THEN [job[j] EXCEPT !.state = "queued", !.wait = 0] ELSE job[j]]

\* Mutant: restart recovery is skipped.
RecoverNothing == job

RecoverRunningOneWayJobs ==
    [j \in Jobs |-> IF job[j].state = "running"
                    THEN [job[j] EXCEPT !.state = "queued", !.wait = 0] ELSE job[j]]

\* Run recovers what a previous process left running and starts the poll loop.
Start ==
    /\ daemon = "down"
    /\ daemon' = "up"
    /\ job' = RecoverRunningOneWayJobs
    /\ stranded' = {}
    /\ UNCHANGED <<poll, worker, control, stops, faults, controls>>

FreeSlots == {s \in Slots : worker[s] = Free}

ListRunnableOneWayJobs ==
    /\ daemon = "up"
    /\ poll = NoPoll
    /\ \E j \in Jobs : Runnable(job[j])
    /\ poll' = [poll EXCEPT !.todo = {j \in Jobs : Runnable(job[j])}]
    /\ UNCHANGED <<job, worker, control, daemon, stranded, stops, faults, controls>>

\* With the pool exhausted the rest of the list is dropped until the next poll.
PoolExhausted ==
    /\ poll.todo # {} /\ poll.claimed = {}
    /\ FreeSlots = {}
    /\ poll' = NoPoll
    /\ UNCHANGED <<job, worker, control, daemon, stranded, stops, faults, controls>>

\* A statement of the running daemon fails; the row of each of these jobs stays
\* in running with nobody to write it again.
Fault(jobs) ==
    /\ daemon = "up"
    /\ faults < MaxFaults
    /\ faults' = faults + 1
    /\ stranded' = stranded \cup jobs

\* The claim is one guarded UPDATE; a row that has changed since is passed over.
\* Once the context is canceled the statement fails.
ClaimOneWayJob(j) ==
    /\ j \in poll.todo /\ poll.claimed = {}
    /\ FreeSlots # {}
    /\ IF daemon = "up" /\ Runnable(job[j])
       THEN /\ job' = [job EXCEPT ![j].state = "running"]
            /\ poll' = [todo |-> poll.todo \ {j}, claimed |-> {j}]
       ELSE /\ poll' = [poll EXCEPT !.todo = @ \ {j}]
            /\ UNCHANGED job
    /\ UNCHANGED <<worker, control, daemon, stranded, stops, faults, controls>>

\* The UPDATE of the claim fails: the job is passed over.
ClaimFails(j) ==
    /\ j \in poll.todo /\ poll.claimed = {}
    /\ FreeSlots # {}
    /\ Fault({})
    /\ poll' = [poll EXCEPT !.todo = @ \ {j}]
    /\ UNCHANGED <<job, worker, control, daemon, stops, controls>>

\* The row is read back in a statement of its own.
StartWorker(j, s) ==
    /\ daemon = "up"
    /\ j \in poll.claimed
    /\ s \in FreeSlots
    /\ poll' = [poll EXCEPT !.claimed = {}]
    /\ worker' = [worker EXCEPT ![s] = [on |-> TRUE, job |-> j, retry |-> job[j].retry]]
    /\ UNCHANGED <<job, control, daemon, stranded, stops, faults, controls>>

\* When that fails, as it does once the context is canceled, the slot is given
\* back and the row stays as the claim left it.
ReadBackFails(j) ==
    /\ j \in poll.claimed
    /\ Fault({j}) \/ (daemon = "draining" /\ UNCHANGED <<stranded, faults>>)
    /\ poll' = [poll EXCEPT !.claimed = {}]
    /\ UNCHANGED <<job, worker, control, daemon, stops, controls>>

\* Mutant: the retry count starts over.
FailedRowForever(retry) ==
    [state |-> "retry_wait", retry |-> 1, wait |-> Backoff(1)]

\* What a worker writes after a failed authorization or execution.
FailedRow(retry) ==
    IF retry + 1 < 3
    THEN [state |-> "retry_wait", retry |-> retry + 1, wait |-> Backoff(retry + 1)]
    ELSE [state |-> "failed", retry |-> retry + 1, wait |-> 0]

\* A worker whose context was canceled returns without writing its row.
FinishJob(s) ==
    /\ worker[s] # Free
    /\ worker' = [worker EXCEPT ![s] = Free]
    /\ LET j == worker[s].job
           done == [state |-> "completed", retry |-> worker[s].retry, wait |-> 0]
       IN  IF daemon = "up"
           THEN /\ job' \in {[job EXCEPT ![j] = done], [job EXCEPT ![j] = FailedRow(worker[s].retry)]}
                /\ stranded' = stranded \ {j}
           ELSE UNCHANGED <<job, stranded>>
    /\ UNCHANGED <<poll, control, daemon, stops, faults, controls>>

\* The worker's UPDATE fails: it is gone, and its row still says running.
UpdateFails(s) ==
    /\ worker[s] # Free
    /\ Fault({worker[s].job})
    /\ worker' = [worker EXCEPT ![s] = Free]
    /\ UNCHANGED <<job, poll, control, daemon, stops, controls>>

Tick ==
    /\ \E j \in Jobs : job[j].wait > 0
    /\ job' = [j \in Jobs |-> [job[j] EXCEPT !.wait = IF @ > 0 THEN @ - 1 ELSE 0]]
    /\ UNCHANGED <<poll, worker, control, daemon, stranded, stops, faults, controls>>

-----------------------------------------------------------------------------
\* The states each control accepts.  A control of a job that is already as asked
\* (paused, or queued) answers without writing.
ControlAccepts(name, state) ==
    \/ name = "pause"  /\ state \in {"queued", "retry_wait"}
    \/ name = "resume" /\ state = "paused"
    \/ name = "retry"  /\ state \in {"retry_wait", "failed"}

ControlledRow(name, row) ==
    [state |-> IF name = "pause" THEN "paused" ELSE "queued",
     retry |-> IF name = "retry" THEN 0 ELSE row.retry,
     wait |-> 0]

ReadControl(c, name, j) ==
    /\ daemon = "up"
    /\ control[c] = Free
    /\ controls < MaxControls
    /\ controls' = controls + 1
    /\ ControlAccepts(name, job[j].state)
    /\ control' = [control EXCEPT ![c] = [on |-> TRUE, name |-> name, job |-> j, row |-> ControlledRow(name, job[j])]]
    /\ UNCHANGED <<job, poll, worker, daemon, stranded, stops, faults>>

\* The write does not look at the row again.
WriteControl(c) ==
    /\ control[c] # Free
    /\ job' = [job EXCEPT ![control[c].job] = control[c].row]
    /\ stranded' = stranded \ {control[c].job}
    /\ control' = [control EXCEPT ![c] = Free]
    /\ UNCHANGED <<poll, worker, daemon, stops, faults, controls>>

\* The client went away, and its request context with it.
AbandonControl(c) ==
    /\ control[c] # Free
    /\ control' = [control EXCEPT ![c] = Free]
    /\ UNCHANGED <<job, poll, worker, daemon, stranded, stops, faults, controls>>

-----------------------------------------------------------------------------
Shutdown ==
    /\ daemon = "up"
    /\ stops < MaxStops
    /\ stops' = stops + 1
    /\ daemon' = "draining"
    /\ UNCHANGED <<job, poll, worker, control, stranded, faults, controls>>

\* The loop waits for its workers before the store is closed; a control that the
\* closing API server did not wait for finds the store closed.
Drained ==
    /\ daemon = "draining"
    /\ FreeSlots = Slots /\ poll = NoPoll
    /\ daemon' = "down"
    /\ control' = [c \in Controllers |-> Free]
    /\ UNCHANGED <<job, poll, worker, stranded, stops, faults, controls>>

Crash ==
    /\ daemon # "down"
    /\ stops < MaxStops
    /\ stops' = stops + 1
    /\ daemon' = "down"
    /\ poll' = NoPoll
    /\ worker' = [s \in Slots |-> Free]
    /\ control' = [c \in Controllers |-> Free]
    /\ UNCHANGED <<job, stranded, faults, controls>>

Poll ==
    \/ ListRunnableOneWayJobs \/ PoolExhausted
    \/ \E j \in Jobs : ClaimOneWayJob(j) \/ ClaimFails(j) \/ ReadBackFails(j) \/ \E s \in Slots : StartWorker(j, s)

Next ==
    \/ Poll \/ Tick \/ Start \/ Shutdown \/ Drained \/ Crash
    \/ \E j \in Jobs : Create(j)
    \/ \E s \in Slots : FinishJob(s) \/ UpdateFails(s)
    \/ \E c \in Controllers : WriteControl(c) \/ AbandonControl(c)
    \/ \E c \in Controllers, name \in {"pause", "resume", "retry"}, j \in Jobs : ReadControl(c, name, j)

\* The ticker polls for as long as the daemon is up, an execution ends, time
\* passes, a stopped daemon is started again, and an operator call finishes.
Fairness ==
    /\ WF_vars(Poll) /\ WF_vars(Tick) /\ WF_vars(Start) /\ WF_vars(Drained)
    /\ \A s \in Slots : WF_vars(FinishJob(s))
    /\ \A c \in Controllers : WF_vars(WriteControl(c) \/ AbandonControl(c))

Spec == Init /\ [][Next]_vars /\ Fairness
-----------------------------------------------------------------------------
Row == [state : States \cup {"absent"}, retry : Nat, wait : 0 .. MaxBackoff]

\* The type invariant; no delay is longer than MaxBackoff, whatever copy a row was
\* written from.
TypeOK ==
    /\ job \in [Jobs -> Row]
    /\ poll \in [todo : SUBSET Jobs, claimed : SUBSET Jobs]
    /\ worker \in [Slots -> {Free} \cup [on : {TRUE}, job : Jobs, retry : Nat]]
    /\ control \in [Controllers -> {Free} \cup
            [on : {TRUE}, name : {"pause", "resume", "retry"}, job : Jobs, row : Row]]
    /\ daemon \in {"down", "up", "draining"}
    /\ stranded \subseteq Jobs
    /\ stops \in 0 .. MaxStops /\ faults \in 0 .. MaxFaults /\ controls \in 0 .. MaxControls

WorkersOn(j) == {s \in Slots : worker[s] # Free /\ worker[s].job = j}

Held(j) == j \in poll.claimed \/ WorkersOn(j) # {}

\* As long as no operator has intervened (a control writes rows without looking at
\* them again), a job is executed by one worker at a time, across the gap between
\* claim and read, shutdowns, crashes and restarts.
OneWorkerPerJob ==
    controls = 0 => \A j \in Jobs : Cardinality(WorkersOn(j)) + Cardinality(poll.claimed \cap {j}) <= 1

\* As long as no operator has intervened and the daemon is up, a row says running
\* exactly when a worker (or the claim about to start one) has the job, or when a
\* statement of this very process failed between the claim and the last write:
\* nothing else strands a row, nothing runs unseen, and a restart leaves nothing
\* stranded behind.
RunningMeansHeld ==
    daemon = "up" /\ controls = 0 =>
        \A j \in Jobs : /\ job[j].state = "running" <=> Held(j) \/ j \in stranded
                       /\ ~(Held(j) /\ j \in stranded)

\* The queue's rows agree with its workers: as long as no operator has intervened,
\* no job has two workers, none runs unseen, and none is stranded in running but
\* by a statement that failed since the daemon was started.
QueueInv == TypeOK /\ OneWorkerPerJob /\ RunningMeansHeld

\* The row of j changes because an operator's control is written.
Controlled(j) == \E c \in Controllers :
    control[c] # Free /\ control[c].job = j /\ control'[c] = Free

\* As long as no operator has intervened, a finished job is not executed again: no
\* restart, late worker or poll takes a row out of completed.
CompletedIsFinal ==
    [][\A j \in Jobs : controls = 0 /\ job[j].state = "completed" => job'[j].state = "completed"]_vars

\* A pause that found the job idle holds: the queue takes a paused job that no
\* worker has out of paused only through an operator's write.
IdlePauseHolds ==
    [][\A j \in Jobs : (job[j].state = "paused" /\ ~Held(j)) =>
            job'[j].state = "paused" \/ Controlled(j)]_vars

\* docs/architecture/sync-scanner.md:43, "Paused jobs are excluded until resumed": a
\* row leaves paused only when an operator's resume is written.
PausedUntilResumed ==
    [][\A j \in Jobs : (job[j].state = "paused" /\ job'[j].state # "paused") =>
            \E c \in Controllers : control[c] # Free /\ control[c].job = j
                                   /\ control[c].name = "resume" /\ control'[c] = Free]_vars

\* Every job that was admitted ends: it completes, uses up its retries, or stays
\* paused by an operator; a crash or shutdown at any point only delays it.  The one
\* exception is a job whose row a failed statement left in running: nothing in the
\* running daemon looks at it again, and it goes on after the next restart.
JobsSettle ==
    \A j \in Jobs : job[j].state = "queued" ~>
        job[j].state \in {"completed", "failed", "paused"} \/ (job[j].state = "running" /\ j \in stranded)
=============================================================================
