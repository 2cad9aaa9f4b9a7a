------------------------------ MODULE Execution ------------------------------
(***************************************************************************)
(* The scheduler with everything that moves around it: the goroutines of   *)
(* the runtime (internal/codexruntime/adapter.go), the operator's commands *)
(* (internal/desktop/orchestration_admin.go), the daemon's start, shutdown *)
(* and crash (internal/daemon/daemon.go, and the composition in            *)
(* internal/desktop/orchestration_composition.go), the passing of leases,  *)
(* and the canonical state of the work packages.                           *)
(*                                                                         *)
(* A setup bounds what happens in one instance: failed calls, lapsed       *)
(* leases, lost requests, moves of work packages, commands and restarts.   *)
(***************************************************************************)
EXTENDS Scheduler

CONSTANT Setups     \* the instances to explore

\* A setup plans assignments for work packages of one acyclic graph (ValidateGraph), and
\* its commands are those of the operator API about them, under keys of their own.
ASSUME SetupsAssumption ==
    \A s \in Setups :
        /\ DOMAIN s.wp \subseteq Assignments /\ IsFiniteSet(DOMAIN s.wp)
        /\ Range(s.wp) \subseteq Nat /\ Range(s.wp) \subseteq DOMAIN s.graph
        /\ s.priority \in [Range(s.wp) -> Nat]
        /\ DOMAIN s.canon = DOMAIN s.graph /\ IsFiniteSet(DOMAIN s.graph)
        /\ \E depth \in [DOMAIN s.graph -> 0 .. Cardinality(DOMAIN s.graph)] :
             \A w \in DOMAIN s.graph : \A d \in Range(s.graph[w]) :
                d \in DOMAIN s.graph /\ depth[d] < depth[w]
        /\ \A c \in s.does :
             /\ c.do \in {"pause", "start", "resume", "cancel", "fail", "retry"}
             /\ c.a \in Assignments /\ c.key \notin {"claim", "prepare"}

VARIABLES
    life,       \* the daemon: up, closing or down
    call,       \* the command of each operator request in flight
    ledger,     \* commands with a saved result
    spent,      \* how much of the setup's bounds is used up
    earlier,    \* attempts claimed before the daemon last started
    cut         \* a cancel or the shutdown lost its context

vars == <<ctl, nodeVars, tree, runtimeVars, setup, memory, canon, faults,
          life, call, ledger, spent, earlier, cut>>

outside == <<setup, canon, life, call, ledger, spent, earlier, cut>>

NoCommand == [do |-> "none", a |-> 0, key |-> "none"]
Idle == [pc |-> "idle", c |-> NoCommand, n |-> 0]

Init ==
    /\ setup \in Setups
    /\ RowsInit /\ NodeInit /\ TreesInit(Attempts) /\ RuntimeInit(Attempts)
    /\ sched = [started |-> TRUE, draining |-> FALSE, paused |-> TRUE, max |-> setup.limit]
    /\ active = {}
    /\ known = [a \in Assignments |-> "unknown"]
    /\ work = [w \in Range(setup.wp) |-> 0]
    /\ mu = Free
    /\ offer = NoOffer
    /\ canon = setup.canon
    /\ faults = 0
    /\ life = "up"
    /\ call = [i \in setup.callers |-> Idle]
    /\ ledger = {}
    /\ spent = [lapses |-> 0, lost |-> 0, moves |-> 0, commands |-> 0, lives |-> 1]
    /\ earlier = {}
    /\ cut = FALSE

Spend(what) ==
    /\ spent[what] < setup[what]
    /\ spent' = [spent EXCEPT ![what] = @ + 1]

-----------------------------------------------------------------------------
(* The scheduler's own steps                                               *)

Poll ==
    /\ life # "down"
    /\ \/ Pending \/ CycleBegin \/ FillQueue \/ CycleFails \/ CycleEnd
    /\ UNCHANGED <<ctl, nodeVars, tree, runtimeVars, faults, outside>>

Reap ==
    /\ \/ Renew \/ Lost \/ LostFailed \/ Observe
    /\ UNCHANGED outside

Dispatch ==
    /\ \/ Plan \/ Claim \/ Allocate \/ RecordTree \/ PrepareSession \/ BindResources
       \/ StartSession \/ Running \/ Unclaim \/ Unstart
    /\ UNCHANGED outside

StopActive ==
    /\ \/ Stop \/ Settle
    /\ UNCHANGED outside

-----------------------------------------------------------------------------
(* The runtime's goroutines                                                *)

\* resolveRuntimeWorkspace: the record is reconciled, and answers for an attempt that
\* is still current.  A read or a write that fails, or a canceled context, fails it.
Execute(t) ==
    /\ proc[t] = "starting"
    /\ \E ok \in BOOLEAN :
        /\ ok \/ faults < setup.faults
        /\ faults' = IF ok THEN faults ELSE faults + 1
        /\ tree' = IF ok /\ ~sess[t].cancel THEN ReconciledTree(t) ELSE tree
        /\ IF ok /\ ~sess[t].cancel /\ Current(t) /\ Resolves(t)
           THEN Work(t) ELSE Finish(t, "failed", TRUE)
    /\ UNCHANGED <<ctl, nodeVars, memory, outside>>

\* The child exits, is killed or runs out of time.
FinishRun(t) ==
    /\ proc[t] = "working"
    /\ \E outcome \in Outcomes, saved \in BOOLEAN :
        /\ Finish(t, outcome, saved)
        /\ saved \/ faults < setup.faults
        /\ faults' = IF saved THEN faults ELSE faults + 1
    /\ UNCHANGED <<ctl, nodeVars, tree, memory, outside>>

Children == \E t \in Attempts : Execute(t) \/ FinishRun(t)

-----------------------------------------------------------------------------
(* The operator's commands                                                 *)

CallVars == <<ctl, nodeVars, tree, runtimeVars, memory, faults>>
Answer(i) == call' = [call EXCEPT ![i] = Idle]
Continue(i, pc) == call' = [call EXCEPT ![i].pc = pc]
Target(c) == IF c.do = "fail" THEN "failed" ELSE "canceled"

\* Where a command goes once its assignment is read, if it goes anywhere.
FirstStep(c) ==
    LET row == ctl[c.a] IN
    CASE c.do \in {"pause", "start", "cancel"} -> c.do
      [] c.do = "resume" -> IF row.disp = "needs_operator" THEN "idle" ELSE "resume"
      [] c.do = "fail"   -> IF row.lease = "none" \/ row.state \in TerminalStates THEN "idle" ELSE "write"
      [] c.do = "retry"  -> IF row.state \in RetryableStates THEN "retry" ELSE "idle"

\* A key with a saved result is answered from the ledger, and refused to any
\* other command.
Command(i) ==
    /\ life = "up" /\ call[i] = Idle
    /\ \E c \in setup.does :
        /\ \A d \in ledger : d.key # c.key
        /\ c.do # "start" => ctl[c.a].state # "absent"
        /\ c.do = "retry" => ctl[c.a].n < MaxAttempts
        /\ FirstStep(c) # "idle"
        /\ call' = [call EXCEPT ![i] = [pc |-> FirstStep(c), c |-> c, n |-> ctl[c.a].n]]
    /\ Spend("commands")
    /\ UNCHANGED <<CallVars, setup, canon, life, ledger, earlier, cut>>

\* Pause and Resume of the scheduler, which the runtime has no part in.
SetPaused(i) ==
    /\ call[i].pc \in {"pause", "resume"} /\ mu = Free
    /\ sched' = [sched EXCEPT !.paused = call[i].pc = "pause"]
    /\ Continue(i, "save")
    /\ UNCHANGED <<ctl, nodeVars, tree, runtimeVars, active, known, work, mu, offer, faults,
                   setup, canon, life, ledger, spent, earlier, cut>>

\* setScheduler: the policy's limit can change only while dispatch is paused.
SetMaxConcurrent(i) ==
    /\ call[i].pc = "start" /\ mu = Free
    /\ IF sched.paused THEN sched' = [sched EXCEPT !.max = setup.max] /\ Continue(i, "resume")
       ELSE Answer(i) /\ UNCHANGED sched
    /\ UNCHANGED <<ctl, nodeVars, tree, runtimeVars, active, known, work, mu, offer, faults,
                   setup, canon, life, ledger, spent, earlier, cut>>

\* scheduler.Cancel
CancelCall(i) ==
    /\ call[i].pc = "cancel" /\ mu = Free
    /\ IF CancelNeedsNothing(call[i].c.a) THEN Continue(i, "reload") /\ UNCHANGED mu
       ELSE CancelBegin(call[i].c.a) /\ Continue(i, "canceling")
    /\ UNCHANGED <<ctl, nodeVars, tree, runtimeVars, sched, active, known, work, offer, faults,
                   setup, canon, life, ledger, spent, earlier, cut>>

\* Its errors, and a context that is over by now, end the request.
CancelReturn(i) ==
    /\ call[i].pc = "canceling" /\ mu.op = "cancel" /\ mu.todo = {}
    /\ mu' = Free
    /\ IF mu.err \/ ~mu.ctx THEN Answer(i) ELSE Continue(i, "reload")
    /\ UNCHANGED <<ctl, nodeVars, tree, runtimeVars, sched, active, known, work, offer, faults,
                   setup, canon, life, ledger, spent, earlier, cut>>

\* The row after a cancel: one that is not over is canceled by the operator.
Reload(i) ==
    /\ call[i].pc = "reload"
    /\ LET row == ctl[call[i].c.a] IN
        IF row.state \in TerminalStates THEN Continue(i, "save")
        ELSE IF row.lease = "none" THEN Answer(i)
        ELSE call' = [call EXCEPT ![i] = [@ EXCEPT !.pc = "write", !.n = row.n]]
    /\ UNCHANGED <<CallVars, setup, canon, life, ledger, spent, earlier, cut>>

\* A write of an operator request: it happens, or fails and ends the request.
Write(i, ok, rows) ==
    \/ ok /\ ctl' = rows /\ Continue(i, "save") /\ UNCHANGED faults
    \/ ~ok /\ Answer(i) /\ UNCHANGED <<ctl, faults>>
    \/ ok /\ faults < setup.faults /\ faults' = faults + 1 /\ Answer(i) /\ UNCHANGED ctl

\* recoveryTransition, with the fence of the attempt that was read.
RecoveryTransition(i) ==
    /\ call[i].pc = "write"
    /\ LET t == <<call[i].c.a, call[i].n>>
           target == Target(call[i].c)
       IN  Write(i, TransitionOk(t, target), TransitionRows(t, target))
    /\ UNCHANGED <<nodeVars, tree, runtimeVars, memory,
                   setup, canon, life, ledger, spent, earlier, cut>>

Retry(i) ==
    /\ call[i].pc = "retry"
    /\ LET c == call[i].c IN Write(i, RetryOk(c.a, call[i].n, c.key), RetryRows(c.a, c.key))
    /\ UNCHANGED <<nodeVars, tree, runtimeVars, memory,
                   setup, canon, life, ledger, spent, earlier, cut>>

\* rememberOperatorResult, after the effect.
Save(i) ==
    /\ call[i].pc = "save"
    /\ \E ok \in BOOLEAN :
        /\ ok \/ faults < setup.faults
        /\ faults' = IF ok THEN faults ELSE faults + 1
        /\ ledger' = IF ok THEN ledger \cup {call[i].c} ELSE ledger
    /\ Answer(i)
    /\ UNCHANGED <<ctl, nodeVars, tree, runtimeVars, memory, setup, canon, life, spent, earlier, cut>>

\* The client goes away: a cancel in the scheduler runs on without a context,
\* any other request stops at its next call.
LoseRequest(i) ==
    /\ call[i] # Idle
    /\ Spend("lost")
    /\ IF call[i].pc = "canceling"
       THEN /\ mu.ctx /\ mu' = [mu EXCEPT !.ctx = FALSE] /\ cut' = TRUE /\ UNCHANGED call
       ELSE Answer(i) /\ UNCHANGED <<mu, cut>>
    /\ UNCHANGED <<ctl, nodeVars, tree, runtimeVars, sched, active, known, work, offer, faults,
                   setup, canon, life, ledger, earlier>>

Operate(i) ==
    \/ SetPaused(i) \/ SetMaxConcurrent(i) \/ CancelCall(i) \/ CancelReturn(i) \/ Reload(i)
    \/ RecoveryTransition(i) \/ Retry(i) \/ Save(i)

-----------------------------------------------------------------------------
(* The daemon                                                              *)

\* Close: requests are answered, then Shutdown marks the scheduler.
ShutdownMark ==
    /\ life = "up" /\ mu = Free /\ spent.lives < setup.lives
    /\ \A i \in setup.callers : call[i] = Idle
    /\ life' = "closing"
    /\ sched' = [sched EXCEPT !.draining = TRUE, !.paused = TRUE]
    /\ UNCHANGED <<ctl, nodeVars, tree, runtimeVars, active, known, work, mu, offer, faults,
                   setup, canon, call, ledger, spent, earlier, cut>>

\* The polling loop is over: every active attempt is canceled.
ShutdownCancel ==
    /\ life = "closing" /\ mu = Free /\ ~offer.seen /\ active # {}
    /\ mu' = [Free EXCEPT !.op = "shutdown", !.pc = "stop", !.todo = active]
    /\ UNCHANGED <<ctl, nodeVars, tree, runtimeVars, sched, active, known, work, offer, faults, outside>>

\* The drain runs out of time.
DrainTimeout ==
    /\ life = "closing" /\ mu.ctx
    /\ Spend("lost")
    /\ mu' = [mu EXCEPT !.ctx = FALSE]
    /\ cut' = TRUE
    /\ UNCHANGED <<ctl, nodeVars, tree, runtimeVars, sched, active, known, work, offer, faults,
                   setup, canon, life, call, ledger, earlier>>

\* What the process held in memory is gone.
Gone ==
    /\ life' = "down"
    /\ Forget
    /\ held' = {} /\ acquired' = {}
    /\ sched' = [sched EXCEPT !.started = FALSE, !.draining = FALSE, !.paused = TRUE]
    /\ active' = {}
    /\ known' = [a \in Assignments |-> "unknown"]
    /\ work' = [w \in DOMAIN work |-> 0]
    /\ mu' = Free
    /\ offer' = NoOffer
    /\ call' = [i \in setup.callers |-> Idle]
    /\ UNCHANGED <<ctl, tree, faults, setup, canon, ledger, spent, earlier, cut>>

\* Shutdown returns when nothing is active, or at once without a context
\* while it waits for the loop, and the daemon ends.
Exit ==
    /\ life = "closing"
    /\ \/ mu.op = "shutdown" /\ mu.todo = {}
       \/ mu.op = "none" /\ (~mu.ctx \/ (active = {} /\ ~offer.seen))
    /\ Gone

Crash ==
    /\ life # "down" /\ spent.lives < setup.lives
    /\ Gone

\* BuildLocalOrchestration and Start: sessions from their files, the rows
\* reconciled, and the scheduler remembers what it was told, paused.
Boot ==
    /\ life = "down" /\ Spend("lives")
    /\ life' = "up"
    /\ LoadDurableSessions
    /\ ctl' = ReconcileRows
    /\ known' = [a \in Assignments |-> IF a \in Reconciled THEN ctl'[a].state ELSE "unknown"]
    /\ work' = [w \in DOMAIN work |->
                    IF \E a \in Reconciled : setup.wp[a] = w
                    THEN CHOOSE a \in Reconciled : setup.wp[a] = w ELSE 0]
    /\ sched' = [started |-> TRUE, draining |-> FALSE, paused |-> TRUE, max |-> setup.limit]
    /\ earlier' = {t \in Attempts : Recorded("claim", t)}
    /\ cut' = FALSE
    /\ UNCHANGED <<nodeVars, tree, active, mu, offer, faults, setup, canon, call, ledger>>

-----------------------------------------------------------------------------
(* The world                                                               *)

\* A control lease, or a compute lease, passes its expiry.
Lapse ==
    /\ Spend("lapses")
    /\ \/ \E a \in Assignments : ctl[a].lease = "live" /\ ctl' = LapseRows(a) /\ UNCHANGED nodeVars
       \/ \E t \in Attempts : ExpireLease(t) /\ UNCHANGED ctl
    /\ UNCHANGED <<tree, runtimeVars, memory, faults, setup, canon, life, call, ledger, earlier, cut>>

\* Someone clears a worktree away.
ClearTree ==
    /\ Spend("lapses")
    /\ \E t \in Attempts : tree[t].dir /\ tree' = RemovedTree(t)
    /\ UNCHANGED <<ctl, nodeVars, runtimeVars, memory, faults, setup, canon, life, call, ledger, earlier, cut>>

\* A canonical event moves a work package; a review may accept it.
Move ==
    /\ Spend("moves")
    /\ \E w \in DOMAIN canon :
        \E to \in WorkPackageTargets(canon[w]) \cup (IF canon[w] = "review" THEN {"accepted"} ELSE {}) :
            canon' = [canon EXCEPT ![w] = to]
    /\ UNCHANGED <<CallVars, setup, life, call, ledger, earlier, cut>>

Next ==
    \/ Poll \/ Reap \/ Dispatch \/ StopActive
    \/ Children
    \/ \E i \in setup.callers : Command(i) \/ Operate(i) \/ LoseRequest(i)
    \/ ShutdownMark \/ ShutdownCancel \/ DrainTimeout \/ Exit \/ Crash \/ Boot
    \/ Lapse \/ ClearTree \/ Move

\* The polling loop ticks and whoever holds the mutex goes on, one at a time;
\* every child has a deadline.
Progress ==
    \/ Poll \/ Reap \/ Dispatch \/ StopActive
    \/ \E i \in setup.callers : CancelReturn(i)
    \/ ShutdownCancel \/ Exit

Spec == Init /\ [][Next]_vars /\ WF_vars(Progress) /\ WF_vars(Children)

-----------------------------------------------------------------------------
(* What the execution of work promises                                     *)

\* TypeOK: every variable keeps its type, and an attempt the scheduler
\* supervises is one it remembers as running.
TypeOK ==
    /\ \A a \in Assignments :
        /\ ctl[a].n \in Nat
        /\ ctl[a].state \in AssignmentStates \cup {"absent"}
        /\ ctl[a].lease \in {"none", "live", "lapsed", "closed"}
        /\ known[a] \in AssignmentStates \cup {"unknown"}
    /\ held \subseteq acquired /\ acquired \subseteq Attempts
    /\ \A t \in active : known[AsgOf(t)] = "running"
    /\ life \in {"up", "closing", "down"}

\* Supervised: while no cancel has lost its context, a child that was not told
\* to stop belongs to an attempt the scheduler supervises, or is just about to.
Supervised ==
    life # "down" /\ ~cut =>
        \A t \in Processes :
            sess[t].cancel \/ t \in active \/ (Dispatching /\ At("running") /\ Request = t)

\* LeasesAccounted: while no cancel has lost its context, a compute lease is
\* held for an attempt that is supervised or in the middle of its dispatch.
LeasesAccounted ==
    ~cut => \A t \in held :
                t \in active \/ (Dispatching /\ ~At("next") /\ ~At("claim") /\ Request = t)

\* RunningSupervised: while no call failed or lost its context, a row that
\* says running, under a lease that has not passed, belongs to an attempt the
\* scheduler supervises, unless it was running before the daemon started.
RunningSupervised ==
    life # "down" /\ ~cut /\ faults = 0 =>
        \A t \in Attempts \ earlier :
            Fenced(t) /\ ctl[AsgOf(t)].state = "running" => t \in active

\* ExecutionInv: the scheduler's memory accounts for what is outside it.  Child
\* processes, compute leases and running rows all belong to an attempt it
\* supervises, except as the three properties above allow.
ExecutionInv == TypeOK /\ Supervised /\ LeasesAccounted /\ RunningSupervised

\* RetryOnce: an idempotency key makes one attempt at most, however many
\* requests carry it.
RetryOnce ==
    \A a \in Assignments : \A p, q \in ctl[a].ops :
        p[1] = q[1] /\ p[1] \notin {"claim", "prepare"} => p = q

\* StartedOnce: a child is started once at most for an attempt, through
\* redispatch, replayed calls, cancels and retries, and never for an attempt
\* that was claimed before the daemon last started.
StartedOnce ==
    [][\A t \in Attempts : starts'[t] # starts[t] => starts'[t] = 1 /\ t \notin earlier]_vars

\* DependencyBarrier: when a child is started, every dependency of its work
\* package is accepted, although readiness was reduced some time before.
DependencyBarrier ==
    [][\A t \in Attempts : starts'[t] # starts[t] =>
            \A d \in Range(setup.graph[Wp(t)]) : canon[d] = "accepted"]_vars

\* ActiveSettles: supervision of an attempt ends, whatever became of its
\* child, its leases and its row.  A setup names the attempt watched.
ActiveSettles == setup.watch \in active ~> setup.watch \notin active
=============================================================================
