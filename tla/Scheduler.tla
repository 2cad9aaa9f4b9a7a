------------------------------ MODULE Scheduler ------------------------------
(***************************************************************************)
(* The scheduler (internal/scheduler/scheduler.go): one dispatch cycle, a  *)
(* cancel and the shutdown loop, each under the scheduler's mutex, over    *)
(* the control rows, the node's leases, the worktrees and the runtime.     *)
(*                                                                         *)
(* mu is the call that holds the mutex, with its place in the code, so the *)
(* runtime's goroutines, the operator's direct writes to the control rows  *)
(* and a crash come between any two of its calls.  A call of the store, of *)
(* git or to a state file may fail (a bounded number of times); a call     *)
(* whose context is over fails always.                                     *)
(***************************************************************************)
EXTENDS AttemptRows, LocalNode, Worktrees, RuntimeSessions, TaskReadiness, DispatchSelection

VARIABLES
    setup,      \* the work of this instance, fixed from the start
    sched,      \* started, draining, paused and the concurrency limit
    active,     \* attempts the scheduler supervises
    known,      \* the state it remembers of each assignment
    work,       \* the assignment it remembers of each work package, 0 for none
    mu,         \* the call holding the mutex
    offer,      \* what the work source returned to the polling loop
    canon,      \* canonical state of each work package
    faults      \* failed calls so far

memory == <<sched, active, known, work, mu, offer>>
nodeVars == <<held, acquired>>

NoAttempt == <<0, 0>>
Free == [op |-> "none", pc |-> "none", t |-> NoAttempt, todo |-> {}, queue |-> <<>>,
         pick |-> <<>>, task |-> "none", ctx |-> TRUE, err |-> FALSE]
NoOffer == [seen |-> FALSE, canon |-> <<>>, requests |-> {}]

Wp(t) == setup.wp[AsgOf(t)]
Rivals(t) == {b \in DOMAIN setup.wp : setup.wp[b] = Wp(t)} \ {AsgOf(t)}

At(pc) == mu.pc = pc
Goto(pc) == mu' = [mu EXCEPT !.pc = pc]

\* A call that can succeed when c holds: it does, or it fails on its own.
Call(c, ok) ==
    \/ ok = (c /\ mu.ctx) /\ UNCHANGED faults
    \/ ~ok /\ c /\ mu.ctx /\ faults < setup.faults /\ faults' = faults + 1

\* transition, with its error for the caller to look at.
Transition(t, target, ok) ==
    /\ Call(TransitionOk(t, target), ok)
    /\ ctl' = IF ok THEN TransitionRows(t, target) ELSE ctl

Release(t) == IF mu.ctx THEN ReleaseLease(t) ELSE UNCHANGED nodeVars
StopSession(t) == IF mu.ctx THEN CancelIfRunning(t) ELSE UNCHANGED runtimeVars
Remember(t, state) == known' = [known EXCEPT ![AsgOf(t)] = state]

-----------------------------------------------------------------------------
(* The polling loop                                                        *)

\* The source names an attempt made so far, or the first, for an assignment of each
\* work package; of several requests for one, Cycle heeds the first.  A source that
\* fails is asked again at the next tick.
Pending ==
    /\ sched.started /\ ~sched.draining /\ ~offer.seen
    /\ \E first \in [Range(setup.wp) -> DOMAIN setup.wp], num \in [DOMAIN setup.wp -> 1..MaxAttempts] :
        /\ \A w \in DOMAIN first : setup.wp[first[w]] = w
        /\ \A a \in DOMAIN num : num[a] = 1 \/ num[a] <= ctl[a].n
        /\ offer' = [seen |-> TRUE, canon |-> canon,
                     requests |-> {<<first[w], num[first[w]]>> : w \in DOMAIN first}]
    /\ UNCHANGED <<sched, active, known, work, mu>>

\* Cycle takes the mutex, or is refused once the scheduler drains.
CycleBegin ==
    /\ offer.seen /\ mu = Free
    /\ IF sched.draining THEN offer' = NoOffer /\ UNCHANGED mu
       ELSE mu' = [Free EXCEPT !.op = "cycle", !.pc = "renew", !.todo = active] /\ UNCHANGED offer
    /\ UNCHANGED <<sched, active, known, work>>

-----------------------------------------------------------------------------
(* reapLocked                                                              *)

Oldest(S) == CHOOSE t \in S : \A s \in S : AsgOf(t) <= AsgOf(s)

Reaping == mu.op = "cycle" /\ mu.todo # {}
NextActive == mu' = [mu EXCEPT !.pc = "renew", !.todo = @ \ {Oldest(@)}]

\* renewLocked: the compute lease, then the control lease.
Renew ==
    /\ Reaping /\ At("renew")
    /\ LET t == Oldest(mu.todo) IN
        \E ok \in BOOLEAN :
            /\ Call(RenewOk(t) /\ Fenced(t), ok)
            /\ Goto(IF ok THEN "observe" ELSE "lost")
    /\ UNCHANGED <<ctl, nodeVars, tree, runtimeVars, sched, active, known, work, offer>>

\* A lease that cannot be renewed ends the attempt: first its session,
Lost ==
    /\ Reaping /\ At("lost")
    /\ StopSession(Oldest(mu.todo))
    /\ Goto("failed")
    /\ UNCHANGED <<ctl, nodeVars, tree, sched, active, known, work, offer, faults>>

\* then its row, which only a successful write makes the scheduler remember.
LostFailed ==
    /\ Reaping /\ At("failed")
    /\ LET t == Oldest(mu.todo) IN
        /\ \E ok \in BOOLEAN :
            /\ Transition(t, "failed", ok)
            /\ IF ok THEN Remember(t, "failed") ELSE UNCHANGED known
        /\ Release(t)
        /\ active' = active \ {t}
    /\ NextActive
    /\ UNCHANGED <<tree, runtimeVars, sched, work, offer>>

\* Mutant: a session that failed is not looked for.
OutcomeMissesFailed(status) ==
    CASE status = "succeeded" -> "collecting" [] status = "canceled" -> "canceled" [] OTHER -> "none"

Outcome(status) ==
    CASE status = "succeeded"           -> "collecting"
      [] status \in {"failed", "closed"} -> "failed"
      [] status = "canceled"            -> "canceled"
      [] OTHER                          -> "none"

\* Observe: a session that is over ends the supervision once its row says so.
Observe ==
    /\ Reaping /\ At("observe")
    /\ LET t == Oldest(mu.todo)
           target == Outcome(sess[t].status)
       IN  IF target = "none" THEN UNCHANGED <<ctl, nodeVars, active, known, faults>>
           ELSE \E ok \in BOOLEAN :
                    /\ Transition(t, target, ok)
                    /\ IF ok THEN Release(t) /\ active' = active \ {t} /\ Remember(t, target)
                       ELSE UNCHANGED <<nodeVars, active, known>>
    /\ NextActive
    /\ UNCHANGED <<tree, runtimeVars, sched, work, offer>>

-----------------------------------------------------------------------------
(* The queue                                                               *)

\* A request for the assignment the scheduler remembers for the work package,
\* which it does not remember as past planning.
Admitted(t, node) ==
    /\ work[Wp(t)] \in {0, AsgOf(t)}
    /\ known[AsgOf(t)] \in {"unknown", "planned"}
    /\ node[Wp(t)] = "ready"

QueueBefore(s, t) ==
    \/ setup.priority[Wp(s)] > setup.priority[Wp(t)]
    \/ setup.priority[Wp(s)] = setup.priority[Wp(t)] /\ Wp(s) < Wp(t)

\* Readiness as of the events the source handed over.
FillQueue ==
    /\ mu.op = "cycle" /\ At("renew") /\ mu.todo = {}
    /\ LET node == ReduceReadiness(setup.graph, offer.canon) IN
        mu' = [mu EXCEPT !.pc = "next", !.task = SummarizeTask(node),
                         !.queue = Sorted({t \in offer.requests : Admitted(t, node)}, QueueBefore)]
    /\ offer' = NoOffer
    /\ UNCHANGED <<sched, active, known, work>>

\* A graph, events or a request that are not valid end the cycle where they are met:
\* as the queue is filled, or at a selection.
CycleFails ==
    /\ mu.op = "cycle" /\ mu.todo = {}
    /\ \/ At("renew")
       \/ At("next") /\ mu.queue # <<>> /\ Cardinality(active) < sched.max /\ ~sched.paused
    /\ mu' = Free
    /\ offer' = NoOffer
    /\ UNCHANGED <<sched, active, known, work>>

CycleEnd ==
    /\ mu.op = "cycle" /\ At("next") /\ mu.queue = <<>>
    /\ mu' = Free
    /\ UNCHANGED <<sched, active, known, work, offer>>

-----------------------------------------------------------------------------
(* dispatchLocked, for the request at the head of the queue                *)

Dispatching == mu.op = "cycle" /\ mu.queue # <<>>
Request == Head(mu.queue)
NextRequest == mu' = [mu EXCEPT !.pc = "next", !.queue = Tail(@), !.pick = <<>>]
Step(ok, pc, otherwise) == Goto(IF ok THEN pc ELSE otherwise)

\* refreshCandidates: the candidates as the runtime and the node are now.
Refreshed ==
    {[c EXCEPT !.runtimeAvailable = c.runtime = setup.runtime,
               !.obs = [wrong |-> c.obs.wrong \cup IF c.node = setup.node THEN {} ELSE {"node_health_unavailable"},
                        active |-> ActiveLeases, max |-> setup.limit]]
        : c \in setup.candidates}

SelectionRequest ==
    [setup.policy EXCEPT !.node = "ready", !.task = mu.task, !.candidates = Refreshed,
                         !.active = Cardinality(active),
                         !.maxWorkers = IF @ > sched.max THEN sched.max ELSE @]

Pick(c) == <<c.runtime, c.node>>

\* The limit, the pause, the selection, and then BindAndPlan.
Plan ==
    /\ Dispatching /\ At("next")
    /\ IF Cardinality(active) >= sched.max \/ sched.paused \/ Blocked(SelectionRequest)
       THEN NextRequest /\ UNCHANGED <<ctl, known, work, faults>>
       ELSE \E ok \in BOOLEAN :
                /\ Call(PlanOk(Request, Rivals(Request)), ok)
                /\ IF ok THEN /\ ctl' = PlanRows(Request)
                              /\ Remember(Request, "planned")
                              /\ work' = [work EXCEPT ![Wp(Request)] = AsgOf(Request)]
                              /\ mu' = [mu EXCEPT !.pc = "claim", !.pick = Pick(Selected(SelectionRequest))]
                   ELSE NextRequest /\ UNCHANGED <<ctl, known, work>>
    /\ UNCHANGED <<nodeVars, tree, runtimeVars, sched, active, offer>>

\* The selected runtime and node are among those the refresh resolved.
Bound == mu.pick = <<setup.runtime, setup.node>>

\* Mutant: the compute lease is kept when the claim fails.
ClaimKeepsLease ==
    /\ Dispatching /\ At("claim")
    /\ IF ~Bound \/ ~AcquireOk(Request, setup.limit) THEN NextRequest /\ UNCHANGED <<ctl, nodeVars, faults>>
       ELSE \E ok \in BOOLEAN :
                /\ Call(ClaimOk(Request), ok)
                /\ AcquireLease(Request)
                /\ IF ok THEN ctl' = ClaimRows(Request) /\ Goto("allocate")
                   ELSE NextRequest /\ UNCHANGED ctl
    /\ UNCHANGED <<tree, runtimeVars, sched, active, known, work, offer>>

\* The compute lease, given back if the control lease is not granted.
Claim ==
    /\ Dispatching /\ At("claim")
    /\ IF ~Bound \/ ~AcquireOk(Request, setup.limit) THEN NextRequest /\ UNCHANGED <<ctl, nodeVars, faults>>
       ELSE \E ok \in BOOLEAN :
                /\ Call(ClaimOk(Request), ok)
                /\ IF ok THEN AcquireLease(Request) /\ ctl' = ClaimRows(Request) /\ Goto("allocate")
                   ELSE /\ held' = held \ {Request} /\ acquired' = acquired \cup {Request}
                        /\ NextRequest /\ UNCHANGED ctl
    /\ UNCHANGED <<tree, runtimeVars, sched, active, known, work, offer>>

\* Allocate: a record answers for itself once it is reconciled; otherwise git makes
\* the worktree,
Allocate ==
    /\ Dispatching /\ At("allocate")
    /\ \E ok \in BOOLEAN :
        /\ Call(Known(Request) \/ PreflightOk(Request), ok)
        /\ tree' = IF ~ok THEN tree ELSE IF Known(Request) THEN ReconciledTree(Request)
                   ELSE AddWorktree(Request)
        /\ Step(ok, IF Known(Request) THEN "prepare" ELSE "record", "unclaim")
    /\ UNCHANGED <<ctl, nodeVars, runtimeVars, sched, active, known, work, offer>>

\* and the record is written after it.
RecordTree ==
    /\ Dispatching /\ At("record")
    /\ \E ok \in BOOLEAN :
        /\ Call(TRUE, ok)
        /\ tree' = IF ok THEN WriteRecord(Request, "allocated") ELSE tree
        /\ Step(ok, "prepare", "unclaim")
    /\ UNCHANGED <<ctl, nodeVars, runtimeVars, sched, active, known, work, offer>>

PrepareSession ==
    /\ Dispatching /\ At("prepare")
    /\ \E ok \in BOOLEAN :
        /\ Call(TRUE, ok)
        /\ IF ok THEN Prepare(Request) ELSE UNCHANGED runtimeVars
        /\ Step(ok, "bind", "unclaim")
    /\ UNCHANGED <<ctl, nodeVars, tree, sched, active, known, work, offer>>

\* A binding that is refused cancels the session, which only a running one hears.
BindResources ==
    /\ Dispatching /\ At("bind")
    /\ \E ok \in BOOLEAN :
        /\ Call(BindOk(Request), ok)
        /\ IF ok THEN ctl' = BindRows(Request) /\ UNCHANGED runtimeVars
           ELSE StopSession(Request) /\ UNCHANGED ctl
        /\ Step(ok, "start", "unclaim")
    /\ UNCHANGED <<nodeVars, tree, sched, active, known, work, offer>>

\* Start answers a repeated key with its first answer.
StartSession ==
    /\ Dispatching /\ At("start")
    /\ IF StartReplays(Request) THEN Goto("running") /\ UNCHANGED <<runtimeVars, faults>>
       ELSE \E ok \in BOOLEAN :
                /\ Call(Startable(Request, setup.limit), ok)
                /\ IF ok THEN Start(Request) ELSE UNCHANGED runtimeVars
                /\ Step(ok, "running", "unstart")
    /\ UNCHANGED <<ctl, nodeVars, tree, sched, active, known, work, offer>>

\* The attempt is supervised once its row says running; if it cannot, the
\* session is canceled and the assignment stays as good as planned.
Running ==
    /\ Dispatching /\ At("running")
    /\ \E ok \in BOOLEAN :
        /\ Transition(Request, "running", ok)
        /\ IF ok THEN /\ active' = active \cup {Request} /\ Remember(Request, "running")
                      /\ UNCHANGED <<nodeVars, runtimeVars>>
           ELSE StopSession(Request) /\ Release(Request) /\ UNCHANGED <<active, known>>
    /\ NextRequest
    /\ UNCHANGED <<tree, sched, work, offer>>

\* cancelClaimedLocked, and its likeness for a start that failed: what the
\* row became is not looked at.
GiveUp(pc, state) ==
    /\ Dispatching /\ At(pc)
    /\ \E ok \in BOOLEAN : Transition(Request, state, ok)
    /\ Release(Request)
    /\ Remember(Request, state)
    /\ NextRequest
    /\ UNCHANGED <<tree, runtimeVars, sched, active, work, offer>>

Unclaim == GiveUp("unclaim", "canceled")
Unstart == GiveUp("unstart", "failed")

-----------------------------------------------------------------------------
(* Cancel, and the loop of Shutdown                                        *)

ActiveOf(a) == {t \in active : AsgOf(t) = a}

\* An assignment remembered as over, or not supervised, needs nothing.
CancelNeedsNothing(a) == known[a] \in TerminalStates \/ ActiveOf(a) = {}

CancelBegin(a) ==
    /\ mu = Free /\ ~CancelNeedsNothing(a)
    /\ mu' = [Free EXCEPT !.op = "cancel", !.pc = "stop", !.todo = ActiveOf(a)]

Stopping == mu.op \in {"cancel", "shutdown"} /\ mu.todo # {}

Stop ==
    /\ Stopping /\ At("stop")
    /\ LET t == Oldest(mu.todo) IN
        /\ StopSession(t)
        /\ mu' = [mu EXCEPT !.pc = "settle", !.err = @ \/ ~mu.ctx \/ ~CancelOk(t) \/ disk'[t] # "canceled"]
    /\ UNCHANGED <<ctl, nodeVars, tree, sched, active, known, work, offer, faults>>

\* Whatever became of the two calls, the attempt is no longer supervised.
Settle ==
    /\ Stopping /\ At("settle")
    /\ LET t == Oldest(mu.todo) IN
        \E ok \in BOOLEAN :
            /\ Transition(t, "canceled", ok)
            /\ Release(t)
            /\ active' = active \ {t}
            /\ Remember(t, "canceled")
            /\ mu' = [mu EXCEPT !.pc = "stop", !.todo = @ \ {t}, !.err = @ \/ ~ok]
    /\ UNCHANGED <<tree, runtimeVars, sched, work, offer>>
=============================================================================
