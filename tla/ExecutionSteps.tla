--------------------------- MODULE ExecutionSteps ---------------------------
(***************************************************************************)
(* The steps of the runtime, of the operator's commands, of the polling    *)
(* loop and of supervision, and a dispatch up to its claim, keep the       *)
(* inductive invariant of ExecutionLemmas.                                 *)
(***************************************************************************)
EXTENDS ExecutionLemmas

-----------------------------------------------------------------------------
(* The runtime's goroutines.                                               *)

\* The goroutine of a session begins its work or ends.
LEMMA ChildrenStep ==
  ASSUME IExecInv, Children
  PROVE  IExecInv' /\ UNCHANGED starts
  <1>1. PICK t \in Attempts : Execute(t) \/ FinishRun(t)
    BY Zenon DEF Children
  <1>2. UNCHANGED <<ctl, nodeVars, memory, outside>>
    BY <1>1, Zenon DEF Execute, FinishRun
  <1>3. UNCHANGED <<setup, canon, life, call, earlier, cut, active, known, mu, offer>>
    BY <1>2, Zenon DEF outside, memory
  <1>4. SessionInv /\ faults \in Nat
    BY Zenon DEF IExecInv, MutexInv
  <1>5. /\ SessionsTame /\ UNCHANGED starts
        /\ faults' \in Nat /\ (faults' = 0 => faults = 0)
    <2>1. CASE Execute(t)
      <3>1. proc[t] # "none" /\ (faults' = faults \/ faults' = faults + 1)
        BY <2>1, Zenon DEF Execute
      <3>2. Work(t) \/ Finish(t, "failed", TRUE)
        BY <2>1, Zenon DEF Execute
      <3>3. faults' \in Nat /\ (faults' = 0 => faults = 0)
        BY <1>4, <3>1
      <3>4. CASE Work(t)
        BY <1>3, <1>4, <3>1, <3>3, <3>4, WorkTame, Zenon
      <3>5. CASE Finish(t, "failed", TRUE)
        BY <1>3, <1>4, <3>1, <3>3, <3>5, FinishTame, Zenon DEF Outcomes
      <3> QED
        BY <3>2, <3>4, <3>5, Zenon
    <2>2. CASE FinishRun(t)
      <3>1. proc[t] # "none"
        BY <2>2, Zenon DEF FinishRun
      <3>2. PICK outcome \in Outcomes, saved \in BOOLEAN :
                Finish(t, outcome, saved) /\ faults' = IF saved THEN faults ELSE faults + 1
        BY <2>2, Zenon DEF FinishRun
      <3>3. SessionsTame /\ UNCHANGED starts
        BY <1>3, <1>4, <3>1, <3>2, FinishTame, Zenon
      <3>4. faults' = faults \/ faults' = faults + 1
        BY <3>2, Zenon
      <3>5. faults' \in Nat /\ (faults' = 0 => faults = 0)
        BY <1>4, <3>4
      <3> QED
        BY <3>3, <3>5, Zenon
    <2> QED
      BY <1>1, <2>1, <2>2, Zenon
  <1>6. RowsTame
    BY <1>2, SameRows, Zenon DEF IExecInv
  <1>7. NodeInv' /\ held' \subseteq held /\ CallInv' /\ AcceptedStays
    BY <1>2, <1>3, SameNode, SameCalls, SameCanon, Zenon DEF IExecInv
  <1> QED
    BY <1>3, <1>5, <1>6, <1>7, QuietStep, Zenon

-----------------------------------------------------------------------------
(* The operator's commands.                                                *)

\* What a command of a setup consists of.
LEMMA CommandIs ==
  ASSUME NEW c \in Commands
  PROVE  /\ c.do \in {"pause", "start", "resume", "cancel", "fail", "retry"}
         /\ c.a \in Assignments /\ c.key \in Labels \ {"claim", "prepare"}
  BY SetupsAssumption, Zenon DEF Commands, Labels

\* A request that is past reading its command carries one.
LEMMA CallIs ==
  ASSUME CallInv, NEW i \in setup.callers, call[i].pc # "idle"
  PROVE  call[i] \in [pc : Pcs, c : Commands, n : Nat] /\ life # "down"
  BY DEF CallInv, Calls, Idle

\* A request is answered.
LEMMA AnswerCalls ==
  ASSUME CallInv, UNCHANGED <<setup, life>>, NEW i \in setup.callers, Answer(i)
  PROVE  CallInv'
  BY Zenon DEF CallInv, Answer, Calls

\* A request goes on to its next call.
LEMMA ContinueCalls ==
  ASSUME CallInv, UNCHANGED <<setup, life>>, NEW i \in setup.callers, call[i].pc # "idle",
         NEW pc \in Pcs, Continue(i, pc)
  PROVE  CallInv'
  <1> DEFINE new == [call[i] EXCEPT !.pc = pc]
  <1>1. call[i] \in [pc : Pcs, c : Commands, n : Nat] /\ life # "down"
    BY CallIs, Zenon
  <1>2. new \in Calls
    BY <1>1, Zenon DEF Calls
  <1>3. call' = [call EXCEPT ![i] = new]
    BY Zenon DEF Continue
  <1> HIDE DEF new
  <1> QED
    BY <1>1, <1>2, <1>3, Zenon DEF CallInv

\* A request's step outside the scheduler.
LEMMA RequestStep ==
  ASSUME IExecInv, RowsTame, CallInv',
         UNCHANGED <<nodeVars, runtimeVars, active, known, mu, offer, setup, canon, life, earlier, cut>>,
         faults' = faults \/ faults' = faults + 1
  PROVE  IExecInv' /\ UNCHANGED starts
  <1>1. SessionsTame /\ NodeInv' /\ held' \subseteq held /\ AcceptedStays
    BY SameSessions, SameNode, SameCanon, Zenon DEF IExecInv
  <1>2. faults \in Nat
    BY Zenon DEF IExecInv, MutexInv
  <1>3. faults' \in Nat /\ (faults' = 0 => faults = 0)
    BY <1>2
  <1>4. UNCHANGED starts
    BY Zenon DEF runtimeVars
  <1> QED
    BY <1>1, <1>3, <1>4, QuietStep, Zenon

\* A request begins with its assignment read.
LEMMA CommandStep ==
  ASSUME IExecInv, NEW i \in setup.callers, Command(i)
  PROVE  IExecInv' /\ UNCHANGED starts
  <1>1. UNCHANGED <<CallVars, setup, canon, life, earlier, cut>>
    BY Zenon DEF Command
  <1>2. UNCHANGED <<ctl, nodeVars, runtimeVars, active, known, mu, offer, faults>>
    BY <1>1, Zenon DEF CallVars, memory
  <1>3. PICK c \in setup.does :
           /\ FirstStep(c) # "idle"
           /\ call' = [call EXCEPT ![i] = [pc |-> FirstStep(c), c |-> c, n |-> ctl[c.a].n]]
    BY Zenon DEF Command
  <1>4. c \in Commands
    BY Zenon DEF IExecInv, CallInv, Commands
  <1>5. FirstStep(c) \in Pcs /\ ctl[c.a].n \in Nat
    <2>1. c.do \in {"pause", "start", "resume", "cancel", "fail", "retry"} /\ c.a \in Assignments
      BY <1>4, CommandIs, Zenon
    <2>2. FirstStep(c) \in Pcs
      BY <1>3, <2>1, Zenon DEF FirstStep, Pcs
    <2>3. ctl[c.a].n \in Nat
      BY <2>1, Zenon DEF IExecInv, RowsInv, Rows
    <2> QED
      BY <2>2, <2>3, Zenon
  <1>6. [pc |-> FirstStep(c), c |-> c, n |-> ctl[c.a].n] \in Calls
    BY <1>4, <1>5, Zenon DEF Calls
  <1>7. CallInv'
    <2>1. life = "up"
      BY Zenon DEF Command
    <2> QED
      BY <1>1, <1>3, <1>6, <2>1, Zenon DEF IExecInv, CallInv
  <1>8. RowsTame
    BY <1>2, SameRows, Zenon DEF IExecInv
  <1> QED
    BY <1>1, <1>2, <1>7, <1>8, RequestStep, Zenon

\* Pause, Resume and SetMaxConcurrent change the scheduler's switches only.
LEMMA SwitchStep ==
  ASSUME IExecInv, NEW i \in setup.callers, SetPaused(i) \/ SetMaxConcurrent(i)
  PROVE  IExecInv' /\ UNCHANGED starts
  <1>1. UNCHANGED <<ctl, nodeVars, runtimeVars, active, known, mu, offer, faults, setup, canon, life,
                    earlier, cut>>
    BY Zenon DEF SetPaused, SetMaxConcurrent
  <1>2. /\ call[i].pc # "idle"
        /\ Continue(i, "save") \/ Continue(i, "resume") \/ Answer(i)
    BY Zenon DEF SetPaused, SetMaxConcurrent
  <1>3. CallInv'
    BY <1>1, <1>2, AnswerCalls, ContinueCalls, Zenon DEF IExecInv, Pcs
  <1>4. RowsTame
    BY <1>1, SameRows, Zenon DEF IExecInv
  <1> QED
    BY <1>1, <1>3, <1>4, RequestStep, Zenon

\* The row is read again after a cancel.
LEMMA ReloadStep ==
  ASSUME IExecInv, NEW i \in setup.callers, Reload(i)
  PROVE  IExecInv' /\ UNCHANGED starts
  <1> DEFINE row == ctl[call[i].c.a]
             new == [call[i] EXCEPT !.pc = "write", !.n = row.n]
  <1>1. UNCHANGED <<CallVars, setup, canon, life, earlier, cut>>
    BY Zenon DEF Reload
  <1>2. UNCHANGED <<ctl, nodeVars, runtimeVars, active, known, mu, offer, faults>>
    BY <1>1, Zenon DEF CallVars, memory
  <1>3. call[i].pc # "idle"
    BY Zenon DEF Reload
  <1>4. call[i] \in [pc : Pcs, c : Commands, n : Nat] /\ life # "down"
    BY <1>3, CallIs, Zenon DEF IExecInv
  <1>5. row.n \in Nat
    <2>1. call[i].c.a \in Assignments
      BY <1>4, CommandIs, Zenon
    <2> QED
      BY <2>1, Zenon DEF IExecInv, RowsInv, Rows
  <1> HIDE DEF row
  <1>6. new \in Calls
    BY <1>4, <1>5, Zenon DEF Calls, Pcs
  <1>7. Continue(i, "save") \/ Answer(i) \/ call' = [call EXCEPT ![i] = new]
    BY Zenon DEF Reload, row
  <1> HIDE DEF new
  <1>8. CallInv'
    <2>1. CASE call' = [call EXCEPT ![i] = new]
      BY <1>1, <1>4, <1>6, <2>1, Zenon DEF IExecInv, CallInv
    <2> QED
      BY <1>1, <1>3, <1>7, <2>1, AnswerCalls, ContinueCalls, Zenon DEF IExecInv, Pcs
  <1>9. RowsTame
    BY <1>2, SameRows, Zenon DEF IExecInv
  <1> QED
    BY <1>1, <1>2, <1>8, <1>9, RequestStep, Zenon

\* The result goes to the ledger.
LEMMA SaveStep ==
  ASSUME IExecInv, NEW i \in setup.callers, Save(i)
  PROVE  IExecInv' /\ UNCHANGED starts
  <1>1. UNCHANGED <<ctl, nodeVars, tree, runtimeVars, memory, setup, canon, life, spent, earlier, cut>>
    BY Zenon DEF Save
  <1>2. UNCHANGED <<active, known, mu, offer>>
    BY <1>1, Zenon DEF memory
  <1>3. CallInv' /\ RowsTame
    BY <1>1, AnswerCalls, SameRows, Zenon DEF IExecInv, Save
  <1>4. faults' = faults \/ faults' = faults + 1
    BY Zenon DEF Save
  <1> QED
    BY <1>1, <1>2, <1>3, <1>4, RequestStep, Zenon

\* The operator's direct writes to the rows: recoveryTransition and Retry.
LEMMA WriteStep ==
  ASSUME IExecInv, NEW i \in setup.callers, RecoveryTransition(i) \/ Retry(i)
  PROVE  IExecInv' /\ UNCHANGED starts
  <1>1. UNCHANGED <<nodeVars, tree, runtimeVars, memory, setup, canon, life, ledger, spent, earlier, cut>>
    BY Zenon DEF RecoveryTransition, Retry
  <1>2. UNCHANGED <<active, known, mu, offer>>
    BY <1>1, Zenon DEF memory
  <1>3. call[i].pc # "idle"
    BY Zenon DEF RecoveryTransition, Retry
  <1>4. call[i] \in [pc : Pcs, c : Commands, n : Nat]
    BY <1>3, CallIs, Zenon DEF IExecInv
  <1>5. call[i].c.a \in Assignments /\ call[i].c.key \in Labels \ {"claim", "prepare"}
    BY <1>4, CommandIs, Zenon
  <1>6. /\ Continue(i, "save") \/ Answer(i)
        /\ faults' = faults \/ faults' = faults + 1
    BY Zenon DEF RecoveryTransition, Retry, Write
  <1>7. CallInv'
    BY <1>1, <1>3, <1>6, AnswerCalls, ContinueCalls, Zenon DEF IExecInv, Pcs
  <1>8. RowsTame
    <2>1. CASE RecoveryTransition(i)
      <3> DEFINE t == <<call[i].c.a, call[i].n>>
                 target == Target(call[i].c)
      <3>1. \/ UNCHANGED ctl
            \/ TransitionOk(t, target) /\ ctl' = TransitionRows(t, target)
        BY <2>1, Zenon DEF RecoveryTransition, Write
      <3>2. AsgOf(t) \in Assignments /\ target \in {"failed", "canceled"}
        BY <1>5, Zenon DEF AsgOf, Target
      <3> HIDE DEF t, target
      <3> QED
        BY <3>1, <3>2, SameRows, TransitionRow, Zenon DEF IExecInv, RowsTame
    <2>2. CASE Retry(i)
      <3>1. UNCHANGED ctl \/ ctl' = RetryRows(call[i].c.a, call[i].c.key)
        BY <2>2, Zenon DEF Retry, Write
      <3> QED
        BY <1>5, <3>1, SameRows, RetryTame, Zenon DEF IExecInv
    <2> QED
      BY <2>1, <2>2, Zenon
  <1> QED
    BY <1>1, <1>2, <1>6, <1>7, <1>8, RequestStep, Zenon

-----------------------------------------------------------------------------
(* Who holds the mutex.                                                    *)

\* The mutex when nobody holds it.
LEMMA FreeIs ==
  /\ Free.op = "none" /\ Free.pc = "none" /\ Free.t = NoAttempt /\ Free.todo = {} /\ Free.queue = <<>>
  /\ Free.ctx = TRUE /\ Free.err = FALSE
  BY Zenon DEF Free

\* A call that has just taken the mutex.
LEMMA HolderIs ==
  ASSUME NEW op \in {"cycle", "cancel", "shutdown"}, NEW pc \in {"renew", "stop"},
         NEW S \in SUBSET Attempts,
         mu' = [op |-> op, pc |-> pc, t |-> NoAttempt, todo |-> S, queue |-> <<>>, pick |-> <<>>,
                task |-> "none", ctx |-> TRUE, err |-> FALSE]
  PROVE  mu' \in Holders'
  BY DEF Holders

\* A call takes the mutex with the attempts it has to work through.
LEMMA Taken ==
  ASSUME MutexInv, DistinctInv, mu = Free, life # "down",
         NEW op \in {"cycle", "cancel", "shutdown"}, NEW pc \in {"renew", "stop"}, NEW S \in SUBSET active,
         mu' = [Free EXCEPT !.op = op, !.pc = pc, !.todo = S],
         UNCHANGED <<active, life, cut, faults>>
  PROVE  MutexInv' /\ SamePlace
  <1>1. /\ mu'.op = op /\ mu'.pc = pc /\ mu'.todo = S /\ mu'.queue = <<>> /\ mu'.ctx = TRUE
    BY Zenon DEF Free
  <1>2. S \in SUBSET Attempts
    BY Zenon DEF DistinctInv
  <1>3. mu' \in Holders'
    <2>1. mu' = [op |-> op, pc |-> pc, t |-> NoAttempt, todo |-> S, queue |-> <<>>, pick |-> <<>>,
                 task |-> "none", ctx |-> TRUE, err |-> FALSE]
      BY Zenon DEF Free
    <2> QED
      BY <1>2, <2>1, HolderIs, Zenon
  <1>4. SamePlace
    BY <1>1, FreeIs, Zenon DEF SamePlace
  <1>5. MutexInv'
    BY <1>1, <1>3, Zenon DEF MutexInv
  <1> QED
    BY <1>4, <1>5, Zenon

\* It gives the mutex back.
LEMMA Freed ==
  ASSUME MutexInv, mu.queue = <<>>, mu' = Free, UNCHANGED <<active, life, cut, faults>>
  PROVE  MutexInv' /\ SamePlace
  <1>1. mu' \in Holders'
    BY DEF Free, Holders
  <1>2. MutexInv'
    BY <1>1, FreeIs, Zenon DEF MutexInv
  <1>3. SamePlace
    BY FreeIs, Zenon DEF SamePlace
  <1> QED
    BY <1>2, <1>3, Zenon

\* Its context is over.
LEMMA ContextLost ==
  ASSUME MutexInv, life # "down", mu' = [mu EXCEPT !.ctx = FALSE], cut' = TRUE,
         UNCHANGED <<active, life, faults>>
  PROVE  MutexInv' /\ SamePlace
  <1>1. mu' \in Holders' /\ mu'.op = mu.op /\ mu'.pc = mu.pc /\ mu'.todo = mu.todo /\ mu'.queue = mu.queue
    BY Zenon DEF MutexInv, Holders
  <1>2. MutexInv'
    BY <1>1, Zenon DEF MutexInv
  <1>3. SamePlace
    BY <1>1, Zenon DEF SamePlace
  <1> QED
    BY <1>2, <1>3, Zenon

\* A step of whoever holds the mutex that changes nothing else.
LEMMA MutexStep ==
  ASSUME IExecInv, MutexInv', SamePlace, CallInv',
         UNCHANGED <<ctl, nodeVars, runtimeVars, setup, active, known, earlier, canon, life, faults>>,
         offer' = offer \/ offer' = NoOffer, cut => cut'
  PROVE  IExecInv' /\ UNCHANGED starts
  <1>1. RowsTame /\ SessionsTame /\ NodeInv' /\ held' \subseteq held /\ AcceptedStays
    BY SameRows, SameSessions, SameNode, SameCanon, Zenon DEF IExecInv
  <1>2. GoesOn
    BY Zenon DEF GoesOn
  <1>3. UNCHANGED starts
    BY Zenon DEF runtimeVars
  <1> QED
    BY <1>1, <1>2, <1>3, FrameStep, Zenon

\* scheduler.Cancel begins.
LEMMA CancelCallStep ==
  ASSUME IExecInv, NEW i \in setup.callers, CancelCall(i)
  PROVE  IExecInv' /\ UNCHANGED starts
  <1>1. UNCHANGED <<ctl, nodeVars, runtimeVars, active, known, offer, faults, setup, canon, life,
                    earlier, cut>>
    BY Zenon DEF CancelCall
  <1>2. call[i].pc # "idle"
    BY Zenon DEF CancelCall
  <1>3. life # "down"
    BY <1>2, CallIs, Zenon DEF IExecInv
  <1>4. \/ Continue(i, "reload") /\ UNCHANGED mu
        \/ Continue(i, "canceling") /\ CancelBegin(call[i].c.a)
    BY Zenon DEF CancelCall
  <1>5. CallInv'
    BY <1>1, <1>2, <1>4, ContinueCalls, Zenon DEF IExecInv, Pcs
  <1>6. MutexInv' /\ SamePlace
    <2>1. CASE UNCHANGED mu
      <3>1. UNCHANGED <<proc, sess>>
        BY <1>1, Zenon DEF runtimeVars
      <3>2. NoneStarted /\ faults' \in Nat
        BY <1>1, <3>1, Zenon DEF NoneStarted, IExecInv, MutexInv
      <3> QED
        BY <1>1, <2>1, <3>2, MutexStays, Zenon DEF IExecInv, SamePlace
    <2>2. CASE CancelBegin(call[i].c.a)
      <3>1. /\ mu = Free /\ ActiveOf(call[i].c.a) \in SUBSET active
            /\ mu' = [Free EXCEPT !.op = "cancel", !.pc = "stop", !.todo = ActiveOf(call[i].c.a)]
        BY <2>2, Zenon DEF CancelBegin, ActiveOf
      <3> QED
        BY <1>1, <1>3, <3>1, Taken, Zenon DEF IExecInv
    <2> QED
      BY <1>4, <2>1, <2>2, Zenon
  <1> QED
    BY <1>1, <1>5, <1>6, MutexStep, Zenon

\* scheduler.Cancel returns.
LEMMA CancelReturnStep ==
  ASSUME IExecInv, NEW i \in setup.callers, CancelReturn(i)
  PROVE  IExecInv' /\ UNCHANGED starts
  <1>1. UNCHANGED <<ctl, nodeVars, runtimeVars, active, known, offer, faults, setup, canon, life,
                    earlier, cut>>
    BY Zenon DEF CancelReturn
  <1>2. /\ call[i].pc # "idle" /\ mu.op = "cancel" /\ mu' = Free
        /\ Continue(i, "reload") \/ Answer(i)
    BY Zenon DEF CancelReturn
  <1>3. CallInv'
    BY <1>1, <1>2, ContinueCalls, AnswerCalls, Zenon DEF IExecInv, Pcs
  <1>4. mu.queue = <<>>
    BY <1>2, Zenon DEF IExecInv, MutexInv
  <1>5. MutexInv' /\ SamePlace
    BY <1>1, <1>2, <1>4, Freed, Zenon DEF IExecInv
  <1> QED
    BY <1>1, <1>3, <1>5, MutexStep, Zenon

\* A client goes away.
LEMMA LoseRequestStep ==
  ASSUME IExecInv, NEW i \in setup.callers, LoseRequest(i)
  PROVE  IExecInv' /\ UNCHANGED starts
  <1>1. UNCHANGED <<ctl, nodeVars, runtimeVars, active, known, offer, faults, setup, canon, life, earlier>>
    BY Zenon DEF LoseRequest
  <1>2. CASE call[i].pc = "canceling"
    <2>1. mu' = [mu EXCEPT !.ctx = FALSE] /\ cut' = TRUE /\ UNCHANGED call
      BY <1>2, Zenon DEF LoseRequest
    <2>2. life # "down"
      BY <1>2, CallIs, Zenon DEF IExecInv
    <2>3. MutexInv' /\ SamePlace
      BY <1>1, <2>1, <2>2, ContextLost, Zenon DEF IExecInv
    <2>4. CallInv'
      BY <1>1, <2>1, SameCalls, Zenon DEF IExecInv
    <2> QED
      BY <1>1, <2>1, <2>3, <2>4, MutexStep, Zenon
  <1>3. CASE call[i].pc # "canceling"
    <2>1. Answer(i) /\ UNCHANGED <<mu, cut>>
      BY <1>3, Zenon DEF LoseRequest
    <2>2. CallInv' /\ RowsTame
      BY <1>1, <2>1, AnswerCalls, SameRows, Zenon DEF IExecInv
    <2> QED
      BY <1>1, <2>1, <2>2, RequestStep, Zenon
  <1> QED
    BY <1>2, <1>3, Zenon

\* Shutdown takes the active attempts, or runs out of time.
LEMMA DrainStep ==
  ASSUME IExecInv, ShutdownCancel \/ DrainTimeout
  PROVE  IExecInv' /\ UNCHANGED starts
  <1>1. CASE ShutdownCancel
    <2>1. UNCHANGED <<ctl, nodeVars, runtimeVars, active, known, offer, faults, outside>>
      BY <1>1, Zenon DEF ShutdownCancel
    <2>2. /\ mu = Free /\ life # "down"
          /\ mu' = [Free EXCEPT !.op = "shutdown", !.pc = "stop", !.todo = active]
      BY <1>1, Zenon DEF ShutdownCancel
    <2>3. UNCHANGED <<setup, canon, life, call, earlier, cut>>
      BY <2>1, Zenon DEF outside
    <2>4. MutexInv' /\ SamePlace
      BY <2>1, <2>2, <2>3, Taken, Zenon DEF IExecInv
    <2>5. CallInv'
      BY <2>3, SameCalls, Zenon DEF IExecInv
    <2> QED
      BY <2>1, <2>3, <2>4, <2>5, MutexStep, Zenon
  <1>2. CASE DrainTimeout
    <2>1. UNCHANGED <<ctl, nodeVars, runtimeVars, active, known, offer, faults, setup, canon, life, call, earlier>>
      BY <1>2, Zenon DEF DrainTimeout
    <2>2. life # "down" /\ mu' = [mu EXCEPT !.ctx = FALSE] /\ cut' = TRUE
      BY <1>2, Zenon DEF DrainTimeout
    <2>3. MutexInv' /\ SamePlace
      BY <2>1, <2>2, ContextLost, Zenon DEF IExecInv
    <2>4. CallInv'
      BY <2>1, SameCalls, Zenon DEF IExecInv
    <2> QED
      BY <2>1, <2>2, <2>3, <2>4, MutexStep, Zenon
  <1> QED
    BY <1>1, <1>2, Zenon

\* A call that answers well could be made; one that fails for no reason is counted.
LEMMA CallSteps ==
  ASSUME MutexInv, NEW c, NEW ok \in BOOLEAN, Call(c, ok)
  PROVE  /\ faults' \in Nat /\ (faults' = 0 => faults = 0)
         /\ ok => c /\ mu.ctx
         /\ faults' = 0 /\ c /\ mu.ctx => ok
  BY DEF Call, MutexInv

\* The loops over the supervised attempts: from one call to the next.
LEMMA LoopStep ==
  ASSUME IExecInv, mu.op # "none", mu.todo # {}, mu' \in Holders',
         mu'.op = mu.op, mu'.todo = mu.todo, mu'.queue = mu.queue, mu'.ctx = mu.ctx,
         faults' \in Nat, faults' = 0 => faults = 0, SessionsTame,
         ~cut /\ mu'.pc \in {"failed", "settle"} =>
            proc'[Oldest(mu.todo)] = "none" \/ sess'[Oldest(mu.todo)].cancel,
         UNCHANGED <<ctl, nodeVars, active, known, offer, outside>>
  PROVE  IExecInv'
  <1>1. UNCHANGED <<setup, canon, life, call, earlier, cut>>
    BY Zenon DEF outside
  <1>2. mu.queue = <<>> /\ life # "down"
    BY FreeIs, Zenon DEF IExecInv, MutexInv
  <1>3. MutexInv'
    BY <1>1, <1>2, Zenon DEF IExecInv, MutexInv
  <1>4. RowsTame /\ NodeInv' /\ held' \subseteq held /\ AcceptedStays /\ CallInv'
    BY <1>1, SameRows, SameNode, SameCanon, SameCalls, Zenon DEF IExecInv
  <1>5. SamePlace /\ GoesOn
    BY <1>1, <1>2, Zenon DEF SamePlace, GoesOn
  <1> QED
    BY <1>1, <1>3, <1>4, <1>5, FrameStep, Zenon

\* The holder of the mutex goes on to another place.
LEMMA GotoIs ==
  ASSUME MutexInv,
         NEW p \in Dispatchers \cup {"none", "renew", "lost", "failed", "observe", "stop", "settle"}, Goto(p)
  PROVE  /\ mu' \in Holders' /\ mu'.pc = p /\ mu'.op = mu.op /\ mu'.todo = mu.todo /\ mu'.queue = mu.queue
         /\ mu'.ctx = mu.ctx
  BY Zenon DEF MutexInv, Goto, Holders

\* renewLocked, with its two leases.
LEMMA RenewStep ==
  ASSUME IExecInv, Renew, UNCHANGED outside
  PROVE  IExecInv' /\ UNCHANGED starts
  <1>1. UNCHANGED <<ctl, nodeVars, runtimeVars, active, known, offer>> /\ mu.op # "none" /\ mu.todo # {}
    BY Zenon DEF Renew, Reaping
  <1>2. PICK ok \in BOOLEAN : /\ Call(RenewOk(Oldest(mu.todo)) /\ Fenced(Oldest(mu.todo)), ok)
                              /\ Goto(IF ok THEN "observe" ELSE "lost")
    BY Zenon DEF Renew
  <1>3. faults' \in Nat /\ (faults' = 0 => faults = 0)
    BY <1>2, CallSteps, Zenon DEF IExecInv
  <1>4. /\ mu' \in Holders' /\ mu'.pc \in {"observe", "lost"} /\ mu'.op = mu.op /\ mu'.todo = mu.todo
        /\ mu'.queue = mu.queue /\ mu'.ctx = mu.ctx
    BY <1>2, GotoIs, Zenon DEF IExecInv
  <1>5. SessionsTame /\ UNCHANGED starts
    BY <1>1, SameSessions, Zenon DEF IExecInv, outside, runtimeVars
  <1> QED
    BY <1>1, <1>3, <1>4, <1>5, LoopStep, Zenon

\* The attempt a loop is at.
LEMMA LoopAt ==
  ASSUME MutexInv, mu.todo # {}
  PROVE  Oldest(mu.todo) \in mu.todo /\ Oldest(mu.todo) \in Attempts /\ Oldest(mu.todo) \in active
  BY OldestIs, Zenon DEF MutexInv, Holders

\* A cancel of the session, by a caller whose context may be over.
LEMMA StopSessionIs ==
  ASSUME MutexInv, SessionInv, UNCHANGED life, NEW t \in Attempts, StopSession(t)
  PROVE  /\ SessionsTame /\ UNCHANGED starts
         /\ ~cut => proc'[t] = "none" \/ sess'[t].cancel
  <1>1. CASE mu.ctx
    BY <1>1, CancelTame, Zenon DEF StopSession
  <1>2. CASE ~mu.ctx
    BY <1>2, SameSessions, Zenon DEF StopSession, MutexInv, runtimeVars
  <1> QED
    BY <1>1, <1>2, Zenon

\* The session of an attempt that is given up is told to stop.
LEMMA LostStep ==
  ASSUME IExecInv, Lost \/ Stop, UNCHANGED outside
  PROVE  IExecInv' /\ UNCHANGED starts
  <1> DEFINE t == Oldest(mu.todo)
  <1>1. /\ UNCHANGED <<ctl, nodeVars, active, known, offer, faults, life>> /\ mu.op # "none" /\ mu.todo # {}
        /\ StopSession(t)
    BY Zenon DEF Lost, Stop, Reaping, Stopping, outside
  <1>2. t \in Attempts
    BY <1>1, LoopAt, Zenon DEF IExecInv
  <1>3. SessionsTame /\ UNCHANGED starts /\ (~cut => proc'[t] = "none" \/ sess'[t].cancel)
    BY <1>1, <1>2, StopSessionIs, Zenon DEF IExecInv
  <1>4. /\ mu' \in Holders' /\ mu'.op = mu.op /\ mu'.todo = mu.todo
        /\ mu'.queue = mu.queue /\ mu'.ctx = mu.ctx
    <2>1. CASE Lost
      BY <2>1, GotoIs, Zenon DEF IExecInv, Lost
    <2>2. CASE Stop
      <3>1. PICK e \in BOOLEAN : mu' = [mu EXCEPT !.pc = "settle", !.err = e]
        BY <2>2, Zenon DEF Stop
      <3> QED
        BY <3>1, Zenon DEF IExecInv, MutexInv, Holders
    <2> QED
      BY <2>1, <2>2, Zenon
  <1>5. faults' \in Nat /\ (faults' = 0 => faults = 0)
    BY <1>1, Zenon DEF IExecInv, MutexInv
  <1> HIDE DEF t
  <1> QED
    BY <1>1, <1>3, <1>4, <1>5, LoopStep, Zenon DEF t

-----------------------------------------------------------------------------
(* The polling loop.                                                       *)

\* Cycle takes the mutex, or is refused.
LEMMA CycleBeginStep ==
  ASSUME IExecInv, CycleBegin, life # "down",
         UNCHANGED <<ctl, nodeVars, tree, runtimeVars, faults, outside>>
  PROVE  IExecInv' /\ UNCHANGED starts
  <1>1. UNCHANGED <<setup, canon, life, call, earlier, cut, active, known>>
    BY Zenon DEF outside, CycleBegin
  <1>2. CallInv'
    BY <1>1, SameCalls, Zenon DEF IExecInv
  <1>3. CASE sched.draining
    <2>1. offer' = NoOffer /\ UNCHANGED mu
      BY <1>3, Zenon DEF CycleBegin
    <2>2. NoneStarted /\ faults' \in Nat
      BY Zenon DEF NoneStarted, runtimeVars, IExecInv, MutexInv
    <2>3. MutexInv' /\ SamePlace
      BY <1>1, <2>1, <2>2, MutexStays, Zenon DEF IExecInv, SamePlace
    <2> QED
      BY <1>1, <1>2, <2>1, <2>3, MutexStep, Zenon
  <1>4. CASE ~sched.draining
    <2>1. /\ mu = Free /\ mu' = [Free EXCEPT !.op = "cycle", !.pc = "renew", !.todo = active]
          /\ UNCHANGED offer
      BY <1>4, Zenon DEF CycleBegin
    <2>2. MutexInv' /\ SamePlace
      BY <1>1, <2>1, Taken, Zenon DEF IExecInv
    <2> QED
      BY <1>1, <1>2, <2>1, <2>2, MutexStep, Zenon
  <1> QED
    BY <1>3, <1>4, Zenon

\* Cycle has gone through its queue.
LEMMA CycleEndStep ==
  ASSUME IExecInv, CycleEnd,
         UNCHANGED <<ctl, nodeVars, tree, runtimeVars, faults, outside>>
  PROVE  IExecInv' /\ UNCHANGED starts
  <1>1. UNCHANGED <<setup, canon, life, call, earlier, cut, active, known, offer>>
    BY Zenon DEF outside, CycleEnd
  <1>2. CallInv' /\ MutexInv' /\ SamePlace
    BY <1>1, SameCalls, Freed, Zenon DEF IExecInv, CycleEnd
  <1> QED
    BY <1>1, <1>2, MutexStep, Zenon

\* A cycle that meets something invalid drops its queue; nothing was taken for the
\* request it had come to.
LEMMA CycleFailsStep ==
  ASSUME IExecInv, CycleFails,
         UNCHANGED <<ctl, nodeVars, tree, runtimeVars, faults, outside>>
  PROVE  IExecInv' /\ UNCHANGED starts
  <1>1. /\ UNCHANGED <<setup, canon, life, call, earlier, cut, active, known>> /\ offer' = NoOffer
        /\ UNCHANGED <<sess, proc, starts, held>> /\ mu' = Free
    BY Zenon DEF outside, CycleFails, runtimeVars, nodeVars
  <1>2. mu'.queue = <<>> /\ mu.queue \in Seq(Attempts) /\ mu'.queue \in Seq(Attempts)
    BY <1>1, FreeIs DEF IExecInv, MutexInv, Holders
  <1>3. ~Dispatching \/ mu.pc = "next"
    BY Zenon DEF CycleFails, At, Dispatching, IExecInv, MutexInv, Dispatchers
  <1>4. ~Dispatching'
    BY <1>2, Zenon DEF Dispatching
  <1>5. RowsTame /\ SessionsTame /\ NodeInv' /\ CallInv' /\ AcceptedStays
    BY <1>1, SameRows, SameSessions, SameNode, SameCalls, SameCanon, Zenon DEF IExecInv
  <1>6. MutexInv'
    <2>1. mu' \in Holders'
      BY <1>1 DEF Free, Holders
    <2> QED
      BY <1>1, <2>1, FreeIs, Zenon DEF IExecInv, MutexInv
  <1>7. QueueTail
    BY <1>2, QueueMoves, Zenon
  <1>8. DistinctInv'
    <2>1. /\ active' \subseteq active /\ known' \in [Assignments -> AssignmentStates \cup {"unknown"}]
          /\ \A t \in active' : known'[AsgOf(t)] = "running"
      BY <1>1, Zenon DEF IExecInv, DistinctInv
    <2> QED
      BY <1>1, <1>2, <1>7, <2>1, DistinctKept, Zenon DEF IExecInv
  <1>9. EarlierInv'
    BY <1>1, <1>5, <1>7, EarlierKept, Zenon DEF IExecInv, RowsTame, SessionsTame
  <1>10. BarrierInv'
    BY <1>1, <1>5, <1>7, BarrierKept, Zenon DEF IExecInv
  <1>11. StepInv'
    BY <1>4, Zenon DEF StepInv
  <1>12. Supervised'
    BY <1>1, <1>3, Zenon DEF IExecInv, Supervised, Processes, At
  <1>13. LeasesAccounted'
    BY <1>1, <1>3, Zenon DEF IExecInv, LeasesAccounted, At
  <1>14. RunningSupervised'
    BY <1>1, <1>5, Zenon DEF IExecInv, RunningSupervised, Fenced, Current
  <1> QED
    BY <1>1, <1>5, <1>6, <1>8, <1>9, <1>10, <1>11, <1>12, <1>13, <1>14, Zenon
       DEF IExecInv, RowsTame, SessionsTame

-----------------------------------------------------------------------------
(* The world, and the daemon's shutdown.                                   *)

\* Nothing follows acceptance, so a move leaves what is accepted.
LEMMA MoveAccepts ==
  ASSUME NEW w \in DOMAIN canon,
         NEW to \in WorkPackageTargets(canon[w]) \cup (IF canon[w] = "review" THEN {"accepted"} ELSE {}),
         canon' = [canon EXCEPT ![w] = to]
  PROVE  AcceptedStays
  <1>1. canon[w] # "accepted"
    BY Zenon DEF WorkPackageTargets
  <1> QED
    BY <1>1, Zenon DEF AcceptedStays

\* A lease lapses, a worktree disappears, a work package moves.
LEMMA WorldStep ==
  ASSUME IExecInv, Lapse \/ ClearTree \/ Move
  PROVE  IExecInv' /\ UNCHANGED starts
  <1>1. UNCHANGED <<runtimeVars, memory, faults, setup, life, call, earlier, cut>>
    BY Zenon DEF Lapse, ClearTree, Move, CallVars
  <1>2. UNCHANGED <<active, known, mu, offer, starts>>
    BY <1>1, Zenon DEF memory, runtimeVars
  <1>3. SessionsTame /\ CallInv' /\ faults' \in Nat
    BY <1>1, SameSessions, SameCalls, Zenon DEF IExecInv, MutexInv
  <1>4. RowsTame /\ NodeInv' /\ held' \subseteq held /\ AcceptedStays
    <2>1. CASE Lapse
      <3>1. AcceptedStays
        BY <2>1, SameCanon, Zenon DEF Lapse
      <3>2. CASE \E a \in Assignments : ctl' = LapseRows(a) /\ UNCHANGED nodeVars
        BY <1>1, <3>1, <3>2, LapseTame, SameNode, Zenon DEF IExecInv
      <3>3. CASE \E t \in Attempts : ExpireLease(t) /\ UNCHANGED ctl
        <4>1. RowsTame
          BY <3>3, SameRows, Zenon DEF IExecInv
        <4>2. NodeInv' /\ held' \subseteq held
          BY <1>1, <3>3, Zenon DEF IExecInv, NodeInv, ExpireLease
        <4> QED
          BY <3>1, <4>1, <4>2, Zenon
      <3> QED
        BY <2>1, <3>2, <3>3, Zenon DEF Lapse
    <2>2. CASE ClearTree
      BY <1>1, <2>2, SameRows, SameNode, SameCanon, Zenon DEF IExecInv, ClearTree
    <2>3. CASE Move
      <3>1. RowsTame /\ NodeInv' /\ held' \subseteq held
        BY <1>1, <2>3, SameRows, SameNode, Zenon DEF IExecInv, Move, CallVars
      <3>2. AcceptedStays
        BY <2>3, MoveAccepts, Zenon DEF Move
      <3> QED
        BY <3>1, <3>2, Zenon
    <2> QED
      BY <2>1, <2>2, <2>3, Zenon
  <1> QED
    BY <1>1, <1>2, <1>3, <1>4, QuietStep, Zenon

\* Shutdown marks the scheduler.
LEMMA ShutdownMarkStep ==
  ASSUME IExecInv, ShutdownMark
  PROVE  IExecInv' /\ UNCHANGED starts
  <1>1. /\ UNCHANGED <<ctl, nodeVars, runtimeVars, active, known, mu, offer, faults, setup, canon, call,
                       earlier, cut>>
        /\ life = "up" /\ life' = "closing"
    BY Zenon DEF ShutdownMark
  <1>2. RowsTame /\ AcceptedStays /\ CallInv'
    BY <1>1, SameRows, SameCanon, SameCalls, Zenon DEF IExecInv
  <1>3. NodeInv' /\ held' \subseteq held
    BY <1>1, Zenon DEF IExecInv, NodeInv, nodeVars
  <1>4. UNCHANGED <<sess, disk, proc, starts>>
    BY <1>1, Zenon DEF runtimeVars
  <1>5. SessionsTame
    <2>1. SessionInv'
      BY <1>1, <1>4, Zenon DEF IExecInv, SessionInv, SessionOf
    <2> QED
      BY <1>4, <2>1, Zenon DEF SessionsTame, FilesStay, NonePrepared, NoneStarted
  <1>6. MutexInv'
    <2>1. mu' \in Holders'
      BY <1>1, Zenon DEF IExecInv, MutexInv, Holders
    <2> QED
      BY <1>1, <1>4, <2>1, Zenon DEF IExecInv, MutexInv
  <1>7. SamePlace /\ GoesOn
    BY <1>1, Zenon DEF SamePlace, GoesOn
  <1> QED
    BY <1>1, <1>2, <1>3, <1>4, <1>5, <1>6, <1>7, FrameStep

-----------------------------------------------------------------------------
(* Supervision ends.                                                       *)

\* Without a failed call, a row that said running and is told to end has ended.
LEMMA TransitionEnds ==
  ASSUME IExecInv, NEW t \in Attempts, NEW target \in {"failed", "canceled", "collecting"},
         NEW ok \in BOOLEAN, Transition(t, target, ok)
  PROVE  /\ RowsTame /\ faults' \in Nat /\ (faults' = 0 => faults = 0)
         /\ faults' = 0 /\ mu.ctx => ~(Fenced(t)' /\ ctl'[AsgOf(t)].state = "running")
  <1>1. Call(TransitionOk(t, target), ok) /\ ctl' = IF ok THEN TransitionRows(t, target) ELSE ctl
    BY Zenon DEF Transition
  <1>2. /\ faults' \in Nat /\ (faults' = 0 => faults = 0) /\ (ok => TransitionOk(t, target))
        /\ (faults' = 0 /\ TransitionOk(t, target) /\ mu.ctx => ok)
    BY <1>1, CallSteps, Zenon DEF IExecInv
  <1>3. AsgOf(t) \in Assignments
    BY AttemptIs, Zenon
  <1>4. CASE ok
    <2>1. TransitionOk(t, target) /\ ctl' = TransitionRows(t, target)
      BY <1>1, <1>2, <1>4, Zenon
    <2>2. RowsTame /\ ctl'[AsgOf(t)].state = target
      BY <1>3, <2>1, TransitionRow, Zenon DEF IExecInv, RowsTame
    <2> QED
      BY <1>2, <2>2, Zenon
  <1>5. CASE ~ok
    <2>1. UNCHANGED ctl
      BY <1>1, <1>5, Zenon
    <2>2. RowsTame
      BY <2>1, SameRows, Zenon DEF IExecInv
    <2>3. ASSUME faults' = 0, mu.ctx, Fenced(t)', ctl'[AsgOf(t)].state = "running" PROVE FALSE
      <3>1. Fenced(t) /\ ctl[AsgOf(t)].state = "running"
        BY <2>1, <2>3, Zenon DEF Fenced, Current
      <3>2. TransitionOk(t, target)
        BY <3>1, Zenon DEF TransitionOk, ReduceAssignmentState, PermittedTargets
      <3> QED
        BY <1>2, <1>5, <2>3, <3>2, Zenon
    <2> QED
      BY <1>2, <2>2, <2>3, Zenon
  <1> QED
    BY <1>4, <1>5, Zenon

\* A release of the compute lease, by a caller whose context may be over.
LEMMA ReleaseIs ==
  ASSUME MutexInv, NodeInv, UNCHANGED life, NEW t \in Attempts, Release(t)
  PROVE  NodeInv' /\ held' \subseteq held /\ (~cut => t \notin held')
  <1>1. CASE mu.ctx
    BY <1>1, Zenon DEF Release, ReleaseLease, NodeInv
  <1>2. CASE ~mu.ctx
    BY <1>2, SameNode, Zenon DEF Release, MutexInv
  <1> QED
    BY <1>1, <1>2, Zenon

\* The attempt a loop is at is given up.
LEMMA SettledStep ==
  ASSUME IExecInv, mu.op # "none", mu.todo # {}, NEW t, t = Oldest(mu.todo),
         mu' \in Holders', mu'.op = mu.op, mu'.todo = mu.todo \ {t}, mu'.queue = mu.queue, mu'.ctx = mu.ctx,
         mu'.pc \notin {"failed", "settle"},
         UNCHANGED <<runtimeVars, offer, outside>>,
         RowsTame, faults' \in Nat, faults' = 0 => faults = 0,
         faults' = 0 /\ mu.ctx => ~(Fenced(t)' /\ ctl'[AsgOf(t)].state = "running"),
         Release(t), active' = active \ {t},
         known' = known \/ \E state \in {"failed", "canceled", "collecting"} : Remember(t, state),
         ~cut => proc[t] = "none" \/ sess[t].cancel
  PROVE  IExecInv'
  <1>1. UNCHANGED <<setup, canon, life, call, earlier, cut>> /\ UNCHANGED <<sess, disk, proc>>
    BY Zenon DEF outside, runtimeVars
  <1>2. mu.queue = <<>> /\ mu'.queue = <<>> /\ life # "down"
    BY FreeIs, Zenon DEF IExecInv, MutexInv
  <1>3. t \in mu.todo /\ t \in active /\ t \in Attempts /\ AsgOf(t) \in Assignments
    BY LoopAt, AttemptIs, Zenon DEF IExecInv
  <1>4. MutexInv'
    BY <1>1, <1>2, Zenon DEF IExecInv, MutexInv
  <1>5. SessionsTame /\ AcceptedStays /\ CallInv'
    BY <1>1, SameSessions, SameCanon, SameCalls, Zenon DEF IExecInv
  <1>6. NodeInv' /\ held' \subseteq held /\ (~cut => t \notin held')
    BY <1>1, <1>3, ReleaseIs, Zenon DEF IExecInv
  <1>7. SamePlace /\ ~Dispatching /\ ~Dispatching'
    BY <1>2, Zenon DEF SamePlace, Dispatching
  <1>8. mu.queue \in Seq(Attempts) /\ mu'.queue \in Seq(Attempts)
    BY <1>2
  <1>9. QueueTail
    BY <1>8, QueueMoves, Zenon
  <1>10. /\ known' \in [Assignments -> AssignmentStates \cup {"unknown"}]
         /\ \A a \in Assignments : known'[a] = known[a] \/ (a = AsgOf(t) /\ known'[a] \notin {"unknown", "planned"})
    <2>1. CASE known' = known
      BY <2>1, Zenon DEF IExecInv, DistinctInv
    <2>2. CASE \E state \in {"failed", "canceled", "collecting"} : Remember(t, state)
      BY <1>3, <2>2, Zenon DEF IExecInv, DistinctInv, Remember, AssignmentStates, LiveStates, FencedStates,
                        TerminalStates, RetryableStates
    <2> QED
      BY <2>1, <2>2, Zenon
  <1>11. ASSUME NEW s \in active' PROVE known'[AsgOf(s)] = "running"
    <2>1. s \in active /\ s # t /\ AsgOf(s) \in Assignments
      BY <1>11, AttemptIs, Zenon DEF IExecInv, DistinctInv
    <2>2. AsgOf(s) # AsgOf(t) /\ known[AsgOf(s)] = "running"
      BY <1>3, <2>1, Zenon DEF IExecInv, DistinctInv
    <2> QED
      BY <1>10, <2>1, <2>2, Zenon
  <1>12. DistinctInv'
    BY <1>1, <1>8, <1>9, <1>10, <1>11, DistinctKept, Zenon DEF IExecInv
  <1>13. EarlierInv'
    BY <1>1, <1>5, <1>9, <1>10, EarlierKept, Zenon DEF IExecInv, RowsTame, SessionsTame
  <1>14. StepInv'
    BY <1>7, Zenon DEF StepInv
  <1>15. BarrierInv'
    BY <1>1, <1>5, <1>9, BarrierKept, Zenon DEF IExecInv
  <1>16. Supervised'
    <2> SUFFICES ASSUME ~cut', NEW s \in Processes', ~sess'[s].cancel PROVE s \in active'
      BY Zenon DEF Supervised
    <2>1. s \in Processes /\ proc[s] # "none" /\ ~sess[s].cancel
      BY <1>1, Zenon DEF Processes
    <2>2. s \in active
      BY <1>1, <1>2, <1>7, <2>1, Zenon DEF IExecInv, Supervised
    <2> QED
      BY <1>1, <2>1, <2>2, Zenon
  <1>17. LeasesAccounted'
    BY <1>1, <1>6, <1>7, Zenon DEF IExecInv, LeasesAccounted
  <1>18. RunningSupervised'
    <2> SUFFICES ASSUME ~cut', faults' = 0, NEW s \in Attempts \ earlier',
                        Fenced(s)', ctl'[AsgOf(s)].state = "running"
                 PROVE  s \in active'
      BY Zenon DEF RunningSupervised
    <2>1. s \in active
      BY <1>1, <1>2, Zenon DEF IExecInv, RunningSupervised, RowsTame, RowsRun
    <2>2. mu.ctx
      BY <1>1, Zenon DEF IExecInv, MutexInv
    <2> QED
      BY <2>1, <2>2, Zenon
  <1> QED
    BY <1>4, <1>5, <1>6, <1>12, <1>13, <1>14, <1>15, <1>16, <1>17, <1>18, Zenon DEF IExecInv, RowsTame, SessionsTame

\* The attempt a loop is at stays supervised.
LEMMA PassedStep ==
  ASSUME IExecInv, mu.op # "none", mu.todo # {}, NEW t, t = Oldest(mu.todo),
         mu' \in Holders', mu'.op = mu.op, mu'.todo = mu.todo \ {t}, mu'.queue = mu.queue, mu'.ctx = mu.ctx,
         mu'.pc \notin {"failed", "settle"},
         UNCHANGED <<nodeVars, runtimeVars, active, known, offer, outside>>,
         RowsTame, faults' \in Nat, faults' = 0 => faults = 0
  PROVE  IExecInv'
  <1>1. UNCHANGED <<setup, canon, life, call, earlier, cut>>
    BY Zenon DEF outside
  <1>2. mu.queue = <<>> /\ life # "down"
    BY FreeIs, Zenon DEF IExecInv, MutexInv
  <1>3. MutexInv'
    BY <1>1, <1>2, Zenon DEF IExecInv, MutexInv
  <1>4. SessionsTame /\ NodeInv' /\ held' \subseteq held /\ AcceptedStays /\ CallInv'
    BY <1>1, SameSessions, SameNode, SameCanon, SameCalls, Zenon DEF IExecInv
  <1>5. SamePlace /\ GoesOn
    BY <1>1, <1>2, Zenon DEF SamePlace, GoesOn
  <1> QED
    BY <1>1, <1>3, <1>4, <1>5, FrameStep, Zenon

\* The loop goes on to its next attempt.
LEMMA NextActiveIs ==
  ASSUME MutexInv, NextActive
  PROVE  /\ mu' \in Holders' /\ mu'.op = mu.op /\ mu'.todo = mu.todo \ {Oldest(mu.todo)}
         /\ mu'.queue = mu.queue /\ mu'.ctx = mu.ctx /\ mu'.pc = "renew"
  BY Zenon DEF MutexInv, NextActive, Holders

\* An attempt whose lease could not be renewed is given up.
LEMMA LostFailedStep ==
  ASSUME IExecInv, LostFailed, UNCHANGED outside
  PROVE  IExecInv' /\ UNCHANGED starts
  <1>1. PICK t : t = Oldest(mu.todo)
    BY Zenon
  <1>2. /\ mu.op # "none" /\ mu.todo # {} /\ mu.pc = "failed" /\ NextActive
        /\ UNCHANGED <<runtimeVars, offer>> /\ Release(t) /\ active' = active \ {t}
    BY <1>1, Zenon DEF LostFailed, Reaping, At
  <1>3. PICK ok \in BOOLEAN : /\ Transition(t, "failed", ok)
                              /\ IF ok THEN Remember(t, "failed") ELSE UNCHANGED known
    BY <1>1, Zenon DEF LostFailed
  <1>4. t \in Attempts
    BY <1>1, <1>2, LoopAt, Zenon DEF IExecInv
  <1>5. /\ RowsTame /\ faults' \in Nat /\ (faults' = 0 => faults = 0)
        /\ faults' = 0 /\ mu.ctx => ~(Fenced(t)' /\ ctl'[AsgOf(t)].state = "running")
    BY <1>3, <1>4, TransitionEnds, Zenon
  <1>6. known' = known \/ \E state \in {"failed", "canceled", "collecting"} : Remember(t, state)
    BY <1>3, Zenon
  <1>7. ~cut => proc[t] = "none" \/ sess[t].cancel
    BY <1>1, <1>2, Zenon DEF IExecInv, MutexInv
  <1>8. UNCHANGED starts
    BY <1>2, Zenon DEF runtimeVars
  <1> QED
    BY <1>1, <1>2, <1>5, <1>6, <1>7, <1>8, NextActiveIs, SettledStep, Zenon DEF IExecInv

\* A canceled attempt is given up.
LEMMA SettleStep ==
  ASSUME IExecInv, Settle, UNCHANGED outside
  PROVE  IExecInv' /\ UNCHANGED starts
  <1>1. PICK t : t = Oldest(mu.todo)
    BY Zenon
  <1>2. /\ mu.op # "none" /\ mu.todo # {} /\ mu.pc = "settle" /\ UNCHANGED <<runtimeVars, offer>>
    BY <1>1, Zenon DEF Settle, Stopping, At
  <1>3. PICK ok \in BOOLEAN :
          /\ Transition(t, "canceled", ok) /\ Remember(t, "canceled") /\ Release(t) /\ active' = active \ {t}
          /\ mu' = [mu EXCEPT !.pc = "stop", !.todo = @ \ {t}, !.err = @ \/ ~ok]
    BY <1>1, Zenon DEF Settle
  <1>4. t \in Attempts
    BY <1>1, <1>2, LoopAt, Zenon DEF IExecInv
  <1>5. /\ RowsTame /\ faults' \in Nat /\ (faults' = 0 => faults = 0)
        /\ faults' = 0 /\ mu.ctx => ~(Fenced(t)' /\ ctl'[AsgOf(t)].state = "running")
    BY <1>3, <1>4, TransitionEnds, Zenon
  <1>6. known' = known \/ \E state \in {"failed", "canceled", "collecting"} : Remember(t, state)
    BY <1>3, Zenon
  <1>7. ~cut => proc[t] = "none" \/ sess[t].cancel
    BY <1>1, <1>2, Zenon DEF IExecInv, MutexInv
  <1>8. UNCHANGED starts
    BY <1>2, Zenon DEF runtimeVars
  <1>9. /\ mu' \in Holders' /\ mu'.op = mu.op /\ mu'.todo = mu.todo \ {t}
        /\ mu'.queue = mu.queue /\ mu'.ctx = mu.ctx /\ mu'.pc = "stop"
    BY <1>3, Zenon DEF IExecInv, MutexInv, Holders
  <1> QED
    BY <1>1, <1>2, <1>3, <1>5, <1>6, <1>7, <1>8, <1>9, SettledStep

\* A session that is over has no child that was not told to stop.
LEMMA ObserveStep ==
  ASSUME IExecInv, Observe, UNCHANGED outside
  PROVE  IExecInv' /\ UNCHANGED starts
  <1>1. PICK t : t = Oldest(mu.todo)
    BY Zenon
  <1>2. PICK target : target = Outcome(sess[t].status)
    BY Zenon
  <1>3. /\ mu.op # "none" /\ mu.todo # {} /\ NextActive /\ UNCHANGED <<runtimeVars, offer>>
    BY Zenon DEF Observe, Reaping
  <1>4. t \in Attempts
    BY <1>1, <1>3, LoopAt, Zenon DEF IExecInv
  <1>5. /\ mu' \in Holders' /\ mu'.op = mu.op /\ mu'.todo = mu.todo \ {t}
        /\ mu'.queue = mu.queue /\ mu'.ctx = mu.ctx /\ mu'.pc = "renew"
    BY <1>1, <1>3, NextActiveIs, Zenon DEF IExecInv
  <1>6. UNCHANGED starts /\ UNCHANGED <<setup, canon, life, call, earlier, cut>>
    BY <1>3, Zenon DEF runtimeVars, outside
  <1>7. CASE target # "none"
    <2>1. target \in {"collecting", "failed", "canceled"} /\ sess[t].status \notin {"none", "prepared", "running"}
      BY <1>2, <1>7, Zenon DEF Outcome
    <2>2. PICK ok \in BOOLEAN :
             /\ Transition(t, target, ok)
             /\ IF ok THEN Release(t) /\ active' = active \ {t} /\ Remember(t, target)
                ELSE UNCHANGED <<nodeVars, active, known>>
      BY <1>1, <1>2, <1>7, Zenon DEF Observe
    <2>3. /\ RowsTame /\ faults' \in Nat /\ (faults' = 0 => faults = 0)
          /\ faults' = 0 /\ mu.ctx => ~(Fenced(t)' /\ ctl'[AsgOf(t)].state = "running")
      BY <1>4, <2>1, <2>2, TransitionEnds, Zenon
    <2>4. CASE ok
      <3>1. proc[t] = "none" \/ sess[t].cancel
        BY <1>4, <2>1, SessionShape, Zenon DEF IExecInv, SessionOf
      <3>2. known' = known \/ \E state \in {"failed", "canceled", "collecting"} : Remember(t, state)
        BY <2>1, <2>2, <2>4, Zenon
      <3> QED
        BY <1>1, <1>3, <1>5, <1>6, <2>2, <2>3, <2>4, <3>1, <3>2, SettledStep, Zenon
    <2>5. CASE ~ok
      BY <1>1, <1>3, <1>5, <1>6, <2>2, <2>3, <2>5, PassedStep, Zenon
    <2> QED
      BY <2>4, <2>5, Zenon
  <1>8. CASE target = "none"
    <2>1. UNCHANGED <<ctl, nodeVars, active, known, faults>>
      BY <1>1, <1>2, <1>8, Zenon DEF Observe
    <2>2. RowsTame /\ faults' \in Nat
      BY <2>1, SameRows, Zenon DEF IExecInv, MutexInv
    <2> QED
      BY <1>1, <1>3, <1>5, <1>6, <2>1, <2>2, PassedStep, Zenon
  <1> QED
    BY <1>7, <1>8, Zenon

-----------------------------------------------------------------------------
(* A dispatch.                                                             *)

\* The request a dispatch is at.
LEMMA DispatchAt ==
  ASSUME IExecInv, Dispatching
  PROVE  /\ mu.queue \in Seq(Attempts) /\ mu.queue # <<>> /\ 1 \in DOMAIN mu.queue /\ Request = mu.queue[1]
         /\ Request \in Attempts /\ AsgOf(Request) \in Assignments
         /\ mu.op = "cycle" /\ mu.todo = {} /\ life # "down"
         /\ \A t \in active : AsgOf(t) # AsgOf(Request)
  <1>1. mu.queue \in Seq(Attempts) /\ mu.queue # <<>> /\ mu.op = "cycle" /\ mu.todo = {} /\ life # "down"
    BY FreeIs, Zenon DEF IExecInv, MutexInv, Holders, Dispatching
  <1>2. Len(mu.queue) \in Nat /\ Len(mu.queue) # 0 /\ DOMAIN mu.queue = 1 .. Len(mu.queue)
    BY <1>1
  <1>3. 1 \in DOMAIN mu.queue /\ Request = mu.queue[1] /\ Request \in Attempts
    BY <1>1, <1>2 DEF Request
  <1>4. \A t \in active : AsgOf(t) # AsgOf(Request)
    BY <1>3, Zenon DEF IExecInv, DistinctInv
  <1> QED
    BY <1>1, <1>3, <1>4, AttemptIs, Zenon

\* What the scheduler remembers changes for the request alone.
LEMMA RequestKnown ==
  ASSUME IExecInv, Dispatching,
         known' = known \/ \E state \in AssignmentStates : Remember(Request, state)
  PROVE  /\ known' \in [Assignments -> AssignmentStates \cup {"unknown"}]
         /\ \A t \in active : known'[AsgOf(t)] = "running"
         /\ \A a \in Assignments : known'[a] \in {"unknown", "planned"} =>
               \/ known[a] \in {"unknown", "planned"}
               \/ \E i \in DOMAIN mu.queue : AsgOf(mu.queue[i]) = a
  <1>1. /\ known' \in [Assignments -> AssignmentStates \cup {"unknown"}]
        /\ \A a \in Assignments \ {AsgOf(Request)} : known'[a] = known[a]
    <2>1. CASE known' = known
      BY <2>1, Zenon DEF IExecInv, DistinctInv
    <2>2. CASE \E state \in AssignmentStates : Remember(Request, state)
      BY <2>2, DispatchAt, Zenon DEF IExecInv, DistinctInv, Remember
    <2> QED
      BY <2>1, <2>2, Zenon
  <1>2. ASSUME NEW t \in active PROVE known'[AsgOf(t)] = "running"
    <2>1. AsgOf(t) \in Assignments \ {AsgOf(Request)} /\ known[AsgOf(t)] = "running"
      BY DispatchAt, AttemptIs, Zenon DEF IExecInv, DistinctInv
    <2> QED
      BY <1>1, <2>1, Zenon
  <1>3. \E i \in DOMAIN mu.queue : AsgOf(mu.queue[i]) = AsgOf(Request)
    BY DispatchAt, Zenon
  <1> QED
    BY <1>1, <1>2, <1>3, Zenon

\* The parts of the invariant that are about the queue and the mutex.
LEMMA DispatchFrame ==
  ASSUME IExecInv, Dispatching, mu' \in Holders', mu'.op = mu.op, mu'.todo = mu.todo, mu'.ctx = mu.ctx,
         mu'.pc \in Dispatchers, mu'.queue = mu.queue \/ mu'.queue = Tail(mu.queue),
         UNCHANGED <<active, offer, outside>>, faults' \in Nat,
         known' = known \/ \E state \in AssignmentStates : Remember(Request, state),
         RowsMore, BindingsApart'
  PROVE  CallInv' /\ MutexInv' /\ DistinctInv' /\ EarlierInv' /\ BarrierInv'
  <1>1. UNCHANGED <<setup, canon, life, call, earlier, cut>>
    BY Zenon DEF outside
  <1>2. CallInv' /\ AcceptedStays
    BY <1>1, SameCalls, SameCanon, Zenon DEF IExecInv
  <1>3. mu'.queue \in Seq(Attempts) /\ QueueTail
    BY DispatchAt, QueueMoves, Zenon DEF Holders
  <1>4. MutexInv'
    BY <1>1, DispatchAt, Zenon DEF IExecInv, MutexInv, Dispatchers
  <1>5. DistinctInv'
    BY <1>1, <1>3, DispatchAt, RequestKnown, DistinctKept, Zenon DEF IExecInv
  <1>6. EarlierInv'
    BY <1>1, <1>3, RequestKnown, EarlierMoves, Zenon DEF IExecInv
  <1>7. BarrierInv'
    BY <1>1, <1>2, <1>3, BarrierKept, Zenon DEF IExecInv
  <1> QED
    BY <1>2, <1>4, <1>5, <1>6, <1>7, Zenon

\* The dispatch of a request comes to its next call.
LEMMA AdvanceStep ==
  ASSUME IExecInv, Dispatching, mu' \in Holders', mu'.op = mu.op, mu'.todo = mu.todo, mu'.ctx = mu.ctx,
         mu'.pc \in Dispatchers, mu'.queue = mu.queue,
         UNCHANGED <<active, offer, outside>>, faults' \in Nat, faults' = 0 => faults = 0,
         known' = known \/ \E state \in AssignmentStates : Remember(Request, state),
         RowsInv', RowsMore, RowsRun, BindingsApart', SessionInv', FilesStay, NodeInv',
         mu'.pc = "bind" => disk'[Request] # "none",
         mu'.pc = "start" => Recorded("prepare", Request)',
         mu.pc # "running",
         \A t \in Attempts : proc'[t] # "none" /\ ~sess'[t].cancel =>
            \/ proc[t] # "none" /\ ~sess[t].cancel
            \/ t = Request /\ mu'.pc = "running",
         held' \subseteq held \cup {Request},
         mu'.pc \in {"next", "claim"} => mu.pc \in {"next", "claim"} /\ held' \subseteq held
  PROVE  IExecInv'
  <1>1. UNCHANGED <<setup, canon, life, call, earlier, cut>>
    BY Zenon DEF outside
  <1>2. CallInv' /\ MutexInv' /\ DistinctInv' /\ EarlierInv' /\ BarrierInv'
    BY DispatchFrame, Zenon
  <1>3. Dispatching' /\ Request' = Request
    BY Zenon DEF Dispatching, Request
  <1>4. StepInv'
    BY <1>3, Zenon DEF StepInv
  <1>5. Supervised'
    <2> SUFFICES ASSUME ~cut', NEW s \in Processes', ~sess'[s].cancel
                 PROVE  s \in active' \/ (Dispatching' /\ At("running")' /\ Request' = s)
      BY Zenon DEF Supervised
    <2>1. s \in Attempts /\ proc'[s] # "none"
      BY Zenon DEF Processes, SessionInv
    <2>2. CASE s = Request /\ mu'.pc = "running"
      BY <1>3, <2>2, Zenon DEF At
    <2>3. CASE proc[s] # "none" /\ ~sess[s].cancel
      <3>1. s \in Processes
        BY <2>1, <2>3, Zenon DEF Processes, IExecInv, SessionInv
      <3>2. s \in active
        BY <1>1, <2>3, <3>1, DispatchAt, Zenon DEF IExecInv, Supervised, At
      <3> QED
        BY <3>2, Zenon
    <2> QED
      BY <2>1, <2>2, <2>3, Zenon
  <1>6. LeasesAccounted'
    <2> SUFFICES ASSUME ~cut', NEW s \in held'
                 PROVE  s \in active' \/ (Dispatching' /\ ~At("next")' /\ ~At("claim")' /\ Request' = s)
      BY Zenon DEF LeasesAccounted
    <2>1. s \in held => s \in active \/ (~At("next") /\ ~At("claim") /\ Request = s)
      BY <1>1, Zenon DEF IExecInv, LeasesAccounted
    <2> QED
      BY <1>3, <2>1, Zenon DEF At
  <1>7. RunningSupervised'
    <2> SUFFICES ASSUME ~cut', faults' = 0, NEW s \in Attempts \ earlier',
                        Fenced(s)', ctl'[AsgOf(s)].state = "running"
                 PROVE  s \in active'
      BY Zenon DEF RunningSupervised
    <2> QED
      BY <1>1, DispatchAt, Zenon DEF IExecInv, RunningSupervised, RowsRun
  <1> QED
    BY <1>2, <1>4, <1>5, <1>6, <1>7, Zenon DEF IExecInv

\* The dispatch of a request is over, with nothing left of it that is not supervised.
LEMMA NextRequestStep ==
  ASSUME IExecInv, Dispatching, NextRequest,
         UNCHANGED <<active, offer, outside>>, faults' \in Nat, faults' = 0 => faults = 0,
         known' = known \/ \E state \in AssignmentStates : Remember(Request, state),
         RowsTame, SessionsTame, NodeInv', held' \subseteq held,
         mu.pc = "running" /\ ~cut => proc'[Request] = "none" \/ sess'[Request].cancel,
         ~cut => Request \notin held'
  PROVE  IExecInv'
  <1>1. UNCHANGED <<setup, canon, life, call, earlier, cut>>
    BY Zenon DEF outside
  <1>2. BindingsApart'
    BY <1>1, BindingsKept, Zenon DEF IExecInv, RowsTame, SessionsTame
  <1>3. /\ mu' \in Holders' /\ mu'.op = mu.op /\ mu'.todo = mu.todo /\ mu'.ctx = mu.ctx /\ mu'.pc = "next"
        /\ mu'.queue = Tail(mu.queue)
    <2>1. Tail(mu.queue) \in Seq(Attempts)
      BY DispatchAt
    <2> QED
      BY <2>1, Zenon DEF NextRequest, IExecInv, MutexInv, Holders, Dispatchers
  <1>4. CallInv' /\ MutexInv' /\ DistinctInv' /\ EarlierInv' /\ BarrierInv'
    BY <1>2, <1>3, DispatchFrame, Zenon DEF RowsTame, Dispatchers
  <1>5. StepInv'
    BY <1>3, Zenon DEF StepInv
  <1>6. Supervised'
    <2> SUFFICES ASSUME ~cut', NEW s \in Processes', ~sess'[s].cancel PROVE s \in active'
      BY Zenon DEF Supervised
    <2>1. s \in Attempts /\ proc'[s] # "none"
      BY Zenon DEF Processes, SessionsTame, SessionInv
    <2>2. proc[s] # "none" /\ ~sess[s].cancel
      BY <2>1, Zenon DEF SessionsTame, NoneStarted
    <2>3. s \in Processes
      BY <2>1, <2>2, Zenon DEF Processes, IExecInv, SessionInv
    <2>4. s \in active \/ (mu.pc = "running" /\ Request = s)
      BY <1>1, <2>2, <2>3, DispatchAt, Zenon DEF IExecInv, Supervised, At
    <2> QED
      BY <1>1, <2>1, <2>4, Zenon
  <1>7. LeasesAccounted'
    BY <1>1, Zenon DEF IExecInv, LeasesAccounted
  <1>8. RunningSupervised'
    <2> SUFFICES ASSUME ~cut', faults' = 0, NEW s \in Attempts \ earlier',
                        Fenced(s)', ctl'[AsgOf(s)].state = "running"
                 PROVE  s \in active'
      BY Zenon DEF RunningSupervised
    <2> QED
      BY <1>1, DispatchAt, Zenon DEF IExecInv, RunningSupervised, RowsTame, RowsRun
  <1> QED
    BY <1>4, <1>5, <1>6, <1>7, <1>8, Zenon DEF IExecInv, RowsTame, SessionsTame

\* A request that has not come past its claim holds no lease.
LEMMA Unleased ==
  ASSUME IExecInv, Dispatching, mu.pc \in {"next", "claim"}
  PROVE  ~cut => Request \notin held
  BY DispatchAt, Zenon DEF IExecInv, LeasesAccounted, At

\* Selection and plan of the request at the head of the queue.
LEMMA PlanStep ==
  ASSUME IExecInv, Plan, UNCHANGED outside
  PROVE  IExecInv' /\ UNCHANGED starts
  <1>1. /\ Dispatching /\ mu.pc = "next" /\ UNCHANGED <<nodeVars, runtimeVars, active, offer>>
    BY Zenon DEF Plan, At
  <1>2. UNCHANGED <<life, earlier, cut>> /\ UNCHANGED <<starts, held>>
    BY <1>1, Zenon DEF outside, runtimeVars, nodeVars
  <1>3. SessionsTame /\ NodeInv'
    BY <1>1, <1>2, SameSessions, SameNode, Zenon DEF IExecInv
  <1>4. ASSUME NextRequest, UNCHANGED <<ctl, known>>, faults' \in Nat, faults' = 0 => faults = 0
        PROVE  IExecInv'
    <2>1. RowsTame
      BY <1>4, SameRows, Zenon DEF IExecInv
    <2> QED
      BY <1>1, <1>2, <1>3, <1>4, <2>1, Unleased, NextRequestStep, Zenon
  <1>5. CASE NextRequest /\ UNCHANGED <<ctl, known, faults>>
    BY <1>2, <1>4, <1>5, Zenon DEF IExecInv, MutexInv
  <1>6. ASSUME NEW ok \in BOOLEAN, Call(PlanOk(Request, Rivals(Request)), ok),
               IF ok THEN /\ ctl' = PlanRows(Request)
                          /\ Remember(Request, "planned")
                          /\ mu' = [mu EXCEPT !.pc = "claim", !.pick = Pick(Selected(SelectionRequest))]
               ELSE NextRequest /\ UNCHANGED <<ctl, known>>
        PROVE  IExecInv'
    <2>1. faults' \in Nat /\ (faults' = 0 => faults = 0)
      BY <1>6, CallSteps, Zenon DEF IExecInv
    <2>2. CASE ok
      <3>1. PICK pick : mu' = [mu EXCEPT !.pc = "claim", !.pick = pick]
        BY <1>6, <2>2, Zenon
      <3>2. /\ mu' \in Holders' /\ mu'.op = mu.op /\ mu'.todo = mu.todo /\ mu'.ctx = mu.ctx
            /\ mu'.pc = "claim" /\ mu'.queue = mu.queue
        BY <3>1, Zenon DEF IExecInv, MutexInv, Holders, Dispatchers
      <3>3. Request \in Attempts
        BY <1>1, DispatchAt, Zenon
      <3>4. RowsTame
        BY <1>6, <2>2, <3>3, PlanTame, Zenon DEF IExecInv
      <3>5. BindingsApart'
        BY <1>2, <1>3, <3>4, BindingsKept, Zenon DEF IExecInv, RowsTame, SessionsTame
      <3>6. \E state \in AssignmentStates : Remember(Request, state)
        BY <1>6, <2>2, Zenon DEF AssignmentStates, LiveStates
      <3>7. \A t \in Attempts : proc'[t] # "none" /\ ~sess'[t].cancel => proc[t] # "none" /\ ~sess[t].cancel
        BY <1>3, Zenon DEF SessionsTame, NoneStarted
      <3> QED
        BY <1>1, <1>2, <1>3, <2>1, <3>2, <3>4, <3>5, <3>6, <3>7, AdvanceStep, Zenon
           DEF RowsTame, SessionsTame, Dispatchers
    <2>3. CASE ~ok
      BY <1>4, <1>6, <2>1, <2>3, Zenon
    <2> QED
      BY <2>2, <2>3, Zenon
  <1> QED
    BY <1>2, <1>5, <1>6, Zenon DEF Plan

\* The compute lease and the claim.
LEMMA ClaimStep ==
  ASSUME IExecInv, Claim, UNCHANGED outside
  PROVE  IExecInv' /\ UNCHANGED starts
  <1>1. /\ Dispatching /\ mu.pc = "claim" /\ UNCHANGED <<runtimeVars, active, known, offer>>
    BY Zenon DEF Claim, At
  <1>2. UNCHANGED <<life, earlier, cut>> /\ UNCHANGED starts
    BY <1>1, Zenon DEF outside, runtimeVars
  <1>3. SessionsTame /\ Request \in Attempts /\ life # "down"
    BY <1>1, <1>2, SameSessions, DispatchAt, Zenon DEF IExecInv
  <1>4. CASE NextRequest /\ UNCHANGED <<ctl, nodeVars, faults>>
    <2>1. RowsTame /\ NodeInv' /\ faults' \in Nat /\ held' = held
      BY <1>2, <1>4, SameRows, SameNode DEF IExecInv, MutexInv, nodeVars
    <2> QED
      BY <1>1, <1>2, <1>3, <1>4, <2>1, Unleased, NextRequestStep, Zenon
  <1>5. ASSUME NEW ok \in BOOLEAN, Call(ClaimOk(Request), ok),
               IF ok THEN AcquireLease(Request) /\ ctl' = ClaimRows(Request) /\ Goto("allocate")
               ELSE /\ held' = held \ {Request} /\ acquired' = acquired \cup {Request}
                    /\ NextRequest /\ UNCHANGED ctl
        PROVE  IExecInv'
    <2>1. faults' \in Nat /\ (faults' = 0 => faults = 0) /\ (ok => ClaimOk(Request))
      BY <1>5, CallSteps, Zenon DEF IExecInv
    <2>2. CASE ok
      <3>1. /\ mu' \in Holders' /\ mu'.op = mu.op /\ mu'.todo = mu.todo /\ mu'.ctx = mu.ctx
            /\ mu'.pc = "allocate" /\ mu'.queue = mu.queue
        BY <1>5, <2>2, GotoIs, Zenon DEF IExecInv, Dispatchers
      <3>2. RowsTame
        BY <1>3, <1>5, <2>1, <2>2, ClaimTame DEF IExecInv
      <3>3. BindingsApart'
        BY <1>2, <1>3, <3>2, BindingsKept DEF IExecInv, RowsTame, SessionsTame
      <3>4. NodeInv' /\ held' \subseteq held \cup {Request}
        BY <1>2, <1>3, <1>5, <2>2 DEF AcquireLease, NodeInv, IExecInv
      <3>5. \A t \in Attempts : proc'[t] # "none" /\ ~sess'[t].cancel => proc[t] # "none" /\ ~sess[t].cancel
        BY <1>3, Zenon DEF SessionsTame, NoneStarted
      <3> QED
        BY <1>1, <1>2, <1>3, <2>1, <3>1, <3>2, <3>3, <3>4, <3>5, AdvanceStep, Zenon
           DEF RowsTame, SessionsTame, Dispatchers
    <2>3. CASE ~ok
      <3>1. NextRequest /\ UNCHANGED ctl /\ held' = held \ {Request} /\ acquired' = acquired \cup {Request}
        BY <1>5, <2>3, Zenon
      <3>2. RowsTame
        BY <3>1, SameRows, Zenon DEF IExecInv
      <3>3. NodeInv' /\ held' \subseteq held /\ Request \notin held'
        BY <1>2, <1>3, <3>1, Zenon DEF IExecInv, NodeInv
      <3> QED
        BY <1>1, <1>2, <1>3, <2>1, <3>1, <3>2, <3>3, NextRequestStep
    <2> QED
      BY <2>2, <2>3, Zenon
  <1> QED
    BY <1>2, <1>4, <1>5, Zenon DEF Claim

=============================================================================
