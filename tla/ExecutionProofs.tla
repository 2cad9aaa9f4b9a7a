-------------------------- MODULE ExecutionProofs ---------------------------
(***************************************************************************)
(* Proofs about Execution for any assignments, graphs, policies and bounds *)
(* of trouble: ExecutionInv, RetryOnce, StartedOnce and DependencyBarrier. *)
(***************************************************************************)
EXTENDS ExecutionSteps

-----------------------------------------------------------------------------
(* A dispatch after its claim.                                             *)

\* A call of a dispatch that leaves the rows and the leases as they are.
LEMMA SessionStep ==
  ASSUME IExecInv, Dispatching, NEW p \in {"record", "prepare", "bind", "unclaim", "unstart"}, Goto(p),
         mu.pc \notin {"next", "claim", "running"},
         UNCHANGED <<ctl, nodeVars, active, known, offer, outside>>,
         faults' \in Nat, faults' = 0 => faults = 0,
         SessionInv', FilesStay, NoneStarted, BindingsApart',
         p = "bind" => disk'[Request] # "none"
  PROVE  IExecInv'
  <1>1. UNCHANGED <<life, earlier, cut>>
    BY Zenon DEF outside
  <1>2. /\ mu' \in Holders' /\ mu'.op = mu.op /\ mu'.todo = mu.todo /\ mu'.ctx = mu.ctx
        /\ mu'.pc = p /\ mu'.queue = mu.queue
    BY GotoIs, Zenon DEF IExecInv, Dispatchers
  <1>3. RowsTame /\ NodeInv' /\ held' \subseteq held
    BY <1>1, SameRows, SameNode, Zenon DEF IExecInv
  <1>4. \A t \in Attempts : proc'[t] # "none" /\ ~sess'[t].cancel => proc[t] # "none" /\ ~sess[t].cancel
    BY Zenon DEF NoneStarted
  <1> QED
    BY <1>1, <1>2, <1>3, <1>4, AdvanceStep, Zenon DEF RowsTame, Dispatchers

\* Allocate's two steps: the worktree, and its record.
LEMMA TreeStep ==
  ASSUME IExecInv, Allocate \/ RecordTree, UNCHANGED outside
  PROVE  IExecInv' /\ UNCHANGED starts
  <1>1. /\ Dispatching /\ mu.pc \in {"allocate", "record"}
        /\ UNCHANGED <<ctl, nodeVars, runtimeVars, active, known, offer>>
    BY Zenon DEF Allocate, RecordTree, At
  <1>2. UNCHANGED <<life, earlier, cut>> /\ UNCHANGED starts
    BY <1>1, Zenon DEF outside, runtimeVars
  <1>3. SessionsTame /\ RowsTame
    BY <1>1, <1>2, SameSessions, SameRows DEF IExecInv
  <1>4. BindingsApart'
    BY <1>2, <1>3, BindingsKept, Zenon DEF IExecInv, RowsTame, SessionsTame
  <1>5. /\ faults' \in Nat /\ (faults' = 0 => faults = 0)
        /\ \E p \in {"record", "prepare", "unclaim"} : Goto(p)
    <2>1. CASE Allocate
      <3>1. PICK ok \in BOOLEAN : /\ Call(Known(Request) \/ PreflightOk(Request), ok)
                                  /\ Step(ok, IF Known(Request) THEN "prepare" ELSE "record", "unclaim")
        BY <2>1, Zenon DEF Allocate
      <3>2. \E p \in {"record", "prepare", "unclaim"} : Goto(p)
        BY <3>1, Zenon DEF Step
      <3> QED
        BY <3>1, <3>2, CallSteps, Zenon DEF IExecInv
    <2>2. CASE RecordTree
      <3>1. PICK ok \in BOOLEAN : Call(TRUE, ok) /\ Step(ok, "prepare", "unclaim")
        BY <2>2, Zenon DEF RecordTree
      <3> QED
        BY <3>1, CallSteps, Zenon DEF IExecInv, Step
    <2> QED
      BY <2>1, <2>2, Zenon
  <1> QED
    BY <1>1, <1>2, <1>3, <1>4, <1>5, SessionStep DEF SessionsTame

\* Prepare, for a session there was or a new one.
LEMMA PrepareSessionStep ==
  ASSUME IExecInv, PrepareSession, UNCHANGED outside
  PROVE  IExecInv' /\ UNCHANGED starts
  <1>1. /\ Dispatching /\ mu.pc = "prepare" /\ UNCHANGED <<ctl, nodeVars, active, known, offer>>
    BY Zenon DEF PrepareSession, At
  <1>2. PICK ok \in BOOLEAN : /\ Call(TRUE, ok)
                              /\ IF ok THEN Prepare(Request) ELSE UNCHANGED runtimeVars
                              /\ Step(ok, "bind", "unclaim")
    BY Zenon DEF PrepareSession
  <1>3. UNCHANGED <<life, earlier, cut>>
    BY Zenon DEF outside
  <1>4. Request \in Attempts /\ life # "down" /\ RowsTame
    BY <1>1, DispatchAt, SameRows, Zenon DEF IExecInv
  <1>5. faults' \in Nat /\ (faults' = 0 => faults = 0)
    BY <1>2, CallSteps, Zenon DEF IExecInv
  <1>6. CASE ok
    <2>1. /\ SessionInv' /\ FilesStay /\ NoneStarted /\ UNCHANGED starts /\ disk'[Request] # "none"
          /\ \A s \in Attempts : sess'[s].status = "prepared" =>
                sess[s].status = "prepared" \/ (s = Request /\ disk[Request] = "none")
      BY <1>2, <1>3, <1>4, <1>6, PrepareSteps, Zenon DEF IExecInv
    <2>2. BindingsApart'
      <3>1. \A s \in Attempts : Recorded("prepare", s)' => Recorded("prepare", s) /\ disk[s] # "none"
        BY <1>4, Zenon DEF RowsTame, RowsBound, IExecInv, EarlierInv
      <3>2. ASSUME NEW s \in earlier, sess'[s].status = "prepared" PROVE ~Recorded("prepare", s)'
        <4>1. s \in Attempts /\ (sess[s].status = "prepared" => ~Recorded("prepare", s))
          BY Zenon DEF IExecInv, EarlierInv
        <4> QED
          BY <2>1, <3>1, <3>2, <4>1, Zenon
      <3>3. \A s \in Attempts : Recorded("prepare", s)' => disk'[s] # "none"
        BY <2>1, <3>1, Zenon DEF FilesStay
      <3> QED
        BY <1>3, <3>2, <3>3, Zenon DEF BindingsApart
    <2> QED
      BY <1>1, <1>2, <1>5, <1>6, <2>1, <2>2, SessionStep DEF Step
  <1>7. CASE ~ok
    <2>1. UNCHANGED runtimeVars /\ UNCHANGED starts
      BY <1>2, <1>7, Zenon DEF runtimeVars
    <2>2. SessionsTame
      BY <1>3, <2>1, SameSessions, Zenon DEF IExecInv
    <2>3. BindingsApart'
      BY <1>3, <1>4, <2>2, BindingsKept DEF IExecInv, RowsTame, SessionsTame
    <2> QED
      BY <1>1, <1>2, <1>5, <1>7, <2>1, <2>2, <2>3, SessionStep DEF Step, SessionsTame
  <1> QED
    BY <1>6, <1>7, Zenon

\* BindResources, and the cancel of a session that could not be bound.
LEMMA BindStep ==
  ASSUME IExecInv, BindResources, UNCHANGED outside
  PROVE  IExecInv' /\ UNCHANGED starts
  <1>1. /\ Dispatching /\ mu.pc = "bind" /\ UNCHANGED <<nodeVars, active, known, offer>>
    BY Zenon DEF BindResources, At
  <1>2. PICK ok \in BOOLEAN : /\ Call(BindOk(Request), ok)
                              /\ IF ok THEN ctl' = BindRows(Request) /\ UNCHANGED runtimeVars
                                 ELSE StopSession(Request) /\ UNCHANGED ctl
                              /\ Step(ok, "start", "unclaim")
    BY Zenon DEF BindResources
  <1>3. UNCHANGED <<life, earlier, cut>>
    BY Zenon DEF outside
  <1>4. Request \in Attempts /\ NodeInv' /\ held' \subseteq held
    BY <1>1, <1>3, DispatchAt, SameNode DEF IExecInv
  <1>5. faults' \in Nat /\ (faults' = 0 => faults = 0) /\ (ok => BindOk(Request))
    BY <1>2, CallSteps, Zenon DEF IExecInv
  <1>6. CASE ok
    <2>0. /\ mu' \in Holders' /\ mu'.op = mu.op /\ mu'.todo = mu.todo /\ mu'.ctx = mu.ctx
          /\ mu'.pc = "start" /\ mu'.queue = mu.queue
      BY <1>2, <1>6, GotoIs, Zenon DEF IExecInv, Dispatchers, Step
    <2>1. /\ RowsInv' /\ RowsMore /\ RowsRun /\ Recorded("prepare", Request)'
          /\ \A s \in Attempts : Recorded("prepare", s)' =>
               \/ Recorded("prepare", s)
               \/ s = Request /\ Current(Request) /\ ctl[AsgOf(Request)].state = "leased"
      <3>1. PICK t \in Attempts : t = Request
        BY <1>4, Zenon
      <3>2. Request' = t
        BY <2>0, <3>1, Zenon DEF Request
      <3>3. BindOk(t) /\ ctl' = BindRows(t)
        BY <1>2, <1>5, <1>6, <3>1, Zenon
      <3>4. /\ RowsInv' /\ RowsMore /\ RowsRun /\ Recorded("prepare", t)'
            /\ \A s \in Attempts : Recorded("prepare", s)' =>
                 \/ Recorded("prepare", s)
                 \/ s = t /\ Current(t) /\ ctl[AsgOf(t)].state = "leased"
        BY <3>3, BindRow, Zenon DEF IExecInv
      <3> QED
        BY <3>1, <3>2, <3>4, Zenon DEF Recorded
    <2>2. SessionsTame /\ UNCHANGED <<starts, sess, disk>>
      BY <1>2, <1>3, <1>6, SameSessions DEF IExecInv, runtimeVars
    <2>3. BindingsApart'
      <3>1. ASSUME NEW s \in earlier, sess'[s].status = "prepared", Recorded("prepare", s)' PROVE FALSE
        <4>1. s \in Attempts /\ ~Recorded("prepare", s)
          BY <2>2, <3>1, Zenon DEF IExecInv, EarlierInv
        <4>2. s = Request /\ Current(s) /\ ctl[AsgOf(s)].state = "leased"
          BY <2>1, <3>1, <4>1, Zenon
        <4>3. \A i \in DOMAIN mu.queue : AsgOf(mu.queue[i]) # AsgOf(s)
          BY <1>1, <4>2, DispatchAt, Zenon DEF IExecInv, EarlierInv
        <4> QED
          BY <1>1, <4>2, <4>3, DispatchAt
      <3>2. disk[Request] # "none"
        BY <1>1, Zenon DEF IExecInv, StepInv
      <3>3. \A s \in Attempts : Recorded("prepare", s)' => disk'[s] # "none"
        BY <2>1, <2>2, <3>2, Zenon DEF IExecInv, EarlierInv
      <3> QED
        BY <1>3, <3>1, <3>3, Zenon DEF BindingsApart
    <2>4. \A t \in Attempts : proc'[t] # "none" /\ ~sess'[t].cancel => proc[t] # "none" /\ ~sess[t].cancel
      BY <2>2, Zenon DEF SessionsTame, NoneStarted
    <2> QED
      BY <1>1, <1>4, <1>5, <2>0, <2>1, <2>2, <2>3, <2>4, AdvanceStep, Zenon DEF SessionsTame, Dispatchers
  <1>7. CASE ~ok
    <2>1. SessionsTame /\ RowsTame /\ UNCHANGED starts
      BY <1>2, <1>3, <1>4, <1>7, StopSessionIs, SameRows, Zenon DEF IExecInv
    <2>2. BindingsApart'
      BY <1>3, <2>1, BindingsKept, Zenon DEF IExecInv, RowsTame, SessionsTame
    <2> QED
      BY <1>1, <1>2, <1>5, <1>7, <2>1, <2>2, SessionStep DEF Step, SessionsTame
  <1> QED
    BY <1>6, <1>7, Zenon

\* What the two action properties say of a start.
StartsRight ==
    \A t \in Attempts : starts'[t] # starts[t] =>
        /\ starts'[t] = 1 /\ t \notin earlier
        /\ \A d \in Range(setup.graph[Wp(t)]) : canon[d] = "accepted"

\* Start: the one step in which a child comes to be.
LEMMA StartSessionStep ==
  ASSUME IExecInv, StartSession, UNCHANGED outside
  PROVE  IExecInv' /\ StartsRight
  <1>1. /\ Dispatching /\ mu.pc = "start" /\ UNCHANGED <<ctl, nodeVars, active, known, offer>>
    BY Zenon DEF StartSession, At
  <1>2. UNCHANGED <<life, earlier, cut>>
    BY Zenon DEF outside
  <1>3. Request \in Attempts /\ life # "down" /\ RowsTame /\ NodeInv' /\ held' \subseteq held
    BY <1>1, <1>2, DispatchAt, SameRows, SameNode DEF IExecInv
  <1>4. ASSUME NEW p \in {"running", "unstart"}, Goto(p), UNCHANGED runtimeVars,
               faults' \in Nat, faults' = 0 => faults = 0
        PROVE  IExecInv' /\ StartsRight
    <2>1. SessionsTame /\ UNCHANGED starts
      BY <1>2, <1>4, SameSessions, Zenon DEF IExecInv, runtimeVars
    <2>2. BindingsApart'
      BY <1>2, <1>3, <2>1, BindingsKept DEF IExecInv, RowsTame, SessionsTame
    <2>3. /\ mu' \in Holders' /\ mu'.op = mu.op /\ mu'.todo = mu.todo /\ mu'.ctx = mu.ctx
          /\ mu'.pc = p /\ mu'.queue = mu.queue
      BY <1>4, GotoIs, Zenon DEF IExecInv, Dispatchers
    <2>4. \A t \in Attempts : proc'[t] # "none" /\ ~sess'[t].cancel => proc[t] # "none" /\ ~sess[t].cancel
      BY <2>1, Zenon DEF SessionsTame, NoneStarted
    <2>5. IExecInv'
      BY <1>1, <1>3, <1>4, <2>1, <2>2, <2>3, <2>4, AdvanceStep, Zenon DEF RowsTame, SessionsTame, Dispatchers
    <2> QED
      BY <2>1, <2>5, Zenon DEF StartsRight
  <1>5. CASE StartReplays(Request)
    <2>1. Goto("running") /\ UNCHANGED <<runtimeVars, faults>>
      BY <1>5, Zenon DEF StartSession
    <2> QED
      BY <1>4, <2>1, Zenon DEF IExecInv, MutexInv
  <1>6. CASE ~StartReplays(Request)
    <2>1. PICK ok \in BOOLEAN : /\ Call(Startable(Request, setup.limit), ok)
                                /\ IF ok THEN Start(Request) ELSE UNCHANGED runtimeVars
                                /\ Step(ok, "running", "unstart")
      BY <1>6, Zenon DEF StartSession
    <2>2. faults' \in Nat /\ (faults' = 0 => faults = 0) /\ (ok => Startable(Request, setup.limit))
      BY <2>1, CallSteps, Zenon DEF IExecInv
    <2>3. CASE ~ok
      BY <1>4, <2>1, <2>2, <2>3, Zenon DEF Step
    <2>4. CASE ok
      <3>1. PICK t \in Attempts : t = Request
        BY <1>3, Zenon
      <3>2. sess[t].status = "prepared" /\ Start(t) /\ Goto("running")
        BY <2>1, <2>2, <2>4, <3>1, Zenon DEF Startable, Step
      <3>3. /\ SessionInv' /\ FilesStay /\ NonePrepared /\ starts'[t] = 1
            /\ \A s \in Attempts \ {t} : sess'[s] = sess[s] /\ proc'[s] = proc[s] /\ starts'[s] = starts[s]
        BY <1>2, <1>3, <3>2, StartSteps, Zenon DEF IExecInv
      <3>4. BindingsApart'
        BY <1>2, <1>3, <3>3, BindingsKept, Zenon DEF IExecInv, RowsTame
      <3>5. /\ mu' \in Holders' /\ mu'.op = mu.op /\ mu'.todo = mu.todo /\ mu'.ctx = mu.ctx
            /\ mu'.pc = "running" /\ mu'.queue = mu.queue
        BY <3>2, GotoIs, Zenon DEF IExecInv, Dispatchers
      <3>6. \A s \in Attempts : proc'[s] # "none" /\ ~sess'[s].cancel =>
               (proc[s] # "none" /\ ~sess[s].cancel) \/ s = Request
        BY <3>1, <3>3, Zenon
      <3>7. IExecInv'
        BY <1>1, <1>3, <2>2, <3>3, <3>4, <3>5, <3>6, AdvanceStep, Zenon DEF RowsTame, Dispatchers
      <3>8. Recorded("prepare", t)
        BY <1>1, <3>1, Zenon DEF IExecInv, StepInv
      <3>9. t \notin earlier
        BY <3>2, <3>8, Zenon DEF IExecInv, EarlierInv
      <3>10. \A d \in Range(setup.graph[Wp(t)]) : canon[d] = "accepted"
        BY <1>1, <3>1, DispatchAt, Zenon DEF IExecInv, BarrierInv
      <3>11. StartsRight
        BY <3>3, <3>9, <3>10, Zenon DEF StartsRight
      <3> QED
        BY <3>7, <3>11, Zenon
    <2> QED
      BY <2>3, <2>4, Zenon
  <1> QED
    BY <1>5, <1>6, Zenon

\* A dispatch given up after its claim.
LEMMA GiveUpStep ==
  ASSUME IExecInv, Unclaim \/ Unstart, UNCHANGED outside
  PROVE  IExecInv' /\ UNCHANGED starts
  <1>1. PICK pc \in {"unclaim", "unstart"}, state \in {"canceled", "failed"} : GiveUp(pc, state)
    BY Zenon DEF Unclaim, Unstart
  <1>2. /\ Dispatching /\ mu.pc \in {"unclaim", "unstart"} /\ Release(Request) /\ Remember(Request, state)
        /\ NextRequest /\ UNCHANGED <<runtimeVars, active, offer>>
    BY <1>1, Zenon DEF GiveUp, At
  <1>3. PICK ok \in BOOLEAN : Transition(Request, state, ok)
    BY <1>1, Zenon DEF GiveUp
  <1>4. UNCHANGED <<life, earlier, cut>> /\ UNCHANGED starts
    BY <1>2, Zenon DEF outside, runtimeVars
  <1>5. Request \in Attempts
    BY <1>2, DispatchAt, Zenon
  <1>6. RowsTame /\ faults' \in Nat /\ (faults' = 0 => faults = 0)
    BY <1>3, <1>5, TransitionEnds, Zenon
  <1>7. NodeInv' /\ held' \subseteq held /\ (~cut => Request \notin held')
    BY <1>2, <1>4, <1>5, ReleaseIs DEF IExecInv
  <1>8. SessionsTame
    BY <1>2, <1>4, SameSessions, Zenon DEF IExecInv
  <1>9. state \in AssignmentStates
    BY Zenon DEF AssignmentStates, TerminalStates, RetryableStates
  <1> QED
    BY <1>2, <1>4, <1>6, <1>7, <1>8, <1>9, NextRequestStep, Zenon

\* What is left in the queue is of other assignments than the request.
LEMMA SupervisedApart ==
  ASSUME IExecInv, Dispatching, UNCHANGED <<setup, offer>>, NEW t \in Attempts, t = Request,
         active' = active \cup {t}, mu'.queue = Tail(mu.queue),
         known' \in [Assignments -> AssignmentStates \cup {"unknown"}], known'[AsgOf(t)] = "running",
         \A a \in Assignments \ {AsgOf(t)} : known'[a] = known[a]
  PROVE  DistinctInv'
  <1> DEFINE q == mu.queue
             r == mu'.queue
  <1>1. /\ q \in Seq(Attempts) /\ q # <<>> /\ 1 \in DOMAIN q /\ q[1] = t
        /\ \A s \in active : AsgOf(s) # AsgOf(t)
    BY DispatchAt, Zenon
  <1>2. \A i \in DOMAIN r : i \in Nat \ {0} /\ i + 1 \in DOMAIN q /\ r[i] = q[i + 1]
    <2>1. Len(q) \in Nat \ {0} /\ DOMAIN q = 1 .. Len(q) /\ r = Tail(q)
      BY <1>1
    <2>2. Len(r) = Len(q) - 1 /\ DOMAIN r = 1 .. Len(r) /\ \A i \in 1 .. Len(r) : r[i] = q[i + 1]
      BY <1>1, <2>1
    <2> QED
      BY <2>1, <2>2
  <1>3. /\ \A i \in DOMAIN q : \A s \in active : AsgOf(q[i]) # AsgOf(s)
        /\ \A i, j \in DOMAIN q : AsgOf(q[i]) = AsgOf(q[j]) => i = j
    BY Zenon DEF IExecInv, DistinctInv
  <1>4. \A i \in DOMAIN r : AsgOf(r[i]) # AsgOf(t)
    BY <1>1, <1>2, <1>3
  <1>5. \A i \in DOMAIN r : \A s \in active' : AsgOf(r[i]) # AsgOf(s)
    BY <1>2, <1>3, <1>4
  <1>6. ASSUME NEW i \in DOMAIN r, NEW j \in DOMAIN r, AsgOf(r[i]) = AsgOf(r[j]) PROVE i = j
    <2>1. i + 1 = j + 1 /\ i \in Nat /\ j \in Nat
      BY <1>2, <1>3, <1>6, Zenon
    <2> QED
      BY <2>1
  <1>7. active' \subseteq Attempts /\ \A s, u \in active' : AsgOf(s) = AsgOf(u) => s = u
    BY <1>1, Zenon DEF IExecInv, DistinctInv
  <1>8. ASSUME NEW s \in active' PROVE known'[AsgOf(s)] = "running"
    <2>1. CASE s = t
      BY <2>1
    <2>2. CASE s # t
      <3>1. s \in active /\ AsgOf(s) \in Assignments \ {AsgOf(t)} /\ known[AsgOf(s)] = "running"
        BY <1>1, <2>2, AttemptIs, Zenon DEF IExecInv, DistinctInv
      <3> QED
        BY <3>1
    <2> QED
      BY <2>1, <2>2
  <1>9. /\ offer'.requests \in SUBSET Attempts /\ IsFiniteSet(offer'.requests)
        /\ \A s \in offer'.requests : AsgOf(s) \in DOMAIN setup'.wp
        /\ (\A s, u \in offer.requests : Wp(s) = Wp(u) => s = u)'
    <2>1. /\ offer.requests \in SUBSET Attempts /\ IsFiniteSet(offer.requests)
          /\ \A s \in offer.requests : AsgOf(s) \in DOMAIN setup.wp
          /\ \A s, u \in offer.requests : Wp(s) = Wp(u) => s = u
      BY Zenon DEF IExecInv, DistinctInv
    <2> QED
      BY <2>1, Zenon DEF Wp
  <1> QED
    BY <1>5, <1>6, <1>7, <1>8, <1>9, Zenon DEF DistinctInv

\* The attempt is supervised from here on.
LEMMA RunningStep ==
  ASSUME IExecInv, Running, UNCHANGED outside
  PROVE  IExecInv' /\ UNCHANGED starts
  <1>1. PICK t : t = Request
    BY Zenon
  <1>2. Dispatching /\ mu.pc = "running" /\ NextRequest /\ UNCHANGED offer
    BY Zenon DEF Running, At
  <1>3. PICK ok \in BOOLEAN :
          /\ Call(TransitionOk(t, "running"), ok) /\ ctl' = IF ok THEN TransitionRows(t, "running") ELSE ctl
          /\ IF ok THEN /\ active' = active \cup {t} /\ Remember(t, "running")
                        /\ UNCHANGED <<nodeVars, runtimeVars>>
             ELSE StopSession(t) /\ Release(t) /\ UNCHANGED <<active, known>>
    BY <1>1, Zenon DEF Running, Transition
  <1>4. UNCHANGED <<setup, canon, life, call, earlier, cut>>
    BY Zenon DEF outside
  <1>5. t \in Attempts /\ AsgOf(t) \in Assignments /\ life # "down"
    BY <1>1, <1>2, DispatchAt
  <1>6. faults' \in Nat /\ (faults' = 0 => faults = 0) /\ (ok => TransitionOk(t, "running"))
    BY <1>3, CallSteps DEF IExecInv
  <1>7. CASE ~ok
    <2>1. RowsTame /\ UNCHANGED <<active, known>>
      BY <1>3, <1>7, SameRows DEF IExecInv
    <2>2. SessionsTame /\ UNCHANGED starts /\ (~cut => proc'[t] = "none" \/ sess'[t].cancel)
      BY <1>3, <1>4, <1>5, <1>7, StopSessionIs, Zenon DEF IExecInv
    <2>3. NodeInv' /\ held' \subseteq held /\ (~cut => t \notin held')
      BY <1>3, <1>4, <1>5, <1>7, ReleaseIs DEF IExecInv
    <2> QED
      BY <1>1, <1>2, <1>6, <2>1, <2>2, <2>3, NextRequestStep, Zenon
  <1>8. CASE ok
    <2>1. /\ ctl' = TransitionRows(t, "running") /\ TransitionOk(t, "running")
          /\ active' = active \cup {t} /\ Remember(t, "running") /\ UNCHANGED <<nodeVars, runtimeVars>>
      BY <1>3, <1>6, <1>8
    <2>2. /\ RowsInv' /\ RowsMore /\ RowsBound /\ ctl'[AsgOf(t)].n = NumOf(t)
          /\ \A b \in Assignments \ {AsgOf(t)} : ctl'[b] = ctl[b]
      BY <1>5, <2>1, TransitionRow, Zenon DEF IExecInv
    <2>3. SessionsTame /\ NodeInv' /\ UNCHANGED <<starts, proc, sess, held>>
      BY <1>4, <2>1, SameSessions, SameNode DEF IExecInv, runtimeVars, nodeVars
    <2>4. /\ mu' \in Holders' /\ mu'.op = mu.op /\ mu'.todo = mu.todo /\ mu'.ctx = mu.ctx /\ mu'.pc = "next"
          /\ mu'.queue = Tail(mu.queue) /\ mu'.queue \in Seq(Attempts)
      <3>1. Tail(mu.queue) \in Seq(Attempts)
        BY <1>2, DispatchAt
      <3> QED
        BY <1>2, <3>1, Zenon DEF NextRequest, IExecInv, MutexInv, Holders, Dispatchers
    <2>5. QueueTail
      BY <1>2, <2>4, DispatchAt, QueueMoves, Zenon
    <2>6. CallInv' /\ AcceptedStays
      BY <1>4, SameCalls, SameCanon DEF IExecInv
    <2>7. MutexInv'
      BY <1>2, <1>4, <1>5, <1>6, <2>1, <2>4, DispatchAt, Zenon DEF IExecInv, MutexInv, Dispatchers
    <2>8. /\ known' \in [Assignments -> AssignmentStates \cup {"unknown"}] /\ known'[AsgOf(t)] = "running"
          /\ \A a \in Assignments \ {AsgOf(t)} : known'[a] = known[a]
      BY <1>5, <2>1, Zenon DEF Remember, IExecInv, DistinctInv, AssignmentStates, LiveStates, FencedStates
    <2>9. DistinctInv'
      BY <1>1, <1>2, <1>4, <1>5, <2>1, <2>4, <2>8, SupervisedApart, Zenon
    <2>10. EarlierInv'
      BY <1>4, <2>2, <2>3, <2>5, <2>8, EarlierKept, Zenon DEF IExecInv, SessionsTame
    <2>11. StepInv'
      BY <2>4 DEF StepInv
    <2>12. BarrierInv'
      BY <1>2, <1>4, <2>5, <2>6, BarrierKept DEF IExecInv
    <2>13. Supervised'
      BY <1>1, <1>4, <1>5, <2>1, <2>3, Zenon DEF IExecInv, Supervised, Processes
    <2>14. LeasesAccounted'
      BY <1>1, <1>4, <2>1, <2>3 DEF IExecInv, LeasesAccounted
    <2>15. RunningSupervised'
      <3> SUFFICES ASSUME ~cut', faults' = 0, NEW s \in Attempts \ earlier',
                          Fenced(s)', ctl'[AsgOf(s)].state = "running"
                   PROVE  s \in active'
        BY Zenon DEF RunningSupervised
      <3>1. CASE AsgOf(s) = AsgOf(t)
        <4>1. NumOf(s) = NumOf(t)
          BY <2>2, <3>1, Zenon DEF Fenced, Current
        <4>2. s = t
          BY <1>5, <3>1, <4>1, AttemptIs
        <4> QED
          BY <2>1, <4>2
      <3>2. CASE AsgOf(s) # AsgOf(t)
        <4>1. ctl'[AsgOf(s)] = ctl[AsgOf(s)]
          BY <2>2, <3>2, AttemptIs
        <4>2. Fenced(s) /\ ctl[AsgOf(s)].state = "running"
          BY <4>1 DEF Fenced, Current
        <4> QED
          BY <1>4, <1>5, <1>6, <2>1, <4>2, Zenon DEF IExecInv, RunningSupervised
      <3> QED
        BY <3>1, <3>2, Zenon
    <2>16. IExecInv'
      BY <2>2, <2>3, <2>6, <2>7, <2>9, <2>10, <2>11, <2>12, <2>13, <2>14, <2>15, Zenon DEF IExecInv, SessionsTame
    <2> QED
      BY <2>3, <2>16
  <1> QED
    BY <1>7, <1>8

-----------------------------------------------------------------------------
(* What the source offers, and what is queued of it.                       *)

\* A ready work package has accepted dependencies, in the events it was reduced from.
LEMMA ReadyBehind ==
  ASSUME setup \in Setups, NEW states, NEW w \in DOMAIN setup.graph,
         ReduceReadiness(setup.graph, states)[w] = "ready"
  PROVE  \A d \in Range(setup.graph[w]) : d \in DOMAIN setup.graph /\ states[d] = "accepted"
  <1> DEFINE g == setup.graph
             node == ReduceReadiness(g, states)
  <1>1. PICK depth \in [DOMAIN g -> 0 .. Cardinality(DOMAIN g)] :
           \A v \in DOMAIN g : \A d \in Range(g[v]) : d \in DOMAIN g /\ depth[d] < depth[v]
    BY SetupsAssumption, Zenon
  <1>2. IsFiniteSet(DOMAIN g)
    BY SetupsAssumption, Zenon
  <1>3. \A v \in DOMAIN g : node[v] = NodeOf(g, states, node, v)
    BY <1>1, <1>2, ReadinessIs, Zenon
  <1> HIDE DEF node
  <1>4. ASSUME NEW i \in DOMAIN g[w]
        PROVE  g[w][i] \in DOMAIN g /\ states[g[w][i]] = "accepted"
    <2> DEFINE deps == [k \in DOMAIN g[w] |-> node[g[w][k]]]
    <2>1. ReduceNode(states[w], deps) = "ready"
      BY <1>3, Zenon DEF NodeOf, node
    <2>2. \A k \in DOMAIN deps : deps[k] = "accepted"
      <3> HIDE DEF deps
      <3> QED
        BY <2>1, NodeIs, Zenon
    <2>3. node[g[w][i]] = "accepted"
      BY <2>2, Zenon
    <2>4. g[w][i] \in DOMAIN g
      BY <1>1, Zenon DEF Range
    <2>5. NodeOf(g, states, node, g[w][i]) = "accepted"
      BY <1>3, <2>3, <2>4, Zenon
    <2> QED
      BY <2>4, <2>5, NodeIs, Zenon DEF NodeOf
  <1> QED
    BY <1>4, Zenon DEF Range

\* The request of each work package, one of the attempts made so far.
LEMMA OfferIs ==
  ASSUME setup \in Setups, NEW first \in [Range(setup.wp) -> DOMAIN setup.wp],
         NEW num \in [DOMAIN setup.wp -> 1 .. MaxAttempts],
         \A w \in DOMAIN first : setup.wp[first[w]] = w,
         NEW S, S = {<<first[w], num[first[w]]>> : w \in DOMAIN first}
  PROVE  /\ S \in SUBSET Attempts /\ IsFiniteSet(S)
         /\ \A t \in S : AsgOf(t) \in DOMAIN setup.wp
         /\ \A s, t \in S : setup.wp[AsgOf(s)] = setup.wp[AsgOf(t)] => s = t
  <1> DEFINE A == DOMAIN setup.wp
             g == [a \in A |-> <<a, num[a]>>]
             U == {g[a] : a \in A}
  <1>1. A \subseteq Assignments /\ IsFiniteSet(A)
    BY SetupsAssumption, Zenon
  <1>2. \A w \in DOMAIN first : first[w] \in A /\ num[first[w]] \in 1 .. MaxAttempts
    BY Zenon
  <1>3. S \in SUBSET Attempts
    BY <1>1, <1>2 DEF Attempts
  <1>4. IsFiniteSet(U)
    <2>1. g \in Surjection(A, U)
      BY Zenon DEF Surjection
    <2> QED
      BY <1>1, <2>1, FS_Surjection
  <1>5. S \in SUBSET U
    BY <1>2
  <1>6. IsFiniteSet(S)
    BY <1>4, <1>5, FS_Subset, Zenon
  <1>7. \A t \in S : AsgOf(t) \in A /\ t = <<first[setup.wp[AsgOf(t)]], num[first[setup.wp[AsgOf(t)]]]>>
    BY <1>2 DEF AsgOf
  <1> QED
    BY <1>3, <1>6, <1>7, Zenon

\* The work source hands over requests and events.
LEMMA PendingStep ==
  ASSUME IExecInv, Pending, UNCHANGED <<ctl, nodeVars, tree, runtimeVars, faults, outside>>
  PROVE  IExecInv' /\ UNCHANGED starts
  <1>1. UNCHANGED <<setup, canon, life, call, earlier, cut, active, known, mu, starts>>
    BY Zenon DEF outside, Pending, runtimeVars
  <1>2. PICK first \in [Range(setup.wp) -> DOMAIN setup.wp], num \in [DOMAIN setup.wp -> 1..MaxAttempts] :
          /\ \A w \in DOMAIN first : setup.wp[first[w]] = w
          /\ offer' = [seen |-> TRUE, canon |-> canon,
                       requests |-> {<<first[w], num[first[w]]>> : w \in DOMAIN first}]
    BY Zenon DEF Pending
  <1>3. PICK S : S = {<<first[w], num[first[w]]>> : w \in DOMAIN first}
    BY Zenon
  <1>4. offer'.requests = S /\ offer'.canon = canon
    BY <1>2, <1>3, Zenon
  <1>5. setup \in Setups
    BY Zenon DEF IExecInv, CallInv
  <1>6. /\ S \in SUBSET Attempts /\ IsFiniteSet(S) /\ \A t \in S : AsgOf(t) \in DOMAIN setup.wp
        /\ \A s, t \in S : setup.wp[AsgOf(s)] = setup.wp[AsgOf(t)] => s = t
    BY <1>2, <1>3, <1>5, OfferIs
  <1>7. DistinctInv'
    <2>1. /\ active' \subseteq Attempts
          /\ known' \in [Assignments -> AssignmentStates \cup {"unknown"}]
          /\ \A s, t \in active' : AsgOf(s) = AsgOf(t) => s = t
          /\ \A t \in active' : known'[AsgOf(t)] = "running"
          /\ \A i \in DOMAIN mu'.queue : \A t \in active' : AsgOf(mu'.queue[i]) # AsgOf(t)
          /\ \A i, j \in DOMAIN mu'.queue : AsgOf(mu'.queue[i]) = AsgOf(mu'.queue[j]) => i = j
      BY <1>1, Zenon DEF IExecInv, DistinctInv
    <2>2. (\A s, t \in offer.requests : Wp(s) = Wp(t) => s = t)'
      BY <1>1, <1>4, <1>6, Zenon DEF Wp
    <2>3. /\ offer'.requests \in SUBSET Attempts /\ IsFiniteSet(offer'.requests)
          /\ \A t \in offer'.requests : AsgOf(t) \in DOMAIN setup'.wp
      BY <1>1, <1>4, <1>6, Zenon
    <2> QED
      BY <2>1, <2>2, <2>3, Zenon DEF DistinctInv
  <1>8. BarrierInv'
    <2>1. /\ DOMAIN canon' = DOMAIN setup'.graph
          /\ (\A i \in DOMAIN mu.queue : \A d \in Range(setup.graph[Wp(mu.queue[i])]) :
                 d \in DOMAIN canon /\ canon[d] = "accepted")'
      BY <1>1, Zenon DEF IExecInv, BarrierInv, Wp
    <2>2. \A w \in DOMAIN canon' : offer'.canon[w] = "accepted" => canon'[w] = "accepted"
      BY <1>1, <1>4, Zenon
    <2> QED
      BY <2>1, <2>2, Zenon DEF BarrierInv
  <1>9. RowsTame /\ SessionsTame /\ NodeInv' /\ held' \subseteq held /\ CallInv'
    BY <1>1, SameRows, SameSessions, SameNode, SameCalls DEF IExecInv
  <1>10. MutexInv'
    BY <1>1, <1>9, MutexStays, Zenon DEF IExecInv, SessionsTame, MutexInv
  <1>11. SamePlace /\ GoesOn
    BY <1>1, Zenon DEF SamePlace, GoesOn
  <1> QED
    BY <1>1, <1>7, <1>8, <1>9, <1>10, <1>11, FrameCore, Zenon

\* The queue: ready work packages, of assignments not past planning.
LEMMA FillQueueStep ==
  ASSUME IExecInv, FillQueue, life # "down", UNCHANGED <<ctl, nodeVars, tree, runtimeVars, faults, outside>>
  PROVE  IExecInv' /\ UNCHANGED starts
  <1>1. /\ UNCHANGED <<setup, canon, life, call, earlier, cut, active, known>>
        /\ UNCHANGED <<sess, disk, proc, starts, held>> /\ offer' = NoOffer
    BY Zenon DEF outside, FillQueue, runtimeVars, nodeVars
  <1>2. PICK node : node = ReduceReadiness(setup.graph, offer.canon)
    BY Zenon
  <1>3. PICK S : S = {t \in offer.requests : Admitted(t, node)}
    BY Zenon
  <1>4. PICK q : q = Sorted(S, QueueBefore)
    BY Zenon
  <1>5. PICK task : mu' = [mu EXCEPT !.pc = "next", !.task = task, !.queue = q]
    BY <1>2, <1>3, <1>4, Zenon DEF FillQueue
  <1>6. mu.op = "cycle" /\ mu.todo = {} /\ mu.pc = "renew"
    BY Zenon DEF FillQueue, At
  <1>7. mu.queue = <<>>
    BY <1>6, Zenon DEF IExecInv, MutexInv, Dispatchers
  <1>8. setup \in Setups
    BY Zenon DEF IExecInv, CallInv
  <1>9. /\ S \in SUBSET Attempts /\ IsFiniteSet(S) /\ \A t \in S : AsgOf(t) \in DOMAIN setup.wp
        /\ \A s, t \in S : Wp(s) = Wp(t) => s = t
    <2>1. /\ S \in SUBSET offer.requests /\ offer.requests \in SUBSET Attempts /\ IsFiniteSet(offer.requests)
          /\ \A t \in offer.requests : AsgOf(t) \in DOMAIN setup.wp
          /\ \A s, t \in offer.requests : Wp(s) = Wp(t) => s = t
      BY <1>3, Zenon DEF IExecInv, DistinctInv
    <2>2. IsFiniteSet(S)
      BY <2>1, FS_Subset
    <2> QED
      BY <2>1, <2>2
  <1>10. q \in Seq(S) /\ \A i, j \in DOMAIN q : q[i] = q[j] => i = j
    BY <1>4, <1>8, <1>9, QueueIs
  <1>11. \A i \in DOMAIN q : q[i] \in S
    BY <1>10
  <1>12. /\ mu' \in Holders' /\ mu'.op = "cycle" /\ mu'.todo = {} /\ mu'.queue = q /\ mu'.pc = "next"
         /\ mu'.ctx = mu.ctx
    <2>1. q \in Seq(Attempts)
      BY <1>9, <1>10
    <2> QED
      BY <1>5, <1>6, <2>1, Zenon DEF IExecInv, MutexInv, Holders, Dispatchers
  <1>13. RowsTame /\ SessionsTame /\ NodeInv' /\ CallInv'
    BY <1>1, SameRows, SameSessions, SameNode, SameCalls, Zenon DEF IExecInv
  <1>14. MutexInv'
    BY <1>1, <1>12, Zenon DEF IExecInv, MutexInv, Dispatchers
  <1>15. \A t \in S : known[AsgOf(t)] \in {"unknown", "planned"} /\ node[Wp(t)] = "ready"
    BY <1>3 DEF Admitted
  <1>16. DistinctInv'
    <2>1. \A i \in DOMAIN q : \A t \in active : AsgOf(q[i]) # AsgOf(t)
      BY <1>11, <1>15, Zenon DEF IExecInv, DistinctInv
    <2>2. ASSUME NEW i \in DOMAIN q, NEW j \in DOMAIN q, AsgOf(q[i]) = AsgOf(q[j]) PROVE i = j
      <3>1. Wp(q[i]) = Wp(q[j])
        BY <2>2 DEF Wp
      <3> QED
        BY <1>9, <1>10, <1>11, <3>1
    <2>3. offer'.requests = {}
      BY <1>1 DEF NoOffer
    <2>4. /\ active' \subseteq Attempts
          /\ known' \in [Assignments -> AssignmentStates \cup {"unknown"}]
          /\ \A s, t \in active' : AsgOf(s) = AsgOf(t) => s = t
          /\ \A t \in active' : known'[AsgOf(t)] = "running"
      BY <1>1, Zenon DEF IExecInv, DistinctInv
    <2>5. IsFiniteSet(offer'.requests)
      BY <2>3, FS_EmptySet
    <2> QED
      BY <1>1, <1>12, <2>1, <2>2, <2>3, <2>4, <2>5 DEF DistinctInv
  <1>17. EarlierInv'
    <2>1. ASSUME NEW t \in earlier, Current(t), ctl[AsgOf(t)].state = "leased"
          PROVE  \A i \in DOMAIN q : AsgOf(q[i]) # AsgOf(t)
      BY <1>11, <1>15, <2>1, Zenon DEF IExecInv, EarlierInv
    <2> QED
      BY <1>1, <1>12, <2>1, Zenon DEF IExecInv, EarlierInv, Current, Recorded
  <1>18. StepInv'
    BY <1>12, Zenon DEF StepInv
  <1>19. BarrierInv'
    <2>1. ASSUME NEW i \in DOMAIN q, NEW d \in Range(setup.graph[Wp(q[i])])
          PROVE  d \in DOMAIN canon /\ canon[d] = "accepted"
      <3>1. q[i] \in S /\ q[i] \in offer.requests /\ AsgOf(q[i]) \in DOMAIN setup.wp
        BY <1>3, <1>9, <1>11, Zenon
      <3>2. Wp(q[i]) \in DOMAIN setup.graph
        <4>1. Wp(q[i]) \in Range(setup.wp)
          BY <3>1, Zenon DEF Wp, Range
        <4> QED
          BY <1>8, <4>1, SetupsAssumption, Zenon
      <3>3. ReduceReadiness(setup.graph, offer.canon)[Wp(q[i])] = "ready"
        BY <1>2, <1>15, <3>1, Zenon
      <3>4. d \in DOMAIN setup.graph /\ offer.canon[d] = "accepted"
        BY <1>8, <3>2, <3>3, ReadyBehind, Zenon
      <3> QED
        BY <3>1, <3>4, Zenon DEF IExecInv, BarrierInv
    <2>2. (\A i \in DOMAIN mu.queue : \A d \in Range(setup.graph[Wp(mu.queue[i])]) :
               d \in DOMAIN canon /\ canon[d] = "accepted")'
      BY <1>1, <1>12, <2>1, Zenon DEF Wp
    <2>3. DOMAIN canon' = DOMAIN setup'.graph /\ offer'.requests = {}
      BY <1>1, Zenon DEF IExecInv, BarrierInv, NoOffer
    <2> QED
      BY <2>2, <2>3, Zenon DEF BarrierInv
  <1>20. ~Dispatching
    BY <1>7 DEF Dispatching
  <1>21. Supervised' /\ LeasesAccounted'
    BY <1>1, <1>20, Zenon DEF IExecInv, Supervised, LeasesAccounted, Processes
  <1>22. RunningSupervised'
    BY <1>1, Zenon DEF IExecInv, RunningSupervised, Fenced, Current
  <1> QED
    BY <1>1, <1>13, <1>14, <1>16, <1>17, <1>18, <1>19, <1>21, <1>22 DEF IExecInv, RowsTame, SessionsTame

-----------------------------------------------------------------------------
(* The daemon ends and starts.                                             *)

\* Memory is empty, the rows and the files are what they were.
LEMMA GoneStep ==
  ASSUME IExecInv, Gone
  PROVE  IExecInv' /\ UNCHANGED starts
  <1>1. /\ life' = "down" /\ held' = {} /\ acquired' = {} /\ active' = {} /\ mu' = Free /\ offer' = NoOffer
        /\ known' = [a \in Assignments |-> "unknown"] /\ call' = [i \in setup.callers |-> Idle]
        /\ UNCHANGED <<ctl, faults, setup, canon, earlier, cut, disk, starts>>
    BY Zenon DEF Gone, Forget
  <1>2. /\ sess' = [t \in Attempts |-> NoSession] /\ proc' = [t \in Attempts |-> "none"]
    BY Zenon DEF Gone, Forget, IExecInv, SessionInv
  <1>3. RowsInv'
    BY <1>1, SameRows, Zenon DEF IExecInv, RowsTame
  <1>4. SessionInv'
    <2>1. NoSession \in Sessions /\ NoSession.status = "none"
      BY Zenon DEF NoSession, Sessions, Statuses
    <2>2. /\ sess' \in [Attempts -> Sessions] /\ proc' \in [Attempts -> {"none", "starting", "working"}]
          /\ \A t \in Attempts : sess'[t].status = "none" /\ proc'[t] = "none"
      BY <1>2, <2>1, Zenon
    <2> QED
      BY <1>1, <2>2, Zenon DEF IExecInv, SessionInv, SessionOf
  <1>5. NodeInv'
    BY <1>1, Zenon DEF NodeInv
  <1>6. CallInv'
    BY <1>1, Zenon DEF IExecInv, CallInv, Calls
  <1>7. MutexInv'
    <2>1. mu' \in Holders'
      BY <1>1 DEF Free, Holders
    <2> QED
      BY <1>1, <2>1, FreeIs, Zenon DEF IExecInv, MutexInv
  <1>8. mu'.queue = <<>> /\ offer'.requests = {}
    BY <1>1, FreeIs, Zenon DEF NoOffer
  <1>9. DistinctInv'
    BY <1>1, <1>8, FS_EmptySet DEF DistinctInv
  <1>10. EarlierInv'
    BY <1>1, <1>2, Zenon DEF IExecInv, EarlierInv, Recorded, NoSession
  <1>11. StepInv' /\ LeasesAccounted'
    BY <1>1, <1>8, Zenon DEF StepInv, LeasesAccounted, Dispatching
  <1>12. BarrierInv'
    BY <1>1, <1>8 DEF IExecInv, BarrierInv
  <1>13. Supervised' /\ RunningSupervised'
    BY <1>1, Zenon DEF Supervised, RunningSupervised
  <1> QED
    BY <1>1, <1>3, <1>4, <1>5, <1>6, <1>7, <1>9, <1>10, <1>11, <1>12, <1>13, Zenon DEF IExecInv

\* Whatever was claimed before counts as earlier; its leased rows are remembered.
LEMMA BootStep ==
  ASSUME IExecInv, Boot
  PROVE  IExecInv' /\ UNCHANGED starts
  <1>1. /\ life = "down" /\ life' = "up" /\ cut' = FALSE /\ ctl' = ReconcileRows
        /\ earlier' = {t \in Attempts : Recorded("claim", t)}
        /\ known' = [a \in Assignments |-> IF a \in Reconciled THEN ctl'[a].state ELSE "unknown"]
        /\ UNCHANGED <<nodeVars, active, mu, offer, faults, setup, canon, call, proc, starts>>
    BY Zenon DEF Boot, LoadDurableSessions
  <1>2. /\ disk' = [t \in Attempts |-> RecoveredStatus(disk[t])]
        /\ sess' = [t \in Attempts |-> [NoSession EXCEPT !.status = RecoveredStatus(disk[t])]]
    BY Zenon DEF Boot, LoadDurableSessions, IExecInv, SessionInv
  <1>3. /\ RowsInv'
        /\ \A a \in Assignments : /\ ctl'[a].n = ctl[a].n /\ ctl'[a].ops = ctl[a].ops
                                  /\ ctl'[a].state \in {ctl[a].state, "expired"}
    BY <1>1, ReconcileIs, Zenon DEF IExecInv
  <1>4. ASSUME NEW t \in Attempts
        PROVE  /\ disk'[t] \in Statuses \ {"prepared", "running"} /\ (disk'[t] = "none" <=> disk[t] = "none")
               /\ sess'[t] \in Sessions /\ sess'[t].status = disk'[t]
               /\ proc'[t] = "none"
    <2> DEFINE st == RecoveredStatus(disk[t])
    <2>1. disk[t] \in Statuses /\ (proc[t] # "none" => life # "down")
      BY SessionShape, Zenon DEF IExecInv, SessionOf
    <2>2. st \in Statuses \ {"prepared", "running"} /\ (st = "none" <=> disk[t] = "none")
      BY <2>1, Zenon DEF RecoveredStatus, Statuses
    <2>3. disk'[t] = st /\ sess'[t] = [NoSession EXCEPT !.status = st]
      BY <1>2, Zenon
    <2> HIDE DEF st
    <2>4. sess'[t] \in Sessions /\ sess'[t].status = st
      BY <2>2, <2>3, Zenon DEF NoSession, Sessions
    <2> QED
      BY <1>1, <2>1, <2>2, <2>3, <2>4
  <1>5. SessionInv'
    <2>1. sess' \in [Attempts -> Sessions] /\ disk' \in [Attempts -> Statuses]
      <3>1. sess' = [t \in Attempts |-> sess'[t]] /\ disk' = [t \in Attempts |-> disk'[t]]
        BY <1>2
      <3> QED
        BY <1>4, <3>1
    <2>2. ASSUME NEW t \in Attempts PROVE SessionOf(t)'
      <3>1. disk[t] \in {"none", "prepared"} => starts[t] = 0
        BY SessionShape, Zenon DEF IExecInv, SessionOf
      <3> QED
        BY <1>1, <1>4, <3>1, Zenon DEF SessionOf
    <2> QED
      BY <1>1, <2>1, <2>2, Zenon DEF IExecInv, SessionInv
  <1>6. NodeInv'
    BY <1>1, Zenon DEF IExecInv, NodeInv, nodeVars
  <1>7. CallInv'
    BY <1>1 DEF IExecInv, CallInv
  <1>8. mu = Free /\ active = {} /\ mu' = Free /\ active' = {} /\ mu'.queue = <<>> /\ held' = {}
    BY <1>1, FreeIs, Zenon DEF IExecInv, MutexInv, NodeInv, nodeVars
  <1>9. MutexInv'
    <2>1. mu' \in Holders'
      BY <1>8 DEF Free, Holders
    <2> QED
      BY <1>1, <1>8, <2>1, FreeIs, Zenon DEF IExecInv, MutexInv
  <1>10. known' \in [Assignments -> AssignmentStates \cup {"unknown"}]
    <2>1. ASSUME NEW a \in Assignments PROVE known'[a] \in AssignmentStates \cup {"unknown"}
      <3>1. a \in Reconciled => ctl[a].state \in AssignmentStates
        BY Zenon DEF Reconciled, AssignmentStates
      <3> QED
        BY <1>1, <1>3, <3>1 DEF AssignmentStates, TerminalStates, RetryableStates
    <2> QED
      BY <1>1, <2>1, Zenon
  <1>11. DistinctInv'
    <2>1. /\ offer'.requests \in SUBSET Attempts /\ IsFiniteSet(offer'.requests)
          /\ \A t \in offer'.requests : AsgOf(t) \in DOMAIN setup'.wp
          /\ (\A s, t \in offer.requests : Wp(s) = Wp(t) => s = t)'
      BY <1>1, Zenon DEF IExecInv, DistinctInv, Wp
    <2> QED
      BY <1>8, <1>10, <2>1, SMTT(40) DEF DistinctInv
  <1>12. EarlierInv'
    <2>1. \A t \in Attempts, label \in {"claim", "prepare"} : Recorded(label, t)' <=> Recorded(label, t)
      BY <1>3, AttemptIs, Zenon DEF Recorded
    <2>2. ASSUME NEW t \in earlier', ctl'[AsgOf(t)].state = "leased"
          PROVE  known'[AsgOf(t)] = "leased"
      <3>1. AsgOf(t) \in Assignments
        BY <1>1, AttemptIs, Zenon
      <3>2. ctl[AsgOf(t)].state = "leased"
        BY <1>3, <2>2, <3>1
      <3>3. AsgOf(t) \in Reconciled
        BY <3>1, <3>2 DEF Reconciled, LiveStates, FencedStates
      <3> QED
        BY <1>1, <2>2, <3>1, <3>3, Zenon
    <2>3. \A t \in Attempts : Recorded("prepare", t)' => disk'[t] # "none"
      BY <1>4, <2>1, Zenon DEF IExecInv, EarlierInv
    <2>4. \A t \in earlier' : t \in Attempts /\ sess'[t].status # "prepared" /\ Recorded("claim", t)'
      BY <1>1, <1>4, <2>1, Zenon
    <2> QED
      BY <1>8, <2>2, <2>3, <2>4 DEF EarlierInv
  <1>13. StepInv' /\ LeasesAccounted'
    BY <1>8, Zenon DEF StepInv, LeasesAccounted, Dispatching
  <1>14. BarrierInv'
    <2>1. DOMAIN canon' = DOMAIN setup'.graph
      BY <1>1, Zenon DEF IExecInv, BarrierInv
    <2>2. offer'.requests # {} =>
             \A w \in DOMAIN canon' : offer'.canon[w] = "accepted" => canon'[w] = "accepted"
      BY <1>1, Zenon DEF IExecInv, BarrierInv
    <2> QED
      BY <1>8, <2>1, <2>2 DEF BarrierInv
  <1>15. Supervised'
    BY <1>4, <1>5 DEF Supervised, Processes, SessionInv
  <1>16. RunningSupervised'
    <2> SUFFICES ASSUME NEW t \in Attempts \ earlier', Fenced(t)', ctl'[AsgOf(t)].state = "running"
                 PROVE  FALSE
      BY Zenon DEF RunningSupervised
    <2>1. AsgOf(t) \in Assignments /\ ctl'[AsgOf(t)].n = NumOf(t)
      BY AttemptIs, Zenon DEF Fenced, Current
    <2>2. <<"claim", NumOf(t)>> \in ctl'[AsgOf(t)].ops
      BY <1>3, <2>1, Zenon DEF RowsInv, FencedStates
    <2>3. Recorded("claim", t)
      BY <1>3, <2>1, <2>2, Zenon DEF Recorded
    <2> QED
      BY <1>1, <2>3, Zenon
  <1> QED
    BY <1>1, <1>3, <1>5, <1>6, <1>7, <1>9, <1>11, <1>12, <1>13, <1>14, <1>15, <1>16, Zenon DEF IExecInv

-----------------------------------------------------------------------------
(* The inductive invariant.                                                *)

\* The inductive invariant holds at the start.
LEMMA ExecStart ==
  ASSUME Init
  PROVE  IExecInv
  <1>1. /\ setup \in Setups /\ ctl = [a \in Assignments |-> NoRows] /\ held = {} /\ acquired = {}
        /\ active = {} /\ known = [a \in Assignments |-> "unknown"] /\ mu = Free /\ offer = NoOffer
        /\ canon = setup.canon /\ faults = 0 /\ life = "up" /\ call = [i \in setup.callers |-> Idle]
        /\ earlier = {} /\ cut = FALSE
    BY Zenon DEF Init, RowsInit, NodeInit
  <1>2. /\ sess = [t \in Attempts |-> NoSession] /\ disk = [t \in Attempts |-> "none"]
        /\ proc = [t \in Attempts |-> "none"] /\ starts = [t \in Attempts |-> 0]
    BY Zenon DEF Init, RuntimeInit
  <1>3. RowsInv
    <2>1. NoRows \in Rows /\ NoRows.ops = {} /\ NoRows.state = "absent"
      BY Zenon DEF NoRows, Rows, Dispositions
    <2> QED
      BY <1>1, <2>1, Zenon DEF RowsInv, RetryOnce, FencedStates
  <1>4. SessionInv
    <2>1. NoSession \in Sessions /\ NoSession.status = "none"
      BY Zenon DEF NoSession, Sessions, Statuses
    <2>2. /\ sess \in [Attempts -> Sessions] /\ disk \in [Attempts -> Statuses]
          /\ proc \in [Attempts -> {"none", "starting", "working"}] /\ starts \in [Attempts -> Nat]
      BY <1>2, <2>1, Zenon DEF Statuses
    <2>3. \A t \in Attempts : sess[t].status = "none" /\ disk[t] = "none" /\ proc[t] = "none" /\ starts[t] = 0
      BY <1>2, <2>1, Zenon
    <2> QED
      BY <2>2, <2>3 DEF SessionInv, SessionOf
  <1>5. NodeInv /\ LeasesAccounted
    BY <1>1, Zenon DEF NodeInv, LeasesAccounted
  <1>6. CallInv
    BY <1>1, Zenon DEF CallInv, Calls
  <1>7. MutexInv
    <2>1. mu \in Holders
      BY <1>1 DEF Free, Holders
    <2> QED
      BY <1>1, <2>1, FreeIs, Zenon DEF MutexInv
  <1>8. mu.queue = <<>> /\ offer.requests = {}
    BY <1>1, FreeIs, Zenon DEF NoOffer
  <1>9. DistinctInv
    BY <1>1, <1>8, FS_EmptySet, SMTT(40) DEF DistinctInv
  <1>10. EarlierInv
    <2>1. \A t \in Attempts : ~Recorded("prepare", t)
      BY <1>1, AttemptIs, Zenon DEF Recorded, NoRows
    <2> QED
      BY <1>1, <2>1, Zenon DEF EarlierInv
  <1>11. StepInv
    BY <1>8, Zenon DEF StepInv, Dispatching
  <1>12. BarrierInv
    BY <1>1, <1>8, SetupsAssumption DEF BarrierInv
  <1>13. Supervised
    BY <1>2, Zenon DEF Supervised, Processes
  <1>14. RunningSupervised
    BY <1>1, AttemptIs, Zenon DEF RunningSupervised, NoRows
  <1> QED
    BY <1>3, <1>4, <1>5, <1>6, <1>7, <1>9, <1>10, <1>11, <1>12, <1>13, <1>14 DEF IExecInv

\* Every step keeps the inductive invariant, and starts no child it should not.
LEMMA ExecStep ==
  ASSUME IExecInv, [Next]_vars
  PROVE  IExecInv' /\ StartsRight
  <1>0. UNCHANGED starts => StartsRight
    BY Zenon DEF StartsRight
  <1>1. CASE Poll
    <2>1. life # "down" /\ UNCHANGED <<ctl, nodeVars, tree, runtimeVars, faults, outside>>
      BY <1>1, Zenon DEF Poll
    <2> QED
      BY <1>0, <1>1, <2>1, PendingStep, CycleBeginStep, FillQueueStep, CycleFailsStep, CycleEndStep
         DEF Poll
  <1>2. CASE Reap
    BY <1>0, <1>2, RenewStep, LostStep, LostFailedStep, ObserveStep DEF Reap
  <1>3. CASE Dispatch
    BY <1>0, <1>3, PlanStep, ClaimStep, TreeStep, PrepareSessionStep, BindStep, StartSessionStep, RunningStep,
       GiveUpStep DEF Dispatch
  <1>4. CASE StopActive
    BY <1>0, <1>4, LostStep, SettleStep DEF StopActive
  <1>5. CASE Children
    BY <1>0, <1>5, ChildrenStep, Zenon
  <1>6. ASSUME NEW i \in setup.callers, Command(i) \/ Operate(i) \/ LoseRequest(i)
        PROVE  IExecInv' /\ StartsRight
    <2>1. CASE Command(i) \/ LoseRequest(i)
      BY <1>0, <2>1, CommandStep, LoseRequestStep
    <2>2. CASE Operate(i)
      BY <1>0, <2>2, SwitchStep, CancelCallStep, CancelReturnStep, ReloadStep, WriteStep, SaveStep, Zenon DEF Operate
    <2> QED
      BY <1>6, <2>1, <2>2, Zenon
  <1>7. CASE ShutdownMark \/ ShutdownCancel \/ DrainTimeout
    BY <1>0, <1>7, ShutdownMarkStep, DrainStep
  <1>8. CASE Exit \/ Crash \/ Boot
    BY <1>0, <1>8, GoneStep, BootStep DEF Exit, Crash
  <1>9. CASE Lapse \/ ClearTree \/ Move
    BY <1>0, <1>9, WorldStep
  <1>10. CASE UNCHANGED vars
    <2>1. UNCHANGED <<ctl, nodeVars, runtimeVars, setup, memory, canon, faults, life, call, earlier, cut>>
      BY <1>10, Zenon DEF vars
    <2>2. UNCHANGED <<active, known, mu, offer, starts>>
      BY <2>1, Zenon DEF memory, runtimeVars
    <2>3. /\ RowsTame /\ SessionsTame /\ NodeInv' /\ held' \subseteq held /\ CallInv' /\ AcceptedStays
          /\ faults' \in Nat
      BY <2>1, SameRows, SameSessions, SameNode, SameCalls, SameCanon, Zenon DEF IExecInv, MutexInv
    <2>4. IExecInv'
      BY <2>1, <2>2, <2>3, QuietStep
    <2> QED
      BY <1>0, <2>2, <2>4, Zenon
  <1> QED
    BY <1>1, <1>2, <1>3, <1>4, <1>5, <1>6, <1>7, <1>8, <1>9, <1>10, Zenon DEF Next

-----------------------------------------------------------------------------
(* The results.                                                            *)

\* Child processes, compute leases and running rows all belong to an attempt the
\* scheduler supervises, whatever comes between the calls of a dispatch, a cancel or a
\* shutdown, except as Supervised, LeasesAccounted and RunningSupervised allow.
THEOREM ExecutionSafety == Spec => []ExecutionInv
  <1>1. Init => IExecInv
    BY ExecStart, Zenon
  <1>2. IExecInv /\ [Next]_vars => IExecInv'
    BY ExecStep, Zenon
  <1>3. IExecInv => ExecutionInv
    BY Zenon DEF IExecInv, RowsInv, Rows, NodeInv, MutexInv, DistinctInv, ExecutionInv, TypeOK
  <1> QED
    BY <1>1, <1>2, <1>3, PTL DEF Spec

\* A retry key makes one attempt at most, however many requests carry it and however
\* often the daemon restarts between the retry and the saved result.
THEOREM RetrySafety == Spec => []RetryOnce
  <1>1. Init => IExecInv
    BY ExecStart, Zenon
  <1>2. IExecInv /\ [Next]_vars => IExecInv'
    BY ExecStep, Zenon
  <1>3. IExecInv => RetryOnce
    BY Zenon DEF IExecInv, RowsInv
  <1> QED
    BY <1>1, <1>2, <1>3, PTL DEF Spec

\* Start of the runtime begins a child once at most for an attempt, and none for an
\* attempt that was claimed before the daemon last started.
THEOREM StartSafety == Spec => StartedOnce
  <1>1. Init => IExecInv
    BY ExecStart, Zenon
  <1>2. IExecInv /\ [Next]_vars => IExecInv'
    BY ExecStep, Zenon
  <1>3. IExecInv /\ [Next]_vars =>
          [\A t \in Attempts : starts'[t] # starts[t] => starts'[t] = 1 /\ t \notin earlier]_vars
    BY ExecStep, Zenon DEF StartsRight
  <1> QED
    BY <1>1, <1>2, <1>3, PTL DEF Spec, StartedOnce

\* When a child is started every dependency of its work package is accepted, although
\* Cycle reduced readiness from events that were read some time before.
THEOREM BarrierSafety == Spec => DependencyBarrier
  <1>1. Init => IExecInv
    BY ExecStart, Zenon
  <1>2. IExecInv /\ [Next]_vars => IExecInv'
    BY ExecStep, Zenon
  <1>3. IExecInv /\ [Next]_vars =>
          [\A t \in Attempts : starts'[t] # starts[t] =>
              \A d \in Range(setup.graph[Wp(t)]) : canon[d] = "accepted"]_vars
    BY ExecStep, Zenon DEF StartsRight
  <1> QED
    BY <1>1, <1>2, <1>3, PTL DEF Spec, DependencyBarrier
=============================================================================
