-------------------------- MODULE ExecutionLemmas ---------------------------
(***************************************************************************)
(* The inductive invariant of Execution, and the lemmas every step needs:  *)
(* queues and graphs, the rows of the store, the sessions of the runtime,  *)
(* and the parts of the state a step leaves alone.                         *)
(***************************************************************************)
EXTENDS Execution, FiniteSetTheorems, WellFoundedInduction, TLAPS

-----------------------------------------------------------------------------
(* Numbers, queues and graphs.                                             *)

\* A set of numbers that is not empty has a least one.
LEMMA Least ==
  ASSUME NEW T \in SUBSET Nat, T # {}
  PROVE  \E x \in T : \A y \in T : x <= y
  <1> DEFINE R == OpToRel(<, Nat)
  <1>1. \A x, y \in Nat : x < y => <<x, y>> \in R
    BY Zenon DEF OpToRel
  <1>2. IsWellFoundedOn(R, Nat)
    BY NatLessThanWellFounded, Zenon
  <1> HIDE DEF R
  <1>3. PICK x \in T : \A y \in T : <<y, x>> \notin R
    BY <1>2, WFMin, Zenon
  <1>4. ASSUME NEW y \in T PROVE x <= y
    <2>1. x \in Nat /\ y \in Nat
      BY Zenon
    <2>2. ~(y < x)
      BY <1>1, <1>3, <2>1, Zenon
    <2> QED
      BY <2>1, <2>2
  <1> QED
    BY <1>4, Zenon

\* The attempt reapLocked, Cancel and Shutdown take next is one of those left.
LEMMA OldestIs ==
  ASSUME NEW S \in SUBSET Attempts, S # {}
  PROVE  Oldest(S) \in S
  <1> DEFINE T == {AsgOf(t) : t \in S}
  <1>1. T \in SUBSET Nat /\ T # {}
    BY AttemptsAssumption, Zenon DEF Attempts, AsgOf
  <1>2. PICK x \in T : \A y \in T : x <= y
    BY <1>1, Least, Zenon
  <1>3. \E t \in S : \A s \in S : AsgOf(t) <= AsgOf(s)
    BY <1>2, Zenon
  <1> QED
    BY <1>3, Zenon DEF Oldest

\* Requests of one work package each are in a strict total order.
LEMMA QueueOrder ==
  ASSUME setup \in Setups, NEW S,
         \A t \in S : AsgOf(t) \in DOMAIN setup.wp,
         \A s, t \in S : Wp(s) = Wp(t) => s = t
  PROVE  /\ \A s \in S : ~QueueBefore(s, s)
         /\ \A s, t \in S : s # t => QueueBefore(s, t) \/ QueueBefore(t, s)
         /\ \A r, s, t \in S : QueueBefore(r, s) /\ QueueBefore(s, t) => QueueBefore(r, t)
  <1>1. \A t \in S : Wp(t) \in Nat /\ setup.priority[Wp(t)] \in Nat
    <2> SUFFICES ASSUME NEW t \in S PROVE Wp(t) \in Nat /\ setup.priority[Wp(t)] \in Nat
      BY Zenon
    <2>1. Wp(t) \in Range(setup.wp)
      BY Zenon DEF Wp, Range
    <2> QED
      BY <2>1, SetupsAssumption, Zenon
  <1>2. \A s \in S : ~QueueBefore(s, s)
    BY <1>1 DEF QueueBefore
  <1>3. \A s, t \in S : s # t => QueueBefore(s, t) \/ QueueBefore(t, s)
    BY <1>1 DEF QueueBefore
  <1>4. \A r, s, t \in S : QueueBefore(r, s) /\ QueueBefore(s, t) => QueueBefore(r, t)
    BY <1>1 DEF QueueBefore
  <1> QED
    BY <1>2, <1>3, <1>4, Zenon

Before(S, t) == {s \in S : QueueBefore(s, t)}

\* The queue holds each of the admitted requests once.
LEMMA QueueIs ==
  ASSUME setup \in Setups, NEW S, IsFiniteSet(S),
         \A t \in S : AsgOf(t) \in DOMAIN setup.wp,
         \A s, t \in S : Wp(s) = Wp(t) => s = t
  PROVE  /\ Sorted(S, QueueBefore) \in Seq(S)
         /\ \A i, j \in DOMAIN Sorted(S, QueueBefore) :
               Sorted(S, QueueBefore)[i] = Sorted(S, QueueBefore)[j] => i = j
  <1> DEFINE n == Cardinality(S)
             f == [t \in S |-> Cardinality(Before(S, t)) + 1]
             q == [i \in 1 .. n |-> CHOOSE t \in S : Cardinality(Before(S, t)) = i - 1]
  <1>1. n \in Nat /\ IsFiniteSet(1 .. n) /\ Cardinality(1 .. n) = n
    BY FS_CardinalityType, FS_Interval
  <1>2. ASSUME NEW t \in S
        PROVE  /\ IsFiniteSet(Before(S, t)) /\ Cardinality(Before(S, t)) \in Nat
               /\ Cardinality(Before(S, t)) < n
    <2>1. Before(S, t) \in SUBSET S /\ t \notin Before(S, t)
      BY QueueOrder, Zenon DEF Before
    <2>2. IsFiniteSet(Before(S, t)) /\ Cardinality(Before(S, t)) <= n
      BY <2>1, FS_Subset, Zenon
    <2>3. Cardinality(Before(S, t)) \in Nat
      BY <2>2, FS_CardinalityType, Zenon
    <2>4. Cardinality(Before(S, t)) # n
      BY <2>1, FS_Subset, Zenon
    <2> QED
      BY <1>1, <2>2, <2>3, <2>4
  <1>3. ASSUME NEW s \in S, NEW t \in S, QueueBefore(s, t)
        PROVE  Cardinality(Before(S, s)) # Cardinality(Before(S, t))
    <2>1. Before(S, s) \in SUBSET Before(S, t) /\ s \in Before(S, t) /\ s \notin Before(S, s)
      BY <1>3, QueueOrder, Zenon DEF Before
    <2> QED
      BY <1>2, <2>1, FS_Subset, Zenon
  <1>4. f \in Injection(S, 1 .. n)
    <2>1. f \in [S -> 1 .. n]
      BY <1>1, <1>2
    <2>2. ASSUME NEW s \in S, NEW t \in S, f[s] = f[t]
          PROVE  s = t
      <3>1. Cardinality(Before(S, s)) = Cardinality(Before(S, t))
        BY <1>2, <2>2
      <3> QED
        BY <1>3, <3>1, QueueOrder, Zenon
    <2> QED
      BY <2>1, <2>2, Zenon DEF Injection, IsInjective
  <1>5. f \in Surjection(S, 1 .. n)
    BY <1>1, <1>4, FS_Injection, Zenon
  <1>6. \A i \in 1 .. n : \E t \in S : Cardinality(Before(S, t)) = i - 1
    <2> SUFFICES ASSUME NEW i \in 1 .. n PROVE \E t \in S : Cardinality(Before(S, t)) = i - 1
      BY Zenon
    <2>1. PICK t \in S : f[t] = i
      BY <1>5, Zenon DEF Surjection
    <2> QED
      BY <1>2, <2>1
  <1>7. \A i \in 1 .. n : q[i] \in S /\ Cardinality(Before(S, q[i])) = i - 1
    BY <1>6, Zenon
  <1>8. q = Sorted(S, QueueBefore)
    BY Zenon DEF Sorted, Before
  <1>9. q \in [1 .. n -> S]
    BY <1>7, Zenon
  <1>10. \A i, j \in 1 .. n : q[i] = q[j] => i = j
    BY <1>1, <1>7
  <1> HIDE DEF q, n
  <1>11. q \in Seq(S) /\ DOMAIN q = 1 .. n
    BY <1>1, <1>9
  <1> QED
    BY <1>8, <1>10, <1>11, Zenon

Readiness == {"planned", "waiting", "blocked", "review", "accepted", "failed", "canceled", "ready"}

\* One work package's readiness, given that of its dependencies in f.
NodeOf(graph, states, f, w) ==
    ReduceNode(states[w], [i \in DOMAIN graph[w] |-> f[graph[w][i]]])

\* A node has a readiness; it is ready only behind satisfied dependencies, and
\* accepted only in the canonical state of that name.
LEMMA NodeIs ==
  ASSUME NEW state, NEW dependencies
  PROVE  /\ ReduceNode(state, dependencies) \in Readiness
         /\ ReduceNode(state, dependencies) = "ready" =>
               \A i \in DOMAIN dependencies : dependencies[i] = "accepted"
         /\ ReduceNode(state, dependencies) = "accepted" => state = "accepted"
  <1> DEFINE unmet == {i \in DOMAIN dependencies : ~Satisfied(dependencies[i])}
             rest == IF unmet = {} THEN "ready"
                     ELSE IF dependencies[Min(unmet)] \in {"failed", "canceled", "blocked"}
                          THEN "blocked" ELSE "waiting"
  <1>1. ReduceNode(state, dependencies) =
           IF state = "none" THEN "planned"
           ELSE IF state = "in_progress" THEN "waiting"
           ELSE IF state \in {"blocked", "review", "accepted", "failed", "canceled"} THEN state
           ELSE rest
    BY Zenon DEF ReduceNode
  <1>2. rest \in {"ready", "blocked", "waiting"} /\ (rest = "ready" => unmet = {})
    BY Zenon
  <1>3. unmet = {} => \A i \in DOMAIN dependencies : dependencies[i] = "accepted"
    BY Zenon DEF Satisfied
  <1> HIDE DEF rest, unmet
  <1> QED
    BY <1>1, <1>2, <1>3, Zenon DEF Readiness

\* Over a graph without cycles the recursion of ReduceReadiness has its solution: by
\* induction on the depth, as the absence of a least depth without one.
LEMMA ReadinessIs ==
  ASSUME NEW graph, NEW states, IsFiniteSet(DOMAIN graph),
         NEW depth \in [DOMAIN graph -> 0 .. Cardinality(DOMAIN graph)],
         \A w \in DOMAIN graph : \A d \in Range(graph[w]) :
            d \in DOMAIN graph /\ depth[d] < depth[w]
  PROVE  \A w \in DOMAIN graph :
            ReduceReadiness(graph, states)[w] =
               NodeOf(graph, states, ReduceReadiness(graph, states), w)
  <1> DEFINE D == DOMAIN graph
             Solved(n, f) == \A w \in D : depth[w] < n => f[w] = NodeOf(graph, states, f, w)
             Bad == {n \in Nat : ~\E f \in [D -> Readiness] : Solved(n, f)}
  <1>1. Cardinality(D) \in Nat /\ \A w \in D : depth[w] \in Nat /\ depth[w] <= Cardinality(D)
    BY FS_CardinalityType
  <1>2. 0 \notin Bad
    <2>1. [w \in D |-> "ready"] \in [D -> Readiness]
      BY Zenon DEF Readiness
    <2>2. Solved(0, [w \in D |-> "ready"])
      BY <1>1
    <2> QED
      BY <2>1, <2>2, Zenon
  <1>3. ASSUME NEW n \in Nat, n \notin Bad
        PROVE  n + 1 \notin Bad
    <2>1. PICK f \in [D -> Readiness] : Solved(n, f)
      BY <1>3, Zenon
    <2> DEFINE g == [w \in D |-> NodeOf(graph, states, f, w)]
    <2>2. g \in [D -> Readiness]
      BY NodeIs, Zenon DEF NodeOf
    <2>3. ASSUME NEW w \in D, depth[w] < n + 1
          PROVE  g[w] = NodeOf(graph, states, g, w)
      <3>1. \A i \in DOMAIN graph[w] : graph[w][i] \in D /\ depth[graph[w][i]] < n
        <4> SUFFICES ASSUME NEW i \in DOMAIN graph[w]
                     PROVE  graph[w][i] \in D /\ depth[graph[w][i]] < n
          BY Zenon
        <4>1. graph[w][i] \in Range(graph[w])
          BY Zenon DEF Range
        <4>2. graph[w][i] \in D /\ depth[graph[w][i]] < depth[w]
          BY <4>1, Zenon
        <4> QED
          BY <1>1, <2>3, <4>2
      <3>2. \A i \in DOMAIN graph[w] : f[graph[w][i]] = g[graph[w][i]]
        BY <2>1, <3>1, Zenon
      <3>3. [i \in DOMAIN graph[w] |-> f[graph[w][i]]] = [i \in DOMAIN graph[w] |-> g[graph[w][i]]]
        BY <3>2, Zenon
      <3>4. g[w] = NodeOf(graph, states, f, w)
        BY Zenon
      <3> HIDE DEF g
      <3> QED
        BY <3>3, <3>4, Zenon DEF NodeOf
    <2>4. Solved(n + 1, g)
      BY <2>3, Zenon
    <2> HIDE DEF g
    <2> QED
      BY <2>2, <2>4, Zenon
  <1>4. Bad = {}
    <2> SUFFICES ASSUME Bad # {} PROVE FALSE
      BY Zenon
    <2>1. Bad \in SUBSET Nat
      BY Zenon
    <2> HIDE DEF Bad
    <2>2. PICK n \in Bad : \A m \in Bad : n <= m
      BY <2>1, Least, Zenon
    <2>3. n # 0 /\ n \in Nat
      BY <1>2, <2>1, Zenon
    <2>4. n - 1 \in Nat /\ (n - 1) + 1 = n /\ ~(n <= n - 1)
      BY <2>3
    <2>5. n - 1 \notin Bad
      BY <2>2, <2>4, Zenon
    <2> QED
      BY <1>3, <2>4, <2>5, Zenon
  <1>5. PICK f \in [D -> Readiness] : Solved(Cardinality(D) + 1, f)
    <2>1. Cardinality(D) + 1 \in Nat /\ Cardinality(D) + 1 \notin Bad
      BY <1>1, <1>4
    <2> QED
      BY <2>1, Zenon
  <1>6. \A w \in D : f[w] = NodeOf(graph, states, f, w)
    BY <1>1, <1>5
  <1>7. f = [w \in D |-> NodeOf(graph, states, f, w)]
    BY <1>6, Zenon
  <1> DEFINE node == CHOOSE x : x = [w \in D |-> NodeOf(graph, states, x, w)]
  <1>8. node = [w \in D |-> NodeOf(graph, states, node, w)]
    BY <1>7, Zenon
  <1>9. node = ReduceReadiness(graph, states)
    BY Zenon DEF ReduceReadiness, NodeOf
  <1> HIDE DEF node
  <1> QED
    BY <1>8, <1>9, Zenon

-----------------------------------------------------------------------------
(* The inductive invariant, by the part of the state it is about.          *)

Commands == UNION {s.does : s \in Setups}
Labels == {"claim", "prepare"} \cup {c.key : c \in Commands}
Rows == [n : Nat, state : AssignmentStates \cup {"absent"}, lease : {"none", "live", "lapsed", "closed"},
         disp : Dispositions, ops : SUBSET (Labels \X Nat)]

\* RowsInv: an attempt under a lease has its claim among the recorded operations,
\* and RetryOnce.
RowsInv ==
    /\ ctl \in [Assignments -> Rows]
    /\ \A a \in Assignments : ctl[a].state \in FencedStates => <<"claim", ctl[a].n>> \in ctl[a].ops
    /\ RetryOnce

Statuses == {"none", "prepared", "running", "succeeded", "failed", "canceled"}
Sessions == [status : Statuses, cancel : BOOLEAN, input : BOOLEAN, answered : BOOLEAN]

\* One session: a goroutine belongs to a session that runs or was canceled; memory and
\* the state file agree on whether there is a session, and on a prepared one; and no
\* child was started before the file said so.
SessionOf(t) ==
    /\ proc[t] # "none" =>
          /\ life # "down" /\ sess[t].status # "none"
          /\ sess[t].status = "running" \/ sess[t].cancel
    /\ life # "down" /\ sess[t].status = "none" => disk[t] = "none"
    /\ sess[t].status # "none" => disk[t] # "none"
    /\ sess[t].status = "prepared" => disk[t] = "prepared"
    /\ disk[t] \in {"none", "prepared"} => starts[t] = 0

SessionInv ==
    /\ sess \in [Attempts -> Sessions] /\ disk \in [Attempts -> Statuses]
    /\ proc \in [Attempts -> {"none", "starting", "working"}] /\ starts \in [Attempts -> Nat]
    /\ \A t \in Attempts : SessionOf(t)

NodeInv ==
    /\ held \subseteq acquired /\ acquired \subseteq Attempts
    /\ life = "down" => held = {}

Pcs == {"pause", "start", "cancel", "resume", "write", "retry", "save", "canceling", "reload"}
Calls == {Idle} \cup [pc : Pcs, c : Commands, n : Nat]

\* CallInv: a request carries a command of the setup, and ends with the daemon.
CallInv ==
    /\ setup \in Setups /\ call \in [setup.callers -> Calls]
    /\ life = "down" => \A i \in setup.callers : call[i] = Idle

Dispatchers == {"next", "claim", "allocate", "record", "prepare", "bind", "start", "running",
                "unclaim", "unstart"}
Holders ==
    [op : {"none", "cycle", "cancel", "shutdown"},
     pc : Dispatchers \cup {"none", "renew", "lost", "failed", "observe", "stop", "settle"},
     t : {NoAttempt}, todo : SUBSET Attempts, queue : Seq(Attempts), pick : {mu.pick},
     task : {mu.task}, ctx : BOOLEAN, err : BOOLEAN]

\* MutexInv: whoever holds the mutex works through attempts that are supervised, or
\* through a queue; and before it gives one of them up its child was told to stop.
MutexInv ==
    /\ mu \in Holders
    /\ life \in {"up", "closing", "down"} /\ cut \in BOOLEAN /\ faults \in Nat
    /\ mu.todo \subseteq active
    /\ mu.queue # <<>> => mu.op = "cycle" /\ mu.todo = {} /\ mu.pc \in Dispatchers
    /\ mu.op = "none" => mu.todo = {}
    /\ life = "down" => mu = Free /\ active = {}
    /\ ~mu.ctx => cut
    /\ ~cut /\ mu.todo # {} /\ mu.pc \in {"failed", "settle"} =>
          LET t == Oldest(mu.todo) IN proc[t] = "none" \/ sess[t].cancel

\* DistinctInv: the supervised attempts and the queued requests are of different
\* assignments, one each.
DistinctInv ==
    /\ active \subseteq Attempts
    /\ known \in [Assignments -> AssignmentStates \cup {"unknown"}]
    /\ offer.requests \in SUBSET Attempts /\ IsFiniteSet(offer.requests)
    /\ \A t \in offer.requests : AsgOf(t) \in DOMAIN setup.wp
    /\ \A s, t \in offer.requests : Wp(s) = Wp(t) => s = t
    /\ \A s, t \in active : AsgOf(s) = AsgOf(t) => s = t
    /\ \A t \in active : known[AsgOf(t)] = "running"
    /\ \A i \in DOMAIN mu.queue : \A t \in active : AsgOf(mu.queue[i]) # AsgOf(t)
    /\ \A i, j \in DOMAIN mu.queue : AsgOf(mu.queue[i]) = AsgOf(mu.queue[j]) => i = j

\* EarlierInv: an attempt claimed before the daemon last started is never dispatched to
\* its end again, since it is not admitted while its row is leased, and a session
\* prepared for it afresh has no binding.
EarlierInv ==
    /\ earlier \subseteq Attempts
    /\ \A t \in earlier : Recorded("claim", t)
    /\ \A t \in earlier : life # "down" /\ Current(t) /\ ctl[AsgOf(t)].state = "leased" =>
          /\ known[AsgOf(t)] \notin {"unknown", "planned"}
          /\ \A i \in DOMAIN mu.queue : AsgOf(mu.queue[i]) # AsgOf(t)
    /\ \A t \in earlier : sess[t].status = "prepared" => ~Recorded("prepare", t)
    /\ \A t \in Attempts : Recorded("prepare", t) => disk[t] # "none"

\* StepInv: what the dispatch of a request has behind it when it comes to the binding
\* and to the start.
StepInv ==
    /\ Dispatching /\ mu.pc = "bind" => disk[Request] # "none"
    /\ Dispatching /\ mu.pc = "start" => Recorded("prepare", Request)

\* BarrierInv: acceptance is final, in the events handed over and in the queue.
BarrierInv ==
    /\ DOMAIN canon = DOMAIN setup.graph
    /\ offer.requests # {} =>
          \A w \in DOMAIN canon : offer.canon[w] = "accepted" => canon[w] = "accepted"
    /\ \A i \in DOMAIN mu.queue : \A d \in Range(setup.graph[Wp(mu.queue[i])]) :
          d \in DOMAIN canon /\ canon[d] = "accepted"

IExecInv ==
    /\ RowsInv /\ SessionInv /\ NodeInv /\ CallInv /\ MutexInv /\ DistinctInv /\ EarlierInv /\ StepInv
    /\ BarrierInv /\ Supervised /\ LeasesAccounted /\ RunningSupervised

-----------------------------------------------------------------------------
(* The control rows.                                                       *)

\* Operations stay recorded, and no attempt of an earlier life is leased again.
RowsMore ==
    /\ \A a \in Assignments : ctl[a].ops \subseteq ctl'[a].ops
    /\ \A t \in earlier : Current(t)' /\ ctl'[AsgOf(t)].state = "leased" =>
          Current(t) /\ ctl[AsgOf(t)].state = "leased"

\* No binding is recorded.
RowsBound == \A t \in Attempts : Recorded("prepare", t)' => Recorded("prepare", t)

\* No row comes to say running.
RowsRun ==
    \A t \in Attempts : Fenced(t)' /\ ctl'[AsgOf(t)].state = "running" =>
        Fenced(t) /\ ctl[AsgOf(t)].state = "running"

RowsTame == RowsInv' /\ RowsMore /\ RowsBound /\ RowsRun

\* The write of one row.
LEMMA OneRow ==
  ASSUME RowsInv, EarlierInv, NEW a \in Assignments, NEW row \in Rows,
         ctl' = [ctl EXCEPT ![a] = row],
         ctl[a].ops \subseteq row.ops,
         row.state \in FencedStates => <<"claim", row.n>> \in row.ops,
         \A p, q \in row.ops : p[1] = q[1] /\ p[1] \notin {"claim", "prepare"} => p = q,
         row.state = "leased" => \/ ctl[a].n = row.n /\ ctl[a].state = "leased"
                                 \/ <<"claim", row.n>> \notin ctl[a].ops
  PROVE  /\ RowsInv' /\ RowsMore
         /\ (\A n \in Nat : <<"prepare", n>> \in row.ops => <<"prepare", n>> \in ctl[a].ops)
               => RowsBound
         /\ (row.lease = "live" /\ row.state = "running" =>
                ctl[a].lease = "live" /\ ctl[a].state = "running" /\ ctl[a].n = row.n)
               => RowsRun
  <1>1. /\ ctl' \in [Assignments -> Rows] /\ ctl'[a] = row
        /\ \A b \in Assignments \ {a} : ctl'[b] = ctl[b]
    BY Zenon DEF RowsInv
  <1>2. RowsInv'
    <2>1. \A b \in Assignments : ctl'[b].state \in FencedStates => <<"claim", ctl'[b].n>> \in ctl'[b].ops
      BY <1>1, Zenon DEF RowsInv
    <2>2. RetryOnce'
      BY <1>1 DEF RowsInv, RetryOnce
    <2> QED
      BY <1>1, <2>1, <2>2, Zenon DEF RowsInv
  <1>3. RowsMore
    <2>1. \A b \in Assignments : ctl[b].ops \subseteq ctl'[b].ops
      BY <1>1, Zenon
    <2>2. ASSUME NEW t \in earlier, ctl'[AsgOf(t)].n = NumOf(t), ctl'[AsgOf(t)].state = "leased"
          PROVE  ctl[AsgOf(t)].n = NumOf(t) /\ ctl[AsgOf(t)].state = "leased"
      <3>1. AsgOf(t) \in Assignments /\ <<"claim", NumOf(t)>> \in ctl[AsgOf(t)].ops
        BY Zenon DEF EarlierInv, Attempts, AsgOf, NumOf, Recorded
      <3>2. CASE AsgOf(t) = a
        BY <1>1, <2>2, <3>1, <3>2
      <3>3. CASE AsgOf(t) # a
        BY <1>1, <2>2, <3>1, <3>3
      <3> QED
        BY <3>2, <3>3, Zenon
    <2> QED
      BY <2>1, <2>2, Zenon DEF RowsMore, Current
  <1>4. ASSUME \A n \in Nat : <<"prepare", n>> \in row.ops => <<"prepare", n>> \in ctl[a].ops
        PROVE  RowsBound
    <2>1. \A t \in Attempts : AsgOf(t) \in Assignments /\ NumOf(t) \in Nat
      BY AttemptsAssumption DEF Attempts, AsgOf, NumOf
    <2>2. \A b \in Assignments, n \in Nat : <<"prepare", n>> \in ctl'[b].ops => <<"prepare", n>> \in ctl[b].ops
      BY <1>1, <1>4, Zenon
    <2> QED
      BY <2>1, <2>2, Zenon DEF RowsBound, Recorded
  <1>5. ASSUME row.lease = "live" /\ row.state = "running" =>
                  ctl[a].lease = "live" /\ ctl[a].state = "running" /\ ctl[a].n = row.n
        PROVE  RowsRun
    <2>1. \A t \in Attempts : AsgOf(t) \in Assignments
      BY Zenon DEF Attempts, AsgOf
    <2>2. \A b \in Assignments : ctl'[b].lease = "live" /\ ctl'[b].state = "running" =>
             ctl[b].lease = "live" /\ ctl[b].state = "running" /\ ctl[b].n = ctl'[b].n
      BY <1>1, <1>5, Zenon
    <2> QED
      BY <2>1, <2>2, Zenon DEF RowsRun, Fenced, Current
  <1> QED
    BY <1>2, <1>3, <1>4, <1>5, Zenon

\* Rows that stay as they are.
LEMMA SameRows ==
  ASSUME RowsInv, UNCHANGED ctl
  PROVE  RowsTame
  <1>1. RowsInv'
    BY Zenon DEF RowsInv, RetryOnce
  <1> QED
    BY <1>1, Zenon DEF RowsTame, RowsMore, RowsBound, RowsRun, Fenced, Current, Recorded

\* An attempt is its assignment with its number.
LEMMA AttemptIs ==
  ASSUME NEW t \in Attempts
  PROVE  AsgOf(t) \in Assignments /\ NumOf(t) \in Nat /\ t = <<AsgOf(t), NumOf(t)>>
  BY AttemptsAssumption DEF Attempts, AsgOf, NumOf

\* Plan inserts a row, or answers with the rows as they are.
LEMMA PlanTame ==
  ASSUME RowsInv, EarlierInv, NEW t \in Attempts, ctl' = PlanRows(t)
  PROVE  RowsTame
  <1> DEFINE a == AsgOf(t)
             row == [ctl[a] EXCEPT !.n = 1, !.state = "planned"]
  <1>1. CASE ctl[a].state # "absent"
    BY <1>1, SameRows, Zenon DEF PlanRows
  <1>2. CASE ctl[a].state = "absent"
    <2>1. a \in Assignments /\ ctl[a] \in Rows
      BY AttemptIs, Zenon DEF RowsInv
    <2>2. /\ row \in Rows /\ row.state = "planned" /\ row.ops = ctl[a].ops
      BY <2>1, Zenon DEF Rows, AssignmentStates, LiveStates
    <2>3. ctl' = [ctl EXCEPT ![a] = row]
      BY <1>2, <2>1, Zenon DEF PlanRows, RowsInv
    <2>4. \A p, q \in ctl[a].ops : p[1] = q[1] /\ p[1] \notin {"claim", "prepare"} => p = q
      BY <2>1, Zenon DEF RowsInv, RetryOnce
    <2> HIDE DEF row
    <2> QED
      BY <2>1, <2>2, <2>3, <2>4, OneRow, Zenon DEF RowsTame, FencedStates
  <1> QED
    BY <1>1, <1>2, Zenon

\* Claim leases the current attempt that is planned, once.
LEMMA ClaimTame ==
  ASSUME RowsInv, EarlierInv, NEW t \in Attempts, ClaimOk(t), ctl' = ClaimRows(t)
  PROVE  RowsTame
  <1> DEFINE a == AsgOf(t)
             op == <<"claim", NumOf(t)>>
             row == [ctl[a] EXCEPT !.state = "leased", !.lease = "live", !.ops = @ \cup {op}]
  <1>1. CASE Recorded("claim", t)
    BY <1>1, SameRows, Zenon DEF ClaimRows
  <1>2. CASE ~Recorded("claim", t)
    <2>1. a \in Assignments /\ ctl[a] \in Rows /\ ctl[a].n = NumOf(t) /\ op \in Labels \X Nat
      BY <1>2, AttemptIs, Zenon DEF RowsInv, ClaimOk, Current, Labels
    <2>2. /\ row \in Rows /\ row.state = "leased" /\ row.ops = ctl[a].ops \cup {op} /\ row.n = NumOf(t)
      BY <2>1, Zenon DEF Rows, AssignmentStates, LiveStates, FencedStates
    <2>3. ctl' = [ctl EXCEPT ![a] = row]
      BY <1>2, <2>1, Zenon DEF ClaimRows, RowsInv
    <2>4. \A p, q \in ctl[a].ops : p[1] = q[1] /\ p[1] \notin {"claim", "prepare"} => p = q
      BY <2>1, Zenon DEF RowsInv, RetryOnce
    <2>5. op[1] = "claim" /\ op \notin ctl[a].ops /\ \A n \in Nat : <<"prepare", n>> # op
      BY <1>2, Zenon DEF Recorded
    <2>6. \A p, q \in row.ops : p[1] = q[1] /\ p[1] \notin {"claim", "prepare"} => p = q
      BY <2>2, <2>4, <2>5
    <2> HIDE DEF row
    <2> QED
      BY <2>1, <2>2, <2>3, <2>5, <2>6, OneRow, Zenon DEF RowsTame
  <1> QED
    BY <1>1, <1>2, Zenon

\* A binding is recorded for an attempt that is leased, and answered otherwise.
LEMMA BindRow ==
  ASSUME RowsInv, EarlierInv, NEW t \in Attempts, BindOk(t), ctl' = BindRows(t)
  PROVE  /\ RowsInv' /\ RowsMore /\ RowsRun
         /\ Recorded("prepare", t)'
         /\ \A s \in Attempts : Recorded("prepare", s)' =>
               \/ Recorded("prepare", s)
               \/ s = t /\ Current(t) /\ ctl[AsgOf(t)].state = "leased"
  <1> DEFINE a == AsgOf(t)
             op == <<"prepare", NumOf(t)>>
             row == [ctl[a] EXCEPT !.state = "preparing", !.ops = @ \cup {op}]
  <1>1. CASE Recorded("prepare", t)
    <2>1. UNCHANGED ctl
      BY <1>1, Zenon DEF BindRows
    <2> QED
      BY <1>1, <2>1, SameRows DEF Recorded, RowsTame
  <1>2. CASE ~Recorded("prepare", t)
    <2>1. /\ a \in Assignments /\ ctl[a] \in Rows /\ ctl[a].n = NumOf(t) /\ op \in Labels \X Nat
          /\ Current(t) /\ ctl[a].state = "leased"
      BY <1>2, AttemptIs, Zenon DEF RowsInv, BindOk, Fenced, Current, Labels
    <2>2. /\ row \in Rows /\ row.state = "preparing" /\ row.ops = ctl[a].ops \cup {op} /\ row.n = ctl[a].n
      BY <2>1, Zenon DEF Rows, AssignmentStates, LiveStates, FencedStates
    <2>3. ctl' = [ctl EXCEPT ![a] = row]
      BY <1>2, <2>1, Zenon DEF BindRows, RowsInv
    <2>4. /\ \A p, q \in ctl[a].ops : p[1] = q[1] /\ p[1] \notin {"claim", "prepare"} => p = q
          /\ <<"claim", ctl[a].n>> \in ctl[a].ops
      BY <2>1, Zenon DEF RowsInv, RetryOnce, FencedStates
    <2>5. op[1] = "prepare"
      BY Zenon
    <2>6. \A p, q \in row.ops : p[1] = q[1] /\ p[1] \notin {"claim", "prepare"} => p = q
      BY <2>2, <2>4, <2>5
    <2>7. /\ ctl'[a].ops = ctl[a].ops \cup {op}
          /\ \A b \in Assignments \ {a} : ctl'[b] = ctl[b]
      BY <2>1, <2>2, <2>3 DEF RowsInv
    <2>8. RowsInv' /\ RowsMore /\ RowsRun
      <3> HIDE DEF row
      <3> QED
        BY <2>1, <2>2, <2>3, <2>4, <2>6, OneRow, Zenon
    <2>9. Recorded("prepare", t)'
      BY <2>7, Zenon DEF Recorded
    <2>10. ASSUME NEW s \in Attempts, Recorded("prepare", s)', ~Recorded("prepare", s)
           PROVE  s = t
      <3>1. AsgOf(s) = a
        BY <2>7, <2>10, AttemptIs DEF Recorded
      <3>2. <<"prepare", NumOf(s)>> = op
        BY <2>7, <2>10, <3>1 DEF Recorded
      <3> QED
        BY <3>1, <3>2, AttemptIs
    <2> QED
      BY <2>1, <2>8, <2>9, <2>10
  <1> QED
    BY <1>1, <1>2, Zenon

\* A transition writes the row of a fenced attempt.
LEMMA TransitionRow ==
  ASSUME RowsInv, EarlierInv, NEW t, AsgOf(t) \in Assignments,
         NEW target \in {"failed", "canceled", "collecting", "running"},
         TransitionOk(t, target), ctl' = TransitionRows(t, target)
  PROVE  /\ RowsInv' /\ RowsMore /\ RowsBound
         /\ target # "running" => RowsRun
         /\ ctl'[AsgOf(t)].state = target /\ ctl'[AsgOf(t)].n = NumOf(t)
         /\ \A b \in Assignments \ {AsgOf(t)} : ctl'[b] = ctl[b]
  <1> DEFINE a == AsgOf(t)
             lease == IF target \in TerminalStates THEN "closed" ELSE ctl[a].lease
             row == [ctl[a] EXCEPT !.state = target, !.disp = "none", !.lease = lease]
  <1>1. ctl[a] \in Rows /\ ctl[a].n = NumOf(t) /\ ctl[a].lease = "live"
    BY Zenon DEF RowsInv, TransitionOk, Fenced, Current
  <1>2. lease \in {"none", "live", "lapsed", "closed"}
    BY <1>1, Zenon DEF Rows
  <1>3. ctl' = [ctl EXCEPT ![a] = row]
    BY <1>1, Zenon DEF TransitionRows, RowsInv
  <1> HIDE DEF lease
  <1>4. row \in Rows /\ row.state = target /\ row.ops = ctl[a].ops /\ row.n = ctl[a].n
    BY <1>1, <1>2, Zenon DEF Rows, AssignmentStates, LiveStates, FencedStates, TerminalStates, RetryableStates,
                      Dispositions
  <1>5. \A p, q \in ctl[a].ops : p[1] = q[1] /\ p[1] \notin {"claim", "prepare"} => p = q
    BY <1>1, Zenon DEF RowsInv, RetryOnce
  <1>6. target \in FencedStates => ctl[a].state \in FencedStates
    BY Zenon DEF TransitionOk, ReduceAssignmentState, PermittedTargets, FencedStates
  <1>7. target \in FencedStates => <<"claim", ctl[a].n>> \in ctl[a].ops
    BY <1>6, Zenon DEF RowsInv
  <1> HIDE DEF row
  <1>8. RowsInv' /\ RowsMore /\ RowsBound /\ (target # "running" => RowsRun)
    BY <1>1, <1>3, <1>4, <1>5, <1>7, OneRow, Zenon
  <1>9. ctl'[a] = row /\ \A b \in Assignments \ {a} : ctl'[b] = ctl[b]
    BY <1>3, Zenon DEF RowsInv
  <1> QED
    BY <1>1, <1>4, <1>8, <1>9

\* The next attempt is planned without a lease, under an operation of its own.
LEMMA RetryTame ==
  ASSUME RowsInv, EarlierInv, NEW a \in Assignments,
         NEW key \in Labels \ {"claim", "prepare"}, ctl' = RetryRows(a, key)
  PROVE  RowsTame
  <1> DEFINE op == <<key, ctl[a].n + 1>>
             row == [ctl[a] EXCEPT !.n = ctl[a].n + 1, !.state = "planned", !.lease = "none",
                                   !.disp = "none", !.ops = ctl[a].ops \cup {op}]
  <1>1. CASE RetryRecorded(a, key)
    BY <1>1, SameRows, Zenon DEF RetryRows
  <1>2. CASE ~RetryRecorded(a, key)
    <2>1. ctl[a] \in Rows /\ ctl[a].n \in Nat /\ op \in Labels \X Nat
      BY DEF RowsInv, Rows
    <2>2. row \in Rows /\ row.state = "planned" /\ row.ops = ctl[a].ops \cup {op} /\ row.lease = "none"
      BY <2>1, Zenon DEF Rows, AssignmentStates, LiveStates, Dispositions
    <2>3. ctl' = [ctl EXCEPT ![a] = row]
      BY <1>2, <2>1, Zenon DEF RetryRows, RowsInv
    <2>4. \A p, q \in ctl[a].ops : p[1] = q[1] /\ p[1] \notin {"claim", "prepare"} => p = q
      BY <2>1, Zenon DEF RowsInv, RetryOnce
    <2>5. op[1] = key /\ (\A n \in Nat : <<"prepare", n>> # op) /\ \A p \in ctl[a].ops : p[1] # key
      BY <1>2, Zenon DEF RetryRecorded
    <2>6. \A p, q \in row.ops : p[1] = q[1] /\ p[1] \notin {"claim", "prepare"} => p = q
      BY <2>2, <2>4, <2>5
    <2> HIDE DEF row, op
    <2> QED
      BY <2>1, <2>2, <2>3, <2>5, <2>6, OneRow, Zenon DEF RowsTame, FencedStates
  <1> QED
    BY <1>1, <1>2

\* A lease that passes its expiry.
LEMMA LapseTame ==
  ASSUME RowsInv, EarlierInv, NEW a \in Assignments, ctl' = LapseRows(a)
  PROVE  RowsTame
  <1> DEFINE row == [ctl[a] EXCEPT !.lease = "lapsed"]
  <1>1. ctl[a] \in Rows
    BY Zenon DEF RowsInv
  <1>2. /\ row \in Rows /\ row.state = ctl[a].state /\ row.ops = ctl[a].ops /\ row.n = ctl[a].n
        /\ row.lease = "lapsed"
    BY <1>1, Zenon DEF Rows
  <1>3. ctl' = [ctl EXCEPT ![a] = row]
    BY <1>1, Zenon DEF LapseRows, RowsInv
  <1>4. /\ \A p, q \in ctl[a].ops : p[1] = q[1] /\ p[1] \notin {"claim", "prepare"} => p = q
        /\ ctl[a].state \in FencedStates => <<"claim", ctl[a].n>> \in ctl[a].ops
    BY <1>1, Zenon DEF RowsInv, RetryOnce
  <1> HIDE DEF row
  <1> QED
    BY <1>2, <1>3, <1>4, OneRow, Zenon DEF RowsTame

\* Reconcile changes no attempt and no operation, and expires what has lapsed.
LEMMA ReconcileIs ==
  ASSUME RowsInv, ctl' = ReconcileRows
  PROVE  /\ RowsInv'
         /\ \A a \in Assignments :
               /\ ctl'[a].n = ctl[a].n /\ ctl'[a].ops = ctl[a].ops
               /\ ctl'[a].state \in {ctl[a].state, "expired"}
  <1>1. ASSUME NEW a \in Assignments
        PROVE  /\ ctl'[a] \in Rows /\ ctl'[a].n = ctl[a].n /\ ctl'[a].ops = ctl[a].ops
               /\ ctl'[a].state \in {ctl[a].state, "expired"}
    <2> DEFINE bound == <<"prepare", ctl[a].n>> \in ctl[a].ops
               found == IF ctl[a].state = "leased" /\ ~bound THEN "reconcile" ELSE "needs_operator"
               told == RecoveryForState(ctl[a].state, bound)
    <2>1. ctl[a] \in Rows
      BY Zenon DEF RowsInv
    <2>2. found \in Dispositions
      BY Zenon DEF Dispositions
    <2>3. told \in Dispositions
      BY Zenon DEF Dispositions, RecoveryForState
    <2>4. ctl'[a] = IF a \notin Reconciled THEN ctl[a]
                    ELSE IF ctl[a].lease = "lapsed"
                    THEN [ctl[a] EXCEPT !.state = "expired", !.lease = "closed", !.disp = found]
                    ELSE [ctl[a] EXCEPT !.disp = told]
      BY Zenon DEF ReconcileRows
    <2> HIDE DEF found, told
    <2>5. CASE a \notin Reconciled
      BY <2>1, <2>4, <2>5, Zenon
    <2>6. CASE a \in Reconciled /\ ctl[a].lease = "lapsed"
      <3>1. ctl'[a] = [ctl[a] EXCEPT !.state = "expired", !.lease = "closed", !.disp = found]
        BY <2>4, <2>6, Zenon
      <3> QED
        BY <2>1, <2>2, <3>1, Zenon DEF Rows, AssignmentStates, TerminalStates, RetryableStates
    <2>7. CASE a \in Reconciled /\ ctl[a].lease # "lapsed"
      <3>1. ctl'[a] = [ctl[a] EXCEPT !.disp = told]
        BY <2>4, <2>7, Zenon
      <3> QED
        BY <2>1, <2>3, <3>1 DEF Rows
    <2> QED
      BY <2>5, <2>6, <2>7
  <1>2. ctl' \in [Assignments -> Rows]
    <2>1. ctl' = [a \in Assignments |-> ctl'[a]]
      BY Zenon DEF ReconcileRows
    <2> QED
      BY <1>1, <2>1, Zenon
  <1>3. \A a \in Assignments : ctl'[a].state \in FencedStates => <<"claim", ctl'[a].n>> \in ctl'[a].ops
    BY <1>1, Zenon DEF RowsInv, FencedStates
  <1>4. RetryOnce'
    BY <1>1, Zenon DEF RowsInv, RetryOnce
  <1> QED
    BY <1>1, <1>2, <1>3, <1>4 DEF RowsInv

-----------------------------------------------------------------------------
(* The sessions of the runtime.                                            *)

FilesStay == \A t \in Attempts : disk[t] # "none" => disk'[t] # "none"

NonePrepared == \A t \in Attempts : sess'[t].status = "prepared" => sess[t].status = "prepared"

\* No child comes to be that was not told to stop.
NoneStarted ==
    \A t \in Attempts : proc'[t] # "none" /\ ~sess'[t].cancel => proc[t] # "none" /\ ~sess[t].cancel

SessionsTame == SessionInv' /\ FilesStay /\ NonePrepared /\ NoneStarted

SessionsTyped ==
    /\ sess \in [Attempts -> Sessions] /\ disk \in [Attempts -> Statuses]
    /\ proc \in [Attempts -> {"none", "starting", "working"}] /\ starts \in [Attempts -> Nat]

OthersRun(t) ==
    \A s \in Attempts \ {t} :
        sess'[s] = sess[s] /\ disk'[s] = disk[s] /\ proc'[s] = proc[s] /\ starts'[s] = starts[s]

\* A step of one session.
LEMMA OneSession ==
  ASSUME SessionInv, UNCHANGED life, NEW t \in Attempts, SessionsTyped', OthersRun(t), SessionOf(t)',
         disk[t] # "none" => disk'[t] # "none"
  PROVE  /\ SessionInv' /\ FilesStay
         /\ (sess'[t].status = "prepared" => sess[t].status = "prepared") => NonePrepared
         /\ (proc'[t] # "none" /\ ~sess'[t].cancel => proc[t] # "none" /\ ~sess[t].cancel) => NoneStarted
  <1>1. \A s \in Attempts : s = t \/ s \in Attempts \ {t}
    BY Zenon
  <1>2. ASSUME NEW s \in Attempts \ {t} PROVE SessionOf(s)'
    <2>1. SessionOf(s)
      BY Zenon DEF SessionInv
    <2> QED
      BY <2>1, Zenon DEF SessionOf, OthersRun
  <1>3. SessionInv'
    <2>1. \A s \in Attempts : SessionOf(s)'
      BY <1>2, Zenon
    <2> QED
      BY <2>1, Zenon DEF SessionInv, SessionsTyped
  <1>4. FilesStay
    BY <1>1, Zenon DEF FilesStay, OthersRun
  <1>5. (sess'[t].status = "prepared" => sess[t].status = "prepared") => NonePrepared
    BY <1>1, Zenon DEF NonePrepared, OthersRun
  <1>6. (proc'[t] # "none" /\ ~sess'[t].cancel => proc[t] # "none" /\ ~sess[t].cancel) => NoneStarted
    BY <1>1, Zenon DEF NoneStarted, OthersRun
  <1> QED
    BY <1>3, <1>4, <1>5, <1>6

\* A step that leaves the runtime alone.
LEMMA SameSessions ==
  ASSUME SessionInv, UNCHANGED <<runtimeVars, life>>
  PROVE  SessionsTame
  <1>1. SessionInv'
    <2>1. UNCHANGED <<sess, disk, proc, starts, life>>
      BY Zenon DEF runtimeVars
    <2> QED
      BY <2>1, Zenon DEF SessionInv, SessionOf
  <1> QED
    BY <1>1, Zenon DEF SessionsTame, FilesStay, NonePrepared, NoneStarted, runtimeVars

\* One session with its file, its goroutine and its count.
LEMMA SessionShape ==
  ASSUME SessionInv, NEW t \in Attempts
  PROVE  /\ sess[t] \in Sessions /\ disk[t] \in Statuses /\ starts[t] \in Nat
         /\ proc[t] \in {"none", "starting", "working"}
         /\ sess = [sess EXCEPT ![t] = sess[t]] /\ disk = [disk EXCEPT ![t] = disk[t]]
         /\ proc = [proc EXCEPT ![t] = proc[t]] /\ starts = [starts EXCEPT ![t] = starts[t]]
         /\ SessionOf(t)
  <1>1. /\ sess[t] \in Sessions /\ disk[t] \in Statuses /\ starts[t] \in Nat /\ SessionOf(t)
        /\ proc[t] \in {"none", "starting", "working"}
    BY Zenon DEF SessionInv
  <1>2. /\ sess = [sess EXCEPT ![t] = sess[t]] /\ disk = [disk EXCEPT ![t] = disk[t]]
        /\ proc = [proc EXCEPT ![t] = proc[t]] /\ starts = [starts EXCEPT ![t] = starts[t]]
    BY Zenon DEF SessionInv
  <1> QED
    BY <1>1, <1>2, Zenon

\* A cancel that a running session hears; afterwards its child was told to stop.
LEMMA CancelTame ==
  ASSUME SessionInv, UNCHANGED life, NEW t \in Attempts, CancelIfRunning(t)
  PROVE  /\ SessionsTame /\ UNCHANGED starts
         /\ proc'[t] = "none" \/ sess'[t].cancel
  <1> DEFINE new == [sess[t] EXCEPT !.status = "canceled", !.cancel = TRUE]
  <1>0. sess[t] \in Sessions /\ starts[t] \in Nat /\ SessionOf(t)
    BY SessionShape, Zenon
  <1>1. CASE ~CancelOk(t)
    <2>1. UNCHANGED runtimeVars
      BY <1>1, Zenon DEF CancelIfRunning
    <2>2. proc'[t] = "none" \/ sess'[t].cancel
      BY <1>0, <1>1, <2>1 DEF runtimeVars, SessionOf, CancelOk
    <2> QED
      BY <2>1, <2>2, SameSessions DEF runtimeVars
  <1>2. CASE CancelOk(t)
    <2>0. PICK saved \in BOOLEAN : Cancel(t, saved)
      BY <1>2, Zenon DEF CancelIfRunning
    <2> DEFINE file == IF saved THEN "canceled" ELSE disk[t]
    <2>1. /\ sess' = [sess EXCEPT ![t] = new] /\ disk' = [disk EXCEPT ![t] = file]
          /\ UNCHANGED <<proc, starts>>
      BY <2>0, SessionShape, Zenon DEF Cancel
    <2>2. new \in Sessions /\ new.status = "canceled" /\ new.cancel
      BY <1>0, Zenon DEF Sessions, Statuses
    <2>3. file \in Statuses /\ file # "none" /\ (file = "prepared" => disk[t] = "prepared")
      BY <1>0, <1>2, SessionShape, Zenon DEF SessionOf, CancelOk, Statuses
    <2> HIDE DEF new, file
    <2>4. /\ SessionsTyped' /\ OthersRun(t)
          /\ sess'[t].status = "canceled" /\ sess'[t].cancel /\ disk'[t] = file
          /\ proc'[t] = proc[t] /\ starts' = starts
      BY <2>1, <2>2, <2>3, Zenon DEF SessionInv, SessionsTyped, OthersRun
    <2>5. SessionOf(t)'
      BY <1>0, <2>3, <2>4, Zenon DEF SessionOf
    <2>6. SessionsTame
      BY <2>3, <2>4, <2>5, OneSession, Zenon DEF SessionsTame
    <2> QED
      BY <2>4, <2>6, Zenon
  <1> QED
    BY <1>1, <1>2, Zenon

\* Prepare writes the file of a session that was not there.
LEMMA PrepareSteps ==
  ASSUME SessionInv, UNCHANGED life, life # "down", NEW t \in Attempts, Prepare(t)
  PROVE  /\ SessionInv' /\ FilesStay /\ NoneStarted /\ UNCHANGED starts
         /\ disk'[t] # "none"
         /\ \A s \in Attempts : sess'[s].status = "prepared" =>
               sess[s].status = "prepared" \/ (s = t /\ disk[t] = "none")
  <1> DEFINE new == [sess[t] EXCEPT !.status = "prepared", !.input = TRUE]
  <1>0. sess[t] \in Sessions /\ starts[t] \in Nat /\ SessionOf(t)
    BY SessionShape, Zenon
  <1>1. CASE sess[t].status # "none"
    <2>1. UNCHANGED runtimeVars
      BY <1>1, Zenon DEF Prepare, runtimeVars
    <2>2. disk'[t] # "none"
      BY <1>0, <1>1, <2>1 DEF SessionOf, runtimeVars
    <2> QED
      BY <2>1, <2>2, SameSessions DEF runtimeVars, SessionsTame, NonePrepared
  <1>2. CASE sess[t].status = "none"
    <2>1. /\ sess' = [sess EXCEPT ![t] = new] /\ disk' = [disk EXCEPT ![t] = "prepared"]
          /\ UNCHANGED <<proc, starts>>
      BY <1>2, Zenon DEF Prepare
    <2>2. new \in Sessions /\ new.status = "prepared" /\ new.cancel = sess[t].cancel
      BY <1>0, Zenon DEF Sessions, Statuses
    <2> HIDE DEF new
    <2>3. SessionsTyped' /\ OthersRun(t)
      BY <2>1, <2>2, Zenon DEF SessionInv, SessionsTyped, OthersRun, Statuses
    <2>4. /\ sess'[t].status = "prepared" /\ disk'[t] = "prepared" /\ sess'[t].cancel = sess[t].cancel
          /\ proc'[t] = proc[t] /\ starts' = starts
      BY <2>1, <2>2, Zenon DEF SessionInv
    <2>5. proc[t] = "none" /\ disk[t] = "none" /\ starts[t] = 0
      BY <1>0, <1>2, Zenon DEF SessionOf
    <2>6. SessionOf(t)'
      BY <2>4, <2>5, Zenon DEF SessionOf
    <2>7. SessionInv' /\ FilesStay /\ NoneStarted
      BY <2>3, <2>4, <2>5, <2>6, OneSession
    <2>8. \A s \in Attempts : sess'[s].status = "prepared" => sess[s].status = "prepared" \/ s = t
      BY <2>3, Zenon DEF OthersRun
    <2> QED
      BY <2>4, <2>5, <2>7, <2>8
  <1> QED
    BY <1>1, <1>2, Zenon

\* A prepared session has no child behind it.
LEMMA StartSteps ==
  ASSUME SessionInv, UNCHANGED life, life # "down", NEW t \in Attempts, sess[t].status = "prepared", Start(t)
  PROVE  /\ SessionInv' /\ FilesStay /\ NonePrepared
         /\ \A s \in Attempts \ {t} : /\ sess'[s] = sess[s] /\ proc'[s] = proc[s]
                                      /\ starts'[s] = starts[s]
         /\ starts'[t] = 1
  <1> DEFINE new == [sess[t] EXCEPT !.status = "running", !.input = FALSE, !.answered = TRUE]
  <1>0. sess[t] \in Sessions /\ starts[t] \in Nat /\ SessionOf(t)
    BY SessionShape, Zenon
  <1>1. starts[t] = 0
    BY <1>0, Zenon DEF SessionOf
  <1>2. /\ sess' = [sess EXCEPT ![t] = new] /\ disk' = [disk EXCEPT ![t] = "running"]
        /\ proc' = [proc EXCEPT ![t] = "starting"] /\ starts' = [starts EXCEPT ![t] = @ + 1]
    BY Zenon DEF Start
  <1>3. new \in Sessions /\ new.status = "running"
    BY <1>0, Zenon DEF Sessions, Statuses
  <1> HIDE DEF new
  <1>4. starts' = [starts EXCEPT ![t] = 1]
    BY <1>1, <1>2
  <1>5. SessionsTyped' /\ OthersRun(t)
    BY <1>2, <1>3, <1>4 DEF SessionInv, SessionsTyped, OthersRun, Statuses
  <1>6. sess'[t].status = "running" /\ disk'[t] = "running" /\ proc'[t] = "starting" /\ starts'[t] = 1
    BY <1>2, <1>3, <1>4, Zenon DEF SessionInv
  <1>7. SessionOf(t)'
    BY <1>6, Zenon DEF SessionOf
  <1>8. SessionInv' /\ FilesStay /\ NonePrepared
    BY <1>5, <1>6, <1>7, OneSession, Zenon
  <1> QED
    BY <1>5, <1>6, <1>8 DEF OthersRun

\* execute resolved the workspace: the child works.
LEMMA WorkTame ==
  ASSUME SessionInv, UNCHANGED life, NEW t \in Attempts, proc[t] # "none", Work(t)
  PROVE  SessionsTame /\ UNCHANGED starts
  <1>0. SessionOf(t)
    BY SessionShape, Zenon
  <1>1. SessionsTyped' /\ OthersRun(t)
    BY Zenon DEF Work, SessionInv, SessionsTyped, OthersRun
  <1>2. UNCHANGED <<sess, disk, starts>>
    BY Zenon DEF Work
  <1>3. SessionOf(t)'
    BY <1>0, <1>2 DEF SessionOf
  <1>4. SessionsTame
    BY <1>1, <1>2, <1>3, OneSession DEF SessionsTame
  <1> QED
    BY <1>2, <1>4, Zenon

\* The goroutine ends; its state file is written or keeps what it said.
LEMMA FinishTame ==
  ASSUME SessionInv, UNCHANGED life, NEW t \in Attempts, proc[t] # "none",
         NEW outcome \in Outcomes, NEW saved \in BOOLEAN, Finish(t, outcome, saved)
  PROVE  SessionsTame /\ UNCHANGED starts
  <1> DEFINE status == IF sess[t].cancel THEN "canceled" ELSE outcome
             file == IF saved THEN status ELSE disk[t]
  <1>0. /\ sess[t] \in Sessions /\ starts[t] \in Nat /\ SessionOf(t) /\ disk[t] \in Statuses
        /\ disk = [disk EXCEPT ![t] = disk[t]]
    BY SessionShape, Zenon
  <1>1. status \in {"canceled", "succeeded", "failed"}
    BY Zenon DEF Outcomes
  <1>2. /\ sess' = [sess EXCEPT ![t].status = status]
        /\ proc' = [proc EXCEPT ![t] = "none"] /\ starts' = starts
    BY Zenon DEF Finish
  <1>3. disk' = [disk EXCEPT ![t] = file]
    BY <1>0, Zenon DEF Finish
  <1> HIDE DEF status
  <1>4. disk[t] \notin {"none", "prepared"} \/ starts[t] = 0
    BY <1>0, Zenon DEF SessionOf
  <1>5. file \in Statuses /\ file # "none" /\ (file \in {"none", "prepared"} => starts[t] = 0)
    BY <1>0, <1>1, <1>4 DEF Statuses, SessionOf
  <1> HIDE DEF file
  <1>6. sess'[t] \in Sessions /\ sess'[t].status = status
    BY <1>0, <1>1, <1>2 DEF SessionInv, Sessions, Statuses
  <1>7. SessionsTyped' /\ OthersRun(t) /\ disk'[t] = file /\ proc'[t] = "none"
    <2>1. sess' \in [Attempts -> Sessions] /\ \A s \in Attempts \ {t} : sess'[s] = sess[s]
      BY <1>2, <1>6, Zenon DEF SessionInv
    <2>2. disk' \in [Attempts -> Statuses] /\ disk'[t] = file /\ \A s \in Attempts \ {t} : disk'[s] = disk[s]
      BY <1>3, <1>5, Zenon DEF SessionInv
    <2>3. /\ proc' \in [Attempts -> {"none", "starting", "working"}] /\ proc'[t] = "none"
          /\ \A s \in Attempts \ {t} : proc'[s] = proc[s]
      BY <1>2, Zenon DEF SessionInv
    <2> QED
      BY <1>2, <2>1, <2>2, <2>3 DEF SessionsTyped, OthersRun, SessionInv
  <1>8. SessionOf(t)'
    BY <1>1, <1>2, <1>5, <1>6, <1>7 DEF SessionOf
  <1>9. SessionsTame
    BY <1>1, <1>5, <1>6, <1>7, <1>8, OneSession DEF SessionsTame
  <1> QED
    BY <1>2, <1>9

-----------------------------------------------------------------------------
(* What stays as it is, or only shrinks.                                   *)

\* The queue moves on, or stays.
QueueTail ==
    \E k \in Nat : \A i \in DOMAIN mu'.queue :
        i + k \in DOMAIN mu.queue /\ mu'.queue[i] = mu.queue[i + k]

\* A queue that stays, is dropped or loses its head has a tail of what it was.
LEMMA QueueMoves ==
  ASSUME mu.queue \in Seq(Attempts),
         \/ mu'.queue = mu.queue \/ mu'.queue = <<>>
         \/ mu.queue # <<>> /\ mu'.queue = Tail(mu.queue)
  PROVE  QueueTail
  <1> DEFINE q == mu.queue
             r == mu'.queue
  <1>0. DOMAIN q = 1 .. Len(q) /\ Len(q) \in Nat
    OBVIOUS
  <1>1. CASE r = q
    <2>1. \A i \in DOMAIN r : i + 0 \in DOMAIN q /\ r[i] = q[i + 0]
      BY <1>0, <1>1
    <2> QED
      BY <2>1, Zenon DEF QueueTail
  <1>2. CASE r = <<>>
    <2>1. \A i \in DOMAIN r : i + 0 \in DOMAIN q /\ r[i] = q[i + 0]
      BY <1>2
    <2> QED
      BY <2>1, Zenon DEF QueueTail
  <1>3. CASE q # <<>> /\ r = Tail(q)
    <2>1. Len(r) = Len(q) - 1 /\ DOMAIN r = 1 .. Len(r) /\ \A i \in 1 .. Len(r) : r[i] = q[i + 1]
      BY <1>0, <1>3
    <2>2. \A i \in DOMAIN r : i + 1 \in DOMAIN q /\ r[i] = q[i + 1]
      BY <1>0, <2>1
    <2> QED
      BY <2>2, Zenon DEF QueueTail
  <1> QED
    BY <1>1, <1>2, <1>3

\* Requests and supervised attempts stay of different assignments when none is added.
LEMMA DistinctKept ==
  ASSUME DistinctInv, QueueTail, UNCHANGED setup, offer' = offer \/ offer' = NoOffer,
         active' \subseteq active, known' \in [Assignments -> AssignmentStates \cup {"unknown"}],
         \A t \in active' : known'[AsgOf(t)] = "running",
         mu.queue \in Seq(Attempts), mu'.queue \in Seq(Attempts)
  PROVE  DistinctInv'
  <1>1. /\ offer'.requests \in SUBSET Attempts /\ IsFiniteSet(offer'.requests)
        /\ \A t \in offer'.requests : AsgOf(t) \in DOMAIN setup.wp
        /\ \A s, t \in offer'.requests : Wp(s) = Wp(t) => s = t
    <2>1. CASE offer' = offer
      BY <2>1, Zenon DEF DistinctInv
    <2>2. CASE offer' = NoOffer
      <3>1. offer'.requests = {}
        BY <2>2, Zenon DEF NoOffer
      <3> QED
        BY <3>1, FS_EmptySet, Zenon
    <2> QED
      BY <2>1, <2>2, Zenon
  <1>2. (\A s, t \in offer.requests : Wp(s) = Wp(t) => s = t)'
    BY <1>1, Zenon DEF Wp
  <1>3. PICK k \in Nat : \A i \in DOMAIN mu'.queue : i + k \in DOMAIN mu.queue /\ mu'.queue[i] = mu.queue[i + k]
    BY Zenon DEF QueueTail
  <1>4. \A i \in DOMAIN mu'.queue : \A t \in active' : AsgOf(mu'.queue[i]) # AsgOf(t)
    BY <1>3 DEF DistinctInv
  <1>5. ASSUME NEW i \in DOMAIN mu'.queue, NEW j \in DOMAIN mu'.queue,
               AsgOf(mu'.queue[i]) = AsgOf(mu'.queue[j])
        PROVE  i = j
    <2>1. i + k = j + k
      BY <1>3, <1>5 DEF DistinctInv
    <2>2. i \in Nat /\ j \in Nat
      OBVIOUS
    <2> QED
      BY <2>1, <2>2
  <1> QED
    BY <1>1, <1>2, <1>4, <1>5 DEF DistinctInv

\* A session prepared for an attempt of an earlier life has no binding, and a binding
\* has a session.
BindingsApart ==
    /\ \A t \in earlier : sess[t].status = "prepared" => ~Recorded("prepare", t)
    /\ \A t \in Attempts : Recorded("prepare", t) => disk[t] # "none"

\* Attempts of an earlier life stay out when nothing of theirs becomes planned again.
LEMMA EarlierMoves ==
  ASSUME EarlierInv, RowsMore, BindingsApart', UNCHANGED earlier, QueueTail, life' # "down" => life # "down",
         \A a \in Assignments : known'[a] \in {"unknown", "planned"} =>
            \/ known[a] \in {"unknown", "planned"}
            \/ \E i \in DOMAIN mu.queue : AsgOf(mu.queue[i]) = a
  PROVE  EarlierInv'
  <1>0. earlier' \subseteq Attempts /\ \A t \in earlier : t \in Attempts
    BY Zenon DEF EarlierInv
  <1>1. \A t \in earlier : Recorded("claim", t)'
    BY <1>0, AttemptIs, Zenon DEF EarlierInv, RowsMore, Recorded
  <1>2. ASSUME NEW t \in earlier, life' # "down", Current(t)', ctl'[AsgOf(t)].state = "leased"
        PROVE  /\ known'[AsgOf(t)] \notin {"unknown", "planned"}
               /\ \A i \in DOMAIN mu'.queue : AsgOf(mu'.queue[i]) # AsgOf(t)
    <2>1. /\ known[AsgOf(t)] \notin {"unknown", "planned"}
          /\ \A i \in DOMAIN mu.queue : AsgOf(mu.queue[i]) # AsgOf(t)
      BY <1>2, Zenon DEF RowsMore, EarlierInv
    <2>2. AsgOf(t) \in Assignments
      BY <1>0, AttemptIs, Zenon
    <2> QED
      BY <2>1, <2>2, Zenon DEF QueueTail
  <1> QED
    BY <1>0, <1>1, <1>2 DEF EarlierInv, BindingsApart

\* A session prepared afresh for an attempt of an earlier life stays without binding.
LEMMA BindingsKept ==
  ASSUME EarlierInv, RowsBound, FilesStay, NonePrepared, UNCHANGED earlier
  PROVE  BindingsApart'
  <1>1. \A t \in earlier : t \in Attempts
    BY Zenon DEF EarlierInv
  <1>2. \A t \in earlier : sess'[t].status = "prepared" => ~Recorded("prepare", t)'
    BY <1>1, Zenon DEF NonePrepared, RowsBound, EarlierInv
  <1>3. \A t \in Attempts : Recorded("prepare", t)' => disk'[t] # "none"
    BY Zenon DEF RowsBound, FilesStay, EarlierInv
  <1> QED
    BY <1>2, <1>3, Zenon DEF BindingsApart

\* Attempts of an earlier life stay out in a step that binds nothing and prepares nothing.
LEMMA EarlierKept ==
  ASSUME EarlierInv, RowsMore, RowsBound, FilesStay, NonePrepared, UNCHANGED earlier, QueueTail,
         life' # "down" => life # "down",
         \A a \in Assignments : known'[a] \in {"unknown", "planned"} =>
            \/ known[a] \in {"unknown", "planned"}
            \/ \E i \in DOMAIN mu.queue : AsgOf(mu.queue[i]) = a
  PROVE  EarlierInv'
  <1>1. BindingsApart'
    BY BindingsKept, Zenon
  <1> QED
    BY <1>1, EarlierMoves, Zenon

AcceptedStays ==
    DOMAIN canon' = DOMAIN canon /\ \A w \in DOMAIN canon : canon[w] = "accepted" => canon'[w] = "accepted"

\* Acceptance stays final in the offer and in the queue.
LEMMA BarrierKept ==
  ASSUME BarrierInv, QueueTail, UNCHANGED setup, offer' = offer \/ offer' = NoOffer, AcceptedStays
  PROVE  BarrierInv'
  <1>1. DOMAIN canon' = DOMAIN setup'.graph
    BY Zenon DEF BarrierInv, AcceptedStays
  <1>2. offer'.requests # {} =>
           \A w \in DOMAIN canon' : offer'.canon[w] = "accepted" => canon'[w] = "accepted"
    BY DEF BarrierInv, AcceptedStays, NoOffer
  <1>3. ASSUME NEW i \in DOMAIN mu'.queue, NEW d \in Range(setup'.graph[Wp(mu'.queue[i])])
        PROVE  d \in DOMAIN canon' /\ canon'[d] = "accepted"
    <2>1. PICK j \in DOMAIN mu.queue : mu'.queue[i] = mu.queue[j]
      BY Zenon DEF QueueTail
    <2> QED
      BY <2>1, Zenon DEF BarrierInv, AcceptedStays
  <1>4. (\A i \in DOMAIN mu.queue : \A d \in Range(setup.graph[Wp(mu.queue[i])]) :
             d \in DOMAIN canon /\ canon[d] = "accepted")'
    BY <1>3, Zenon DEF Wp
  <1> QED
    BY <1>1, <1>2, <1>4 DEF BarrierInv

\* The dispatch stays where it is.
SamePlace == mu'.queue = mu.queue /\ (mu.queue # <<>> => mu'.op = mu.op /\ mu'.pc = mu.pc)

\* What the place of the dispatch says of it.
LEMMA PlaceStays ==
  ASSUME SamePlace
  PROVE  /\ Dispatching' <=> Dispatching
         /\ Request' = Request
         /\ Dispatching => mu'.pc = mu.pc
         /\ \A pc : Dispatching => (At(pc)' <=> At(pc))
  BY Zenon DEF SamePlace, Dispatching, Request, At

\* The daemon goes on; a context that is lost, and a call that failed, stay so.
GoesOn == (life' # "down" => life # "down") /\ (cut => cut') /\ (faults' = 0 => faults = 0)

\* What a dispatch has behind it stays behind it.
LEMMA StepKept ==
  ASSUME StepInv, SamePlace, RowsMore, FilesStay, mu.queue \in Seq(Attempts)
  PROVE  StepInv'
  <1>1. mu.queue # <<>> => Request \in Attempts /\ AsgOf(Request) \in Assignments
    <2>1. mu.queue # <<>> => Request \in Attempts
      BY DEF Request
    <2> QED
      BY <2>1, AttemptIs
  <1>2. (Dispatching' /\ mu'.pc = "bind") => disk'[Request'] # "none"
    BY <1>1, PlaceStays DEF StepInv, FilesStay, Dispatching
  <1>3. (Dispatching' /\ mu'.pc = "start") => Recorded("prepare", Request)'
    BY <1>1, PlaceStays, Zenon DEF StepInv, RowsMore, Dispatching, Recorded
  <1> QED
    BY <1>2, <1>3 DEF StepInv

\* A step that leaves the scheduler's memory and the place of the dispatch as they are.
LEMMA FrameCore ==
  ASSUME IExecInv, RowsTame, SessionsTame, NodeInv', held' \subseteq held, CallInv', MutexInv', SamePlace,
         UNCHANGED <<active, known, earlier>>, DistinctInv', BarrierInv', GoesOn
  PROVE  IExecInv'
  <1>1. mu.queue \in Seq(Attempts) /\ mu'.queue \in Seq(Attempts)
    BY Zenon DEF IExecInv, MutexInv, Holders
  <1>2. QueueTail
    BY <1>1, QueueMoves DEF SamePlace
  <1>3. EarlierInv'
    BY <1>2, EarlierKept DEF IExecInv, RowsTame, SessionsTame, GoesOn
  <1>4. StepInv'
    BY <1>1, StepKept DEF IExecInv, RowsTame, SessionsTame
  <1>5. Supervised'
    <2> SUFFICES ASSUME life' # "down", ~cut', NEW t \in Processes'
                 PROVE  \/ sess'[t].cancel \/ t \in active'
                        \/ Dispatching' /\ At("running")' /\ Request' = t
      BY Zenon DEF Supervised
    <2>1. t \in Attempts /\ proc'[t] # "none"
      BY Zenon DEF Processes, SessionsTame, SessionInv
    <2>2. CASE sess'[t].cancel
      BY <2>2, Zenon
    <2>3. CASE ~sess'[t].cancel
      <3>1. proc[t] # "none" /\ ~sess[t].cancel
        BY <2>1, <2>3, Zenon DEF SessionsTame, NoneStarted
      <3>2. t \in Processes
        BY <2>1, <3>1 DEF Processes, IExecInv, SessionInv
      <3>3. t \in active \/ (Dispatching /\ At("running") /\ Request = t)
        BY <3>1, <3>2, Zenon DEF IExecInv, Supervised, GoesOn
      <3> QED
        BY <3>3, PlaceStays
    <2> QED
      BY <2>2, <2>3, Zenon
  <1>6. LeasesAccounted'
    <2> SUFFICES ASSUME ~cut', NEW t \in held'
                 PROVE  \/ t \in active'
                        \/ Dispatching' /\ ~At("next")' /\ ~At("claim")' /\ Request' = t
      BY Zenon DEF LeasesAccounted
    <2>1. t \in active \/ (Dispatching /\ ~At("next") /\ ~At("claim") /\ Request = t)
      BY Zenon DEF IExecInv, LeasesAccounted, GoesOn
    <2> QED
      BY <2>1, PlaceStays
  <1>7. RunningSupervised'
    <2> SUFFICES ASSUME life' # "down", ~cut', faults' = 0, NEW t \in Attempts \ earlier',
                        Fenced(t)', ctl'[AsgOf(t)].state = "running"
                 PROVE  t \in active'
      BY Zenon DEF RunningSupervised
    <2> QED
      BY Zenon DEF IExecInv, RunningSupervised, RowsTame, RowsRun, GoesOn
  <1> QED
    BY <1>3, <1>4, <1>5, <1>6, <1>7 DEF IExecInv, RowsTame, SessionsTame

\* A step that neither moves the dispatch nor hands over a new offer.
LEMMA FrameStep ==
  ASSUME IExecInv, RowsTame, SessionsTame, NodeInv', held' \subseteq held, CallInv', MutexInv', SamePlace,
         UNCHANGED <<setup, active, known, earlier>>, offer' = offer \/ offer' = NoOffer,
         AcceptedStays, GoesOn
  PROVE  IExecInv'
  <1>1. mu.queue \in Seq(Attempts) /\ mu'.queue \in Seq(Attempts)
    BY Zenon DEF IExecInv, MutexInv, Holders
  <1>2. QueueTail
    BY <1>1, QueueMoves, Zenon DEF SamePlace
  <1>3. DistinctInv'
    <2>1. /\ active' \subseteq active /\ known' \in [Assignments -> AssignmentStates \cup {"unknown"}]
          /\ \A t \in active' : known'[AsgOf(t)] = "running"
      BY Zenon DEF IExecInv, DistinctInv
    <2> QED
      BY <1>1, <1>2, <2>1, DistinctKept DEF IExecInv
  <1>4. BarrierInv'
    BY <1>2, BarrierKept, Zenon DEF IExecInv
  <1> QED
    BY <1>3, <1>4, FrameCore

\* The mutex, when whoever holds it does not move.
LEMMA MutexStays ==
  ASSUME MutexInv, NoneStarted, UNCHANGED <<mu, active, life, cut>>, faults' \in Nat
  PROVE  MutexInv'
  <1>1. /\ mu' \in Holders' /\ life' \in {"up", "closing", "down"} /\ cut' \in BOOLEAN
        /\ mu'.todo \subseteq active'
        /\ mu'.queue # <<>> => mu'.op = "cycle" /\ mu'.todo = {} /\ mu'.pc \in Dispatchers
        /\ mu'.op = "none" => mu'.todo = {}
        /\ life' = "down" => mu' = Free /\ active' = {}
        /\ ~mu'.ctx => cut'
    BY DEF MutexInv, Holders
  <1>2. ASSUME ~cut', mu'.todo # {}, mu'.pc \in {"failed", "settle"}
        PROVE  proc'[Oldest(mu'.todo)] = "none" \/ sess'[Oldest(mu'.todo)].cancel
    <2>1. proc[Oldest(mu.todo)] = "none" \/ sess[Oldest(mu.todo)].cancel
      BY <1>2, Zenon DEF MutexInv
    <2>2. Oldest(mu.todo) \in Attempts
      BY <1>2, OldestIs, Zenon DEF MutexInv, Holders
    <2> QED
      BY <2>1, <2>2, Zenon DEF NoneStarted
  <1> QED
    BY <1>1, <1>2, Zenon DEF MutexInv

\* A step of someone else, with the mutex as it was.
LEMMA QuietStep ==
  ASSUME IExecInv, RowsTame, SessionsTame, NodeInv', held' \subseteq held, CallInv', AcceptedStays,
         UNCHANGED <<setup, active, known, earlier, mu, offer, life, cut>>,
         faults' \in Nat, faults' = 0 => faults = 0
  PROVE  IExecInv'
  <1>1. MutexInv'
    BY MutexStays, Zenon DEF IExecInv, SessionsTame
  <1>2. SamePlace /\ GoesOn
    BY Zenon DEF SamePlace, GoesOn
  <1> QED
    BY <1>1, <1>2, FrameStep, Zenon

\* A step that leaves the node's leases alone.
LEMMA SameNode ==
  ASSUME NodeInv, UNCHANGED <<nodeVars, life>>
  PROVE  NodeInv' /\ held' \subseteq held
  BY Zenon DEF NodeInv, nodeVars

\* A step that leaves the operator's requests alone.
LEMMA SameCalls ==
  ASSUME CallInv, UNCHANGED <<setup, call>>, life' = "down" => life = "down"
  PROVE  CallInv'
  BY Zenon DEF CallInv

\* A step in which no work package moves.
LEMMA SameCanon ==
  ASSUME UNCHANGED canon
  PROVE  AcceptedStays
  BY Zenon DEF AcceptedStays

=============================================================================
