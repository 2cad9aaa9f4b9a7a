--------------------------- MODULE ControlService ---------------------------
(***************************************************************************)
(* The control service (internal/orchestration/control.go) between its     *)
(* concurrent callers and the control tables.  A call has two steps: it    *)
(* begins by sampling the clock (ready) and, for Transition and Retry, by  *)
(* reading the assignment outside any transaction; later its transaction   *)
(* gets the store's only connection and runs with the sampled time and the *)
(* state that was read.  Between the two steps other calls commit, time    *)
(* passes, and the caller may give up or its process may die.              *)
(***************************************************************************)
EXTENDS ControlStore

CONSTANTS
    Callers,        \* concurrent callers: scheduler cycle, operator API, gate
    Gens,           \* lease generations callers present
    LeaseDuration,  \* ControlService.LeaseDuration
    ExtendBy,       \* the extension a heartbeat asks for
    MaxTime         \* bound on the clock

ASSUME TimeAssumption ==
    LeaseDuration \in Nat \ {0} /\ ExtendBy \in Nat \ {0} /\ MaxTime \in Nat

ASSUME GensAssumption == Gens \subseteq Nat \ {0}

VARIABLES
    now,    \* the clock ready() samples
    call    \* the call each caller has in flight

vars == <<asg, att, lease, ops, now, call>>

Idle == [op |-> "idle"]

PlanRequests ==
    [op : {"plan"}, a : Assignments, wp : WorkPackages, t : Attempts, contract : Contracts,
     idem : Idems, nonce : Nonces, digest : Digests]

ClaimRequests ==
    [op : {"claim"}, a : Assignments, t : Attempts, k : Tokens, nonce : Nonces,
     digest : Digests, at : Nat]

BindRequests ==
    [op : {"bind"}, a : Assignments, t : Attempts, gen : Gens, k : Tokens, nonce : Nonces,
     digest : Digests, at : Nat]

TransitionRequests ==
    [op : {"transition"}, a : Assignments, t : Attempts, gen : Gens, k : Tokens,
     expected : AssignmentStates, target : AssignmentStates, nonce : Nonces,
     digest : Digests, at : Nat]

HeartbeatRequests ==
    [op : {"heartbeat"}, a : Assignments, t : Attempts, gen : Gens, k : Tokens, at : Nat]

RetryRequests ==
    [op : {"retry"}, a : Assignments, prev : Attempts, t : Attempts, idem : Idems, num : Nat,
     nonce : Nonces, digest : Digests]

ReconcileRequests == [op : {"reconcile"}, at : Nat]

Calls ==
    {Idle} \cup PlanRequests \cup ClaimRequests \cup BindRequests \cup TransitionRequests
        \cup HeartbeatRequests \cup RetryRequests \cup ReconcileRequests

Init == StoreInit /\ now = 0 /\ call = [c \in Callers |-> Idle]

-----------------------------------------------------------------------------
(* The first half of each method, up to the start of its transaction. *)

Begin(c, request) ==
    /\ call[c] = Idle
    /\ call' = [call EXCEPT ![c] = request]
    /\ UNCHANGED <<asg, att, lease, ops, now>>

BeginPlan(c) ==
    \E a \in Assignments, wp \in WorkPackages, t \in Attempts, contract \in Contracts,
       idem \in Idems, nonce \in Nonces, digest \in Digests :
        Begin(c, [op |-> "plan", a |-> a, wp |-> wp, t |-> t, contract |-> contract,
                  idem |-> idem, nonce |-> nonce, digest |-> digest])

BeginClaim(c) ==
    \E a \in Assignments, t \in Attempts, k \in Tokens, nonce \in Nonces, digest \in Digests :
        Begin(c, [op |-> "claim", a |-> a, t |-> t, k |-> k, nonce |-> nonce,
                  digest |-> digest, at |-> now])

BeginBindResources(c) ==
    \E a \in Assignments, t \in Attempts, gen \in Gens, k \in Tokens, nonce \in Nonces,
       digest \in Digests :
        Begin(c, [op |-> "bind", a |-> a, t |-> t, gen |-> gen, k |-> k, nonce |-> nonce,
                  digest |-> digest, at |-> now])

\* What Transition requires of the snapshot it reads before its transaction.
TransitionAdmits(a, t, gen, target) ==
    /\ asg[a].state # "absent"
    /\ asg[a].cur = t
    /\ att[t].gen = gen
    /\ ReduceAssignmentState(att[t].state, target)

BeginTransition(c) ==
    \E a \in Assignments, t \in Attempts, gen \in Gens, k \in Tokens,
       target \in AssignmentStates, nonce \in Nonces, digest \in Digests :
        /\ TransitionAdmits(a, t, gen, target)
        /\ Begin(c, [op |-> "transition", a |-> a, t |-> t, gen |-> gen, k |-> k,
                     expected |-> att[t].state, target |-> target, nonce |-> nonce,
                     digest |-> digest, at |-> now])

BeginHeartbeat(c) ==
    \E a \in Assignments, t \in Attempts, gen \in Gens, k \in Tokens :
        Begin(c, [op |-> "heartbeat", a |-> a, t |-> t, gen |-> gen, k |-> k, at |-> now])

\* Retry of the attempt that is already current is let through for its replay.
RetryAdmits(a, prev, t, idem) ==
    /\ asg[a].state # "absent"
    /\ \/ asg[a].cur = t
       \/ /\ asg[a].cur = prev
          /\ att[prev].state \in RetryableStates
          /\ att[prev].idem # idem

BeginRetry(c) ==
    \E a \in Assignments, prev, t \in Attempts, idem \in Idems, nonce \in Nonces,
       digest \in Digests :
        /\ RetryAdmits(a, prev, t, idem)
        /\ Begin(c, [op |-> "retry", a |-> a, prev |-> prev, t |-> t, idem |-> idem,
                     num |-> att[asg[a].cur].num + (IF asg[a].cur = t THEN 0 ELSE 1),
                     nonce |-> nonce, digest |-> digest])

BeginReconcile(c) == Begin(c, [op |-> "reconcile", at |-> now])

-----------------------------------------------------------------------------
(* The second half: the transaction runs, or rolls back with no effect. *)

Return(c) ==
    /\ call' = [call EXCEPT ![c] = Idle]
    /\ UNCHANGED now

\* A replay, a conflict, a stale fence: the tables stay as they are.
Refuse(c) == Return(c) /\ UNCHANGED <<asg, att, lease, ops>>

CommitPlan(c) ==
    /\ call[c].op = "plan"
    /\ IF PlanCommits(call[c]) THEN PlanEffect(call[c]) /\ Return(c) ELSE Refuse(c)

CommitClaim(c) ==
    /\ call[c].op = "claim"
    /\ IF ClaimCommits(call[c]) THEN ClaimEffect(call[c], LeaseDuration) /\ Return(c) ELSE Refuse(c)

CommitBindResources(c) ==
    /\ call[c].op = "bind"
    /\ IF BindCommits(call[c]) THEN BindEffect(call[c]) /\ Return(c) ELSE Refuse(c)

CommitTransition(c) ==
    /\ call[c].op = "transition"
    /\ IF TransitionCommits(call[c]) THEN TransitionEffect(call[c]) /\ Return(c) ELSE Refuse(c)

CommitHeartbeat(c) ==
    /\ call[c].op = "heartbeat"
    /\ IF HeartbeatCommits(call[c]) THEN HeartbeatEffect(call[c], ExtendBy) /\ Return(c) ELSE Refuse(c)

CommitRetry(c) ==
    /\ call[c].op = "retry"
    /\ IF RetryCommits(call[c]) THEN RetryEffect(call[c]) /\ Return(c) ELSE Refuse(c)

CommitReconcile(c) ==
    /\ call[c].op = "reconcile"
    /\ ReconcileEffect(call[c].at)
    /\ Return(c)

\* A canceled context, a failed commit or a dead process: no effect on the tables.
Abandon(c) == call[c] # Idle /\ Refuse(c)

Tick ==
    /\ now < MaxTime
    /\ now' = now + 1
    /\ UNCHANGED <<asg, att, lease, ops, call>>

CallStep(c) ==
    \/ BeginPlan(c) \/ CommitPlan(c)
    \/ BeginClaim(c) \/ CommitClaim(c)
    \/ BeginBindResources(c) \/ CommitBindResources(c)
    \/ BeginTransition(c) \/ CommitTransition(c)
    \/ BeginHeartbeat(c) \/ CommitHeartbeat(c)
    \/ BeginRetry(c) \/ CommitRetry(c)
    \/ BeginReconcile(c) \/ CommitReconcile(c)
    \/ Abandon(c)

Next == Tick \/ \E c \in Callers : CallStep(c)

Spec == Init /\ [][Next]_vars
-----------------------------------------------------------------------------
(* Properties. *)

AssignmentRows ==
    [state : AssignmentStates \cup {"absent"}, wp : WorkPackages \cup {None},
     contract : Contracts \cup {None}, cur : Attempts \cup {None}, num : Nat,
     idem : Idems \cup {None}, rec : Dispositions]

AttemptRows ==
    [state : AssignmentStates \cup {"absent"}, asg : Assignments \cup {None},
     wp : WorkPackages \cup {None}, num : Nat, sup : Attempts \cup {None}, gen : Nat,
     idem : Idems \cup {None}, rec : Dispositions, res : BOOLEAN]

LeaseRows ==
    [state : {"absent", "active", "released", "expired"}, att : Attempts \cup {None},
     gen : Nat, expires : Nat]

\* Every table holds rows of its schema and every caller a request it can make.
TypeOK ==
    /\ asg \in [Assignments -> AssignmentRows]
    /\ att \in [Attempts -> AttemptRows]
    /\ lease \in [Tokens -> LeaseRows]
    /\ \A o \in ops : o.digest \in Digests
    /\ now \in Nat
    /\ call \in [Callers -> Calls]

\* Safety of fencing: an attempt has an active lease exactly while it is in a
\* fenced state, the lease carries the attempt's generation, and no attempt ever
\* has a second lease row.  Claims, terminal transitions and reconciliation each
\* write both tables, in calls that interleave with every other call.
LeaseAgreement ==
    /\ \A t \in Attempts : att[t].state \in FencedStates =>
            \E k \in Tokens : lease[k].state = "active" /\ lease[k].att = t
    /\ \A k \in Tokens : lease[k].state = "active" =>
            /\ att[lease[k].att].state \in FencedStates
            /\ att[lease[k].att].gen = lease[k].gen
    /\ \A j, k \in Tokens :
            (lease[j].state # "absent" /\ lease[k].state # "absent" /\ lease[j].att = lease[k].att) => j = k

\* A lease row belongs to an attempt that was claimed; an attempt not yet claimed
\* has generation 0, so no transition can present its fence.
ClaimedRows ==
    /\ \A k \in Tokens : lease[k].state # "absent" =>
            /\ lease[k].att \in Attempts
            /\ att[lease[k].att].state \notin {"absent", "planned"}
    /\ \A t \in Attempts : att[t].state \in {"absent", "planned"} => att[t].gen = 0

\* An assignment row mirrors its current attempt, whichever of the calls wrote last.
MirrorsCurrent(a) ==
    LET t == asg[a].cur IN
    /\ t \in Attempts
    /\ att[t].asg = a
    /\ att[t].state = asg[a].state
    /\ att[t].num = asg[a].num
    /\ att[t].idem = asg[a].idem
    /\ att[t].rec = asg[a].rec

\* Every attempt but the current one of its assignment has ended without being
\* accepted, and has a lower number: a late call never revives an old attempt and
\* a retry never leaves two of them open.
Superseded(t) ==
    /\ att[t].state \in RetryableStates
    /\ att[t].num < asg[att[t].asg].num

CurrentAttemptAgreement ==
    /\ \A a \in Assignments : asg[a].state # "absent" => MirrorsCurrent(a)
    /\ \A t \in Attempts : att[t].state # "absent" =>
            /\ att[t].asg \in Assignments
            /\ asg[att[t].asg].state # "absent"
            /\ asg[att[t].asg].wp = att[t].wp
            /\ asg[att[t].asg].cur # t => Superseded(t)

\* Columns of rows that do not exist.
AbsentRows ==
    /\ \A a \in Assignments : asg[a].state = "absent" => asg[a].cur = None
    /\ \A t \in Attempts : att[t].state = "absent" => att[t].asg = None

\* A transition in flight was admitted: the table allows its target from the state
\* it expects, and that state was a fenced one.
AdmittedCalls ==
    \A c \in Callers : call[c].op = "transition" =>
        /\ call[c].expected \in FencedStates
        /\ ReduceAssignmentState(call[c].expected, call[c].target)

\* Requests are timed by a clock that does not run backwards.
CallsInThePast ==
    \A c \in Callers :
        call[c].op \in {"claim", "bind", "transition", "heartbeat", "reconcile"} => call[c].at <= now

\* A retry continues the numbering of the attempt it supersedes: walking back
\* through supersedes_attempt_id visits every earlier number down to 1.
AttemptChain ==
    \A t \in Attempts : att[t].state # "absent" =>
        \/ att[t].num = 1 /\ att[t].sup = None
        \/ /\ att[t].sup \in Attempts
           /\ att[att[t].sup].asg = att[t].asg
           /\ att[att[t].sup].num + 1 = att[t].num

\* Heartbeats do not accumulate: a holder that falls silent loses its lease within
\* one lease period, however often it was renewed and however late a commit was.
LeaseHorizon ==
    \A k \in Tokens : lease[k].state = "active" =>
        lease[k].expires <= now + LeaseDuration \/ lease[k].expires <= now + ExtendBy

\* The inductive invariant behind the properties above.
ControlInv ==
    /\ TypeOK
    /\ LeaseAgreement
    /\ ClaimedRows
    /\ CurrentAttemptAgreement
    /\ AbsentRows
    /\ AdmittedCalls
    /\ CallsInThePast

\* The lease of an attempt had run out when its transaction was timed.
LeaseRanOut(t) == \E k \in Tokens :
    lease[k].att = t /\ lease[k].state = "active" /\ lease[k].expires <= now

\* Every committed change of an attempt is a row of the state table taken from the
\* state the attempt is in at that moment, although Transition checks the table
\* against a state read earlier.  The one exception is reconciliation, which
\* expires an attempt from any state, and then only when its lease has run out.
StepsFollowTable ==
    [][\A t \in Attempts : att'[t].state # att[t].state =>
            \/ att[t].state = "absent" /\ att'[t].state = "planned"
            \/ ReduceAssignmentState(att[t].state, att'[t].state)
            \/ att'[t].state = "expired" /\ LeaseRanOut(t)]_vars

\* A call is applied at most once: whatever a duplicate or late call does, the
\* state of an attempt changes only together with one operation recorded for the
\* first time, or because reconciliation found its lease run out.
AppliedOnce ==
    [][\A t \in Attempts : att'[t].state # att[t].state =>
            \/ \E id \in {o.id : o \in ops'} : id[2] = t /\ ~Recorded(id)
            \/ att'[t].state = "expired" /\ LeaseRanOut(t)]_vars

\* A heartbeat or a late transition never brings a closed lease back: once a lease
\* row is released or expired its columns stay as they are.
ClosedLeasesStayClosed ==
    [][\A k \in Tokens : lease[k].state \in {"released", "expired"} => lease'[k] = lease[k]]_vars

\* The detailed service implements the abstract lifecycle.
Phase(state) ==
    CASE state = "absent" -> "unplanned"
      [] state = "planned" -> "open"
      [] state \in FencedStates -> "held"
      [] state = "accepted" -> "accepted"
      [] OTHER -> "closed"

Lifecycle == INSTANCE AssignmentLifecycle WITH
    phase <- [a \in Assignments |-> Phase(asg[a].state)],
    holder <- [a \in Assignments |-> asg[a].cur],
    spent <- [a \in Assignments |-> {t \in Attempts : att[t].asg = a /\ asg[a].cur # t}]

\* One holder at a time, every attempt handed out once, acceptance final: every step
\* of the service, with its races, is a step of the abstract lifecycle or none.
ImplementsLifecycle == Lifecycle!LSpec
=============================================================================
