---------------------------- MODULE ControlStore ----------------------------
(***************************************************************************)
(* The authority-local control tables and the transactions that write      *)
(* them (internal/storage/sqlite/orchestration_control.go).  The store     *)
(* opens the database with one connection, so a transaction is one step.   *)
(*                                                                         *)
(* A transaction is split in two operators: its guard (XCommits: every     *)
(* check passes and every INSERT meets its unique constraints) and its     *)
(* effect (XEffect).  A transaction whose guard is false rolls back, or    *)
(* answers with the rows already there, and changes nothing either way.    *)
(*                                                                         *)
(* A lease row is indexed by its token: the lease ID, which is the primary *)
(* key, together with the fencing digest that callers derive from it.      *)
(***************************************************************************)
EXTENDS ControlRules, Integers

CONSTANTS
    Assignments,    \* assignment IDs
    WorkPackages,   \* (project, work package) pairs
    Attempts,       \* attempt IDs
    Tokens,         \* lease IDs with their fencing digests
    Contracts,      \* contract digests
    Idems,          \* idempotency digests of attempts
    Digests,        \* operation digests
    Nonces,         \* what tells repeated operations of one kind apart
    None            \* a NULL column

ASSUME NoneAssumption ==
    None \notin Assignments \cup WorkPackages \cup Attempts \cup Contracts \cup Idems

VARIABLES
    asg,    \* orchestration_assignments, by assignment ID
    att,    \* orchestration_attempts with their resource bindings, by attempt ID
    lease,  \* orchestration_leases, by token
    ops     \* orchestration_operations

NoAssignment ==
    [state |-> "absent", wp |-> None, contract |-> None, cur |-> None, num |-> 0,
     idem |-> None, rec |-> "none"]

NoAttempt ==
    [state |-> "absent", asg |-> None, wp |-> None, num |-> 0, sup |-> None, gen |-> 0,
     idem |-> None, rec |-> "none", res |-> FALSE]

NoLease == [state |-> "absent", att |-> None, gen |-> 0, expires |-> 0]

StoreInit ==
    /\ asg = [a \in Assignments |-> NoAssignment]
    /\ att = [t \in Attempts |-> NoAttempt]
    /\ lease = [k \in Tokens |-> NoLease]
    /\ ops = {}

-----------------------------------------------------------------------------
\* The operation ID callers derive: what is done, to which attempt, and a nonce.
OpId(label, t, nonce) == <<label, t, nonce>>

Recorded(id) == \E o \in ops : o.id = id

\* The lease of the attempt's snapshot: the row of its highest generation.
NewestLease(k, t) ==
    /\ lease[k].state # "absent"
    /\ lease[k].att = t
    /\ \A j \in Tokens : (lease[j].state # "absent" /\ lease[j].att = t) => lease[j].gen <= lease[k].gen

\* The primary key and the unique indexes of orchestration_attempts.
AttemptInsertable(t, a, wp, num, idem) ==
    /\ att[t].state = "absent"
    /\ \A u \in Attempts : att[u].state # "absent" =>
        /\ ~(att[u].asg = a /\ att[u].num = num)
        /\ att[u].wp = wp => (att[u].num # num /\ att[u].idem # idem /\ att[u].state \notin LiveStates)

\* The fence every mutation after the claim must present.
FencedSnapshot(a, t, state, gen, k, at) ==
    /\ asg[a].state # "absent"
    /\ asg[a].cur = t
    /\ att[t].state = state
    /\ att[t].gen = gen
    /\ NewestLease(k, t)
    /\ lease[k].gen = gen
    /\ lease[k].state = "active"
    /\ lease[k].expires > at

\* The two guarded UPDATEs, each of which must change exactly one row.
AttemptStateIs(a, t, expected) ==
    /\ att[t].asg = a
    /\ att[t].state = expected
    /\ asg[a].cur = t
    /\ asg[a].state = expected

\* UpdateAttemptState writes the attempt and mirrors it in its assignment.
UpdateAttemptState(a, t, target, gen, rec, res) ==
    /\ att' = [att EXCEPT ![t] = [@ EXCEPT !.state = target, !.gen = gen, !.rec = rec, !.res = res]]
    /\ asg' = [asg EXCEPT ![a] = [@ EXCEPT !.state = target, !.rec = rec]]

RecordOperation(id, digest) == ops' = ops \cup {[id |-> id, digest |-> digest]}

-----------------------------------------------------------------------------
PlanCommits(r) ==
    /\ ~Recorded(OpId("plan", r.t, r.nonce))
    /\ asg[r.a].state = "absent"
    /\ \A b \in Assignments : asg[b].state # "absent" => asg[b].wp # r.wp
    /\ AttemptInsertable(r.t, r.a, r.wp, 1, r.idem)

PlanEffect(r) ==
    /\ asg' = [asg EXCEPT ![r.a] =
                [state |-> "planned", wp |-> r.wp, contract |-> r.contract, cur |-> r.t,
                 num |-> 1, idem |-> r.idem, rec |-> "none"]]
    /\ att' = [att EXCEPT ![r.t] =
                [state |-> "planned", asg |-> r.a, wp |-> r.wp, num |-> 1, sup |-> None,
                 gen |-> 0, idem |-> r.idem, rec |-> "none", res |-> FALSE]]
    /\ RecordOperation(OpId("plan", r.t, r.nonce), r.digest)
    /\ UNCHANGED lease

\* The claim computes the generation from the row, whatever the request says.
ClaimCommits(r) ==
    /\ ~Recorded(OpId("claim", r.t, r.nonce))
    /\ asg[r.a].state # "absent"
    /\ asg[r.a].cur = r.t
    /\ AttemptStateIs(r.a, r.t, "planned")
    /\ lease[r.k].state = "absent"
    /\ \A j \in Tokens : (lease[j].state # "absent" /\ lease[j].att = r.t) =>
            (lease[j].gen # att[r.t].gen + 1 /\ lease[j].state # "active")

ClaimEffect(r, duration) ==
    /\ lease' = [lease EXCEPT ![r.k] =
                    [state |-> "active", att |-> r.t, gen |-> att[r.t].gen + 1,
                     expires |-> r.at + duration]]
    /\ UpdateAttemptState(r.a, r.t, "leased", att[r.t].gen + 1, "none", att[r.t].res)
    /\ RecordOperation(OpId("claim", r.t, r.nonce), r.digest)

BindCommits(r) ==
    /\ ~Recorded(OpId("prepare", r.t, r.nonce))
    /\ FencedSnapshot(r.a, r.t, "leased", r.gen, r.k, r.at)
    /\ ~att[r.t].res
    /\ AttemptStateIs(r.a, r.t, "leased")

BindEffect(r) ==
    /\ UpdateAttemptState(r.a, r.t, "preparing", att[r.t].gen, "none", TRUE)
    /\ RecordOperation(OpId("prepare", r.t, r.nonce), r.digest)
    /\ UNCHANGED lease

\* Mutant: the transaction expects whatever state the row has by now.
TransitionCommitsFromCurrent(r) ==
    /\ ~Recorded(OpId(r.target, r.t, r.nonce))
    /\ FencedSnapshot(r.a, r.t, att[r.t].state, r.gen, r.k, r.at)
    /\ AttemptStateIs(r.a, r.t, att[r.t].state)

\* Mutant: the recorded operations are not consulted.
TransitionCommitsAgain(r) ==
    /\ FencedSnapshot(r.a, r.t, r.expected, r.gen, r.k, r.at)
    /\ AttemptStateIs(r.a, r.t, r.expected)

\* The expected state is the one the service read before the transaction.
TransitionCommits(r) ==
    /\ ~Recorded(OpId(r.target, r.t, r.nonce))
    /\ FencedSnapshot(r.a, r.t, r.expected, r.gen, r.k, r.at)
    /\ AttemptStateIs(r.a, r.t, r.expected)

\* Mutant: the lease outlives the attempt.
TransitionEffectKeepsLease(r) ==
    /\ UpdateAttemptState(r.a, r.t, r.target, att[r.t].gen, "none", att[r.t].res)
    /\ RecordOperation(OpId(r.target, r.t, r.nonce), r.digest)
    /\ UNCHANGED lease

\* A terminal target closes the active lease of the attempt in the same transaction.
TransitionEffect(r) ==
    /\ UpdateAttemptState(r.a, r.t, r.target, att[r.t].gen, "none", att[r.t].res)
    /\ lease' = [lease EXCEPT ![r.k].state =
                    IF r.target \notin TerminalStates THEN @
                    ELSE IF r.target = "expired" THEN "expired" ELSE "released"]
    /\ RecordOperation(OpId(r.target, r.t, r.nonce), r.digest)

\* Mutant: the state of the lease row is not looked at.
HeartbeatCommitsOnClosed(r) ==
    /\ asg[r.a].state # "absent"
    /\ asg[r.a].cur = r.t
    /\ NewestLease(r.k, r.t)
    /\ lease[r.k].gen = r.gen
    /\ lease[r.k].expires > r.at

\* A heartbeat has no operation ID: it is judged by the lease row alone.
HeartbeatCommits(r) ==
    /\ asg[r.a].state # "absent"
    /\ asg[r.a].cur = r.t
    /\ NewestLease(r.k, r.t)
    /\ lease[r.k].gen = r.gen
    /\ lease[r.k].state = "active"
    /\ lease[r.k].expires > r.at

\* Mutant: extensions add up.
HeartbeatEffectAccumulates(r, extendBy) ==
    /\ lease' = [lease EXCEPT ![r.k].expires = @ + extendBy]
    /\ UNCHANGED <<asg, att, ops>>

HeartbeatEffect(r, extendBy) ==
    /\ lease' = [lease EXCEPT ![r.k].expires = r.at + extendBy]
    /\ UNCHANGED <<asg, att, ops>>

RetryCommits(r) ==
    /\ ~Recorded(OpId("retry", r.t, r.nonce))
    /\ asg[r.a].state # "absent"
    /\ asg[r.a].cur = r.prev
    /\ att[r.prev].state \in RetryableStates
    /\ r.num = att[r.prev].num + 1
    /\ AttemptInsertable(r.t, r.a, asg[r.a].wp, r.num, r.idem)

RetryEffect(r) ==
    /\ att' = [att EXCEPT ![r.t] =
                [state |-> "planned", asg |-> r.a, wp |-> asg[r.a].wp, num |-> r.num,
                 sup |-> r.prev, gen |-> 0, idem |-> r.idem, rec |-> "none", res |-> FALSE]]
    /\ asg' = [asg EXCEPT ![r.a] =
                [@ EXCEPT !.state = "planned", !.cur = r.t, !.num = r.num, !.idem = r.idem,
                          !.rec = "none"]]
    /\ RecordOperation(OpId("retry", r.t, r.nonce), r.digest)
    /\ UNCHANGED lease

-----------------------------------------------------------------------------
\* The lease rows reconciliation finds active and past their expiry.
OverdueLeases(at) ==
    {k \in Tokens : \E a \in Assignments :
        /\ asg[a].state \in LiveStates
        /\ NewestLease(k, asg[a].cur)
        /\ lease[k].state = "active"
        /\ lease[k].expires <= at}

Overdue(a, at) == \E k \in OverdueLeases(at) : lease[k].att = asg[a].cur

\* The disposition an overdue attempt is left with.
ExpiryDisposition(t) ==
    IF att[t].state = "leased" /\ ~att[t].res THEN "reconcile" ELSE "needs_operator"

ReconciledState(a, at) ==
    IF Overdue(a, at) THEN "expired" ELSE asg[a].state

ReconciledRecovery(a, at) ==
    LET t == asg[a].cur IN
    IF Overdue(a, at) THEN ExpiryDisposition(t) ELSE RecoveryForState(att[t].state, att[t].res)

\* One transaction over every live assignment: attempts whose lease ran out
\* expire from whatever state they are in, the others only get a disposition.
ReconcileEffect(at) ==
    /\ asg' = [a \in Assignments |->
                IF asg[a].state \in LiveStates
                THEN [asg[a] EXCEPT !.state = ReconciledState(a, at), !.rec = ReconciledRecovery(a, at)]
                ELSE asg[a]]
    /\ att' = [t \in Attempts |->
                IF att[t].asg # None /\ asg[att[t].asg].cur = t /\ asg[att[t].asg].state \in LiveStates
                THEN [att[t] EXCEPT !.state = ReconciledState(att[t].asg, at),
                                    !.rec = ReconciledRecovery(att[t].asg, at)]
                ELSE att[t]]
    /\ lease' = [k \in Tokens |->
                    IF k \in OverdueLeases(at) THEN [lease[k] EXCEPT !.state = "expired"] ELSE lease[k]]
    /\ UNCHANGED ops
=============================================================================
