---------------------------- MODULE AttemptRows ----------------------------
(***************************************************************************)
(* The control rows of each assignment as the scheduler and the operator   *)
(* API use them (internal/orchestration/control.go over                    *)
(* internal/storage/sqlite/orchestration_control.go): the current attempt, *)
(* its state, its lease, and the claims and bindings recorded as           *)
(* operations.  A call is one step here: ControlService has the two steps  *)
(* of a call, and its races.                                               *)
(*                                                                         *)
(* An attempt is its assignment with its number.  A lease is claimed once  *)
(* by each attempt, with a fence derived from the attempt, so presenting   *)
(* the fence is naming the attempt.                                        *)
(***************************************************************************)
EXTENDS ControlRules, Naturals, FiniteSets

CONSTANTS
    Assignments,    \* assignment IDs, in the order of their text
    MaxAttempts     \* attempts an assignment may have

ASSUME AttemptsAssumption == Assignments \subseteq Nat /\ MaxAttempts \in Nat \ {0}

VARIABLE ctl        \* the rows of each assignment

Attempts == Assignments \X (1..MaxAttempts)
AsgOf(t) == t[1]
NumOf(t) == t[2]

NoRows == [n |-> 0, state |-> "absent", lease |-> "none", disp |-> "none", ops |-> {}]

RowsInit == ctl = [a \in Assignments |-> NoRows]

Current(t) == ctl[AsgOf(t)].n = NumOf(t)

\* Plan answers a recorded operation and an assignment that already names
\* the attempt.  An assignment is inserted once for a work package.
PlanOk(t, rivals) ==
    LET row == ctl[AsgOf(t)] IN
    IF row.state = "absent"
    THEN NumOf(t) = 1 /\ \A b \in rivals : ctl[b].state = "absent"
    ELSE NumOf(t) = 1 \/ Current(t)

PlanRows(t) ==
    IF ctl[AsgOf(t)].state # "absent" THEN ctl
    ELSE [ctl EXCEPT ![AsgOf(t)] = [@ EXCEPT !.n = 1, !.state = "planned"]]

\* A recorded operation is answered with the rows as they are by now.
Recorded(label, t) == <<label, NumOf(t)>> \in ctl[AsgOf(t)].ops

ClaimOk(t) == Recorded("claim", t) \/ (Current(t) /\ ctl[AsgOf(t)].state = "planned")

ClaimRows(t) ==
    IF Recorded("claim", t) THEN ctl
    ELSE [ctl EXCEPT ![AsgOf(t)] = [@ EXCEPT !.state = "leased", !.lease = "live",
                                             !.ops = ctl[AsgOf(t)].ops \cup {<<"claim", NumOf(t)>>}]]

\* The fence: the current attempt with a lease that is active and not past.
Fenced(t) == Current(t) /\ ctl[AsgOf(t)].lease = "live"

\* Mutant: a binding is taken from an attempt that has ended.
BindOkWithoutFence(t) == Recorded("prepare", t) \/ Recorded("claim", t)

BindOk(t) == Recorded("prepare", t) \/ (Fenced(t) /\ ctl[AsgOf(t)].state = "leased")

BindRows(t) ==
    IF Recorded("prepare", t) THEN ctl
    ELSE [ctl EXCEPT ![AsgOf(t)] = [@ EXCEPT !.state = "preparing",
                                             !.ops = ctl[AsgOf(t)].ops \cup {<<"prepare", NumOf(t)>>}]]

TransitionOk(t, target) == Fenced(t) /\ ReduceAssignmentState(ctl[AsgOf(t)].state, target)

\* A terminal target closes the lease.
TransitionRows(t, target) ==
    [ctl EXCEPT ![AsgOf(t)] =
        [@ EXCEPT !.state = target,
                  !.disp = "none",
                  !.lease = IF target \in TerminalStates THEN "closed" ELSE ctl[AsgOf(t)].lease]]

\* Mutant: a retry does not look for its own operation.
RetryRecordedNever(a, key) == FALSE

\* A retry derives its operation and its attempt from the operator's key.
RetryRecorded(a, key) == \E op \in ctl[a].ops : op[1] = key

\* The attempt retried is still current and retryable, or the current attempt
\* is the one this key made.
RetryOk(a, from, key) ==
    \/ <<key, ctl[a].n>> \in ctl[a].ops
    \/ ctl[a].n = from /\ ctl[a].state \in RetryableStates

RetryRows(a, key) ==
    IF RetryRecorded(a, key) THEN ctl
    ELSE [ctl EXCEPT ![a] = [@ EXCEPT !.n = ctl[a].n + 1, !.state = "planned", !.lease = "none",
                                      !.disp = "none", !.ops = ctl[a].ops \cup {<<key, ctl[a].n + 1>>}]]

\* The assignments Reconcile selects, and what it makes of them.
Reconciled == {a \in Assignments : ctl[a].state \in LiveStates}

ReconcileRows ==
    [a \in Assignments |->
        LET row == ctl[a]
            bound == <<"prepare", row.n>> \in row.ops
        IN  IF a \notin Reconciled THEN row
            ELSE IF row.lease = "lapsed"
            THEN [row EXCEPT !.state = "expired", !.lease = "closed",
                             !.disp = IF row.state = "leased" /\ ~bound THEN "reconcile" ELSE "needs_operator"]
            ELSE [row EXCEPT !.disp = RecoveryForState(row.state, bound)]]

\* Time passes the expiry of an active lease.
LapseRows(a) == [ctl EXCEPT ![a].lease = "lapsed"]
=============================================================================
