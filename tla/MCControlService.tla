-------------------------- MODULE MCControlService --------------------------
(***************************************************************************)
(* One instance for two questions: calls that race on one assignment over  *)
(* its first operations, and the whole life of an assignment, retries      *)
(* included, beside a second one for the same work package.                *)
(***************************************************************************)
EXTENDS ControlService, FiniteSets, TLC

CONSTANTS
    MaxOps,     \* bound on the committed operations of a behaviour
    RaceOps     \* bound on those committed while two calls are in flight

Symmetry ==
    Permutations(Callers) \cup Permutations(Attempts) \cup Permutations(Tokens)
        \cup Permutations(Idems) \cup Permutations(Assignments) \cup Permutations(WorkPackages)
        \cup Permutations(Digests)

InFlight == {c \in Callers : call[c] # Idle}

\* The assignments that have a row or are to get one.
Concerned ==
    {a \in Assignments : asg[a].state # "absent" \/ \E c \in InFlight : call[c].op # "reconcile" /\ call[c].a = a}

\* A second call begins only while few operations are committed, and only on
\* the assignment of the first.
MayRace == Cardinality(ops) < RaceOps /\ Cardinality(Concerned) < 2

MCNext ==
    \/ Tick
    \/ \E c \in Callers : (call[c] # Idle \/ InFlight = {} \/ MayRace) /\ CallStep(c)

MCSpec == Init /\ [][MCNext]_vars

OpsBound ==
    /\ Cardinality(ops) <= MaxOps
    /\ Cardinality(InFlight) > 1 => Cardinality(Concerned) < 2
=============================================================================
