------------------------ MODULE AssignmentLifecycle -------------------------
(***************************************************************************)
(* What the control plane promises about an assignment, without tables,    *)
(* leases, operation IDs or clocks: it is worked on by one attempt at a    *)
(* time, an attempt is handed out once, a new one is opened only after the *)
(* previous one has been closed, and acceptance ends the story.            *)
(***************************************************************************)
CONSTANTS Assignments, Attempts, None

VARIABLES
    phase,      \* where each assignment is
    holder,     \* the attempt an assignment currently belongs to
    spent       \* the attempts an assignment has used up

lifecycleVars == <<phase, holder, spent>>

LInit ==
    /\ phase = [a \in Assignments |-> "unplanned"]
    /\ holder = [a \in Assignments |-> None]
    /\ spent = [a \in Assignments |-> {}]

Fresh(t) == \A a \in Assignments : holder[a] # t /\ t \notin spent[a]

Open(a, t) ==
    /\ phase[a] = "unplanned"
    /\ Fresh(t)
    /\ phase' = [phase EXCEPT ![a] = "open"]
    /\ holder' = [holder EXCEPT ![a] = t]
    /\ UNCHANGED spent

Move(a, from, to) ==
    /\ phase[a] = from
    /\ phase' = [phase EXCEPT ![a] = to]
    /\ UNCHANGED <<holder, spent>>

\* Several holders may be found lost at once.
Expire(lost) ==
    /\ \A a \in lost : phase[a] = "held"
    /\ phase' = [a \in Assignments |-> IF a \in lost THEN "closed" ELSE phase[a]]
    /\ UNCHANGED <<holder, spent>>

Reopen(a, t) ==
    /\ phase[a] = "closed"
    /\ Fresh(t)
    /\ phase' = [phase EXCEPT ![a] = "open"]
    /\ holder' = [holder EXCEPT ![a] = t]
    /\ spent' = [spent EXCEPT ![a] = @ \cup {holder[a]}]

LNext ==
    \/ \E a \in Assignments, t \in Attempts : Open(a, t) \/ Reopen(a, t)
    \/ \E a \in Assignments :
        \/ Move(a, "open", "held")
        \/ Move(a, "held", "closed")
        \/ Move(a, "held", "accepted")
    \/ \E lost \in SUBSET Assignments : Expire(lost)

LSpec == LInit /\ [][LNext]_lifecycleVars
=============================================================================
