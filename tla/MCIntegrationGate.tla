------------------------- MODULE MCIntegrationGate -------------------------
(***************************************************************************)
(* Instances of IntegrationGate: the contracts and wirings considered.     *)
(***************************************************************************)
EXTENDS IntegrationGate

CONSTANTS c1, c2    \* the callers

Results == 1..2
OneResult == {1}

\* The decisions the control service admits, and those it would have to admit
\* for the gate's own to be recorded.
Shipped == {"cancel", "retry", "accept", "gate_waive", "reconcile"}
Repaired == Shipped \cup {"approve", "reject"}

Bare ==
    [machineGate |-> FALSE, planned |-> FALSE, reviewRequired |-> FALSE,
     reviewGate |-> FALSE, reviewer |-> FALSE, content |-> FALSE,
     callers |-> Callers, attempts |-> OneResult, decisions |-> Repaired]

OneCaller == [Bare EXCEPT !.callers = {c1}, !.attempts = Results]

\* No gates, with two callers and two attempts; a review gate with a
\* reviewer, with two callers or two attempts; a result with artifacts and a handoff and a required
\* review without a reviewer; a machine gate with a test plan, and without;
\* the first two again with the decisions the code admits.
AllSetups ==
    {[Bare EXCEPT !.attempts = Results],
     [Bare EXCEPT !.reviewGate = TRUE, !.reviewer = TRUE],
     [OneCaller EXCEPT !.reviewGate = TRUE, !.reviewer = TRUE, !.content = TRUE],
     [Bare EXCEPT !.content = TRUE, !.reviewRequired = TRUE],
     [Bare EXCEPT !.machineGate = TRUE, !.planned = TRUE],
     [OneCaller EXCEPT !.machineGate = TRUE, !.planned = TRUE],
     [Bare EXCEPT !.machineGate = TRUE],
     [Bare EXCEPT !.attempts = Results, !.decisions = Shipped],
     [Bare EXCEPT !.reviewGate = TRUE, !.reviewer = TRUE, !.decisions = Shipped]}

ShippedSetup == {[Bare EXCEPT !.decisions = Shipped]}
=============================================================================
