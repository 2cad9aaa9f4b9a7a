---------------------------- MODULE ControlRules ----------------------------
(***************************************************************************)
(* The state tables of the orchestration control plane: which assignment   *)
(* state may follow which, which states end an attempt, what a restart     *)
(* reports about each state, and which gate verdict may follow which.      *)
(* They are pure functions in the code (internal/orchestration/control.go  *)
(* and the helpers at the end of the SQLite store) and every other module  *)
(* of the control plane uses them.                                         *)
(***************************************************************************)

\* Attempts in these states hold a control lease.
FencedStates == {"leased", "preparing", "running", "paused", "collecting", "awaiting_gates"}

\* The states ReconcileAssignments selects and the active-attempt index covers.
LiveStates == {"planned"} \cup FencedStates

\* Mutant: accepted work may be retried.
RetryableStatesWithAccepted == {"failed", "canceled", "expired", "accepted"}

RetryableStates == {"failed", "canceled", "expired"}

TerminalStates == RetryableStates \cup {"accepted"}

AssignmentStates == LiveStates \cup TerminalStates

Dispositions == {"none", "resume", "reconcile", "needs_operator"}

GateStates == {"pending", "satisfied", "failed", "waived"}

\* The targets the state table lists for a state; none for a terminal one.
PermittedTargets(current) ==
    CASE current = "planned"        -> {"leased", "canceled"}
      [] current = "leased"         -> {"preparing", "expired", "canceled"}
      [] current = "preparing"      -> {"running", "paused", "collecting", "failed", "canceled", "expired"}
      [] current = "running"        -> {"paused", "collecting", "failed", "canceled", "expired"}
      [] current = "paused"         -> {"running", "collecting", "failed", "canceled", "expired"}
      [] current = "collecting"     -> {"awaiting_gates", "failed", "canceled"}
      [] current = "awaiting_gates" -> {"accepted", "failed", "canceled"}
      [] OTHER                      -> {}

ReduceAssignmentState(current, target) == target \in PermittedTargets(current)

\* What a restart may do with an attempt found in a state.
RecoveryForState(state, hasResources) ==
    CASE state \in {"planned", "awaiting_gates"} -> "resume"
      [] state = "leased" -> IF hasResources THEN "needs_operator" ELSE "reconcile"
      [] state \in {"preparing", "running", "paused", "collecting"} -> "needs_operator"
      [] OTHER -> "none"

\* A gate verdict is final once it has left "pending".
ValidGateTransition(current, target) ==
    current = "pending" /\ target \in GateStates \ {"pending"}
=============================================================================
