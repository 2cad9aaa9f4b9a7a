-------------------------- MODULE RuntimeSessions --------------------------
(***************************************************************************)
(* The supervised runtime adapter (internal/codexruntime/adapter.go): its  *)
(* sessions in memory, the state file written for each, and the goroutine  *)
(* that runs the child process of a started session and holds a slot       *)
(* until it returns.  A session belongs to one attempt: its ID derives     *)
(* from the contract and the attempt's prepare key.                        *)
(*                                                                         *)
(* What the child prints, its budgets and its exit are a free outcome.  A  *)
(* state file that cannot be written is a failure the caller chooses.      *)
(***************************************************************************)
EXTENDS Naturals, FiniteSets

VARIABLES
    sess,       \* sessions in memory
    disk,       \* status in the state file, "none" without one
    proc,       \* the goroutine of each session: none, starting, working
    starts      \* child processes started for each session since the beginning

runtimeVars == <<sess, disk, proc, starts>>

NoSession == [status |-> "none", cancel |-> FALSE, input |-> FALSE, answered |-> FALSE]

RuntimeInit(attempts) ==
    /\ sess = [t \in attempts |-> NoSession]
    /\ disk = [t \in attempts |-> "none"]
    /\ proc = [t \in attempts |-> "none"]
    /\ starts = [t \in attempts |-> 0]

Processes == {t \in DOMAIN proc : proc[t] # "none"}

\* Prepare answers a key, or a recovered session, with the session as it is.
Prepare(t) ==
    /\ IF sess[t].status # "none" THEN UNCHANGED <<sess, disk>>
       ELSE /\ sess' = [sess EXCEPT ![t] = [@ EXCEPT !.status = "prepared", !.input = TRUE]]
            /\ disk' = [disk EXCEPT ![t] = "prepared"]
    /\ UNCHANGED <<proc, starts>>

\* Start answers its key with the first answer, which was "running".
StartReplays(t) == sess[t].answered

\* A prepared session whose input is in memory starts if there is a slot.
Startable(t, max) ==
    /\ sess[t].status = "prepared"
    /\ sess[t].input
    /\ Cardinality(Processes) < max

\* The state is on disk before the goroutine begins.
Start(t) ==
    /\ sess' = [sess EXCEPT ![t] = [@ EXCEPT !.status = "running", !.input = FALSE, !.answered = TRUE]]
    /\ disk' = [disk EXCEPT ![t] = "running"]
    /\ proc' = [proc EXCEPT ![t] = "starting"]
    /\ starts' = [starts EXCEPT ![t] = @ + 1]

CancelOk(t) == sess[t].status = "running"

\* Cancel fences the session and ends the child's context; then it writes the
\* state file, and fails when it cannot.
Cancel(t, saved) ==
    /\ sess' = [sess EXCEPT ![t] = [@ EXCEPT !.status = "canceled", !.cancel = TRUE]]
    /\ disk' = IF saved THEN [disk EXCEPT ![t] = "canceled"] ELSE disk
    /\ UNCHANGED <<proc, starts>>

CancelIfRunning(t) ==
    IF CancelOk(t) THEN \E saved \in BOOLEAN : Cancel(t, saved) ELSE UNCHANGED runtimeVars

\* execute resolved the workspace and runs the child in it.
Work(t) ==
    /\ proc' = [proc EXCEPT ![t] = "working"]
    /\ UNCHANGED <<sess, disk, starts>>

\* Everything the child prints, uses up and exits with comes to one of these.
Outcomes == {"succeeded", "failed"}

\* finish: a requested cancel overrides the outcome.  A state file that could
\* not be written is ignored.
Finish(t, outcome, saved) ==
    LET status == IF sess[t].cancel THEN "canceled" ELSE outcome IN
    /\ sess' = [sess EXCEPT ![t].status = status]
    /\ disk' = IF saved THEN [disk EXCEPT ![t] = status] ELSE disk
    /\ proc' = [proc EXCEPT ![t] = "none"]
    /\ UNCHANGED starts

\* The adapter's process ends: memory is gone.
Forget ==
    /\ sess' = [t \in DOMAIN sess |-> NoSession]
    /\ proc' = [t \in DOMAIN proc |-> "none"]
    /\ UNCHANGED <<disk, starts>>

\* What becomes of a status found on disk: nothing certain survives a restart.
RecoveredStatus(status) == IF status \in {"prepared", "running"} THEN "failed" ELSE status

LoadDurableSessions ==
    /\ disk' = [t \in DOMAIN disk |-> RecoveredStatus(disk[t])]
    /\ sess' = [t \in DOMAIN sess |-> [NoSession EXCEPT !.status = RecoveredStatus(disk[t])]]
    /\ UNCHANGED <<proc, starts>>
=============================================================================
