---------------------------- MODULE WorkHistory ----------------------------
(***************************************************************************)
(* The canonical work history (internal/workhistory) of one planned work   *)
(* package, with the operations and the keys the integration gate uses.    *)
(* An operation publishes immutable records.  Their identity comes from    *)
(* the project, the operation and an idempotency key; their time is that   *)
(* of the collected result plus a fixed number of seconds for the key.     *)
(*                                                                         *)
(* The state an operation is checked against is a fold of the events in    *)
(* the order of their times, not of their publication.  operate holds the  *)
(* project's write lock from the check to the projection, and an operation *)
(* of two records takes effect with its event, so it is one step here.     *)
(***************************************************************************)
EXTENDS Naturals

CONSTANTS
    Absent,     \* no record under a key
    Stamps      \* times of collected results, in minutes

ASSUME StampsAssumption == Stamps \subseteq Nat

VARIABLE log    \* the record under each key: the result's time and the content

\* Mutant: the human review's key is forgotten and gets the default offset.
OffsetByDefault ==
    [ready |-> 1, in_progress |-> 2, execution_start |-> 3, test |-> 10,
     execution_failed |-> 20, execution_complete |-> 20, work_failed |-> 21,
     artifact |-> 22, handoff |-> 23, review |-> 30, automated_review |-> 31,
     human_review |-> 50, accept |-> 40]

\* The keys the gate uses and the seconds each adds to the result's time.
Offset ==
    [ready |-> 1, in_progress |-> 2, execution_start |-> 3, test |-> 10,
     execution_failed |-> 20, execution_complete |-> 20, work_failed |-> 21,
     artifact |-> 22, handoff |-> 23, review |-> 30, automated_review |-> 31,
     human_review |-> 32, accept |-> 40]

Keys == DOMAIN Offset

HistoryInit == log = [k \in Keys |-> Absent]

Present == {k \in Keys : log[k] # Absent}

OccurredAt(k) == 60 * log[k].stamp + Offset[k]

\* The last of some keys in the order of the events' times.
Latest(ks) == CHOOSE k \in ks : \A j \in ks : OccurredAt(j) <= OccurredAt(k)

\* What applyEvent makes of the work package and of the execution.
WorkPackageAfter ==
    [ready |-> "ready", in_progress |-> "in_progress", review |-> "review",
     work_failed |-> "failed", accept |-> "accepted"]
ExecutionAfter ==
    [execution_start |-> "running", execution_failed |-> "failed", execution_complete |-> "completed"]

Folded(after, ks, start) ==
    LET moves == ks \cap DOMAIN after
    IN  IF moves = {} THEN start ELSE after[Latest(moves)]

WorkPackageState(ks) == Folded(WorkPackageAfter, ks, "planned")
ExecutionState(ks) == Folded(ExecutionAfter, ks, "absent")

Reviews == {"automated_review", "human_review"}

\* Leaving review clears the approval; otherwise the last review decides it.
Approved(ks) ==
    LET deciding == ks \cap (Reviews \cup {"ready", "in_progress", "work_failed"})
    IN  deciding # {} /\ log[Latest(deciding)].content = "approved"

\* The validateState of each operation, over a set of published keys.
StateAllows(key, ks) ==
    CASE key = "ready"              -> WorkPackageState(ks) = "planned"
      [] key = "in_progress"        -> WorkPackageState(ks) = "ready"
      [] key \in {"work_failed", "review"} -> WorkPackageState(ks) = "in_progress"
      [] key = "execution_start"    -> WorkPackageState(ks) = "in_progress" /\ ExecutionState(ks) = "absent"
      [] key \in {"test", "execution_failed", "execution_complete"} -> ExecutionState(ks) = "running"
      [] key = "artifact"           -> ExecutionState(ks) # "absent"
      [] key = "handoff"            -> ExecutionState(ks) \in {"completed", "failed"}
      [] key \in Reviews            -> WorkPackageState(ks) = "review"
      [] key = "accept"             -> WorkPackageState(ks) = "review" /\ Approved(ks)

Record(stamp, content) == [stamp |-> stamp, content |-> content]

\* operate succeeds if the record is there already, or is new and allowed.
Succeeds(key, record) ==
    log[key] = record \/ (log[key] = Absent /\ StateAllows(key, Present))

Publish(key, record) ==
    log' = IF log[key] = Absent /\ StateAllows(key, Present)
           THEN [log EXCEPT ![key] = record] ELSE log

\* Every event is one the operation would have been allowed to publish after
\* the events that precede it in time: the fold replays a legal history.
ReplaysLegally ==
    \A k \in Present : StateAllows(k, {j \in Present : OccurredAt(j) < OccurredAt(k)})
=============================================================================
