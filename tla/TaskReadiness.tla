--------------------------- MODULE TaskReadiness ---------------------------
(***************************************************************************)
(* Readiness of the work packages of a task, reduced from its dependency   *)
(* graph and its canonical events (internal/orchestration/graph.go).       *)
(*                                                                         *)
(* A graph maps each work package to the sequence of its dependencies; it  *)
(* has no cycle.  An event is a record [id, at, wp, type, from, to]; the   *)
(* fold of the events in their order gives each work package its canonical *)
(* state, "none" before it was created.                                    *)
(***************************************************************************)
EXTENDS Naturals, Sequences, FiniteSets, FiniteSetsExt

\* A finite set as the sequence that a strict total order makes of it.
Sorted(S, Before(_, _)) ==
    [i \in 1 .. Cardinality(S) |->
        CHOOSE x \in S : Cardinality({y \in S : Before(y, x)}) = i - 1]

\* ValidWorkPackageTransition; acceptance is an event of its own.
WorkPackageTargets(from) ==
    CASE from = "planned"     -> {"ready", "canceled"}
      [] from = "ready"       -> {"in_progress", "canceled"}
      [] from = "in_progress" -> {"blocked", "review", "failed", "canceled"}
      [] from = "blocked"     -> {"in_progress", "failed", "canceled"}
      [] from = "review"      -> {"in_progress", "failed"}
      [] from = "failed"      -> {"ready", "canceled"}
      [] OTHER                -> {}

-----------------------------------------------------------------------------
(* The fold of the canonical events                                        *)

EventPrecedence(type) ==
    CASE type = "created" -> 0 [] type = "changed" -> 1 [] type = "reviewed" -> 2 [] type = "accepted" -> 3

\* The order of the fold: by time, then kind, then record ID.
EventBefore(e, f) ==
    \/ e.at < f.at
    \/ e.at = f.at /\ EventPrecedence(e.type) < EventPrecedence(f.type)
    \/ e.at = f.at /\ e.type = f.type /\ e.id < f.id

\* A work package's state and whether its last review approved it.
NoState == [state |-> "none", approved |-> FALSE]

ApplyEvent(s, e) ==
    CASE e.type = "created" -> IF s.state = "none" THEN [s EXCEPT !.state = "planned"] ELSE s
      [] e.type = "changed" ->
            IF s.state = e.from /\ e.to \in WorkPackageTargets(e.from)
            THEN [state |-> e.to, approved |-> s.approved /\ e.to = "review"] ELSE s
      [] e.type = "reviewed" ->
            IF s.state = "review" THEN [s EXCEPT !.approved = e.to = "approved"] ELSE s
      [] e.type = "accepted" ->
            IF s.state = "review" /\ s.approved THEN [s EXCEPT !.state = "accepted"] ELSE s

\* The canonical state of each work package of a graph after a set of events.
Canonical(wps, events) ==
    [w \in wps |->
        LET order == Sorted({e \in events : e.wp = w}, EventBefore)
            after[i \in 0 .. Len(order)] ==
                IF i = 0 THEN NoState ELSE ApplyEvent(after[i - 1], order[i])
        IN  after[Len(order)].state]

-----------------------------------------------------------------------------
(* Readiness                                                               *)

\* Mutant: work that is still going on does not hold its dependents back.
SatisfiedUnlessFailed(state) == state \notin {"failed", "canceled", "blocked"}

\* A dependency lets the next one be looked at only when it is accepted.
Satisfied(state) == state = "accepted"

\* reduceNode, given the readiness of the dependencies in the definition's
\* order: the first that is not satisfied decides.
ReduceNode(state, dependencies) ==
    CASE state = "none" -> "planned"
      [] state = "in_progress" -> "waiting"
      [] state \in {"blocked", "review", "accepted", "failed", "canceled"} -> state
      [] OTHER ->
            LET unmet == {i \in DOMAIN dependencies : ~Satisfied(dependencies[i])}
            IN  IF unmet = {} THEN "ready"
                ELSE IF dependencies[Min(unmet)] \in {"failed", "canceled", "blocked"} THEN "blocked"
                ELSE "waiting"

\* The traversal of ReduceReadiness, dependencies first.
ReduceReadiness(graph, canon) ==
    LET node[w \in DOMAIN graph] ==
            ReduceNode(canon[w], [i \in DOMAIN graph[w] |-> node[graph[w][i]]])
    IN  node

\* summarizeTask: unanimous acceptance or cancellation, or else the first of
\* the ranked states that some work package is in.
SummarizeTask(node) ==
    LET states == {node[w] : w \in DOMAIN node}
        ranked == SelectSeq(<<"failed", "blocked", "review", "ready", "waiting", "planned">>,
                            LAMBDA s : s \in states)
    IN  CASE states = {"accepted"} -> "accepted"
          [] states = {"canceled"} -> "canceled"
          [] ranked # <<>>         -> Head(ranked)
          [] OTHER                 -> "planned"
=============================================================================
