----------------------------- MODULE MCExecution -----------------------------
(* Instances of Execution: each setup is rich in one kind of trouble. *)
EXTENDS Execution, TLC

Candidate(worker, node, order) ==
    [worker |-> worker, node |-> node, order |-> order, runtime |-> "codex",
     trade |-> "build", tradeActive |-> TRUE, workerActive |-> TRUE, workerTrade |-> "build",
     tags |-> {"go"}, runtimeMatch |-> TRUE, runtimeAvailable |-> FALSE, runtimeCaps |-> {"read"},
     obs |-> [wrong |-> {}, active |-> 0, max |-> 0]]

Policy ==
    [authority |-> TRUE, adaptation |-> TRUE, node |-> "none", task |-> "none", candidates |-> {},
     trade |-> "build", tags |-> {"go"}, required |-> {"read"}, allowed |-> {"read"},
     risk |-> 1, maxRisk |-> 1, gates |-> {}, evidence |-> {}, budget |-> 1, maxBudget |-> 1,
     workers |-> 1, maxWorkers |-> 2, active |-> 0, preferred |-> <<>>, override |-> <<>>]

Do(do, a, key) == [do |-> do, a |-> a, key |-> key]
Go == Do("start", 1, "g")

Base ==
    [wp |-> 1 :> 1, graph |-> 1 :> <<>>, priority |-> 1 :> 2, canon |-> 1 :> "ready",
     candidates |-> {Candidate("w", "local", 1), Candidate("w", "remote", 2)}, policy |-> Policy,
     runtime |-> "codex", node |-> "local", limit |-> 1, max |-> 1,
     callers |-> {1}, does |-> {Go}, commands |-> 1,
     faults |-> 0, lapses |-> 0, lost |-> 0, moves |-> 0, lives |-> 1, watch |-> <<1, 1>>]

MCSetups == {
    \* calls fail and leases lapse during the dispatch of one attempt
    [Base EXCEPT !.faults = 2, !.lapses = 1],
    \* the operator cancels, fails and retries; a restart in between
    [Base EXCEPT !.does = {Go, Do("retry", 1, "r"), Do("cancel", 1, "c")}, !.commands = 3,
                 !.faults = 1, !.lives = 2],
    [Base EXCEPT !.does = {Go, Do("fail", 1, "f"), Do("retry", 1, "r"), Do("resume", 1, "u")},
                 !.commands = 3, !.lost = 1, !.lives = 2],
    \* the same retry twice at once
    [Base EXCEPT !.does = {Go, Do("retry", 1, "r")}, !.commands = 3, !.callers = {1, 2}],
    \* a work package that depends on another, and comes before it in the queue
    [Base EXCEPT !.wp = <<1, 2>>, !.graph = <<<<>>, <<1>>>>, !.priority = <<1, 3>>,
                 !.canon = <<"in_progress", "ready">>, !.limit = 2, !.max = 2, !.moves = 3],
    \* two at once, a cancel that loses its client, a drain that takes too long
    [Base EXCEPT !.wp = <<1, 2>>, !.graph = <<<<>>, <<>>>>, !.priority = <<1, 3>>,
                 !.canon = <<"ready", "ready">>, !.limit = 2, !.max = 2, !.lives = 2, !.lost = 1,
                 !.does = {Go, Do("cancel", 1, "c"), Do("pause", 1, "p")}, !.commands = 2],
    \* two assignments for one work package
    [Base EXCEPT !.wp = <<1, 1>>, !.faults = 1, !.lapses = 1]
    }
=============================================================================
