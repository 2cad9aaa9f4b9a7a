------------------------- MODULE DispatchSelection -------------------------
(***************************************************************************)
(* The choice of a worker and a node for a work package: Select in         *)
(* internal/orchestration/selection.go and the node's eligibility in       *)
(* internal/computenode/node.go.                                           *)
(*                                                                         *)
(* A candidate pairs a worker profile with a node and a runtime; order is  *)
(* its place in the order of candidate identities.  A check of identities  *)
(* and digests is a flag of the candidate; what changes between the offer  *)
(* and the dispatch (availability, leases, the active assignments) is      *)
(* filled in by the caller.                                                *)
(***************************************************************************)
EXTENDS Naturals, Sequences, FiniteSets, FiniteSetsExt

-----------------------------------------------------------------------------
(* computenode.Evaluate                                                    *)

\* Every unmet requirement of a node is a reason.
NodeReasons(obs) ==
    {why \in {"node_definition_unavailable", "node_health_unavailable", "node_observation_stale",
              "repository_access_unavailable", "runtime_unavailable"} : why \in obs.wrong}
    \cup (IF obs.active >= obs.max THEN {"lease_limit_reached"} ELSE {})

-----------------------------------------------------------------------------
(* Select                                                                  *)

\* The reason of the first check that applies, if any.
FirstReason(checks) ==
    LET hit == SelectSeq(checks, LAMBDA k : k[1]) IN IF hit = <<>> THEN {} ELSE {Head(hit)[2]}

\* What refuses every candidate alike.
AuthorityReasons(r) ==
    FirstReason(<<<<~r.authority, "work_package_authority_mismatch">>,
                  <<r.node # "ready", "work_package_not_ready">>,
                  <<r.task # "ready", "task_not_dispatchable">>,
                  <<~r.adaptation, "project_trade_authority_mismatch">>>>)

TradeAndCapabilityReasons(c, r) ==
    FirstReason(<<<<c.trade # r.trade, "trade_authority_mismatch">>,
                  <<~c.tradeActive, "trade_unavailable">>,
                  <<~c.workerActive, "worker_unavailable">>,
                  <<c.workerTrade # r.trade, "worker_trade_mismatch">>,
                  <<~(r.tags \subseteq c.tags), "missing_capability">>>>)

\* The runtime, and then every reason the node has.
RuntimeAndNodeReasons(c) ==
    LET runtime == FirstReason(<<<<~c.runtimeMatch, "runtime_worker_mismatch">>,
                                 <<~c.runtimeAvailable, "runtime_unavailable">>>>)
    IN  IF runtime # {} THEN runtime ELSE NodeReasons(c.obs)

PermissionReasons(c, r) ==
    {<<"capability_denied_by_policy", k>> : k \in r.required \ r.allowed}
    \cup {<<"runtime_capability_unavailable", k>> : k \in r.required \ c.runtimeCaps}

RiskAndGateReasons(r) ==
    FirstReason(<<<<r.risk > r.maxRisk, "risk_limit_exceeded">>,
                  <<~(r.gates \subseteq r.evidence), "missing_gate_evidence">>>>)

\* The limits on tokens, cost and time are one number here.
BudgetReasons(r) ==
    FirstReason(<<<<r.budget > r.maxBudget, "budget_exceeded">>,
                  <<r.workers > r.maxWorkers, "budget_concurrency_exceeded">>,
                  <<r.active >= r.maxWorkers, "concurrency_limit_reached">>>>)

\* candidateReasons: the first group of checks that refuses.
CandidateReasons(c, r) ==
    LET groups == SelectSeq(<<TradeAndCapabilityReasons(c, r), RuntimeAndNodeReasons(c),
                              PermissionReasons(c, r), RiskAndGateReasons(r), BudgetReasons(r)>>,
                            LAMBDA g : g # {})
    IN  IF groups = <<>> THEN {} ELSE Head(groups)

\* preferenceRank: the position of the pair in the policy's list, or past it.
PreferenceRank(c, preferred) ==
    LET at == {i \in DOMAIN preferred : preferred[i] = <<c.worker, c.node>>}
    IN  IF at = {} THEN Len(preferred) ELSE Min(at) - 1

PreferredLess(c, d, preferred) ==
    \/ PreferenceRank(c, preferred) < PreferenceRank(d, preferred)
    \/ PreferenceRank(c, preferred) = PreferenceRank(d, preferred) /\ c.order < d.order

Accepted(r) ==
    IF AuthorityReasons(r) # {} THEN {} ELSE {c \in r.candidates : CandidateReasons(c, r) = {}}

\* The candidates an operator's override leaves.
Eligible(r) ==
    IF r.override = <<>> THEN Accepted(r)
    ELSE {c \in Accepted(r) : <<c.worker, c.node>> = r.override}

Blocked(r) == Eligible(r) = {}

\* The preferred one among them, or the first of the override's.
Selected(r) ==
    CHOOSE c \in Eligible(r) :
        \A d \in Eligible(r) \ {c} : PreferredLess(c, d, r.preferred)
=============================================================================
