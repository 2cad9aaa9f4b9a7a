-------------------------- MODULE IntegrationGate --------------------------
(***************************************************************************)
(* The result-to-integration gate (internal/integrationgate) with the      *)
(* desktop operations that call it and the control-plane rows and work     *)
(* history it writes, for one assignment and its attempts.                 *)
(*                                                                         *)
(* Evaluate and Decide are sequences of separately durable writes to three *)
(* places: the control database, the canonical history and the desktop's   *)
(* saved summary.  Each write is a step, so that two operators' calls      *)
(* interleave between any two of them and a failure or a crash leaves      *)
(* whatever was written before it.                                         *)
(*                                                                         *)
(* A summary's digest is [att, tree, evidence]: the attempt, the worktree  *)
(* it was computed over and the test evidence.  The base of the preview is *)
(* primary 0; any other primary makes it stale.                            *)
(***************************************************************************)
EXTENDS WorkHistory, ControlRules, FiniteSets

CONSTANTS
    Callers,        \* calls of the desktop operations that may be in flight together
    Setups,         \* contracts and wirings considered, each with the calls
                    \* and the attempts it is considered with
    Trees, FirstTree,   \* contents of the worktree
    Evidence, Passing,  \* evidence a run of an authorized test may produce
    MaxDisturbances \* bound on what happens around the calls

VARIABLES
    setup,      \* what the contract requires, what the service is wired with and
                \* which decisions the control service admits
    att,        \* the current attempt; its result carries the stamp att
    state,      \* the state of the current attempt
    lapsed,     \* its lease is past expires_at
    gates,      \* orchestration_gate_status, by attempt and gate
    audits,     \* audit_ids in use: the column is the primary key
    decided,    \* orchestration_operator_decisions, by summary digest
    intake,     \* orchestration_result_intake, by attempt
    summary,    \* the integration summary the desktop saved last
    tree, primary,  \* the worktree and the project's primary branch
    call,       \* the calls in flight
    faults,     \* calls that failed and restarts so far
    changes     \* other disturbances so far

control == <<att, state, lapsed>>
rows == <<gates, audits, decided, intake>>
outside == <<setup, tree, primary, faults, changes>>
vars == <<setup, att, state, lapsed, gates, audits, decided, intake, summary,
          tree, primary, call, faults, changes, log>>

Gates == {"machine", "review", "preview"}
Digests == [att : Stamps, tree : Trees, evidence : Evidence \cup {"none"}]
NoRow == [status |-> "absent", digest |-> "none", why |-> "none"]

\* Contents of the records the gate publishes.
Contents == {"none", "approved", "changes_requested", "rejected"} \cup Trees \cup Evidence

\* No record and no summary is the absent one; the attempts are those of results.
ASSUME GateAssumption ==
    /\ Absent \notin [stamp : Stamps, content : Contents] \cup Digests
    /\ 1 \in Stamps /\ \A s \in Setups : s.attempts \subseteq Stamps
    /\ FirstTree \in Trees /\ MaxDisturbances \in Nat

NewCall(pc, a) ==
    [pc |-> pc, att |-> a, from |-> "none", tree |-> FirstTree, evidence |-> "none",
     review |-> "none", decision |-> "none"]

Idle == NewCall("idle", 1)

Init ==
    /\ HistoryInit
    /\ setup \in Setups
    /\ att = 1 /\ state = "collecting" /\ lapsed = FALSE
    /\ gates = [a \in Stamps |-> [g \in Gates |-> NoRow]]
    /\ audits = {}
    /\ decided = [d \in Digests |-> "none"]
    /\ intake = [a \in Stamps |-> "none"]
    /\ summary = Absent
    /\ tree = FirstTree /\ primary = 0
    /\ call = [c \in Callers |-> Idle]
    /\ faults = 0 /\ changes = 0

At(c, pc) == call[c].pc = pc
Goto(c, pc) == call' = [call EXCEPT ![c].pc = pc]
End(c) == call' = [call EXCEPT ![c] = Idle]
GotoIf(c, ok, pc, otherwise) ==
    IF (IF ok THEN pc ELSE otherwise) = "idle" THEN End(c)
    ELSE Goto(c, IF ok THEN pc ELSE otherwise)

RequiresReviewer == setup.reviewRequired \/ setup.reviewGate

-----------------------------------------------------------------------------
(* The control service, as the gate calls it                               *)

Same(a, g, row) ==
    /\ gates[a][g].status = row.status
    /\ gates[a][g].digest = row.digest
    /\ gates[a][g].why = row.why

\* RecordGateStatus and SaveGateStatus: the row is new, the same, or pending.
GateWriteCommits(a, g, row, audit) ==
    /\ a = att
    /\ \/ gates[a][g].status = "absent"
       \/ Same(a, g, row)
       \/ /\ gates[a][g].digest = row.digest
          /\ ValidGateTransition(gates[a][g].status, row.status)
    /\ Same(a, g, row) \/ audit \notin audits

RecordGateStatus(a, g, row, audit) ==
    IF GateWriteCommits(a, g, row, audit)
    THEN gates' = [gates EXCEPT ![a][g] = row] /\ audits' = audits \cup {audit}
    ELSE UNCHANGED <<gates, audits>>

Row(status, digest, why) == [status |-> status, digest |-> digest, why |-> why]

\* Mutant: the later decision replaces the earlier one.
DecisionReplaces(a, digest, decision) == a = att /\ decision \in setup.decisions

\* RecordOperatorDecision: one row per summary and actor, repeated only exactly.
DecisionCommits(a, digest, decision) ==
    a = att /\ decision \in setup.decisions /\ decided[digest] \in {"none", decision}

\* Transition: the current attempt, a live lease, a target the table permits.
TransitionCommits(a, target) ==
    a = att /\ ~lapsed /\ ReduceAssignmentState(state, target)

Transition(a, target) ==
    /\ state' = IF TransitionCommits(a, target) THEN target ELSE state
    /\ UNCHANGED <<att, lapsed>>

-----------------------------------------------------------------------------
(* Evaluate                                                                *)

DigestOf(c) == [att |-> call[c].att, tree |-> call[c].tree, evidence |-> call[c].evidence]

\* The desktop operation refuses an attempt it does not find collecting.
BeginEvaluate(c) ==
    /\ At(c, "idle") /\ c \in setup.callers
    /\ state = "collecting"
    /\ call' = [call EXCEPT ![c] = NewCall("load", att)]
    /\ UNCHANGED <<control, rows, outside, summary, log>>

\* Evaluate loads the attempt again and keeps the state it finds.
LoadEvaluate(c) ==
    /\ At(c, "load")
    /\ IF call[c].att = att /\ state \in {"collecting", "awaiting_gates"}
       THEN call' = [call EXCEPT ![c].pc = "intake", ![c].from = state]
       ELSE End(c)
    /\ UNCHANGED <<control, rows, outside, summary, log>>

\* The first intake of a result decides it; the others read that decision.
IntakeResult(c) ==
    /\ At(c, "intake")
    /\ \E verdict \in {"accepted", "rejected"} :
         /\ intake[call[c].att] \in {"none", verdict}
         /\ intake' = [intake EXCEPT ![call[c].att] = verdict]
         /\ GotoIf(c, verdict = "accepted", "ready", "idle")
    /\ UNCHANGED <<control, gates, audits, decided, outside, summary, log>>

\* One operation on the history, and where the call goes after it.
HistoryStep(c, key, content, next, otherwise) ==
    LET record == Record(call[c].att, content)
    IN  /\ At(c, key)
        /\ Publish(key, record)
        /\ GotoIf(c, Succeeds(key, record), next, otherwise)
        /\ UNCHANGED <<control, rows, outside, summary>>

StartHistory(c) ==
    \/ HistoryStep(c, "ready", "none", "in_progress", "idle")
    \/ HistoryStep(c, "in_progress", "none", "execution_start", "idle")
    \/ HistoryStep(c, "execution_start", "none", "inspect", "idle")

\* The worktree's manifest is read and validated.
InspectChanges(c) ==
    /\ At(c, "inspect")
    /\ \/ call' = [call EXCEPT ![c].tree = tree, ![c].pc = "preview_integration"]
       \/ Goto(c, "execution_failed")
    /\ UNCHANGED <<control, rows, outside, summary, log>>

\* Then the preview against the primary branch and the referenced content are
\* checked; either may be rejected.
PreviewIntegration(c) ==
    /\ At(c, "preview_integration")
    /\ \/ primary = 0 /\ Goto(c, IF setup.machineGate THEN "gate_pending" ELSE "execution_complete")
       \/ Goto(c, "execution_failed")
    /\ UNCHANGED <<control, rows, outside, summary, log>>

MachineRow(c, status) == Row(status, "contract", call[c].evidence)

\* runGates: pending row, test, history record, verdict.  Both rows are
\* written with the same audit_id.
GatePending(c) ==
    /\ At(c, "gate_pending")
    /\ IF setup.planned
       THEN LET row == MachineRow(c, "pending")
                audit == <<"machine", "pending">>
            IN  /\ RecordGateStatus(call[c].att, "machine", row, audit)
                /\ GotoIf(c, GateWriteCommits(call[c].att, "machine", row, audit), "run_test", "execution_failed")
       ELSE Goto(c, "execution_failed") /\ UNCHANGED <<gates, audits>>
    /\ UNCHANGED <<control, decided, intake, outside, summary, log>>

\* A test without valid evidence fails the gates before it is recorded.
RunTest(c) ==
    /\ At(c, "run_test")
    /\ \/ \E e \in Evidence : call' = [call EXCEPT ![c].pc = "test", ![c].evidence = e]
       \/ Goto(c, "execution_failed")
    /\ UNCHANGED <<control, rows, outside, summary, log>>

RecordTest(c) == HistoryStep(c, "test", call[c].evidence, "gate_verdict", "execution_failed")

GateVerdict(c) ==
    LET status == IF call[c].evidence \in Passing THEN "satisfied" ELSE "failed"
        audit == <<"machine", "pending">>
    IN  /\ At(c, "gate_verdict")
        /\ RecordGateStatus(call[c].att, "machine", MachineRow(c, status), audit)
        /\ GotoIf(c, /\ GateWriteCommits(call[c].att, "machine", MachineRow(c, status), audit)
                     /\ status = "satisfied",
                  "execution_complete", "execution_failed")
        /\ UNCHANGED <<control, decided, intake, outside, summary, log>>

\* completeHistory: the handoff record lists the files of the manifest.
CompleteHistory(c) ==
    \/ HistoryStep(c, "execution_complete", "none", IF setup.content THEN "artifact" ELSE "review", "idle")
    \/ HistoryStep(c, "artifact", "none", "handoff", "idle")
    \/ HistoryStep(c, "handoff", call[c].tree, "review", "idle")
    \/ HistoryStep(c, "review", "none", "awaiting", "idle")

\* Only an attempt loaded as collecting is moved; the move is fenced.
AwaitGates(c) ==
    LET next == IF RequiresReviewer THEN "review_result" ELSE "preview_pending"
    IN  /\ At(c, "awaiting")
        /\ IF call[c].from = "collecting"
           THEN /\ Transition(call[c].att, "awaiting_gates")
                /\ GotoIf(c, TransitionCommits(call[c].att, "awaiting_gates"), next, "idle")
           ELSE Goto(c, next) /\ UNCHANGED control
        /\ UNCHANGED <<rows, outside, summary, log>>

ReviewResult(c) ==
    /\ At(c, "review_result")
    /\ IF setup.reviewer
       THEN \E r \in {"approved", "changes_requested", "error"} :
              call' = [call EXCEPT ![c].review = r,
                         ![c].pc = IF r = "error" THEN "review_pending" ELSE "automated_review"]
       ELSE Goto(c, "execution_failed")
    /\ UNCHANGED <<control, rows, outside, summary, log>>

\* A failure to record a review that asks for changes is ignored.
RecordAutomatedReview(c) ==
    HistoryStep(c, "automated_review", call[c].review, "review_pending",
                IF call[c].review = "approved" THEN "idle" ELSE "review_pending")

\* recordReviewGateStatuses writes the contract's review gates, if it has any.
ReviewGateCommits(c, status, why) ==
    setup.reviewGate =>
        GateWriteCommits(call[c].att, "review", Row(status, "contract", why), <<"review", status>>)

RecordReviewGate(c, status, why) ==
    IF setup.reviewGate
    THEN RecordGateStatus(call[c].att, "review", Row(status, "contract", why), <<"review", status>>)
    ELSE UNCHANGED <<gates, audits>>

ReviewPending(c) ==
    LET approved == call[c].review = "approved"
        status == IF approved THEN "pending" ELSE "failed"
    IN  /\ At(c, "review_pending")
        /\ RecordReviewGate(c, status, "review_output")
        /\ GotoIf(c, approved, IF ReviewGateCommits(c, status, "review_output") THEN "preview_pending" ELSE "idle",
                  "execution_failed")
        /\ UNCHANGED <<control, decided, intake, outside, summary, log>>

PreviewPending(c) ==
    LET row == Row("pending", DigestOf(c), "human_decision_pending")
        audit == <<"preview", DigestOf(c)>>
    IN  /\ At(c, "preview_pending")
        /\ RecordGateStatus(call[c].att, "preview", row, audit)
        /\ GotoIf(c, GateWriteCommits(call[c].att, "preview", row, audit), "save", "idle")
        /\ UNCHANGED <<control, decided, intake, outside, summary, log>>

\* The desktop saves the summary Evaluate returned over the one it had.
SaveIntegrationSummary(c) ==
    /\ At(c, "save")
    /\ summary' = DigestOf(c)
    /\ End(c)
    /\ UNCHANGED <<control, rows, outside, log>>

\* fail: the execution, the work package and the attempt are failed, each
\* ignoring the errors of the one before.
Fail(c) ==
    \/ HistoryStep(c, "execution_failed", "none", "work_failed", "work_failed")
    \/ HistoryStep(c, "work_failed", "none", "fail_attempt", "fail_attempt")
    \/ /\ At(c, "fail_attempt")
       /\ Transition(call[c].att, "failed")
       /\ End(c)
       /\ UNCHANGED <<rows, outside, summary, log>>

-----------------------------------------------------------------------------
(* Decide                                                                  *)

\* The operator decides on the summary the desktop has.
BeginDecide(c) ==
    /\ At(c, "idle") /\ c \in setup.callers
    /\ summary # Absent
    /\ \E d \in {"approve", "reject"} :
         call' = [call EXCEPT ![c] = [NewCall("load_decision", summary.att) EXCEPT
                    !.tree = summary.tree, !.evidence = summary.evidence, !.decision = d]]
    /\ UNCHANGED <<control, rows, outside, summary, log>>

\* What Decide requires of the attempt's snapshot.  An approval of an attempt
\* that is accepted returns at once, whether or not it is a repetition.
Decidable(c) ==
    /\ call[c].att = att
    /\ state = "awaiting_gates"
    /\ gates[att]["preview"].status = "pending"
    /\ gates[att]["preview"].digest = DigestOf(c)
    /\ setup.machineGate => gates[att]["machine"].status = "satisfied"

LoadDecision(c) ==
    /\ At(c, "load_decision")
    /\ GotoIf(c, Decidable(c), "inspect_decision", "idle")
    /\ UNCHANGED <<control, rows, outside, summary, log>>

\* The worktree's manifest must still be the one of the summary.
InspectDecision(c) ==
    /\ At(c, "inspect_decision")
    /\ GotoIf(c, tree = call[c].tree, "preview_decision", "idle")
    /\ UNCHANGED <<control, rows, outside, summary, log>>

\* So must the preview, which compares commits: a file edited since is not seen.
PreviewDecision(c) ==
    /\ At(c, "preview_decision")
    /\ GotoIf(c, primary = 0, "decide", "idle")
    /\ UNCHANGED <<control, rows, outside, summary, log>>

RecordOperatorDecision(c) ==
    LET commits == DecisionCommits(call[c].att, DigestOf(c), call[c].decision)
    IN  /\ At(c, "decide")
        /\ decided' = IF commits THEN [decided EXCEPT ![DigestOf(c)] = call[c].decision] ELSE decided
        /\ GotoIf(c, commits, "decide_preview", "idle")
        /\ UNCHANGED <<control, gates, audits, intake, outside, summary, log>>

GateState(c) == IF call[c].decision = "approve" THEN "satisfied" ELSE "failed"

DecidePreview(c) ==
    LET row == Row(GateState(c), DigestOf(c), call[c].decision)
        audit == <<"gate_decision", DigestOf(c)>>
    IN  /\ At(c, "decide_preview")
        /\ RecordGateStatus(call[c].att, "preview", row, audit)
        /\ GotoIf(c, GateWriteCommits(call[c].att, "preview", row, audit), "decide_review", "idle")
        /\ UNCHANGED <<control, decided, intake, outside, summary, log>>

DecideReview(c) ==
    /\ At(c, "decide_review")
    /\ RecordReviewGate(c, GateState(c), "human_review")
    /\ GotoIf(c, ReviewGateCommits(c, GateState(c), "human_review"), "human_review", "idle")
    /\ UNCHANGED <<control, decided, intake, outside, summary, log>>

\* A rejection goes on whether or not its review could be recorded.
RecordHumanReview(c) ==
    IF call[c].decision = "approve"
    THEN HistoryStep(c, "human_review", "approved", "accept", "idle")
    ELSE HistoryStep(c, "human_review", "rejected", "settle", "settle")

AcceptWork(c) == HistoryStep(c, "accept", "none", "settle", "idle")

\* The last write of a decision: the attempt's own state.
Settle(c) ==
    /\ At(c, "settle")
    /\ Transition(call[c].att, IF call[c].decision = "approve" THEN "accepted" ELSE "failed")
    /\ End(c)
    /\ UNCHANGED <<rows, outside, summary, log>>

-----------------------------------------------------------------------------
(* What happens around the calls                                           *)

Undisturbed == faults + changes < MaxDisturbances
Changes == Undisturbed /\ changes' = changes + 1 /\ UNCHANGED <<setup, faults>>

\* A call fails between two writes: a canceled request, an I/O error, or a
\* projection that fails after its record was published.
CallFails(c) ==
    /\ ~At(c, "idle")
    /\ Undisturbed
    /\ faults' = faults + 1
    /\ End(c)
    /\ UNCHANGED <<control, rows, setup, tree, primary, changes, summary, log>>

\* The process ends; the next one reconciles before it serves calls, and an
\* attempt whose lease has run out expires.
Restart ==
    /\ Undisturbed
    /\ faults' = faults + 1
    /\ call' = [c \in Callers |-> Idle]
    /\ state' = IF lapsed /\ state \in LiveStates THEN "expired" ELSE state
    /\ UNCHANGED <<att, lapsed, rows, setup, tree, primary, changes, summary, log>>

LeaseLapses ==
    /\ ~lapsed
    /\ state \in LiveStates
    /\ lapsed' = TRUE
    /\ Changes
    /\ UNCHANGED <<att, state, tree, primary, rows, summary, call, log>>

\* An operator cancels or fails the attempt: recoveryTransition.
OperatorEnds ==
    /\ \E target \in {"canceled", "failed"} :
         TransitionCommits(att, target) /\ Transition(att, target)
    /\ Changes
    /\ UNCHANGED <<tree, primary, rows, summary, call, log>>

\* A retry, up to the point where the new attempt's result is collected.  It
\* works in a new worktree, whose digests are told apart by the attempt.
Retry ==
    /\ state \in RetryableStates
    /\ att + 1 \in setup.attempts
    /\ att' = att + 1
    /\ state' = "collecting"
    /\ lapsed' = FALSE
    /\ tree' = FirstTree
    /\ UNCHANGED <<setup, primary, faults, changes, rows, summary, call, log>>

WorktreeChanges ==
    /\ tree' \in Trees \ {tree}
    /\ Changes
    /\ UNCHANGED <<primary, control, rows, summary, call, log>>

PrimaryMoves ==
    /\ primary = 0
    /\ primary' = 1
    /\ Changes
    /\ UNCHANGED <<tree, control, rows, summary, call, log>>

Evaluate(c) ==
    \/ LoadEvaluate(c) \/ IntakeResult(c) \/ StartHistory(c) \/ InspectChanges(c) \/ PreviewIntegration(c)
    \/ GatePending(c) \/ RunTest(c) \/ RecordTest(c) \/ GateVerdict(c)
    \/ CompleteHistory(c) \/ AwaitGates(c) \/ ReviewResult(c)
    \/ RecordAutomatedReview(c) \/ ReviewPending(c) \/ PreviewPending(c)
    \/ SaveIntegrationSummary(c) \/ Fail(c)

Decide(c) ==
    \/ LoadDecision(c) \/ InspectDecision(c) \/ PreviewDecision(c) \/ RecordOperatorDecision(c)
    \/ DecidePreview(c) \/ DecideReview(c) \/ RecordHumanReview(c)
    \/ AcceptWork(c) \/ Settle(c)

Next ==
    \/ \E c \in Callers :
         BeginEvaluate(c) \/ Evaluate(c) \/ BeginDecide(c) \/ Decide(c) \/ CallFails(c)
    \/ Restart \/ LeaseLapses \/ OperatorEnds \/ Retry \/ WorktreeChanges \/ PrimaryMoves

\* A call in flight runs to its end; nobody is obliged to make one.
Spec ==
    /\ Init /\ [][Next]_vars
    /\ \A c \in Callers : WF_vars(Evaluate(c) \/ Decide(c))

-----------------------------------------------------------------------------
(* Properties                                                              *)

Pcs == {"idle", "load", "intake", "inspect", "preview_integration", "gate_pending", "run_test", "gate_verdict",
        "awaiting", "review_result", "review_pending", "preview_pending", "save", "fail_attempt",
        "load_decision", "inspect_decision", "preview_decision", "decide", "decide_preview",
        "decide_review", "settle"}
       \cup Keys

\* The type of the state, with what the tables' CHECK constraints say of
\* statuses and decisions; gate statuses leave pending for good.
TypeOK ==
    /\ setup \in Setups
    /\ att \in Stamps /\ state \in AssignmentStates /\ lapsed \in BOOLEAN
    /\ \A a \in Stamps, g \in Gates :
         gates[a][g].status \in {"absent", "pending", "satisfied", "failed"}
    /\ \A d \in Digests : decided[d] \in {"none"} \cup setup.decisions
    /\ \A a \in Stamps : intake[a] \in {"none", "accepted", "rejected"}
    /\ summary # Absent => summary \in Digests
    /\ tree \in Trees /\ primary \in {0, 1} /\ faults + changes \in 0..MaxDisturbances
    /\ \A c \in Callers : call[c].pc \in Pcs /\ call[c].att \in Stamps
    /\ \A k \in Present : log[k].stamp \in Stamps

\* An attempt is accepted only with everything acceptance rests on in place:
\* its own result was taken in, its preview was approved by a recorded
\* decision on the very digest the gate row carries, the contract's machine
\* and review gates are satisfied, and the history has the execution
\* completed, the review the contract asks for, and the work accepted with
\* this attempt's result (Evaluate and Decide in gate.go).
AcceptanceBacked ==
    state = "accepted" =>
        /\ intake[att] = "accepted"
        /\ gates[att]["preview"].status = "satisfied"
        /\ decided[gates[att]["preview"].digest] = "approve"
        /\ setup.machineGate => gates[att]["machine"].status = "satisfied"
        /\ setup.reviewGate => gates[att]["review"].status = "satisfied"
        /\ RequiresReviewer => log["automated_review"] = Record(att, "approved")
        /\ log["human_review"] = Record(att, "approved")
        /\ log["accept"] = Record(att, "none")
        /\ ExecutionState(Present) = "completed"

\* Whatever interleaving, failure or restart: the preview's verdict is that
\* of the one decision recorded for its digest, and work is accepted in the
\* canonical history only for an attempt whose preview was approved.  An
\* approval and a rejection of one summary never both leave their mark.
OneDecision ==
    /\ \A a \in Stamps : LET row == gates[a]["preview"] IN
         /\ row.status = "satisfied" => decided[row.digest] = "approve"
         /\ row.status = "failed" => decided[row.digest] = "reject"
    /\ log["accept"] # Absent => gates[log["accept"].stamp]["preview"].status = "satisfied"

\* Whatever calls interleave and wherever they fail, acceptance is backed by every
\* row and record it rests on, and one decision stands for a summary.
GateInv == TypeOK /\ AcceptanceBacked /\ OneDecision

\* The canonical history replays legally in the order of its times although
\* two calls published into it in another order, some of them fell over in
\* the middle, and a retried attempt started again (withKey, applyEvent).
HistoryReplays == ReplaysLegally

\* An approval that passed Decide's checks, and that no failure or expiry
\* disturbs, settles the attempt: "then transitions the local assignment to
\* `accepted`" (docs/architecture/result-review-integration-gate.md).  It may
\* leave awaiting_gates otherwise if an operator ends it or another call
\* fails it first.
ApprovalSettles ==
    \A c \in Callers :
        (At(c, "decide") /\ call[c].decision = "approve")
            ~> (state # "awaiting_gates" \/ lapsed \/ faults > 0)
=============================================================================
