------------------------ MODULE IntegrationGateProofs -----------------------
(***************************************************************************)
(* Proofs about IntegrationGate for any callers, attempts, contracts and   *)
(* worktrees: GateInv and HistoryReplays are invariants.                   *)
(***************************************************************************)
EXTENDS IntegrationGate, TLAPS

-----------------------------------------------------------------------------
(* The inductive invariant.                                                *)

Records == [stamp : Stamps, content : Contents]
Statuses == {"absent", "pending", "satisfied", "failed"}
Rows == [status : Statuses, digest : Digests \cup {"none", "contract"},
         why : Evidence \cup {"none", "human_decision_pending", "review_output", "human_review",
                              "approve", "reject"}]
Calls == [pc : Pcs, att : Stamps, from : AssignmentStates \cup {"none"}, tree : Trees,
          evidence : Evidence \cup {"none"},
          review : {"none", "approved", "changes_requested", "error"},
          decision : {"none", "approve", "reject"}]

TypeInv ==
    /\ setup \in Setups
    /\ att \in Stamps /\ state \in AssignmentStates /\ lapsed \in BOOLEAN
    /\ gates \in [Stamps -> [Gates -> Rows]]
    /\ decided \in [Digests -> {"none"} \cup setup.decisions]
    /\ intake \in [Stamps -> {"none", "accepted", "rejected"}]
    /\ summary \in Digests \cup {Absent}
    /\ tree \in Trees /\ primary \in {0, 1}
    /\ faults \in Nat /\ changes \in Nat /\ faults + changes <= MaxDisturbances
    /\ call \in [Callers -> Calls]
    /\ log \in [Keys -> Records \cup {Absent}]

\* The history belongs to one result, and its keys were published in an order that
\* the states of the work package and of the execution allow.
HistoryInv ==
    /\ \A k \in Present : "ready" \in Present /\ log[k].stamp = log["ready"].stamp
    /\ \A k \in Present \ {"ready"} : "in_progress" \in Present
    /\ Present \cap {"test", "execution_failed", "execution_complete", "artifact", "handoff"} # {}
         => "execution_start" \in Present
    /\ ~({"execution_failed", "execution_complete"} \subseteq Present)
    /\ ~({"work_failed", "review"} \subseteq Present)
    /\ Present \cap {"automated_review", "human_review", "accept"} # {} => "review" \in Present
    /\ "handoff" \in Present => Present \cap {"execution_failed", "execution_complete"} # {}
    /\ "accept" \in Present =>
         "human_review" \in Present /\ log["human_review"].content = "approved"

\* What is on record for the result of attempt a once its history has begun.
Begun(a) == intake[a] = "accepted" /\ log["ready"] = Record(a, "none")

\* What is on record once its evaluation has completed.
Evaluated(a) ==
    /\ Begun(a)
    /\ "execution_complete" \in Present
    /\ RequiresReviewer => log["automated_review"] = Record(a, "approved")

\* The attempt's preview is there only after its evaluation, and its verdict is that of
\* the decision recorded for its digest.
PreviewInv(a) ==
    LET row == gates[a]["preview"]
    IN  row.status # "absent" =>
            /\ row.digest \in Digests
            /\ Evaluated(a)
            /\ row.status = "satisfied" => decided[row.digest] = "approve"
            /\ row.status = "failed" => decided[row.digest] = "reject"

AcceptInv ==
    "accept" \in Present =>
        LET a == log["accept"].stamp IN gates[a]["preview"].status = "satisfied"

Settling == {"settle"}
Accepting == {"accept"} \cup Settling
Reviewing == {"human_review"} \cup Accepting
Verdicts == {"decide_review"} \cup Reviewing
Recorded == {"decide_preview"} \cup Verdicts
Deciding == {"inspect_decision", "preview_decision", "decide"} \cup Recorded
Completed == {"artifact", "handoff", "review", "awaiting", "review_result", "automated_review",
              "review_pending", "preview_pending", "save"}

\* How far an evaluation has got that is at pc.
EvaluateAt(c, pc) ==
    LET a == call[c].att
    IN  /\ pc \notin {"idle", "load", "intake"} => intake[a] = "accepted"
        /\ pc \notin {"idle", "load", "intake", "ready"} => Begun(a)
        /\ pc \in Completed => "execution_complete" \in Present
        /\ pc = "automated_review" => call[c].review \in {"approved", "changes_requested"}
        /\ pc = "review_pending" /\ call[c].review = "approved" =>
              log["automated_review"] = Record(a, "approved")
        /\ pc \in {"preview_pending", "save"} => Evaluated(a)

\* How far a decision has got that is at pc.
DecideAt(c, pc) ==
    LET a == call[c].att
        approve == call[c].decision = "approve"
    IN  /\ pc \in {"load_decision"} \cup Deciding => call[c].decision \in {"approve", "reject"}
        /\ pc \in Deciding =>
              /\ gates[a]["preview"].status # "absent" /\ gates[a]["preview"].digest = DigestOf(c)
              /\ setup.machineGate => gates[a]["machine"].status = "satisfied"
        /\ pc \in Recorded => decided[DigestOf(c)] = call[c].decision
        /\ pc \in Verdicts => gates[a]["preview"].status = GateState(c)
        /\ pc \in Reviewing =>
              (setup.reviewGate => gates[a]["review"].status = GateState(c))
        /\ pc = "accept" => approve
        /\ pc \in Accepting /\ approve => log["human_review"] = Record(a, "approved")
        /\ pc \in Settling /\ approve => log["accept"] = Record(a, "none")

CallInv(c) == EvaluateAt(c, call[c].pc) /\ DecideAt(c, call[c].pc)

IGateInv ==
    /\ TypeInv
    /\ HistoryInv
    /\ \A a \in Stamps : PreviewInv(a)
    /\ AcceptInv
    /\ summary # Absent => Begun(summary.att)
    /\ \A c \in Callers : CallInv(c)
    /\ AcceptanceBacked
-----------------------------------------------------------------------------
(* The states the history folds to.                                        *)

\* The keys and their offsets.
LEMMA Offsets ==
  /\ Keys = {"ready", "in_progress", "execution_start", "test", "execution_failed",
             "execution_complete", "work_failed", "artifact", "handoff", "review",
             "automated_review", "human_review", "accept"}
  /\ Offset["ready"] = 1 /\ Offset["in_progress"] = 2 /\ Offset["execution_start"] = 3
  /\ Offset["test"] = 10 /\ Offset["execution_failed"] = 20
  /\ Offset["execution_complete"] = 20 /\ Offset["work_failed"] = 21
  /\ Offset["artifact"] = 22 /\ Offset["handoff"] = 23 /\ Offset["review"] = 30
  /\ Offset["automated_review"] = 31 /\ Offset["human_review"] = 32 /\ Offset["accept"] = 40
  BY Zenon DEF Keys, Offset

\* The tables of applyEvent.
LEMMA Tables ==
  /\ DOMAIN WorkPackageAfter = {"ready", "in_progress", "review", "work_failed", "accept"}
  /\ WorkPackageAfter["ready"] = "ready" /\ WorkPackageAfter["in_progress"] = "in_progress"
  /\ WorkPackageAfter["review"] = "review" /\ WorkPackageAfter["work_failed"] = "failed"
  /\ WorkPackageAfter["accept"] = "accepted"
  /\ DOMAIN ExecutionAfter = {"execution_start", "execution_failed", "execution_complete"}
  /\ ExecutionAfter["execution_start"] = "running"
  /\ ExecutionAfter["execution_failed"] = "failed"
  /\ ExecutionAfter["execution_complete"] = "completed"
  BY Zenon DEF WorkPackageAfter, ExecutionAfter

\* Records of one result are ordered by their keys' offsets.
LEMMA Order ==
  ASSUME TypeInv, HistoryInv, NEW j \in Present, NEW k \in Present
  PROVE  /\ OccurredAt(j) \in Nat /\ OccurredAt(k) \in Nat
         /\ OccurredAt(j) < OccurredAt(k) <=> Offset[j] < Offset[k]
  <1>1. log[j] \in Records /\ log[k] \in Records
    BY Zenon DEF TypeInv, Present
  <1>2. log[j].stamp \in Nat /\ log[j].stamp = log[k].stamp
    BY <1>1, StampsAssumption, Zenon DEF HistoryInv, Records
  <1>3. \A x \in Keys : Offset[x] \in Nat
    BY Offsets
  <1>4. Offset[j] \in Nat /\ Offset[k] \in Nat
    BY <1>3, Zenon DEF Present
  <1> QED
    BY <1>2, <1>4 DEF OccurredAt

\* The last of some keys is the one with the greatest offset.
LEMMA LatestIs ==
  ASSUME TypeInv, HistoryInv, NEW ks \in SUBSET Present, NEW k \in ks,
         \A j \in ks : j = k \/ Offset[j] < Offset[k]
  PROVE  Latest(ks) = k
  <1>1. \A j \in ks : OccurredAt(j) \in Nat /\ (j = k \/ OccurredAt(j) < OccurredAt(k))
    BY Order, Zenon
  <1>2. \A j \in ks : OccurredAt(j) <= OccurredAt(k)
    BY <1>1
  <1>3. Latest(ks) \in ks /\ \A j \in ks : OccurredAt(j) <= OccurredAt(Latest(ks))
    BY <1>2, Zenon DEF Latest
  <1>4. OccurredAt(k) <= OccurredAt(Latest(ks))
    BY <1>3, Zenon
  <1> QED
    BY <1>1, <1>3, <1>4

\* The state of the work package is that of the greatest key.
LEMMA WorkPackageIs ==
  ASSUME TypeInv, HistoryInv, NEW ks \in SUBSET Present
  PROVE  /\ "accept" \in ks => WorkPackageState(ks) = "accepted"
         /\ "accept" \notin ks /\ "review" \in ks => WorkPackageState(ks) = "review"
         /\ ks \cap {"accept", "review"} = {} /\ "work_failed" \in ks
               => WorkPackageState(ks) = "failed"
         /\ ks \cap {"accept", "review", "work_failed"} = {} /\ "in_progress" \in ks
               => WorkPackageState(ks) = "in_progress"
         /\ ks \cap {"accept", "review", "work_failed", "in_progress"} = {} /\ "ready" \in ks
               => WorkPackageState(ks) = "ready"
         /\ ks \cap {"accept", "review", "work_failed", "in_progress", "ready"} = {}
               => WorkPackageState(ks) = "planned"
  <1> DEFINE moves == ks \cap DOMAIN WorkPackageAfter
  <1>1. moves \in SUBSET Present
    BY Zenon
  <1>2. moves = ks \cap {"ready", "in_progress", "review", "work_failed", "accept"}
    BY Tables, Zenon
  <1>3. WorkPackageState(ks) = IF moves = {} THEN "planned" ELSE WorkPackageAfter[Latest(moves)]
    BY Zenon DEF WorkPackageState, Folded
  <1> HIDE DEF moves
  <1>4. CASE "accept" \in ks
    <2>1. Latest(moves) = "accept"
      BY <1>1, <1>2, <1>4, LatestIs, Offsets
    <2> QED
      BY <1>2, <1>3, <1>4, <2>1, Tables, Zenon
  <1>5. CASE "accept" \notin ks /\ "review" \in ks
    <2>1. Latest(moves) = "review"
      BY <1>1, <1>2, <1>5, LatestIs, Offsets
    <2> QED
      BY <1>2, <1>3, <1>5, <2>1, Tables, Zenon
  <1>6. CASE ks \cap {"accept", "review"} = {} /\ "work_failed" \in ks
    <2>1. Latest(moves) = "work_failed"
      BY <1>1, <1>2, <1>6, LatestIs, Offsets
    <2> QED
      BY <1>2, <1>3, <1>6, <2>1, Tables, Zenon
  <1>7. CASE ks \cap {"accept", "review", "work_failed"} = {} /\ "in_progress" \in ks
    <2>1. Latest(moves) = "in_progress"
      BY <1>1, <1>2, <1>7, LatestIs, Offsets
    <2> QED
      BY <1>2, <1>3, <1>7, <2>1, Tables, Zenon
  <1>8. CASE ks \cap {"accept", "review", "work_failed", "in_progress"} = {} /\ "ready" \in ks
    <2>1. moves = {"ready"}
      BY <1>2, <1>8, Zenon
    <2>2. Latest(moves) = "ready"
      BY <1>1, <2>1, LatestIs, Zenon
    <2> QED
      BY <1>3, <1>8, <2>1, <2>2, Tables, Zenon
  <1>9. CASE ks \cap {"accept", "review", "work_failed", "in_progress", "ready"} = {}
    BY <1>2, <1>3, <1>9, Zenon
  <1> QED
    BY <1>4, <1>5, <1>6, <1>7, <1>8, <1>9, Zenon

\* The state of the execution is that of the greatest key.
LEMMA ExecutionIs ==
  ASSUME TypeInv, HistoryInv, NEW ks \in SUBSET Present
  PROVE  /\ "execution_complete" \in ks => ExecutionState(ks) = "completed"
         /\ "execution_failed" \in ks => ExecutionState(ks) = "failed"
         /\ ks \cap {"execution_complete", "execution_failed"} = {} /\ "execution_start" \in ks
               => ExecutionState(ks) = "running"
         /\ ks \cap {"execution_complete", "execution_failed", "execution_start"} = {}
               => ExecutionState(ks) = "absent"
  <1> DEFINE moves == ks \cap DOMAIN ExecutionAfter
  <1>1. moves \in SUBSET Present
    BY Zenon
  <1>2. moves = ks \cap {"execution_start", "execution_failed", "execution_complete"}
    BY Tables, Zenon
  <1>3. ExecutionState(ks) = IF moves = {} THEN "absent" ELSE ExecutionAfter[Latest(moves)]
    BY Zenon DEF ExecutionState, Folded
  <1>4. ~("execution_failed" \in ks /\ "execution_complete" \in ks)
    BY Zenon DEF HistoryInv
  <1> HIDE DEF moves
  <1>5. CASE "execution_complete" \in ks
    <2>1. Latest(moves) = "execution_complete"
      BY <1>1, <1>2, <1>4, <1>5, LatestIs, Offsets
    <2> QED
      BY <1>2, <1>3, <1>4, <1>5, <2>1, Tables, Zenon
  <1>6. CASE "execution_failed" \in ks
    <2>1. Latest(moves) = "execution_failed"
      BY <1>1, <1>2, <1>4, <1>6, LatestIs, Offsets
    <2> QED
      BY <1>2, <1>3, <1>4, <1>6, <2>1, Tables, Zenon
  <1>7. CASE ks \cap {"execution_complete", "execution_failed"} = {} /\ "execution_start" \in ks
    <2>1. moves = {"execution_start"}
      BY <1>2, <1>7, Zenon
    <2>2. Latest(moves) = "execution_start"
      BY <1>1, <2>1, LatestIs, Zenon
    <2> QED
      BY <1>3, <1>7, <2>1, <2>2, Tables, Zenon
  <1>8. CASE ks \cap {"execution_complete", "execution_failed", "execution_start"} = {}
    BY <1>2, <1>3, <1>8, Zenon
  <1> QED
    BY <1>5, <1>6, <1>7, <1>8, Zenon

\* A completed execution stays completed.
LEMMA CompletedState ==
  TypeInv /\ HistoryInv /\ "execution_complete" \in Present => ExecutionState(Present) = "completed"
  BY ExecutionIs, Zenon

\* The human review is the last word on the approval.
LEMMA ApprovedIs ==
  ASSUME TypeInv, HistoryInv, NEW ks \in SUBSET Present, "human_review" \in ks
  PROVE  Approved(ks) <=> log["human_review"].content = "approved"
  <1> DEFINE deciding == ks \cap (Reviews \cup {"ready", "in_progress", "work_failed"})
  <1>1. deciding \in SUBSET Present /\ "human_review" \in deciding
    BY Zenon DEF Reviews
  <1>2. \A j \in deciding : j = "human_review" \/ Offset[j] < Offset["human_review"]
    BY Offsets DEF Reviews
  <1>3. Latest(deciding) = "human_review"
    BY <1>1, <1>2, LatestIs, Zenon
  <1> QED
    BY <1>1, <1>3, Zenon DEF Approved

\* What must be on record for an operation that operate admits.
LEMMA Admitted ==
  ASSUME TypeInv, HistoryInv, NEW key \in Keys, StateAllows(key, Present)
  PROVE  /\ key = "ready" => Present = {}
         /\ key = "in_progress" =>
               "ready" \in Present /\ Present \cap {"accept", "review", "work_failed", "in_progress"} = {}
         /\ key \in {"work_failed", "review", "execution_start"} =>
               "in_progress" \in Present /\ Present \cap {"accept", "review", "work_failed"} = {}
         /\ key \in {"test", "execution_failed", "execution_complete"} =>
               /\ "execution_start" \in Present
               /\ Present \cap {"execution_complete", "execution_failed"} = {}
         /\ key = "artifact" =>
               Present \cap {"execution_complete", "execution_failed", "execution_start"} # {}
         /\ key = "handoff" => Present \cap {"execution_complete", "execution_failed"} # {}
         /\ key \in Reviews \cup {"accept"} => "review" \in Present /\ "accept" \notin Present
  <1> DEFINE WP == WorkPackageState(Present)
             EX == ExecutionState(Present)
  <1>0. Present \in SUBSET Present /\ Reviews = {"automated_review", "human_review"}
    BY Zenon DEF Reviews
  <1>1. /\ WP = "planned" => Present \cap {"accept", "review", "work_failed", "in_progress", "ready"} = {}
        /\ WP = "ready" => /\ "ready" \in Present
                           /\ Present \cap {"accept", "review", "work_failed", "in_progress"} = {}
        /\ WP = "in_progress" =>
              "in_progress" \in Present /\ Present \cap {"accept", "review", "work_failed"} = {}
        /\ WP = "review" => "review" \in Present /\ "accept" \notin Present
    BY <1>0, WorkPackageIs
  <1>2. /\ EX = "running" => /\ "execution_start" \in Present
                             /\ Present \cap {"execution_complete", "execution_failed"} = {}
        /\ EX # "absent" => Present \cap {"execution_complete", "execution_failed", "execution_start"} # {}
        /\ EX \in {"completed", "failed"} => Present \cap {"execution_complete", "execution_failed"} # {}
    BY <1>0, ExecutionIs
  <1>3. /\ key = "ready" => WP = "planned"
        /\ key = "in_progress" => WP = "ready"
        /\ key \in {"work_failed", "review", "execution_start"} => WP = "in_progress"
        /\ key \in {"test", "execution_failed", "execution_complete"} => EX = "running"
        /\ key = "artifact" => EX # "absent"
        /\ key = "handoff" => EX \in {"completed", "failed"}
        /\ key \in Reviews \cup {"accept"} => WP = "review"
    BY <1>0, Offsets, Zenon DEF StateAllows
  <1>4. "ready" \notin Present => Present = {}
    BY Zenon DEF HistoryInv
  <1> HIDE DEF WP, EX
  <1> QED
    BY <1>0, <1>1, <1>2, <1>3, <1>4, Zenon

\* A history of that shape replays legally in the order of its times.
LEMMA Replays ==
  ASSUME TypeInv, HistoryInv
  PROVE  HistoryReplays
  <1> SUFFICES ASSUME NEW k \in Present
               PROVE  StateAllows(k, {j \in Present : OccurredAt(j) < OccurredAt(k)})
    BY Zenon DEF HistoryReplays, ReplaysLegally
  <1> DEFINE B == {j \in Present : OccurredAt(j) < OccurredAt(k)}
             WP == WorkPackageState(B)
             EX == ExecutionState(B)
  <1>1. B \in SUBSET Present
    BY Zenon
  <1>2. B = {j \in Present : Offset[j] < Offset[k]}
    BY Order, Zenon
  <1> HIDE DEF B
  <1>3. k \in Keys /\ Present \subseteq Keys
    BY Zenon DEF Present
  <1>4. CASE k = "ready"
    <2>0. \A j \in Keys : ~(Offset[j] < Offset["ready"])
      BY Offsets
    <2>1. B = {}
      BY <1>2, <1>3, <1>4, <2>0, Zenon
    <2>2. WP = "planned"
      BY <1>1, <2>1, WorkPackageIs, Zenon
    <2> QED
      BY <1>4, <2>2, Zenon DEF StateAllows, Reviews, B
  <1>5. CASE k = "in_progress"
    <2>1. "ready" \in B /\ B \cap {"accept", "review", "work_failed", "in_progress"} = {}
      BY <1>2, <1>5, Offsets DEF HistoryInv
    <2>2. WP = "ready"
      BY <1>1, <2>1, WorkPackageIs, Zenon
    <2> QED
      BY <1>5, <2>2, Zenon DEF StateAllows, Reviews, B
  <1>6. CASE k = "execution_start"
    <2>1. /\ "in_progress" \in B /\ B \cap {"accept", "review", "work_failed"} = {}
          /\ B \cap {"execution_complete", "execution_failed", "execution_start"} = {}
      BY <1>2, <1>6, Offsets DEF HistoryInv
    <2>2. WP = "in_progress" /\ EX = "absent"
      BY <1>1, <2>1, WorkPackageIs, ExecutionIs, Zenon
    <2> QED
      BY <1>6, <2>2, Zenon DEF StateAllows, Reviews, B
  <1>7. CASE k \in {"work_failed", "review"}
    <2>1. "in_progress" \in B /\ B \cap {"accept", "review", "work_failed"} = {}
      BY <1>2, <1>7, Offsets DEF HistoryInv
    <2>2. WP = "in_progress"
      BY <1>1, <2>1, WorkPackageIs, Zenon
    <2> QED
      BY <1>7, <2>2, Zenon DEF StateAllows, Reviews, B
  <1>8. CASE k \in {"test", "execution_failed", "execution_complete"}
    <2>1. "execution_start" \in B /\ B \cap {"execution_complete", "execution_failed"} = {}
      BY <1>2, <1>8, Offsets DEF HistoryInv
    <2>2. EX = "running"
      BY <1>1, <2>1, ExecutionIs, Zenon
    <2> QED
      BY <1>8, <2>2, Zenon DEF StateAllows, Reviews, B
  <1>9. CASE k = "artifact"
    <2>1. "execution_start" \in B
      BY <1>2, <1>9, Offsets DEF HistoryInv
    <2>2. EX # "absent"
      BY <1>1, <2>1, ExecutionIs, Zenon
    <2> QED
      BY <1>9, <2>2, Zenon DEF StateAllows, Reviews, B
  <1>10. CASE k = "handoff"
    <2>1. B \cap {"execution_complete", "execution_failed"} # {}
      BY <1>2, <1>10, Offsets DEF HistoryInv
    <2>2. EX \in {"completed", "failed"}
      BY <1>1, <2>1, ExecutionIs, Zenon
    <2> QED
      BY <1>10, <2>2, Zenon DEF StateAllows, Reviews, B
  <1>11. CASE k \in Reviews
    <2>1. "review" \in B /\ "accept" \notin B
      BY <1>2, <1>11, Offsets DEF HistoryInv, Reviews
    <2>2. WP = "review"
      BY <1>1, <2>1, WorkPackageIs, Zenon
    <2> QED
      BY <1>11, <2>2, Zenon DEF StateAllows, B, Reviews
  <1>12. CASE k = "accept"
    <2>1. "review" \in B /\ "accept" \notin B /\ "human_review" \in B
      BY <1>2, <1>12, Offsets DEF HistoryInv
    <2>2. WP = "review"
      BY <1>1, <2>1, WorkPackageIs, Zenon
    <2>3. Approved(B)
      BY <1>1, <1>12, <2>1, ApprovedIs, Zenon DEF HistoryInv
    <2> QED
      BY <1>12, <2>2, <2>3, Zenon DEF StateAllows, B, Reviews
  <1> QED
    BY <1>3, <1>4, <1>5, <1>6, <1>7, <1>8, <1>9, <1>10, <1>11, <1>12, Offsets, Zenon DEF Reviews, B
-----------------------------------------------------------------------------
(* What every step keeps.                                                  *)

\* Records, intakes, decisions and verdicts stay, and so does what a gate is about.
Stable ==
    /\ setup' = setup
    /\ \A k \in Present : k \in Present' /\ log'[k] = log[k]
    /\ \A a \in Stamps : intake[a] = "accepted" => intake'[a] = "accepted"
    /\ \A d \in Digests : decided[d] # "none" => decided'[d] = decided[d]
    /\ \A a \in Stamps, g \in Gates : gates[a][g].status # "absent" =>
          /\ gates'[a][g].status # "absent" /\ gates'[a][g].digest = gates[a][g].digest
          /\ gates[a][g].status # "pending" => gates'[a][g].status = gates[a][g].status

\* A publication adds at most its record, and only where operate admits it.
LEMMA Published ==
  ASSUME TypeInv, NEW key \in Keys, NEW record \in Records, Publish(key, record)
  PROVE  /\ log' \in [Keys -> Records \cup {Absent}]
         /\ \A k \in Present : k \in Present' /\ log'[k] = log[k]
         /\ Succeeds(key, record) => log'[key] = record /\ key \in Present'
         /\ \/ log' = log
            \/ /\ log[key] = Absent /\ StateAllows(key, Present) /\ log'[key] = record
               /\ Present' = Present \cup {key} /\ key \notin Present
               /\ \A k \in Keys \ {key} : log'[k] = log[k]
  <1>1. record # Absent
    BY GateAssumption, Zenon DEF Records
  <1>2. CASE log[key] = Absent /\ StateAllows(key, Present)
    <2>1. log' = [log EXCEPT ![key] = record]
      BY <1>2, Zenon DEF Publish
    <2>2. log' \in [Keys -> Records \cup {Absent}]
      BY <2>1, Zenon DEF TypeInv
    <2>3. log'[key] = record /\ \A k \in Keys \ {key} : log'[k] = log[k]
      BY <2>1, Zenon DEF TypeInv
    <2>4. Present' = Present \cup {key} /\ key \notin Present
      BY <1>1, <1>2, <2>3 DEF Present
    <2>5. \A k \in Present : k \in Keys \ {key}
      BY <2>4, Zenon DEF Present
    <2> QED
      BY <1>2, <2>2, <2>3, <2>4, <2>5, Zenon
  <1>3. CASE ~(log[key] = Absent /\ StateAllows(key, Present))
    <2>1. log' = log
      BY <1>3, Zenon DEF Publish
    <2>2. Succeeds(key, record) => log[key] = record
      BY <1>3, Zenon DEF Succeeds
    <2> QED
      BY <1>1, <2>1, <2>2, Zenon DEF TypeInv, Present
  <1> QED
    BY <1>2, <1>3, Zenon

\* A publication of the history's own result keeps the history's shape.
LEMMA PublishKeeps ==
  ASSUME TypeInv, HistoryInv, NEW key \in Keys, NEW record \in Records, Publish(key, record),
         key # "ready" => "ready" \in Present /\ log["ready"].stamp = record.stamp,
         key = "accept" => "human_review" \in Present /\ log["human_review"].content = "approved"
  PROVE  HistoryInv'
  <1>1. CASE log' = log
    BY <1>1 DEF HistoryInv, Present
  <1>2. CASE log' # log
    <2>1. /\ StateAllows(key, Present) /\ log'[key] = record /\ log[key] = Absent
          /\ Present' = Present \cup {key} /\ key \notin Present
          /\ \A k \in Present : log'[k] = log[k]
      BY <1>2, Published, Zenon
    <2>2. /\ key = "ready" => Present = {}
          /\ key = "in_progress" =>
                "ready" \in Present /\ Present \cap {"accept", "review", "work_failed", "in_progress"} = {}
          /\ key \in {"work_failed", "review", "execution_start"} =>
                "in_progress" \in Present /\ Present \cap {"accept", "review", "work_failed"} = {}
          /\ key \in {"test", "execution_failed", "execution_complete"} =>
                /\ "execution_start" \in Present
                /\ Present \cap {"execution_complete", "execution_failed"} = {}
          /\ key = "artifact" =>
                Present \cap {"execution_complete", "execution_failed", "execution_start"} # {}
          /\ key = "handoff" => Present \cap {"execution_complete", "execution_failed"} # {}
          /\ key \in Reviews \cup {"accept"} => "review" \in Present /\ "accept" \notin Present
      BY <2>1, Admitted, Zenon
    <2>3. \A k \in Present' : "ready" \in Present' /\ log'[k].stamp = log'["ready"].stamp
      BY <2>1, <2>2, Zenon DEF HistoryInv
    <2> DEFINE P == Present
               Q == Present'
    <2>4. Q = P \cup {key} /\ key \notin P
      BY <2>1, Zenon
    <2>5. /\ \A k \in P \ {"ready"} : "in_progress" \in P
          /\ P \cap {"test", "execution_failed", "execution_complete", "artifact", "handoff"} # {}
                => "execution_start" \in P
          /\ ~("execution_failed" \in P /\ "execution_complete" \in P)
          /\ ~("work_failed" \in P /\ "review" \in P)
          /\ P \cap {"automated_review", "human_review", "accept"} # {} => "review" \in P
          /\ "handoff" \in P => P \cap {"execution_failed", "execution_complete"} # {}
          /\ "accept" \in P => "human_review" \in P
      BY Zenon DEF HistoryInv
    <2>6. "accept" \in Q => "human_review" \in Q /\ log'["human_review"].content = "approved"
      BY <2>1, <2>2, <2>5, Zenon DEF HistoryInv
    <2>7. key \in {"ready", "in_progress", "execution_start", "test", "execution_failed",
                   "execution_complete", "work_failed", "artifact", "handoff", "review",
                   "automated_review", "human_review", "accept"}
      BY Offsets, Zenon
    <2> HIDE DEF P, Q
    <2>8. \A k \in Q \ {"ready"} : "in_progress" \in Q
      BY <2>2, <2>4, <2>5, <2>7 DEF Reviews, P
    <2>9. Q \cap {"test", "execution_failed", "execution_complete", "artifact", "handoff"} # {}
             => "execution_start" \in Q
      BY <2>2, <2>4, <2>5 DEF P
    <2>10. ~({"execution_failed", "execution_complete"} \subseteq Q)
      BY <2>2, <2>4, <2>5, Zenon DEF P
    <2>11. ~({"work_failed", "review"} \subseteq Q)
      BY <2>2, <2>4, <2>5, Zenon DEF P
    <2>12. Q \cap {"automated_review", "human_review", "accept"} # {} => "review" \in Q
      BY <2>2, <2>4, <2>5, Zenon DEF P, Reviews
    <2>13. "handoff" \in Q => Q \cap {"execution_failed", "execution_complete"} # {}
      BY <2>2, <2>4, <2>5, Zenon DEF P
    <2> QED
      BY <2>3, <2>6, <2>8, <2>9, <2>10, <2>11, <2>12, <2>13, Zenon DEF HistoryInv, Q
  <1> QED
    BY <1>1, <1>2, Zenon
-----------------------------------------------------------------------------
(* Steps of a call.                                                        *)

\* The places a call can be at.
LEMMA Places ==
  /\ Keys \subseteq Pcs
  /\ {"idle", "load", "intake", "inspect", "preview_integration", "gate_pending", "run_test", "gate_verdict",
      "awaiting", "review_result", "review_pending", "preview_pending", "save", "fail_attempt",
      "load_decision", "inspect_decision", "preview_decision", "decide", "decide_preview", "decide_review",
      "settle"} \subseteq Pcs
  BY Zenon DEF Pcs

OthersStay(c) == \A d \in Callers \ {c} : call'[d] = call[d]

\* The call goes on at pc with what it carries.
Moved(c, pc) ==
    /\ call' \in [Callers -> Calls] /\ OthersStay(c)
    /\ call'[c].pc = pc /\ call'[c].att = call[c].att /\ call'[c].tree = call[c].tree
    /\ call'[c].evidence = call[c].evidence /\ call'[c].review = call[c].review
    /\ call'[c].decision = call[c].decision

Ended(c) == call' \in [Callers -> Calls] /\ OthersStay(c) /\ call'[c].pc = "idle"

\* A new call is typed.
LEMMA NewTyped ==
  ASSUME NEW pc \in Pcs, NEW a \in Stamps
  PROVE  NewCall(pc, a) \in Calls /\ NewCall(pc, a).pc = pc /\ NewCall(pc, a).att = a
  BY GateAssumption, Zenon DEF NewCall, Calls

\* The idle call is typed.
LEMMA IdleTyped == Idle \in Calls /\ Idle.pc = "idle"
  BY NewTyped, Places, GateAssumption, Zenon DEF Idle

\* End and Goto change one call.
LEMMA CallSteps ==
  ASSUME call \in [Callers -> Calls], NEW c \in Callers
  PROVE  /\ End(c) => Ended(c)
         /\ \A pc \in Pcs : Goto(c, pc) => Moved(c, pc)
  <1>1. End(c) => Ended(c)
    BY IdleTyped, Zenon DEF End, Ended, OthersStay
  <1>2. ASSUME NEW pc \in Pcs, Goto(c, pc)
        PROVE  Moved(c, pc)
    <2>1. call' = [call EXCEPT ![c] = [call[c] EXCEPT !.pc = pc]]
      BY <1>2, Zenon DEF Goto
    <2>2. call[c] \in Calls
      BY Zenon
    <2>3. [call[c] EXCEPT !.pc = pc] \in Calls
      BY <2>2, Zenon DEF Calls
    <2>4. call' \in [Callers -> Calls] /\ call'[c] = [call[c] EXCEPT !.pc = pc]
      BY <2>1, <2>3, Zenon
    <2>5. OthersStay(c)
      BY <2>1, Zenon DEF OthersStay
    <2> QED
      BY <2>2, <2>4, <2>5, Zenon DEF Moved, Calls
  <1> QED
    BY <1>1, <1>2, Zenon

\* GotoIf ends the call or moves it to one of the two places.
LEMMA Branches ==
  ASSUME call \in [Callers -> Calls], NEW c \in Callers, NEW ok \in BOOLEAN,
         NEW pc \in Pcs, NEW otherwise \in Pcs, GotoIf(c, ok, pc, otherwise)
  PROVE  \/ Ended(c)
         \/ ok /\ Moved(c, pc)
         \/ ~ok /\ Moved(c, otherwise)
  BY CallSteps, Zenon DEF GotoIf

\* What one operation on the history does to a call and to the log.
LEMMA HistorySteps ==
  ASSUME TypeInv, NEW c \in Callers, NEW key \in Keys, NEW content \in Contents,
         NEW next \in Pcs, NEW otherwise \in Pcs, HistoryStep(c, key, content, next, otherwise)
  PROVE  LET record == Record(call[c].att, content)
         IN  /\ call[c].pc = key /\ record \in Records /\ record.stamp = call[c].att
             /\ record.content = content
             /\ Publish(key, record)
             /\ UNCHANGED <<att, state, lapsed, gates, audits, decided, intake, setup, tree,
                            primary, faults, changes, summary>>
             /\ \/ Ended(c)
                \/ Moved(c, next) /\ log'[key] = record /\ key \in Present'
                \/ Moved(c, otherwise) /\ ~Succeeds(key, record)
  <1> DEFINE record == Record(call[c].att, content)
  <1>1. call[c] \in Calls /\ call \in [Callers -> Calls]
    BY Zenon DEF TypeInv
  <1>2. record \in Records /\ record.stamp = call[c].att /\ record.content = content
    BY <1>1, Zenon DEF Record, Records, Calls
  <1>3. /\ call[c].pc = key /\ Publish(key, record)
        /\ GotoIf(c, Succeeds(key, record), next, otherwise)
        /\ UNCHANGED <<att, state, lapsed, gates, audits, decided, intake, setup, tree,
                       primary, faults, changes, summary>>
    BY Zenon DEF HistoryStep, At, control, rows, outside
  <1> HIDE DEF record
  <1>4. Succeeds(key, record) \in BOOLEAN
    BY Zenon DEF Succeeds
  <1>5. \/ Ended(c)
        \/ Succeeds(key, record) /\ Moved(c, next)
        \/ ~Succeeds(key, record) /\ Moved(c, otherwise)
    BY <1>1, <1>3, <1>4, Branches, Zenon
  <1>6. Succeeds(key, record) => log'[key] = record /\ key \in Present'
    BY <1>2, <1>3, Published, Zenon
  <1> QED
    BY <1>2, <1>3, <1>5, <1>6, Zenon DEF record

\* What the write of a gate's status does to the rows.
LEMMA GateSteps ==
  ASSUME TypeInv, NEW a \in Stamps, NEW g \in Gates, NEW row \in Rows, row.status # "absent",
         NEW audit, RecordGateStatus(a, g, row, audit)
  PROVE  /\ gates' \in [Stamps -> [Gates -> Rows]]
         /\ \A b \in Stamps, h \in Gates :
               gates[b][h].status # "absent" =>
                  /\ gates'[b][h].status # "absent" /\ gates'[b][h].digest = gates[b][h].digest
                  /\ gates[b][h].status # "pending" => gates'[b][h].status = gates[b][h].status
         /\ \A b \in Stamps, h \in Gates : b # a \/ h # g => gates'[b][h] = gates[b][h]
         /\ GateWriteCommits(a, g, row, audit) => gates'[a][g] = row
         /\ ~GateWriteCommits(a, g, row, audit) => gates' = gates
  <1>0. gates \in [Stamps -> [Gates -> Rows]]
    BY Zenon DEF TypeInv
  <1>1. CASE GateWriteCommits(a, g, row, audit)
    <2>1. gates' = [gates EXCEPT ![a][g] = row]
      BY <1>1, Zenon DEF RecordGateStatus
    <2>2. gates' \in [Stamps -> [Gates -> Rows]] /\ gates'[a][g] = row
      BY <1>0, <2>1, Zenon
    <2>3. \A b \in Stamps, h \in Gates : b # a \/ h # g => gates'[b][h] = gates[b][h]
      BY <1>0, <2>1, Zenon
    <2>4. gates[a][g].status # "absent" =>
             /\ gates[a][g].digest = row.digest
             /\ gates[a][g].status # "pending" => row.status = gates[a][g].status
      BY <1>1, Zenon DEF GateWriteCommits, Same, ValidGateTransition
    <2> QED
      BY <1>1, <2>2, <2>3, <2>4
  <1>2. CASE ~GateWriteCommits(a, g, row, audit)
    BY <1>0, <1>2, Zenon DEF RecordGateStatus
  <1> QED
    BY <1>1, <1>2, Zenon
-----------------------------------------------------------------------------
(* What carries over a step.                                               *)

\* A record is not the absent one.
LEMMA RecordPresent ==
  ASSUME NEW k \in Keys, NEW a \in Stamps, NEW x \in Contents, log[k] = Record(a, x)
  PROVE  k \in Present
  BY GateAssumption DEF Present, Record

\* Records under known keys stay.
LEMMA RecordStays ==
  ASSUME Stable, NEW k \in Keys, NEW a \in Stamps, NEW x \in Contents, log[k] = Record(a, x)
  PROVE  log'[k] = Record(a, x)
  BY RecordPresent, Zenon DEF Stable

\* What is on record of an attempt stays on record.
LEMMA BegunStays ==
  ASSUME Stable, NEW a \in Stamps
  PROVE  /\ Begun(a) => Begun(a)'
         /\ Evaluated(a) => Evaluated(a)'
         /\ "execution_complete" \in Present => "execution_complete" \in Present'
  <1>1. "ready" \in Keys /\ "automated_review" \in Keys /\ {"none", "approved"} \subseteq Contents
    BY Offsets, Zenon DEF Contents
  <1>2. Begun(a) => Begun(a)'
    <2> SUFFICES ASSUME Begun(a) PROVE Begun(a)'
      BY Zenon
    <2>1. intake'[a] = "accepted"
      BY Zenon DEF Begun, Stable
    <2>2. log'["ready"] = Record(a, "none")
      BY <1>1, RecordStays, Zenon DEF Begun
    <2> QED
      BY <2>1, <2>2, Zenon DEF Begun, Record
  <1>3. "execution_complete" \in Present => "execution_complete" \in Present'
    BY Zenon DEF Stable
  <1>4. Evaluated(a) => Evaluated(a)'
    <2> SUFFICES ASSUME Evaluated(a) PROVE Evaluated(a)'
      BY Zenon
    <2>1. RequiresReviewer' = RequiresReviewer
      BY Zenon DEF Stable, RequiresReviewer
    <2>2. RequiresReviewer => log'["automated_review"] = Record(a, "approved")
      BY <1>1, RecordStays, Zenon DEF Evaluated
    <2> QED
      BY <1>2, <1>3, <2>1, <2>2, Zenon DEF Evaluated, Record
  <1> QED
    BY <1>2, <1>3, <1>4, Zenon

\* What holds of an evaluation at a place still holds of it there after a step.
LEMMA EvaluateCarried ==
  ASSUME TypeInv, Stable, NEW d \in Callers, NEW pc, EvaluateAt(d, pc),
         call'[d].att = call[d].att, call'[d].review = call[d].review
  PROVE  EvaluateAt(d, pc)'
  <1> DEFINE a == call[d].att
  <1>1. a \in Stamps
    BY Zenon DEF TypeInv, Calls
  <1>2. "automated_review" \in Keys /\ "approved" \in Contents
    BY Offsets, Zenon DEF Contents
  <1>3. intake[a] = "accepted" => intake'[a] = "accepted"
    BY <1>1, Zenon DEF Stable
  <1>4. log["automated_review"] = Record(a, "approved") =>
           log'["automated_review"] = Record(a, "approved")
    BY <1>1, <1>2, RecordStays, Zenon
  <1>5. /\ Begun(a) => Begun(a)'
        /\ Evaluated(a) => Evaluated(a)'
        /\ "execution_complete" \in Present => "execution_complete" \in Present'
    BY <1>1, BegunStays, Zenon
  <1>6. /\ Begun(call[d].att)' <=> Begun(a)'
        /\ Evaluated(call[d].att)' <=> Evaluated(a)'
    BY Zenon DEF Begun, Evaluated, Record
  <1> QED
    BY <1>3, <1>4, <1>5, <1>6, Zenon DEF EvaluateAt, Record

\* What holds of a decision at a place still holds of it there after a step.
LEMMA DecideCarried ==
  ASSUME TypeInv, Stable, NEW d \in Callers, NEW pc, DecideAt(d, pc),
         call'[d].att = call[d].att, call'[d].tree = call[d].tree,
         call'[d].evidence = call[d].evidence, call'[d].decision = call[d].decision
  PROVE  DecideAt(d, pc)'
  <1> DEFINE a == call[d].att
             v == call[d].decision
  <1>1. a \in Stamps /\ DigestOf(d) \in Digests /\ v \in {"none", "approve", "reject"}
    BY Zenon DEF TypeInv, Calls, DigestOf, Digests
  <1>2. DigestOf(d)' = DigestOf(d) /\ GateState(d)' = GateState(d)
    BY Zenon DEF DigestOf, GateState
  <1>3. /\ {"human_review", "accept"} \subseteq Keys /\ {"none", "approved"} \subseteq Contents
        /\ {"machine", "review", "preview"} \subseteq Gates
    BY Offsets, Zenon DEF Contents, Gates
  <1>4. /\ log["human_review"] = Record(a, "approved") => log'["human_review"] = Record(a, "approved")
        /\ log["accept"] = Record(a, "none") => log'["accept"] = Record(a, "none")
    BY <1>1, <1>3, RecordStays, Zenon
  <1>5. \A g \in Gates :
           gates[a][g].status # "absent" =>
              /\ gates'[a][g].status # "absent" /\ gates'[a][g].digest = gates[a][g].digest
              /\ gates[a][g].status # "pending" => gates'[a][g].status = gates[a][g].status
    BY <1>1, Zenon DEF Stable
  <1>6. decided[DigestOf(d)] # "none" => decided'[DigestOf(d)] = decided[DigestOf(d)]
    BY <1>1, Zenon DEF Stable
  <1>7. setup' = setup
    BY Zenon DEF Stable
  <1>8. GateState(d) \in {"satisfied", "failed"}
    BY Zenon DEF GateState
  <1>9. pc \in {"load_decision"} \cup Deciding => v \in {"approve", "reject"}
    BY Zenon DEF DecideAt
  <1>10. pc \in Deciding =>
            /\ gates'[a]["preview"].status # "absent" /\ gates'[a]["preview"].digest = DigestOf(d)
            /\ setup'.machineGate => gates'[a]["machine"].status = "satisfied"
    BY <1>3, <1>5, <1>7, Zenon DEF DecideAt
  <1>11. Recorded \subseteq Deciding /\ Verdicts \subseteq Deciding /\ Reviewing \subseteq Deciding
    BY Zenon DEF Deciding, Recorded, Verdicts, Reviewing
  <1>12. pc \in Recorded => decided'[DigestOf(d)] = v
    BY <1>6, <1>9, <1>11, Zenon DEF DecideAt
  <1>13. pc \in Verdicts => gates'[a]["preview"].status = GateState(d)
    BY <1>3, <1>5, <1>8, Zenon DEF DecideAt
  <1>14. pc \in Reviewing => (setup'.reviewGate => gates'[a]["review"].status = GateState(d))
    BY <1>3, <1>5, <1>7, <1>8, Zenon DEF DecideAt
  <1>15. /\ pc = "accept" => v = "approve"
         /\ pc \in Accepting /\ v = "approve" => log'["human_review"] = Record(a, "approved")
         /\ pc \in Settling /\ v = "approve" => log'["accept"] = Record(a, "none")
    BY <1>4, Zenon DEF DecideAt
  <1> QED
    BY <1>2, <1>9, <1>10, <1>12, <1>13, <1>14, <1>15, Zenon DEF DecideAt, Record, Deciding, Recorded,
       Verdicts, Reviewing, Accepting, Settling

\* The other calls keep their invariants.
LEMMA OthersKeep ==
  ASSUME IGateInv, Stable, NEW c \in Callers, OthersStay(c)
  PROVE  \A d \in Callers \ {c} : CallInv(d)'
  BY EvaluateCarried, DecideCarried, Zenon DEF IGateInv, CallInv, OthersStay

\* A preview whose row stays keeps its invariant.
LEMMA PreviewCarried ==
  ASSUME TypeInv, Stable, NEW a \in Stamps, PreviewInv(a),
         gates'[a]["preview"] = gates[a]["preview"]
  PROVE  PreviewInv(a)'
  <1> DEFINE row == gates[a]["preview"]
  <1> SUFFICES ASSUME row.status # "absent"
               PROVE  PreviewInv(a)'
    BY Zenon DEF PreviewInv
  <1>1. /\ row.digest \in Digests /\ Evaluated(a)
        /\ row.status = "satisfied" => decided[row.digest] = "approve"
        /\ row.status = "failed" => decided[row.digest] = "reject"
    BY Zenon DEF PreviewInv
  <1>2. Evaluated(a)'
    BY <1>1, BegunStays, Zenon
  <1>3. decided[row.digest] # "none" => decided'[row.digest] = decided[row.digest]
    BY <1>1, Zenon DEF Stable
  <1> HIDE DEF row
  <1>4. /\ row.status = "satisfied" => decided'[row.digest] = "approve"
        /\ row.status = "failed" => decided'[row.digest] = "reject"
    BY <1>1, <1>3, Zenon
  <1> QED
    BY <1>1, <1>2, <1>4, Zenon DEF PreviewInv, row

\* An acceptance in the history stays backed by the preview.
LEMMA AcceptCarried ==
  ASSUME TypeInv, Stable, AcceptInv, log'["accept"] = log["accept"]
  PROVE  AcceptInv'
  <1> SUFFICES ASSUME "accept" \in Present
               PROVE  gates'[log["accept"].stamp]["preview"].status = "satisfied"
    BY Zenon DEF AcceptInv, Present
  <1>1. log["accept"].stamp \in Stamps
    BY Zenon DEF TypeInv, Present, Records
  <1>2. gates[log["accept"].stamp]["preview"].status = "satisfied" /\ "preview" \in Gates
    BY Zenon DEF AcceptInv, Gates
  <1> QED
    BY <1>1, <1>2, Zenon DEF Stable

\* An accepted attempt stays backed as long as it is the current one.
LEMMA BackedCarried ==
  ASSUME TypeInv, Stable, TypeInv', HistoryInv', AcceptanceBacked, state' = state, att' = att,
         state = "accepted" =>
             gates[att]["preview"].digest \in Digests /\ "execution_complete" \in Present
  PROVE  AcceptanceBacked'
  <1> SUFFICES ASSUME state = "accepted"
               PROVE  AcceptanceBacked'
    BY Zenon DEF AcceptanceBacked
  <1>1. /\ intake[att] = "accepted"
        /\ gates[att]["preview"].status = "satisfied"
        /\ decided[gates[att]["preview"].digest] = "approve"
        /\ setup.machineGate => gates[att]["machine"].status = "satisfied"
        /\ setup.reviewGate => gates[att]["review"].status = "satisfied"
        /\ RequiresReviewer => log["automated_review"] = Record(att, "approved")
        /\ log["human_review"] = Record(att, "approved")
        /\ log["accept"] = Record(att, "none")
    BY Zenon DEF AcceptanceBacked
  <1>2. att \in Stamps /\ setup' = setup
    BY Zenon DEF TypeInv, Stable
  <1>3. /\ {"automated_review", "human_review", "accept"} \subseteq Keys
        /\ {"none", "approved"} \subseteq Contents
        /\ {"machine", "review", "preview"} \subseteq Gates
    BY Offsets, Zenon DEF Contents, Gates
  <1>4. /\ RequiresReviewer => log'["automated_review"] = Record(att, "approved")
        /\ log'["human_review"] = Record(att, "approved")
        /\ log'["accept"] = Record(att, "none")
    BY <1>1, <1>2, <1>3, RecordStays, Zenon
  <1>5. /\ gates'[att]["preview"].status = "satisfied"
        /\ gates'[att]["preview"].digest = gates[att]["preview"].digest
        /\ setup.machineGate => gates'[att]["machine"].status = "satisfied"
        /\ setup.reviewGate => gates'[att]["review"].status = "satisfied"
    BY <1>1, <1>2, <1>3, Zenon DEF Stable
  <1>6. intake'[att] = "accepted" /\ decided'[gates[att]["preview"].digest] = "approve"
    BY <1>1, <1>2, Zenon DEF Stable
  <1>7. "execution_complete" \in Present'
    BY <1>2, BegunStays, Zenon
  <1>8. (ExecutionState(Present) = "completed")'
    <2>1. (TypeInv /\ HistoryInv /\ "execution_complete" \in Present)'
      BY <1>7, Zenon
    <2> QED
      BY <2>1, CompletedState, PTL
  <1>9. RequiresReviewer' = RequiresReviewer
    BY <1>2, Zenon DEF RequiresReviewer
  <1> QED
    BY <1>2, <1>4, <1>5, <1>6, <1>8, <1>9 DEF AcceptanceBacked, Record
-----------------------------------------------------------------------------
(* The actions.                                                            *)

\* When the preview rows, the acceptance, the summary and the attempt's state stay,
\* what is left to show is the call that moved.
LEMMA PlainStep ==
  ASSUME IGateInv, TypeInv', HistoryInv', Stable, NEW c \in Callers, OthersStay(c), CallInv(c)',
         \A a \in Stamps : gates'[a]["preview"] = gates[a]["preview"],
         log'["accept"] = log["accept"], summary' = summary, state' = state, att' = att
  PROVE  IGateInv'
  <1>1. \A d \in Callers : CallInv(d)'
    BY OthersKeep, Zenon
  <1>2. \A a \in Stamps : PreviewInv(a)'
    BY PreviewCarried, Zenon DEF IGateInv
  <1>3. AcceptInv'
    BY AcceptCarried, Zenon DEF IGateInv
  <1>4. summary # Absent => Begun(summary.att)'
    <2> SUFFICES ASSUME summary # Absent PROVE Begun(summary.att)'
      BY Zenon
    <2>1. summary.att \in Stamps /\ Begun(summary.att)
      BY Zenon DEF IGateInv, TypeInv, Digests
    <2>2. PICK a \in Stamps : a = summary.att
      BY <2>1, Zenon
    <2>3. Begun(a)'
      BY <2>1, <2>2, BegunStays, Zenon
    <2> QED
      BY <2>2, <2>3, Zenon DEF Begun, Record
  <1>5. AcceptanceBacked'
    <2>1. att \in Stamps /\ (state = "accepted" => gates[att]["preview"].status # "absent")
      BY Zenon DEF IGateInv, TypeInv, AcceptanceBacked
    <2>2. state = "accepted" =>
             gates[att]["preview"].digest \in Digests /\ "execution_complete" \in Present
      BY <2>1, Zenon DEF IGateInv, PreviewInv, Evaluated
    <2> QED
      BY <2>2, BackedCarried, Zenon DEF IGateInv
  <1> QED
    BY <1>1, <1>2, <1>3, <1>4, <1>5, Zenon DEF IGateInv

\* A call at a place where nothing is claimed of it.
LEMMA FreshCall ==
  ASSUME NEW c \in Callers, call'[c].pc \in {"idle", "load", "intake"}
  PROVE  CallInv(c)'
  BY Zenon DEF CallInv, EvaluateAt, DecideAt, Completed, Deciding, Recorded, Verdicts, Reviewing,
         Accepting, Settling

\* An operation on the history changes nothing that stays.
LEMMA HistoryStable ==
  ASSUME IGateInv, NEW c \in Callers, NEW key \in Keys, NEW content \in Contents,
         NEW next \in Pcs, NEW otherwise \in Pcs, HistoryStep(c, key, content, next, otherwise)
  PROVE  Stable /\ OthersStay(c) /\ TypeInv' /\ HistoryInv'
  <1> DEFINE record == Record(call[c].att, content)
  <1>1. /\ call[c].pc = key /\ record \in Records /\ record.stamp = call[c].att
        /\ Publish(key, record)
        /\ UNCHANGED <<att, state, lapsed, gates, audits, decided, intake, setup, tree,
                       primary, faults, changes, summary>>
        /\ Ended(c) \/ Moved(c, next) \/ Moved(c, otherwise)
    BY HistorySteps, Zenon DEF IGateInv
  <1>2. call' \in [Callers -> Calls] /\ OthersStay(c)
    BY <1>1, Zenon DEF Ended, Moved
  <1> HIDE DEF record
  <1>3. /\ log' \in [Keys -> Records \cup {Absent}]
        /\ \A k \in Present : k \in Present' /\ log'[k] = log[k]
    BY <1>1, Published, Zenon DEF IGateInv
  <1>4. TypeInv'
    BY <1>1, <1>2, <1>3, Zenon DEF IGateInv, TypeInv
  <1>5. Stable
    BY <1>1, <1>3, Zenon DEF Stable
  <1>6. CallInv(c) /\ call[c].att \in Stamps
    BY Zenon DEF IGateInv, TypeInv, Calls
  <1>7. key # "ready" => "ready" \in Present /\ log["ready"].stamp = record.stamp
    <2> SUFFICES ASSUME key # "ready"
                 PROVE  "ready" \in Present /\ log["ready"].stamp = record.stamp
      BY Zenon
    <2>1. log["ready"] = Record(call[c].att, "none")
      BY <1>1, <1>6, Offsets, Zenon DEF CallInv, EvaluateAt, Begun
    <2>2. "ready" \in Keys /\ "none" \in Contents
      BY Offsets, Zenon DEF Contents
    <2>3. "ready" \in Present
      BY <1>6, <2>1, <2>2, RecordPresent, Zenon
    <2> QED
      BY <1>1, <2>1, <2>3, SMTT(30) DEF Record
  <1>8. key = "accept" => "human_review" \in Present /\ log["human_review"].content = "approved"
    <2> SUFFICES ASSUME key = "accept"
                 PROVE  "human_review" \in Present /\ log["human_review"].content = "approved"
      BY Zenon
    <2>1. log["human_review"] = Record(call[c].att, "approved")
      BY <1>1, <1>6, Zenon DEF CallInv, DecideAt, Accepting
    <2>2. "human_review" \in Keys /\ "approved" \in Contents
      BY Offsets, Zenon DEF Contents
    <2>3. "human_review" \in Present
      BY <1>6, <2>1, <2>2, RecordPresent, Zenon
    <2> QED
      BY <2>1, <2>3 DEF Record
  <1>9. HistoryInv'
    BY <1>1, <1>7, <1>8, PublishKeeps, Zenon DEF IGateInv
  <1> QED
    BY <1>2, <1>4, <1>5, <1>9, Zenon

\* After an operation on the history what is left to show is the call.
LEMMA HistoryDone ==
  ASSUME IGateInv, NEW c \in Callers, NEW key \in Keys \ {"accept"}, NEW content \in Contents,
         NEW next \in Pcs, NEW otherwise \in Pcs, HistoryStep(c, key, content, next, otherwise),
         CallInv(c)'
  PROVE  IGateInv'
  <1>1. Stable /\ OthersStay(c) /\ TypeInv' /\ HistoryInv'
    BY HistoryStable, Zenon
  <1>2. /\ UNCHANGED <<gates, summary, state, att>>
        /\ Record(call[c].att, content) \in Records
        /\ Publish(key, Record(call[c].att, content))
    BY HistorySteps, Zenon DEF IGateInv
  <1>3. log'["accept"] = log["accept"]
    BY <1>2, Published, Offsets, SMTT(30) DEF IGateInv
  <1> QED
    BY <1>1, <1>2, <1>3, PlainStep, Zenon

\* The places of an evaluation before its execution has completed.
Early == {"in_progress", "execution_start", "inspect", "preview_integration", "gate_pending", "run_test", "test",
          "gate_verdict", "execution_complete", "execution_failed", "work_failed", "fail_attempt"}

\* An evaluation that has begun may go on at those places.
LEMMA EarlyCall ==
  ASSUME NEW c \in Callers, call'[c].pc \in Early, Begun(call[c].att)'
  PROVE  CallInv(c)'
  BY Zenon DEF CallInv, EvaluateAt, DecideAt, Early, Completed, Deciding, Recorded, Verdicts,
         Reviewing, Accepting, Settling, Begun

\* One that has completed may go on at the next.
LEMMA CompletedCall ==
  ASSUME NEW c \in Callers, Begun(call[c].att)', "execution_complete" \in Present',
         call'[c].pc \in {"artifact", "handoff", "review", "awaiting", "review_result"}
  PROVE  CallInv(c)'
  BY Zenon DEF CallInv, EvaluateAt, DecideAt, Completed, Deciding, Recorded, Verdicts,
         Reviewing, Accepting, Settling, Begun

\* A call that has begun has begun after a step too, if it keeps its attempt.
LEMMA StillBegun ==
  ASSUME IGateInv, Stable, NEW c \in Callers, call'[c].att = call[c].att,
         call[c].pc \notin {"idle", "load", "intake", "ready"}
  PROVE  Begun(call[c].att)'
  <1>1. Begun(call[c].att) /\ call[c].att \in Stamps
    BY Zenon DEF IGateInv, CallInv, EvaluateAt, TypeInv, Calls
  <1>2. PICK a \in Stamps : a = call[c].att
    BY <1>1, Zenon
  <1>3. Begun(a)'
    BY <1>1, <1>2, BegunStays, Zenon
  <1> QED
    BY <1>2, <1>3, Zenon DEF Begun, Record

\* What is written stays when nothing is written.
LEMMA Untouched ==
  ASSUME UNCHANGED <<setup, gates, decided, intake, log>>
  PROVE  Stable
  BY Zenon DEF Stable, Present

\* A step of a call that writes nothing.
LEMMA QuietStep ==
  ASSUME IGateInv, NEW c \in Callers, call' \in [Callers -> Calls], OthersStay(c), CallInv(c)',
         UNCHANGED <<setup, att, state, lapsed, gates, decided, intake, summary, tree, primary, log>>,
         faults' \in Nat, changes' \in Nat, faults' + changes' <= MaxDisturbances
  PROVE  IGateInv'
  <1>1. Stable
    BY Untouched, Zenon
  <1>2. TypeInv'
    BY Zenon DEF IGateInv, TypeInv
  <1>3. HistoryInv'
    BY DEF IGateInv, HistoryInv, Present
  <1> QED
    BY <1>1, <1>2, <1>3, PlainStep, Zenon

\* Evaluate begins, loads its attempt, inspects, runs the test and has the result
\* reviewed without writing.
LEMMA ReadingSteps ==
  ASSUME IGateInv, NEW c \in Callers,
         \/ BeginEvaluate(c) \/ LoadEvaluate(c) \/ InspectChanges(c) \/ PreviewIntegration(c) \/ RunTest(c)
         \/ ReviewResult(c) \/ CallFails(c)
  PROVE  IGateInv'
  <1> USE Places
  <1>1. /\ UNCHANGED <<setup, att, state, lapsed, gates, decided, intake, summary, tree, primary, log>>
        /\ changes' = changes /\ (CallFails(c) \/ faults' = faults)
    BY Zenon DEF BeginEvaluate, LoadEvaluate, InspectChanges, PreviewIntegration, RunTest, ReviewResult, CallFails,
           control, rows, outside
  <1>2. /\ TypeInv /\ call \in [Callers -> Calls] /\ call[c] \in Calls
        /\ faults \in Nat /\ changes \in Nat /\ faults + changes <= MaxDisturbances
    BY Zenon DEF IGateInv, TypeInv
  <1>3. faults' \in Nat /\ changes' \in Nat /\ faults' + changes' <= MaxDisturbances
    <2>1. CASE CallFails(c)
      BY <1>1, <1>2, <2>1, GateAssumption, SMTT(30) DEF CallFails, Undisturbed
    <2>2. CASE ~CallFails(c)
      BY <1>1, <1>2, <2>2, Zenon
    <2> QED
      BY <2>1, <2>2, Zenon
  <1>4. Stable
    BY <1>1, Untouched, Zenon
  <1>5. CASE BeginEvaluate(c)
    <2>1. att \in Stamps
      BY <1>2, Zenon DEF TypeInv
    <2>2. call' = [call EXCEPT ![c] = NewCall("load", att)]
      BY <1>5, Zenon DEF BeginEvaluate
    <2>3. NewCall("load", att) \in Calls /\ NewCall("load", att).pc = "load"
      BY <2>1, NewTyped, Zenon
    <2>4. call' \in [Callers -> Calls] /\ OthersStay(c) /\ call'[c].pc = "load"
      BY <1>2, <2>2, <2>3, Zenon DEF OthersStay
    <2> QED
      BY <1>1, <1>3, <2>4, FreshCall, QuietStep, Zenon
  <1>6. CASE LoadEvaluate(c)
    <2>1. call' \in [Callers -> Calls] /\ OthersStay(c) /\ call'[c].pc \in {"idle", "intake"}
      <3>1. CASE call[c].att = att /\ state \in {"collecting", "awaiting_gates"}
        <4>1. call' = [call EXCEPT ![c] = [call[c] EXCEPT !.pc = "intake", !.from = state]]
          BY <1>6, <3>1, Zenon DEF LoadEvaluate
        <4>2. state \in AssignmentStates
          BY <1>2, Zenon DEF TypeInv
        <4>3. [call[c] EXCEPT !.pc = "intake", !.from = state] \in Calls
          BY <1>2, <4>2, Zenon DEF Calls
        <4>4. [call[c] EXCEPT !.pc = "intake", !.from = state].pc = "intake"
          BY <1>2, Zenon DEF Calls
        <4> QED
          BY <1>2, <4>1, <4>3, <4>4, Zenon DEF OthersStay
      <3>2. CASE ~(call[c].att = att /\ state \in {"collecting", "awaiting_gates"})
        BY <1>2, <1>6, <3>2, CallSteps, Zenon DEF LoadEvaluate, Ended
      <3> QED
        BY <3>1, <3>2, Zenon
    <2> QED
      BY <1>1, <1>3, <2>1, FreshCall, QuietStep, Zenon
  <1>7. CASE InspectChanges(c) \/ PreviewIntegration(c) \/ RunTest(c) \/ ReviewResult(c)
    <2>1. call[c].pc \in {"inspect", "preview_integration", "run_test", "review_result"}
      BY <1>7, Zenon DEF InspectChanges, PreviewIntegration, RunTest, ReviewResult, At
    <2>2. CASE InspectChanges(c)
      <3> DEFINE pc == "preview_integration"
                 new == [call[c] EXCEPT !.tree = tree, !.pc = pc]
      <3>1. call' = [call EXCEPT ![c] = new] \/ Goto(c, "execution_failed")
        BY <2>2, Zenon DEF InspectChanges
      <3>2. tree \in Trees /\ pc \in Pcs /\ pc \in Early
        BY <1>2, Offsets, Zenon DEF TypeInv, Early
      <3>3. new \in Calls /\ new.pc = pc /\ new.att = call[c].att
        BY <1>2, <3>2, Zenon DEF Calls
      <3> HIDE DEF new, pc
      <3>4. /\ call' \in [Callers -> Calls] /\ OthersStay(c)
            /\ call'[c].pc \in Early /\ call'[c].att = call[c].att
        <4>1. CASE call' = [call EXCEPT ![c] = new]
          BY <1>2, <3>2, <3>3, <4>1, Zenon DEF OthersStay
        <4>2. CASE Goto(c, "execution_failed")
          BY <1>2, <4>2, CallSteps, Offsets DEF Moved, Early
        <4> QED
          BY <3>1, <4>1, <4>2, Zenon
      <3> QED
        BY <1>1, <1>3, <1>4, <2>1, <3>4, StillBegun, EarlyCall, QuietStep, Zenon
    <2>5. CASE PreviewIntegration(c)
      <3> DEFINE pc == IF setup.machineGate THEN "gate_pending" ELSE "execution_complete"
      <3>1. Goto(c, pc) \/ Goto(c, "execution_failed")
        BY <2>5, Zenon DEF PreviewIntegration
      <3>2. pc \in Early /\ pc \in Pcs /\ "execution_failed" \in Early /\ "execution_failed" \in Pcs
        BY Offsets, Zenon DEF Early
      <3> HIDE DEF pc
      <3>3. Moved(c, pc) \/ Moved(c, "execution_failed")
        BY <1>2, <3>1, <3>2, CallSteps
      <3>4. /\ call' \in [Callers -> Calls] /\ OthersStay(c)
            /\ call'[c].pc \in Early /\ call'[c].att = call[c].att
        BY <3>2, <3>3, Zenon DEF Moved
      <3> QED
        BY <1>1, <1>3, <1>4, <2>1, <3>4, StillBegun, EarlyCall, QuietStep, Zenon
    <2>3. CASE RunTest(c)
      <3>1. /\ call' \in [Callers -> Calls] /\ OthersStay(c)
            /\ call'[c].pc \in Early /\ call'[c].att = call[c].att
        <4>1. CASE \E e \in Evidence : call' = [call EXCEPT ![c].pc = "test", ![c].evidence = e]
          <5>0. PICK e \in Evidence : call' = [call EXCEPT ![c].pc = "test", ![c].evidence = e]
            BY <4>1, Zenon
          <5> DEFINE new == [call[c] EXCEPT !.pc = "test", !.evidence = e]
          <5>1. call' = [call EXCEPT ![c] = new]
            BY <5>0, Zenon
          <5>2. new \in Calls /\ new.pc = "test" /\ new.att = call[c].att
            BY <1>2, Offsets, Zenon DEF Calls
          <5> HIDE DEF new
          <5> QED
            BY <1>2, <5>1, <5>2, Zenon DEF OthersStay, Early
        <4>2. CASE Goto(c, "execution_failed")
          BY <1>2, <4>2, CallSteps, Offsets, Zenon DEF Moved, Early
        <4> QED
          BY <2>3, <4>1, <4>2, Zenon DEF RunTest
      <3> QED
        BY <1>1, <1>3, <1>4, <2>1, <3>1, StillBegun, EarlyCall, QuietStep, Zenon
    <2>4. CASE ReviewResult(c)
      <3>1. CASE setup.reviewer
        <4>1. PICK r \in {"approved", "changes_requested", "error"} :
                 call' = [call EXCEPT ![c].review = r,
                            ![c].pc = IF r = "error" THEN "review_pending" ELSE "automated_review"]
          BY <2>4, <3>1, Zenon DEF ReviewResult
        <4> DEFINE pc == IF r = "error" THEN "review_pending" ELSE "automated_review"
                   new == [call[c] EXCEPT !.review = r, !.pc = pc]
        <4>2. call' = [call EXCEPT ![c] = new]
          BY <4>1, Zenon
        <4>3. pc \in Pcs
          BY Offsets, Zenon
        <4>4. new \in Calls /\ new.pc = pc /\ new.att = call[c].att /\ new.review = r
          BY <1>2, <4>3, Zenon DEF Calls
        <4> HIDE DEF new
        <4>5. /\ call' \in [Callers -> Calls] /\ OthersStay(c)
              /\ call'[c].pc = pc /\ call'[c].att = call[c].att /\ call'[c].review = r
          BY <1>2, <4>2, <4>4, Zenon DEF OthersStay
        <4>6. Begun(call[c].att)'
          BY <1>4, <2>1, <4>5, StillBegun, Zenon
        <4>7. "execution_complete" \in Present'
          <5>1. call[c].pc = "review_result"
            BY <2>4, Zenon DEF ReviewResult, At
          <5>2. "execution_complete" \in Present
            BY <5>1, Zenon DEF IGateInv, CallInv, EvaluateAt, Completed
          <5> QED
            BY <1>4, <5>2, Zenon DEF Stable
        <4>8. CallInv(c)'
          BY <4>5, <4>6, <4>7, Zenon DEF CallInv, EvaluateAt, DecideAt, Completed, Deciding, Recorded,
             Verdicts, Reviewing, Accepting, Settling, Begun
        <4> QED
          BY <1>1, <1>3, <4>5, <4>8, QuietStep, Zenon
      <3>2. CASE ~setup.reviewer
        <4>1. Goto(c, "execution_failed")
          BY <2>4, <3>2, Zenon DEF ReviewResult
        <4>2. /\ call' \in [Callers -> Calls] /\ OthersStay(c)
              /\ call'[c].pc \in Early /\ call'[c].att = call[c].att
          BY <1>2, <4>1, CallSteps, Offsets DEF Moved, Early
        <4> QED
          BY <1>1, <1>3, <1>4, <2>1, <4>2, StillBegun, EarlyCall, QuietStep, Zenon
      <3> QED
        BY <3>1, <3>2, Zenon
    <2> QED
      BY <1>7, <2>2, <2>3, <2>4, <2>5, Zenon
  <1>8. CASE CallFails(c)
    <2>1. Ended(c)
      BY <1>2, <1>8, CallSteps, Zenon DEF CallFails
    <2> QED
      BY <1>1, <1>3, <2>1, FreshCall, QuietStep, Zenon DEF Ended
  <1> QED
    BY <1>5, <1>6, <1>7, <1>8, Zenon

\* The intake of a result decides it once.
LEMMA IntakeSteps ==
  ASSUME IGateInv, NEW c \in Callers, IntakeResult(c)
  PROVE  IGateInv'
  <1> USE Places
  <1>1. /\ UNCHANGED <<setup, att, state, lapsed, gates, decided, summary, tree, primary, log,
                       faults, changes>>
        /\ call[c].pc = "intake"
    BY Zenon DEF IntakeResult, control, outside, At
  <1>2. /\ TypeInv /\ call \in [Callers -> Calls] /\ call[c].att \in Stamps
        /\ intake \in [Stamps -> {"none", "accepted", "rejected"}]
    BY Zenon DEF IGateInv, TypeInv, Calls
  <1>3. PICK verdict \in {"accepted", "rejected"} :
           /\ intake[call[c].att] \in {"none", verdict}
           /\ intake' = [intake EXCEPT ![call[c].att] = verdict]
           /\ GotoIf(c, verdict = "accepted", "ready", "idle")
    BY Zenon DEF IntakeResult
  <1>4. /\ intake' \in [Stamps -> {"none", "accepted", "rejected"}]
        /\ intake'[call[c].att] = verdict
        /\ \A a \in Stamps : intake[a] = "accepted" => intake'[a] = "accepted"
    BY <1>2, <1>3, Zenon
  <1>5. \/ Ended(c)
        \/ verdict = "accepted" /\ Moved(c, "ready")
        \/ verdict # "accepted" /\ Moved(c, "idle")
    BY <1>2, <1>3, Branches, Offsets, Zenon
  <1>6. call' \in [Callers -> Calls] /\ OthersStay(c)
    BY <1>5, Zenon DEF Ended, Moved
  <1>7. TypeInv'
    BY <1>1, <1>4, <1>6, Zenon DEF IGateInv, TypeInv
  <1>8. Stable
    BY <1>1, <1>4, Zenon DEF Stable, Present
  <1>9. HistoryInv'
    BY <1>1, Zenon DEF IGateInv, HistoryInv, Present
  <1>10. CallInv(c)'
    <2>1. CASE call'[c].pc = "idle"
      BY <2>1, FreshCall, Zenon
    <2>2. CASE verdict = "accepted" /\ Moved(c, "ready")
      BY <1>4, <2>2, Zenon DEF Moved, CallInv, EvaluateAt, DecideAt, Completed, Deciding, Recorded,
         Verdicts, Reviewing, Accepting, Settling
    <2> QED
      BY <1>5, <2>1, <2>2, Zenon DEF Ended, Moved
  <1> QED
    BY <1>1, <1>6, <1>7, <1>8, <1>9, <1>10, PlainStep

\* Evaluate's operations on the history before the execution has completed.
LEMMA StartSteps ==
  ASSUME IGateInv, NEW c \in Callers, NEW key \in Early \cup {"ready"}, key \in Keys,
         NEW content \in Contents, NEW next \in Early, NEW otherwise \in Early \cup {"idle"},
         key = "ready" => otherwise = "idle" /\ content = "none",
         HistoryStep(c, key, content, next, otherwise)
  PROVE  IGateInv'
  <1>0. next \in Pcs /\ otherwise \in Pcs /\ key # "accept" /\ key \notin {"idle", "load", "intake"}
    BY Places, Offsets DEF Early
  <1>1. Stable /\ call[c].pc = key /\ call[c].att \in Stamps
    BY <1>0, HistoryStable, HistorySteps, Zenon DEF IGateInv, TypeInv, Calls
  <1>2. \/ Ended(c)
        \/ Moved(c, next) /\ log'[key] = Record(call[c].att, content)
        \/ Moved(c, otherwise)
    BY <1>0, HistorySteps, Zenon DEF IGateInv
  <1>3. CallInv(c)'
    <2>1. CASE call'[c].pc = "idle"
      BY <2>1, FreshCall, Zenon
    <2>2. CASE call'[c].pc \in Early /\ key # "ready"
      BY <1>0, <1>1, <1>2, <2>2, StillBegun, EarlyCall, Zenon DEF Moved, Ended, Early
    <2>3. CASE call'[c].pc \in Early /\ key = "ready"
      <3>1. Moved(c, next) /\ log'["ready"] = Record(call[c].att, "none")
        BY <1>2, <2>3, Zenon DEF Ended, Moved, Early
      <3>2. intake[call[c].att] = "accepted"
        BY <1>1, <2>3, Zenon DEF IGateInv, CallInv, EvaluateAt
      <3>3. intake'[call[c].att] = "accepted"
        BY <1>1, <3>2, Zenon DEF Stable
      <3>4. Begun(call[c].att)'
        BY <3>1, <3>3, Zenon DEF Begun, Moved, Record
      <3> QED
        BY <2>3, <3>4, EarlyCall, Zenon
    <2> QED
      BY <1>2, <2>1, <2>2, <2>3, Zenon DEF Ended, Moved
  <1> QED
    BY <1>0, <1>3, HistoryDone, Zenon

\* completeHistory, and the records it publishes.
LEMMA CompleteSteps ==
  ASSUME IGateInv, NEW c \in Callers, CompleteHistory(c)
  PROVE  IGateInv'
  <1> DEFINE After == {"artifact", "handoff", "review", "awaiting", "review_result"}
  <1>1. ASSUME NEW key \in {"execution_complete", "artifact", "handoff", "review"},
               NEW content \in Contents, NEW next \in After,
               HistoryStep(c, key, content, next, "idle")
        PROVE  IGateInv'
    <2>0. key \in Keys \ {"accept"} /\ next \in Pcs /\ "idle" \in Pcs
      BY Places, Offsets, Zenon
    <2>1. Stable /\ call[c].pc = key
      BY <1>1, <2>0, HistoryStable, HistorySteps, Zenon DEF IGateInv
    <2>2. \/ Ended(c)
          \/ Moved(c, next) /\ key \in Present'
          \/ Moved(c, "idle")
      BY <1>1, <2>0, HistorySteps, Zenon DEF IGateInv
    <2>3. CallInv(c)'
      <3>1. CASE call'[c].pc = "idle"
        BY <3>1, FreshCall, Zenon
      <3>2. CASE call'[c].pc # "idle"
        <4>1. Moved(c, next) /\ key \in Present'
          BY <2>2, <3>2, Zenon DEF Ended, Moved
        <4>2. Begun(call[c].att)'
          BY <2>1, <4>1, StillBegun, Zenon DEF Moved
        <4>3. "execution_complete" \in Present'
          <5>1. CASE key = "execution_complete"
            BY <4>1, <5>1, Zenon
          <5>2. CASE key # "execution_complete"
            <6>1. "execution_complete" \in Present
              BY <2>1, <5>2, Zenon DEF IGateInv, CallInv, EvaluateAt, Completed
            <6> QED
              BY <2>1, <6>1, Zenon DEF Stable
          <5> QED
            BY <5>1, <5>2, Zenon
        <4> QED
          BY <4>1, <4>2, <4>3, CompletedCall, Zenon DEF Moved
      <3> QED
        BY <3>1, <3>2, Zenon
    <2> QED
      BY <1>1, <2>0, <2>3, HistoryDone, Zenon
  <1>2. "none" \in Contents /\ call[c].tree \in Contents
    BY Zenon DEF IGateInv, TypeInv, Calls, Contents
  <1>3. CASE HistoryStep(c, "execution_complete", "none",
                         IF setup.content THEN "artifact" ELSE "review", "idle")
    <2>1. (IF setup.content THEN "artifact" ELSE "review") \in After
      BY Zenon
    <2> QED
      BY <1>1, <1>2, <1>3, <2>1, Zenon
  <1>4. CASE HistoryStep(c, "artifact", "none", "handoff", "idle")
    BY <1>1, <1>2, <1>4, Zenon
  <1>5. CASE HistoryStep(c, "handoff", call[c].tree, "review", "idle")
    BY <1>1, <1>2, <1>5, Zenon
  <1>6. CASE HistoryStep(c, "review", "none", "awaiting", "idle")
    BY <1>1, <1>2, <1>6, Zenon
  <1> QED
    BY <1>3, <1>4, <1>5, <1>6, Zenon DEF CompleteHistory

\* The reviewer's verdict is recorded before its gate.
LEMMA AutomatedSteps ==
  ASSUME IGateInv, NEW c \in Callers, RecordAutomatedReview(c)
  PROVE  IGateInv'
  <1> DEFINE key == "automated_review"
             content == call[c].review
             otherwise == IF content = "approved" THEN "idle" ELSE "review_pending"
  <1>1. HistoryStep(c, key, content, "review_pending", otherwise)
    BY Zenon DEF RecordAutomatedReview
  <1>2. call[c].pc = key
    BY Zenon DEF RecordAutomatedReview, HistoryStep, At
  <1>3. content \in {"approved", "changes_requested"}
    BY <1>2, Zenon DEF IGateInv, CallInv, EvaluateAt
  <1>4. /\ key \in Keys \ {"accept"} /\ content \in Contents
        /\ "review_pending" \in Pcs /\ otherwise \in Pcs
    BY <1>3, Places, Offsets, Zenon DEF Contents
  <1> HIDE DEF content, otherwise
  <1>5. Stable
    BY <1>1, <1>4, HistoryStable, Zenon
  <1>6. \/ Ended(c)
        \/ Moved(c, "review_pending") /\ log'[key] = Record(call[c].att, content)
        \/ Moved(c, otherwise)
    BY <1>1, <1>4, HistorySteps, Zenon DEF IGateInv
  <1>7. CallInv(c)'
    <2>1. CASE call'[c].pc = "idle"
      BY <2>1, FreshCall, Zenon
    <2>2. CASE call'[c].pc # "idle"
      <3>1. /\ Moved(c, "review_pending")
            /\ content = "approved" => log'[key] = Record(call[c].att, "approved")
        BY <1>6, <2>2, Zenon DEF Ended, Moved, otherwise
      <3>2. Begun(call[c].att)'
        BY <1>2, <1>5, <3>1, StillBegun DEF Moved
      <3>3. "execution_complete" \in Present
        BY <1>2, Zenon DEF IGateInv, CallInv, EvaluateAt, Completed
      <3>4. "execution_complete" \in Present'
        BY <1>5, <3>3, Zenon DEF Stable
      <3> QED
        BY <3>1, <3>2, <3>4, Zenon DEF Moved, CallInv, EvaluateAt, DecideAt, Completed, Deciding,
           Recorded, Verdicts, Reviewing, Accepting, Settling, Begun, Record, content
    <2> QED
      BY <2>1, <2>2, Zenon
  <1> QED
    BY <1>1, <1>4, <1>7, HistoryDone, Zenon

\* A write of a gate's row, or none.
Writes(a, g, row, audit) == RecordGateStatus(a, g, row, audit) \/ gates' = gates

\* A gate's write changes nothing that stays.
LEMMA GateStable ==
  ASSUME IGateInv, NEW c \in Callers, NEW a \in Stamps, NEW g \in Gates, NEW row \in Rows,
         row.status # "absent", NEW audit, Writes(a, g, row, audit),
         call' \in [Callers -> Calls],
         UNCHANGED <<setup, att, state, lapsed, decided, intake, summary, tree, primary, log,
                     faults, changes>>
  PROVE  /\ Stable /\ TypeInv' /\ HistoryInv'
         /\ \A b \in Stamps, h \in Gates : b # a \/ h # g => gates'[b][h] = gates[b][h]
  <1>1. /\ gates' \in [Stamps -> [Gates -> Rows]]
        /\ \A b \in Stamps, h \in Gates :
              gates[b][h].status # "absent" =>
                 /\ gates'[b][h].status # "absent" /\ gates'[b][h].digest = gates[b][h].digest
                 /\ gates[b][h].status # "pending" => gates'[b][h].status = gates[b][h].status
        /\ \A b \in Stamps, h \in Gates : b # a \/ h # g => gates'[b][h] = gates[b][h]
    <2>1. CASE RecordGateStatus(a, g, row, audit)
      BY <2>1, GateSteps DEF IGateInv
    <2>2. CASE gates' = gates
      BY <2>2, Zenon DEF IGateInv, TypeInv
    <2> QED
      BY <2>1, <2>2, Zenon DEF Writes
  <1>2. TypeInv'
    BY <1>1, Zenon DEF IGateInv, TypeInv
  <1>3. Stable
    BY <1>1, Zenon DEF Stable, Present
  <1>4. HistoryInv'
    BY Zenon DEF IGateInv, HistoryInv, Present
  <1> QED
    BY <1>1, <1>2, <1>3, <1>4, Zenon

\* After a write of a gate other than the preview what is left to show is the call.
LEMMA GateDone ==
  ASSUME IGateInv, NEW c \in Callers, NEW a \in Stamps, NEW g \in Gates \ {"preview"},
         NEW row \in Rows, row.status # "absent", NEW audit, Writes(a, g, row, audit),
         call' \in [Callers -> Calls], OthersStay(c), CallInv(c)',
         UNCHANGED <<setup, att, state, lapsed, decided, intake, summary, tree, primary, log,
                     faults, changes>>
  PROVE  IGateInv'
  <1>1. Stable /\ TypeInv' /\ HistoryInv'
    BY GateStable, Zenon
  <1>2. \A b \in Stamps : gates'[b]["preview"] = gates[b]["preview"]
    <2>1. \A b \in Stamps, h \in Gates : b # a \/ h # g => gates'[b][h] = gates[b][h]
      BY GateStable, Zenon
    <2>2. "preview" \in Gates /\ "preview" # g
      BY Zenon DEF Gates
    <2> QED
      BY <2>1, <2>2, Zenon
  <1> QED
    BY <1>1, <1>2, PlainStep, Zenon

\* The machine gate's two rows.
LEMMA MachineSteps ==
  ASSUME IGateInv, NEW c \in Callers, GatePending(c) \/ GateVerdict(c)
  PROVE  IGateInv'
  <1> DEFINE a == call[c].att
             audit == <<"machine", "pending">>
  <1>1. /\ UNCHANGED <<setup, att, state, lapsed, decided, intake, summary, tree, primary, log,
                       faults, changes>>
        /\ call[c].pc \in {"gate_pending", "gate_verdict"}
    BY Zenon DEF GatePending, GateVerdict, control, outside, At
  <1>2. /\ TypeInv /\ call \in [Callers -> Calls] /\ call[c] \in Calls /\ a \in Stamps
        /\ "machine" \in Gates \ {"preview"}
    BY Zenon DEF IGateInv, TypeInv, Calls, Gates
  <1>3. /\ {"run_test", "execution_failed", "execution_complete"} \subseteq Early
        /\ {"run_test", "execution_failed", "execution_complete"} \subseteq Pcs
    BY Places, Offsets, Zenon DEF Early
  <1>4. \E status \in {"pending", "satisfied", "failed"} :
           /\ Writes(a, "machine", MachineRow(c, status), audit)
           /\ Ended(c) \/ (\E pc \in Early : Moved(c, pc))
    <2>1. CASE GatePending(c) /\ setup.planned
      <3> DEFINE row == MachineRow(c, "pending")
                 ok == GateWriteCommits(a, "machine", row, audit)
      <3>1. /\ RecordGateStatus(a, "machine", row, audit)
            /\ GotoIf(c, ok, "run_test", "execution_failed")
        BY <2>1, Zenon DEF GatePending
      <3>2. ok \in BOOLEAN
        BY Zenon DEF GateWriteCommits
      <3> HIDE DEF ok, row
      <3>3. Ended(c) \/ Moved(c, "run_test") \/ Moved(c, "execution_failed")
        BY <1>2, <1>3, <3>1, <3>2, Branches
      <3> QED
        BY <1>3, <3>1, <3>3, Zenon DEF Writes, row
    <2>2. CASE GatePending(c) /\ ~setup.planned
      <3>1. Goto(c, "execution_failed") /\ gates' = gates
        BY <2>2, Zenon DEF GatePending
      <3>2. Moved(c, "execution_failed")
        BY <1>2, <1>3, <3>1, CallSteps, Zenon
      <3> QED
        BY <1>3, <3>1, <3>2, Zenon DEF Writes
    <2>3. CASE GateVerdict(c)
      <3> DEFINE status == IF call[c].evidence \in Passing THEN "satisfied" ELSE "failed"
                 row == MachineRow(c, status)
                 ok == GateWriteCommits(a, "machine", row, audit) /\ status = "satisfied"
      <3>1. /\ RecordGateStatus(a, "machine", row, audit)
            /\ GotoIf(c, ok, "execution_complete", "execution_failed")
        BY <2>3, Zenon DEF GateVerdict
      <3>2. ok \in BOOLEAN /\ status \in {"satisfied", "failed"}
        BY Zenon DEF GateWriteCommits
      <3> HIDE DEF ok, status
      <3>3. Ended(c) \/ Moved(c, "execution_complete") \/ Moved(c, "execution_failed")
        BY <1>2, <1>3, <3>1, <3>2, Branches
      <3> QED
        BY <1>3, <3>1, <3>2, <3>3, Zenon DEF Writes
    <2> QED
      BY <2>1, <2>2, <2>3
  <1>5. PICK status \in {"pending", "satisfied", "failed"} :
           /\ Writes(a, "machine", MachineRow(c, status), audit)
           /\ Ended(c) \/ (\E pc \in Early : Moved(c, pc))
    BY <1>4, Zenon
  <1>6. MachineRow(c, status) \in Rows /\ MachineRow(c, status).status # "absent"
    BY <1>2, Zenon DEF MachineRow, Row, Rows, Statuses, Calls
  <1>7. call' \in [Callers -> Calls] /\ OthersStay(c)
    BY <1>5, Zenon DEF Ended, Moved
  <1>8. Stable
    BY <1>1, <1>2, <1>5, <1>6, <1>7, GateStable, Zenon
  <1>9. CallInv(c)'
    <2>1. CASE Ended(c)
      BY <2>1, FreshCall, Zenon DEF Ended
    <2>2. CASE \E pc \in Early : Moved(c, pc)
      <3>1. call'[c].pc \in Early /\ call'[c].att = call[c].att
        BY <2>2, Zenon DEF Moved
      <3> QED
        BY <1>1, <1>8, <3>1, StillBegun, EarlyCall, Zenon
    <2> QED
      BY <1>5, <2>1, <2>2, Zenon
  <1> QED
    BY <1>1, <1>2, <1>5, <1>6, <1>7, <1>9, GateDone

\* The review gate after the reviewer.
LEMMA ReviewPendingSteps ==
  ASSUME IGateInv, NEW c \in Callers, ReviewPending(c)
  PROVE  IGateInv'
  <1> DEFINE a == call[c].att
             approved == call[c].review = "approved"
             status == IF approved THEN "pending" ELSE "failed"
             row == Row(status, "contract", "review_output")
             audit == <<"review", status>>
             ok == ReviewGateCommits(c, status, "review_output")
             next == IF ok THEN "preview_pending" ELSE "idle"
  <1>1. /\ UNCHANGED <<setup, att, state, lapsed, decided, intake, summary, tree, primary, log,
                       faults, changes>>
        /\ call[c].pc = "review_pending"
        /\ GotoIf(c, approved, next, "execution_failed")
    BY Zenon DEF ReviewPending, control, outside, At
  <1>2. /\ TypeInv /\ call \in [Callers -> Calls] /\ call[c] \in Calls /\ a \in Stamps
        /\ "review" \in Gates \ {"preview"}
    BY Zenon DEF IGateInv, TypeInv, Calls, Gates
  <1>3. Writes(a, "review", row, audit)
    BY Zenon DEF ReviewPending, RecordReviewGate, Writes
  <1>4. row \in Rows /\ row.status # "absent"
    BY Zenon DEF Row, Rows, Statuses
  <1>5. {"preview_pending", "idle", "execution_failed"} \subseteq Pcs /\ "execution_failed" \in Early
    BY Places, Offsets, Zenon DEF Early
  <1>6. next \in Pcs /\ next \in {"preview_pending", "idle"} /\ approved \in BOOLEAN
    BY <1>5, Zenon
  <1> HIDE DEF next
  <1>7. \/ Ended(c)
        \/ approved /\ Moved(c, next)
        \/ ~approved /\ Moved(c, "execution_failed")
    BY <1>1, <1>2, <1>5, <1>6, Branches, Zenon
  <1>8. call' \in [Callers -> Calls] /\ OthersStay(c)
    BY <1>7, Zenon DEF Ended, Moved
  <1>9. Stable
    BY <1>1, <1>2, <1>3, <1>4, <1>8, GateStable, Zenon
  <1>10. CallInv(c)'
    <2>1. CASE call'[c].pc = "idle"
      BY <2>1, FreshCall, Zenon
    <2>2. CASE Moved(c, "execution_failed")
      <3>1. call'[c].pc \in Early /\ call'[c].att = call[c].att
        BY <1>5, <2>2 DEF Moved
      <3> QED
        BY <1>1, <1>9, <3>1, StillBegun, EarlyCall
    <2>3. CASE approved /\ Moved(c, "preview_pending")
      <3>1. Evaluated(a)
        BY <1>1, <2>3, Zenon DEF IGateInv, CallInv, EvaluateAt, Evaluated, Completed
      <3>2. PICK x \in Stamps : x = a
        BY <1>2, Zenon
      <3>3. Evaluated(x)' /\ call'[c].att = x /\ call'[c].pc = "preview_pending"
        BY <1>9, <2>3, <3>1, <3>2, BegunStays, Zenon DEF Moved
      <3> QED
        BY <3>3, Zenon DEF CallInv, EvaluateAt, DecideAt, Completed, Deciding, Recorded, Verdicts,
           Reviewing, Accepting, Settling, Evaluated, Begun, Record
    <2> QED
      BY <1>6, <1>7, <2>1, <2>2, <2>3, Zenon DEF Ended, Moved
  <1> QED
    BY <1>1, <1>2, <1>3, <1>4, <1>8, <1>10, GateDone

\* When the attempt's state stays and the preview row of one attempt is written, what is
\* left to show is that row and the call.
LEMMA PreviewDone ==
  ASSUME IGateInv, NEW c \in Callers, NEW a \in Stamps, NEW row \in Rows,
         row.status # "absent", NEW audit, RecordGateStatus(a, "preview", row, audit),
         call' \in [Callers -> Calls], OthersStay(c), CallInv(c)',
         UNCHANGED <<setup, att, state, lapsed, decided, intake, summary, tree, primary, log,
                     faults, changes>>,
         /\ row.digest \in Digests /\ Evaluated(a)
         /\ row.status = "satisfied" => decided[row.digest] = "approve"
         /\ row.status = "failed" => decided[row.digest] = "reject"
  PROVE  IGateInv'
  <1>0. "preview" \in Gates /\ Writes(a, "preview", row, audit)
    BY Zenon DEF Gates, Writes
  <1>1. Stable /\ TypeInv' /\ HistoryInv'
    BY <1>0, GateStable, Zenon
  <1>2. /\ \A b \in Stamps : b # a => gates'[b]["preview"] = gates[b]["preview"]
        /\ gates'[a]["preview"] = row \/ gates' = gates
    BY <1>0, GateSteps, SMTT(30) DEF IGateInv
  <1>3. ASSUME NEW b \in Stamps
        PROVE  PreviewInv(b)'
    <2>1. CASE gates'[b]["preview"] = gates[b]["preview"]
      BY <1>1, <2>1, PreviewCarried, Zenon DEF IGateInv
    <2>2. CASE b = a /\ gates'[a]["preview"] = row
      <3>1. Evaluated(a)'
        BY <1>1, BegunStays, Zenon
      <3> QED
        BY <2>2, <3>1, Zenon DEF PreviewInv
    <2> QED
      BY <1>2, <2>1, <2>2, Zenon
  <1>4. \A d \in Callers : CallInv(d)'
    BY <1>1, OthersKeep, Zenon
  <1>5. AcceptInv'
    BY <1>1, AcceptCarried, Zenon DEF IGateInv
  <1>6. summary # Absent => Begun(summary.att)'
    BY Zenon DEF IGateInv, Begun, Record
  <1>7. AcceptanceBacked'
    <2>1. att \in Stamps /\ (state = "accepted" => gates[att]["preview"].status # "absent")
      BY Zenon DEF IGateInv, TypeInv, AcceptanceBacked
    <2>2. state = "accepted" =>
             gates[att]["preview"].digest \in Digests /\ "execution_complete" \in Present
      BY <2>1, Zenon DEF IGateInv, PreviewInv, Evaluated
    <2> QED
      BY <1>1, <2>2, BackedCarried, Zenon DEF IGateInv
  <1> QED
    BY <1>1, <1>3, <1>4, <1>5, <1>6, <1>7, Zenon DEF IGateInv

\* The preview's row is first written once the evaluation is complete.
LEMMA PreviewPendingSteps ==
  ASSUME IGateInv, NEW c \in Callers, PreviewPending(c)
  PROVE  IGateInv'
  <1> DEFINE a == call[c].att
             row == Row("pending", DigestOf(c), "human_decision_pending")
             audit == <<"preview", DigestOf(c)>>
             ok == GateWriteCommits(a, "preview", row, audit)
  <1>1. /\ UNCHANGED <<setup, att, state, lapsed, decided, intake, summary, tree, primary, log,
                       faults, changes>>
        /\ call[c].pc = "preview_pending" /\ RecordGateStatus(a, "preview", row, audit)
        /\ GotoIf(c, ok, "save", "idle")
    BY Zenon DEF PreviewPending, control, outside, At
  <1>2. /\ TypeInv /\ call \in [Callers -> Calls] /\ call[c] \in Calls /\ a \in Stamps
        /\ DigestOf(c) \in Digests
    BY Zenon DEF IGateInv, TypeInv, Calls, DigestOf, Digests
  <1>3. row \in Rows /\ row.status = "pending" /\ row.digest \in Digests
    BY <1>2, Zenon DEF Row, Rows, Statuses
  <1>4. {"save", "idle"} \subseteq Pcs /\ ok \in BOOLEAN
    BY Places, Zenon DEF GateWriteCommits
  <1> HIDE DEF ok, row
  <1>5. Ended(c) \/ Moved(c, "save") \/ Moved(c, "idle")
    BY <1>1, <1>2, <1>4, Branches, Zenon
  <1>6. call' \in [Callers -> Calls] /\ OthersStay(c)
    BY <1>5, Zenon DEF Ended, Moved
  <1>7. "preview" \in Gates /\ Writes(a, "preview", row, audit)
    BY <1>1, Zenon DEF Gates, Writes
  <1>8. Stable
    BY <1>1, <1>2, <1>3, <1>6, <1>7, GateStable, Zenon
  <1>9. Evaluated(a)
    BY <1>1, Zenon DEF IGateInv, CallInv, EvaluateAt
  <1>10. CallInv(c)'
    <2>1. CASE call'[c].pc = "idle"
      BY <2>1, FreshCall, Zenon
    <2>2. CASE Moved(c, "save")
      <3>1. PICK x \in Stamps : x = a
        BY <1>2, Zenon
      <3>2. Evaluated(x)' /\ call'[c].att = x /\ call'[c].pc = "save"
        BY <1>8, <1>9, <2>2, <3>1, BegunStays, Zenon DEF Moved
      <3> QED
        BY <3>2, Zenon DEF CallInv, EvaluateAt, DecideAt, Completed, Deciding, Recorded, Verdicts,
           Reviewing, Accepting, Settling, Evaluated, Begun, Record
    <2> QED
      BY <1>5, <2>1, <2>2, Zenon DEF Ended, Moved
  <1> QED
    BY <1>1, <1>2, <1>3, <1>6, <1>9, <1>10, PreviewDone, Zenon

\* When no row and no record is written, what is left to show is the calls, the saved
\* summary and, if the attempt's state changes to it, the acceptance.
LEMMA ControlStep ==
  ASSUME IGateInv, TypeInv', UNCHANGED <<setup, gates, decided, intake, log>>,
         \A d \in Callers : CallInv(d)',
         summary' # Absent => Begun(summary'.att),
         state' # "accepted" \/ (state' = state /\ att' = att) \/ AcceptanceBacked'
  PROVE  IGateInv'
  <1>1. HistoryInv'
    BY Zenon DEF IGateInv, HistoryInv, Present
  <1>2. \A a \in Stamps : PreviewInv(a)'
    BY Untouched, PreviewCarried, Zenon DEF IGateInv
  <1>3. AcceptInv'
    BY Zenon DEF IGateInv, AcceptInv, Present
  <1>4. (summary # Absent => Begun(summary.att))'
    BY Zenon DEF Begun, Record
  <1>5. AcceptanceBacked'
    <2>1. CASE state' = state /\ att' = att
      BY <2>1, Zenon DEF IGateInv, AcceptanceBacked, RequiresReviewer, Record, ExecutionState, Folded,
         Latest, OccurredAt, Present
    <2> QED
      BY <2>1, Zenon DEF AcceptanceBacked
  <1> QED
    BY <1>1, <1>2, <1>3, <1>4, <1>5 DEF IGateInv

\* The summary an attempt has stays begun.
LEMMA SummaryBegun ==
  ASSUME IGateInv, summary' = summary
  PROVE  summary' # Absent => Begun(summary'.att)
  BY Zenon DEF IGateInv

\* What a transition leaves of the attempt's state.
LEMMA Transitions ==
  ASSUME TypeInv, NEW a, NEW target \in AssignmentStates, Transition(a, target)
  PROVE  /\ att' = att /\ lapsed' = lapsed /\ state' \in AssignmentStates
         /\ state' = state \/ (state' = target /\ a = att)
  BY Zenon DEF TypeInv, Transition, TransitionCommits

\* The states of an attempt the gate moves between.
LEMMA Targets == {"awaiting_gates", "failed", "accepted", "canceled", "expired", "collecting"}
                    \subseteq AssignmentStates
  BY Zenon DEF AssignmentStates, LiveStates, FencedStates, TerminalStates, RetryableStates

\* The summary is saved by a call whose result has begun.
LEMMA SaveSteps ==
  ASSUME IGateInv, NEW c \in Callers, SaveIntegrationSummary(c)
  PROVE  IGateInv'
  <1>1. /\ UNCHANGED <<setup, att, state, lapsed, gates, audits, decided, intake, tree, primary, log,
                       faults, changes>>
        /\ call[c].pc = "save" /\ summary' = DigestOf(c) /\ End(c)
    BY Zenon DEF SaveIntegrationSummary, control, rows, outside, At
  <1>2. /\ TypeInv /\ call \in [Callers -> Calls] /\ call[c] \in Calls
        /\ DigestOf(c) \in Digests /\ DigestOf(c).att = call[c].att
    BY Zenon DEF IGateInv, TypeInv, Calls, DigestOf, Digests
  <1>3. Ended(c)
    BY <1>1, <1>2, CallSteps, Zenon
  <1>4. TypeInv'
    BY <1>1, <1>2, <1>3, Zenon DEF TypeInv, Ended
  <1>5. Begun(call[c].att)
    BY <1>1, Zenon DEF IGateInv, CallInv, EvaluateAt
  <1>6. \A d \in Callers : CallInv(d)'
    BY <1>1, <1>3, FreshCall, OthersKeep, Untouched DEF Ended
  <1> QED
    BY <1>1, <1>2, <1>4, <1>5, <1>6, ControlStep, Zenon

\* A fenced move to awaiting_gates, and an attempt that was there already.
LEMMA AwaitSteps ==
  ASSUME IGateInv, NEW c \in Callers, AwaitGates(c)
  PROVE  IGateInv'
  <1> DEFINE next == IF RequiresReviewer THEN "review_result" ELSE "preview_pending"
             a == call[c].att
             ok == TransitionCommits(a, "awaiting_gates")
  <1>1. /\ UNCHANGED <<setup, gates, audits, decided, intake, tree, primary, log, summary,
                       faults, changes>>
        /\ call[c].pc = "awaiting"
        /\ \/ Transition(a, "awaiting_gates") /\ GotoIf(c, ok, next, "idle")
           \/ Goto(c, next) /\ UNCHANGED <<att, state, lapsed>>
    BY Zenon DEF AwaitGates, control, rows, outside, At
  <1>2. TypeInv /\ call \in [Callers -> Calls] /\ call[c] \in Calls /\ a \in Stamps
    BY Zenon DEF IGateInv, TypeInv, Calls
  <1>3. next \in Pcs /\ "idle" \in Pcs /\ ok \in BOOLEAN
    BY Places, Zenon DEF TransitionCommits, ReduceAssignmentState
  <1>4. Ended(c) \/ Moved(c, next) \/ Moved(c, "idle")
    <2> HIDE DEF next, ok
    <2> QED
      BY <1>1, <1>2, <1>3, CallSteps, Branches
  <1>5. /\ att' = att /\ lapsed' = lapsed /\ state' \in AssignmentStates
        /\ state' = state \/ state' = "awaiting_gates"
    BY <1>1, <1>2, Transitions, Targets DEF TypeInv
  <1>6. Stable /\ OthersStay(c) /\ call' \in [Callers -> Calls]
    BY <1>1, <1>4, Untouched, Zenon DEF Ended, Moved
  <1>7. TypeInv'
    BY <1>1, <1>2, <1>5, <1>6 DEF TypeInv
  <1>8. CallInv(c)'
    <2>1. CASE call'[c].pc = "idle"
      BY <2>1, FreshCall, Zenon
    <2>2. CASE Moved(c, next) /\ RequiresReviewer
      <3>1. call'[c].pc = "review_result" /\ call'[c].att = call[c].att
        BY <2>2, Zenon DEF Moved
      <3>2. "execution_complete" \in Present
        BY <1>1, Zenon DEF IGateInv, CallInv, EvaluateAt, Completed
      <3>3. "execution_complete" \in Present' /\ Begun(call[c].att)'
        BY <1>1, <1>2, <1>6, <3>1, <3>2, BegunStays, StillBegun, Zenon
      <3> QED
        BY <3>1, <3>3, CompletedCall
    <2>3. CASE Moved(c, next) /\ ~RequiresReviewer
      <3>1. Evaluated(a)
        BY <1>1, <2>3, Zenon DEF IGateInv, CallInv, EvaluateAt, Evaluated, Completed
      <3>2. PICK x \in Stamps : x = a
        BY <1>2, Zenon
      <3>3. Evaluated(x)' /\ call'[c].att = x /\ call'[c].pc = "preview_pending"
        BY <1>6, <2>3, <3>1, <3>2, BegunStays, Zenon DEF Moved
      <3> QED
        BY <3>3, Zenon DEF CallInv, EvaluateAt, DecideAt, Completed, Deciding, Recorded, Verdicts,
           Reviewing, Accepting, Settling, Evaluated, Begun, Record
    <2> QED
      BY <1>4, <2>1, <2>2, <2>3, Zenon DEF Ended, Moved
  <1>9. \A d \in Callers : CallInv(d)'
    BY <1>6, <1>8, OthersKeep
  <1> QED
    BY <1>1, <1>5, <1>7, <1>9, SummaryBegun, ControlStep, Zenon

\* The records before the execution has completed, and those of its failure.
LEMMA EarlySteps ==
  ASSUME IGateInv, NEW c \in Callers, StartHistory(c) \/ RecordTest(c) \/ Fail(c)
  PROVE  IGateInv'
  <1>1. /\ {"in_progress", "execution_start", "inspect", "test", "gate_verdict",
            "execution_failed", "work_failed", "fail_attempt"} \subseteq Early
        /\ {"ready", "in_progress", "execution_start", "test", "execution_failed",
            "work_failed"} \subseteq Keys
        /\ "none" \in Contents
    BY Offsets, Zenon DEF Early, Contents
  <1>2. TypeInv /\ call \in [Callers -> Calls] /\ call[c] \in Calls
    BY Zenon DEF IGateInv, TypeInv
  <1>3. call[c].evidence \in Contents
    BY <1>2, Zenon DEF Calls, Contents
  <1>4. CASE StartHistory(c)
    BY <1>1, <1>4, StartSteps, Zenon DEF StartHistory
  <1>5. CASE RecordTest(c)
    BY <1>1, <1>3, <1>5, StartSteps, Zenon DEF RecordTest
  <1>6. CASE HistoryStep(c, "execution_failed", "none", "work_failed", "work_failed")
    BY <1>1, <1>6, StartSteps, Zenon
  <1>7. CASE HistoryStep(c, "work_failed", "none", "fail_attempt", "fail_attempt")
    BY <1>1, <1>7, StartSteps, Zenon
  <1>8. CASE /\ At(c, "fail_attempt")
             /\ Transition(call[c].att, "failed")
             /\ End(c)
             /\ UNCHANGED <<rows, outside, summary, log>>
    <2>1. UNCHANGED <<setup, gates, audits, decided, intake, tree, primary, log, summary,
                      faults, changes>>
      BY <1>8, Zenon DEF rows, outside
    <2>2. Ended(c)
      BY <1>2, <1>8, CallSteps
    <2>3. /\ att' = att /\ lapsed' = lapsed /\ state' \in AssignmentStates
          /\ state' = state \/ state' = "failed"
      BY <1>2, <1>8, Transitions, Targets, Zenon
    <2>4. TypeInv'
      BY <1>2, <2>1, <2>2, <2>3, Zenon DEF TypeInv, Ended
    <2>5. \A d \in Callers : CallInv(d)'
      BY <2>1, <2>2, FreshCall, OthersKeep, Untouched DEF Ended
    <2> QED
      BY <2>1, <2>3, <2>4, <2>5, SummaryBegun, ControlStep
  <1> QED
    BY <1>4, <1>5, <1>6, <1>7, <1>8 DEF Fail

\* A decision begins with the summary the desktop saved.
LEMMA BeginDecideSteps ==
  ASSUME IGateInv, NEW c \in Callers, BeginDecide(c)
  PROVE  IGateInv'
  <1>1. /\ UNCHANGED <<setup, att, state, lapsed, gates, audits, decided, intake, summary, tree,
                       primary, log, faults, changes>>
        /\ summary # Absent
    BY Zenon DEF BeginDecide, control, rows, outside
  <1>2. PICK d \in {"approve", "reject"} :
           call' = [call EXCEPT ![c] = [NewCall("load_decision", summary.att) EXCEPT
                      !.tree = summary.tree, !.evidence = summary.evidence, !.decision = d]]
    BY Zenon DEF BeginDecide
  <1> DEFINE new == [NewCall("load_decision", summary.att) EXCEPT
                       !.tree = summary.tree, !.evidence = summary.evidence, !.decision = d]
  <1>3. TypeInv /\ call \in [Callers -> Calls] /\ summary \in Digests /\ Begun(summary.att)
    BY <1>1, Zenon DEF IGateInv, TypeInv
  <1>4. /\ summary.att \in Stamps /\ summary.tree \in Trees
        /\ summary.evidence \in Evidence \cup {"none"}
    BY <1>3, Zenon DEF Digests
  <1>5. new \in Calls /\ new.pc = "load_decision" /\ new.att = summary.att /\ new.decision = d
    BY <1>4, Places, Zenon DEF NewCall, Calls
  <1>6. call' = [call EXCEPT ![c] = new]
    BY <1>2, Zenon
  <1> HIDE DEF new
  <1>7. /\ call' \in [Callers -> Calls] /\ OthersStay(c) /\ call'[c].pc = "load_decision"
        /\ call'[c].att = summary.att /\ call'[c].decision = d
    BY <1>3, <1>5, <1>6 DEF OthersStay
  <1>8. CallInv(c)'
    <2>1. PICK x \in Stamps : x = summary.att
      BY <1>4, Zenon
    <2>2. Begun(x)'
      BY <1>1, <1>3, <2>1, BegunStays, Untouched
    <2> QED
      BY <1>7, <2>1, <2>2, Zenon DEF CallInv, EvaluateAt, DecideAt, Completed, Deciding, Recorded, Verdicts,
         Reviewing, Accepting, Settling, Begun, Record
  <1>9. /\ faults' \in Nat /\ changes' \in Nat /\ faults' + changes' <= MaxDisturbances
    BY <1>1, <1>3, Zenon DEF TypeInv
  <1> QED
    BY <1>1, <1>7, <1>8, <1>9, QuietStep, Zenon

\* A decision that goes on at pc has there what it had where it came from.
LEMMA DecisionMoves ==
  ASSUME IGateInv, Stable, NEW c \in Callers, NEW from, NEW pc, Moved(c, pc),
         EvaluateAt(c, from), DecideAt(c, from)
  PROVE  EvaluateAt(c, from)' /\ DecideAt(c, from)' /\ call'[c].pc = pc
  BY EvaluateCarried, DecideCarried, Zenon DEF IGateInv, Moved

\* The snapshot and the worktree are checked without writing.
LEMMA CheckSteps ==
  ASSUME IGateInv, NEW c \in Callers, LoadDecision(c) \/ InspectDecision(c) \/ PreviewDecision(c)
  PROVE  IGateInv'
  <1>1. UNCHANGED <<setup, att, state, lapsed, gates, audits, decided, intake, summary, tree,
                    primary, log, faults, changes>>
    BY Zenon DEF LoadDecision, InspectDecision, PreviewDecision, control, rows, outside
  <1>2. /\ TypeInv /\ call \in [Callers -> Calls] /\ call[c] \in Calls
        /\ faults \in Nat /\ changes \in Nat /\ faults + changes <= MaxDisturbances
    BY Zenon DEF IGateInv, TypeInv
  <1>3. Stable
    BY <1>1, Untouched, Zenon
  <1>4. ASSUME NEW pc \in {"inspect_decision", "preview_decision", "decide"},
               EvaluateAt(c, pc), DecideAt(c, pc), Moved(c, pc)
        PROVE  IGateInv'
    <2>1. CallInv(c)'
      BY <1>3, <1>4, DecisionMoves, Zenon DEF CallInv
    <2> QED
      BY <1>1, <1>2, <1>4, <2>1, QuietStep DEF Moved
  <1>5. ASSUME Ended(c) \/ Moved(c, "idle")
        PROVE  IGateInv'
    BY <1>1, <1>2, <1>5, FreshCall, QuietStep DEF Ended, Moved
  <1>6. CASE LoadDecision(c)
    <2>1. GotoIf(c, Decidable(c), "inspect_decision", "idle") /\ call[c].pc = "load_decision"
      BY <1>6, Zenon DEF LoadDecision, At
    <2>2. \/ Ended(c)
          \/ Decidable(c) /\ Moved(c, "inspect_decision")
          \/ Moved(c, "idle")
      BY <1>2, <2>1, Branches, Places, Zenon DEF Decidable
    <2>3. EvaluateAt(c, "load_decision") /\ DecideAt(c, "load_decision")
      BY <2>1, Zenon DEF IGateInv, CallInv
    <2>4. ASSUME Decidable(c)
          PROVE  EvaluateAt(c, "inspect_decision") /\ DecideAt(c, "inspect_decision")
      BY <2>3, <2>4, Zenon DEF Decidable, EvaluateAt, DecideAt, Completed, Deciding, Recorded, Verdicts,
         Reviewing, Accepting, Settling
    <2> QED
      BY <1>4, <1>5, <2>2, <2>4
  <1>7. CASE InspectDecision(c)
    <2>1. /\ GotoIf(c, tree = call[c].tree, "preview_decision", "idle")
          /\ call[c].pc = "inspect_decision"
      BY <1>7, Zenon DEF InspectDecision, At
    <2>2. Ended(c) \/ Moved(c, "preview_decision") \/ Moved(c, "idle")
      BY <1>2, <2>1, Branches, Places, Zenon
    <2>3. EvaluateAt(c, "inspect_decision") /\ DecideAt(c, "inspect_decision")
      BY <2>1, Zenon DEF IGateInv, CallInv
    <2>4. EvaluateAt(c, "preview_decision") /\ DecideAt(c, "preview_decision")
      BY <2>3, Zenon DEF EvaluateAt, DecideAt, Completed, Deciding, Recorded, Verdicts,
         Reviewing, Accepting, Settling
    <2> QED
      BY <1>4, <1>5, <2>2, <2>4
  <1>8. CASE PreviewDecision(c)
    <2>1. GotoIf(c, primary = 0, "decide", "idle") /\ call[c].pc = "preview_decision"
      BY <1>8, Zenon DEF PreviewDecision, At
    <2>2. Ended(c) \/ Moved(c, "decide") \/ Moved(c, "idle")
      BY <1>2, <2>1, Branches, Places, Zenon
    <2>3. EvaluateAt(c, "preview_decision") /\ DecideAt(c, "preview_decision")
      BY <2>1, Zenon DEF IGateInv, CallInv
    <2>4. EvaluateAt(c, "decide") /\ DecideAt(c, "decide")
      BY <2>3, Zenon DEF EvaluateAt, DecideAt, Completed, Deciding, Recorded, Verdicts,
         Reviewing, Accepting, Settling
    <2> QED
      BY <1>4, <1>5, <2>2, <2>4
  <1> QED
    BY <1>6, <1>7, <1>8, Zenon

\* The operator's decision is recorded once for a digest.
LEMMA OperatorSteps ==
  ASSUME IGateInv, NEW c \in Callers, RecordOperatorDecision(c)
  PROVE  IGateInv'
  <1> DEFINE digest == DigestOf(c)
             commits == DecisionCommits(call[c].att, digest, call[c].decision)
  <1>1. /\ UNCHANGED <<setup, att, state, lapsed, gates, audits, intake, summary, tree, primary,
                       log, faults, changes>>
        /\ call[c].pc = "decide" /\ GotoIf(c, commits, "decide_preview", "idle")
        /\ decided' = IF commits THEN [decided EXCEPT ![digest] = call[c].decision] ELSE decided
    BY Zenon DEF RecordOperatorDecision, control, outside, At
  <1>2. /\ TypeInv /\ call \in [Callers -> Calls] /\ call[c] \in Calls /\ digest \in Digests
        /\ decided \in [Digests -> {"none"} \cup setup.decisions]
    BY Zenon DEF IGateInv, TypeInv, Calls, DigestOf, Digests
  <1>3. commits => call[c].decision \in setup.decisions /\ decided[digest] \in {"none", call[c].decision}
    BY Zenon DEF DecisionCommits
  <1>4. /\ decided' \in [Digests -> {"none"} \cup setup.decisions]
        /\ \A d \in Digests : decided[d] # "none" => decided'[d] = decided[d]
        /\ commits => decided'[digest] = call[c].decision
    BY <1>1, <1>2, <1>3
  <1>5. Stable
    BY <1>1, <1>4, Zenon DEF Stable, Present
  <1>6. commits \in BOOLEAN /\ {"decide_preview", "idle"} \subseteq Pcs
    BY Places, Zenon DEF DecisionCommits
  <1>7. Ended(c) \/ (commits /\ Moved(c, "decide_preview")) \/ Moved(c, "idle")
    <2> HIDE DEF commits
    <2> QED
      BY <1>1, <1>2, <1>6, Branches
  <1>8. call' \in [Callers -> Calls] /\ OthersStay(c)
    BY <1>7, Zenon DEF Ended, Moved
  <1>9. TypeInv'
    BY <1>1, <1>2, <1>4, <1>8 DEF TypeInv
  <1>10. HistoryInv'
    BY <1>1, Zenon DEF IGateInv, HistoryInv, Present
  <1>11. CallInv(c)'
    <2>1. CASE call'[c].pc = "idle"
      BY <2>1, FreshCall, Zenon
    <2>2. CASE commits /\ Moved(c, "decide_preview")
      <3>1. EvaluateAt(c, "decide") /\ DecideAt(c, "decide")
        BY <1>1, Zenon DEF IGateInv, CallInv
      <3>2. EvaluateAt(c, "decide")' /\ DecideAt(c, "decide")' /\ call'[c].pc = "decide_preview"
        BY <1>5, <2>2, <3>1, DecisionMoves, Zenon
      <3>3. (decided[DigestOf(c)] = call[c].decision)'
        BY <1>4, <2>2, Zenon DEF Moved, DigestOf
      <3> QED
        BY <3>2, <3>3, Zenon DEF CallInv, EvaluateAt, DecideAt, Completed, Deciding, Recorded, Verdicts,
           Reviewing, Accepting, Settling
    <2> QED
      BY <1>7, <2>1, <2>2, Zenon DEF Ended, Moved
  <1> QED
    BY <1>1, <1>5, <1>8, <1>9, <1>10, <1>11, PlainStep, Zenon

\* The verdict on the preview is that of the recorded decision.
LEMMA DecidePreviewSteps ==
  ASSUME IGateInv, NEW c \in Callers, DecidePreview(c)
  PROVE  IGateInv'
  <1> DEFINE a == call[c].att
             row == Row(GateState(c), DigestOf(c), call[c].decision)
             audit == <<"gate_decision", DigestOf(c)>>
             ok == GateWriteCommits(a, "preview", row, audit)
  <1>1. /\ UNCHANGED <<setup, att, state, lapsed, decided, intake, summary, tree, primary, log,
                       faults, changes>>
        /\ call[c].pc = "decide_preview" /\ RecordGateStatus(a, "preview", row, audit)
        /\ GotoIf(c, ok, "decide_review", "idle")
    BY Zenon DEF DecidePreview, control, outside, At
  <1>2. /\ TypeInv /\ call \in [Callers -> Calls] /\ call[c] \in Calls /\ a \in Stamps
        /\ DigestOf(c) \in Digests
    BY Zenon DEF IGateInv, TypeInv, Calls, DigestOf, Digests
  <1>3. EvaluateAt(c, "decide_preview") /\ DecideAt(c, "decide_preview")
    BY <1>1, Zenon DEF IGateInv, CallInv
  <1>4. /\ gates[a]["preview"].status # "absent" /\ decided[DigestOf(c)] = call[c].decision
        /\ call[c].decision \in {"approve", "reject"}
    BY <1>3, Zenon DEF DecideAt, Deciding, Recorded
  <1>5. Evaluated(a)
    BY <1>2, <1>4, Zenon DEF IGateInv, PreviewInv
  <1>6. /\ row \in Rows /\ row.status # "absent" /\ row.digest \in Digests
        /\ row.status = "satisfied" => decided[row.digest] = "approve"
        /\ row.status = "failed" => decided[row.digest] = "reject"
        /\ row.status = GateState(c)
    BY <1>2, <1>4, Zenon DEF Row, Rows, Statuses, GateState
  <1>7. {"decide_review", "idle"} \subseteq Pcs /\ ok \in BOOLEAN
    BY Places, Zenon DEF GateWriteCommits
  <1>8. Ended(c) \/ (ok /\ Moved(c, "decide_review")) \/ Moved(c, "idle")
    <2> HIDE DEF ok
    <2> QED
      BY <1>1, <1>2, <1>7, Branches
  <1> HIDE DEF row
  <1>9. call' \in [Callers -> Calls] /\ OthersStay(c)
    BY <1>8, Zenon DEF Ended, Moved
  <1>10. "preview" \in Gates /\ Writes(a, "preview", row, audit)
    BY <1>1, Zenon DEF Gates, Writes
  <1>11. Stable
    BY <1>1, <1>2, <1>6, <1>9, <1>10, GateStable, Zenon
  <1>12. CallInv(c)'
    <2>1. CASE call'[c].pc = "idle"
      BY <2>1, FreshCall, Zenon
    <2>2. CASE ok /\ Moved(c, "decide_review")
      <3>1. /\ EvaluateAt(c, "decide_preview")' /\ DecideAt(c, "decide_preview")'
            /\ call'[c].pc = "decide_review"
        BY <1>3, <1>11, <2>2, DecisionMoves, Zenon
      <3>2. gates'[a]["preview"] = row
        BY <1>1, <1>2, <1>6, <1>10, <2>2, GateSteps, Zenon
      <3>3. (gates[call[c].att]["preview"].status = GateState(c))'
        BY <1>6, <2>2, <3>2, Zenon DEF Moved, GateState
      <3> QED
        BY <3>1, <3>3, Zenon DEF CallInv, EvaluateAt, DecideAt, Completed, Deciding, Recorded, Verdicts,
           Reviewing, Accepting, Settling
    <2> QED
      BY <1>8, <2>1, <2>2, Zenon DEF Ended, Moved
  <1> QED
    BY <1>1, <1>2, <1>5, <1>6, <1>9, <1>12, PreviewDone, Zenon

\* The contract's review gates get the same verdict.
LEMMA DecideReviewSteps ==
  ASSUME IGateInv, NEW c \in Callers, DecideReview(c)
  PROVE  IGateInv'
  <1> DEFINE a == call[c].att
             row == Row(GateState(c), "contract", "human_review")
             audit == <<"review", GateState(c)>>
             ok == ReviewGateCommits(c, GateState(c), "human_review")
  <1>1. /\ UNCHANGED <<setup, att, state, lapsed, decided, intake, summary, tree, primary, log,
                       faults, changes>>
        /\ call[c].pc = "decide_review" /\ GotoIf(c, ok, "human_review", "idle")
    BY Zenon DEF DecideReview, control, outside, At
  <1>2. /\ TypeInv /\ call \in [Callers -> Calls] /\ call[c] \in Calls /\ a \in Stamps
        /\ "review" \in Gates \ {"preview"}
    BY Zenon DEF IGateInv, TypeInv, Calls, Gates
  <1>3. EvaluateAt(c, "decide_review") /\ DecideAt(c, "decide_review")
    BY <1>1, Zenon DEF IGateInv, CallInv
  <1>4. row \in Rows /\ row.status # "absent" /\ row.status = GateState(c)
    BY Zenon DEF Row, Rows, Statuses, GateState
  <1>5. Writes(a, "review", row, audit)
    BY Zenon DEF DecideReview, RecordReviewGate, Writes
  <1>6. {"human_review", "idle"} \subseteq Pcs /\ ok \in BOOLEAN
    BY Places, Offsets, Zenon DEF ReviewGateCommits
  <1>7. Ended(c) \/ (ok /\ Moved(c, "human_review")) \/ Moved(c, "idle")
    <2> HIDE DEF ok
    <2> QED
      BY <1>1, <1>2, <1>6, Branches, Zenon
  <1>8. setup.reviewGate /\ ok => gates'[a]["review"].status = GateState(c)
    <2> SUFFICES ASSUME setup.reviewGate, ok
                 PROVE  gates'[a]["review"].status = GateState(c)
      BY Zenon
    <2>1. GateWriteCommits(a, "review", row, audit) /\ RecordGateStatus(a, "review", row, audit)
      BY Zenon DEF ReviewGateCommits, DecideReview, RecordReviewGate
    <2> HIDE DEF row, ok
    <2>2. gates'[a]["review"] = row
      BY <1>2, <1>4, <2>1, GateSteps, Zenon
    <2> QED
      BY <1>4, <2>2, Zenon
  <1> HIDE DEF row
  <1>9. call' \in [Callers -> Calls] /\ OthersStay(c)
    BY <1>7, Zenon DEF Ended, Moved
  <1>10. Stable
    BY <1>1, <1>2, <1>4, <1>5, <1>9, GateStable, Zenon
  <1>11. CallInv(c)'
    <2>1. CASE call'[c].pc = "idle"
      BY <2>1, FreshCall, Zenon
    <2>2. CASE ok /\ Moved(c, "human_review")
      <3>1. /\ EvaluateAt(c, "decide_review")' /\ DecideAt(c, "decide_review")'
            /\ call'[c].pc = "human_review"
        BY <1>3, <1>10, <2>2, DecisionMoves, Zenon
      <3>2. (setup.reviewGate => gates[call[c].att]["review"].status = GateState(c))'
        BY <1>1, <1>8, <2>2, Zenon DEF Moved, GateState
      <3> QED
        BY <3>1, <3>2, Zenon DEF CallInv, EvaluateAt, DecideAt, Completed, Deciding, Recorded, Verdicts,
           Reviewing, Accepting, Settling
    <2> QED
      BY <1>7, <2>1, <2>2, Zenon DEF Ended, Moved
  <1> QED
    BY <1>1, <1>2, <1>4, <1>5, <1>9, <1>11, GateDone

\* The operator's review is published; a rejection goes on without it.
LEMMA HumanReviewSteps ==
  ASSUME IGateInv, NEW c \in Callers, RecordHumanReview(c)
  PROVE  IGateInv'
  <1>1. /\ {"accept", "settle", "idle"} \subseteq Pcs /\ "human_review" \in Keys \ {"accept"}
        /\ {"approved", "rejected"} \subseteq Contents
    BY Places, Offsets DEF Contents
  <1>2. TypeInv /\ call[c] \in Calls /\ call[c].att \in Stamps
    BY Zenon DEF IGateInv, TypeInv, Calls
  <1>3. ASSUME call[c].pc = "human_review"
        PROVE  EvaluateAt(c, "human_review") /\ DecideAt(c, "human_review")
    BY <1>3, Zenon DEF IGateInv, CallInv
  <1>4. CASE call[c].decision = "approve"
    <2>1. HistoryStep(c, "human_review", "approved", "accept", "idle")
      BY <1>4, Zenon DEF RecordHumanReview
    <2>2. /\ call[c].pc = "human_review" /\ Stable
          /\ \/ Ended(c)
             \/ Moved(c, "accept") /\ log'["human_review"] = Record(call[c].att, "approved")
             \/ Moved(c, "idle")
      BY <1>1, <1>2, <2>1, HistorySteps, HistoryStable, Zenon
    <2>3. CallInv(c)'
      <3>1. CASE call'[c].pc = "idle"
        BY <3>1, FreshCall, Zenon
      <3>2. CASE Moved(c, "accept") /\ log'["human_review"] = Record(call[c].att, "approved")
        <4>1. /\ EvaluateAt(c, "human_review")' /\ DecideAt(c, "human_review")'
              /\ call'[c].pc = "accept" /\ call'[c].decision = "approve"
          BY <1>3, <1>4, <2>2, <3>2, DecisionMoves, Zenon DEF Moved
        <4>2. (log["human_review"] = Record(call[c].att, "approved"))'
          BY <3>2, Zenon DEF Moved, Record
        <4> QED
          BY <4>1, <4>2, Zenon DEF CallInv, EvaluateAt, DecideAt, Completed, Deciding, Recorded, Verdicts,
             Reviewing, Accepting, Settling
      <3> QED
        BY <2>2, <3>1, <3>2, Zenon DEF Ended, Moved
    <2> QED
      BY <1>1, <2>1, <2>3, HistoryDone
  <1>5. CASE call[c].decision # "approve"
    <2>1. HistoryStep(c, "human_review", "rejected", "settle", "settle")
      BY <1>5, Zenon DEF RecordHumanReview
    <2>2. call[c].pc = "human_review" /\ Stable /\ (Ended(c) \/ Moved(c, "settle"))
      BY <1>1, <1>2, <2>1, HistorySteps, HistoryStable, Zenon
    <2>3. CallInv(c)'
      <3>1. CASE call'[c].pc = "idle"
        BY <3>1, FreshCall, Zenon
      <3>2. CASE Moved(c, "settle")
        <4>1. /\ EvaluateAt(c, "human_review")' /\ DecideAt(c, "human_review")'
              /\ call'[c].pc = "settle" /\ call'[c].decision # "approve"
          BY <1>3, <1>5, <2>2, <3>2, DecisionMoves, Zenon DEF Moved
        <4> QED
          BY <4>1, Zenon DEF CallInv, EvaluateAt, DecideAt, Completed, Deciding, Recorded, Verdicts,
             Reviewing, Accepting, Settling
      <3> QED
        BY <2>2, <3>1, <3>2, Zenon DEF Ended
    <2> QED
      BY <1>1, <2>1, <2>3, HistoryDone
  <1> QED
    BY <1>4, <1>5, Zenon

\* Work is accepted in the history by a call whose preview is satisfied.
LEMMA AcceptSteps ==
  ASSUME IGateInv, NEW c \in Callers, AcceptWork(c)
  PROVE  IGateInv'
  <1> DEFINE record == Record(call[c].att, "none")
  <1>1. /\ {"settle", "idle"} \subseteq Pcs /\ "accept" \in Keys /\ "none" \in Contents
        /\ HistoryStep(c, "accept", "none", "settle", "idle")
    BY Places, Offsets, Zenon DEF Contents, AcceptWork
  <1>2. TypeInv /\ call[c] \in Calls /\ call[c].att \in Stamps
    BY Zenon DEF IGateInv, TypeInv, Calls
  <1>3. /\ call[c].pc = "accept" /\ record \in Records /\ record.stamp = call[c].att
        /\ Publish("accept", record)
        /\ UNCHANGED <<att, state, lapsed, gates, audits, decided, intake, setup, tree,
                       primary, faults, changes, summary>>
        /\ \/ Ended(c)
           \/ Moved(c, "settle") /\ log'["accept"] = record
           \/ Moved(c, "idle")
    BY <1>1, <1>2, HistorySteps, SMTT(30)
  <1>4. Stable /\ OthersStay(c) /\ TypeInv' /\ HistoryInv'
    BY <1>1, HistoryStable, Zenon
  <1>5. EvaluateAt(c, "accept") /\ DecideAt(c, "accept")
    BY <1>3, Zenon DEF IGateInv, CallInv
  <1>6. gates[call[c].att]["preview"].status = "satisfied" /\ call[c].decision = "approve"
    BY <1>5, Zenon DEF DecideAt, GateState, Verdicts, Reviewing, Accepting
  <1>7. CallInv(c)'
    <2>1. CASE call'[c].pc = "idle"
      BY <2>1, FreshCall, Zenon
    <2>2. CASE Moved(c, "settle") /\ log'["accept"] = record
      <3>1. EvaluateAt(c, "accept")' /\ DecideAt(c, "accept")' /\ call'[c].pc = "settle"
        BY <1>4, <1>5, <2>2, DecisionMoves, Zenon
      <3>2. (log["accept"] = Record(call[c].att, "none"))'
        BY <2>2, Zenon DEF Moved, Record
      <3> QED
        BY <3>1, <3>2, Zenon DEF CallInv, EvaluateAt, DecideAt, Completed, Deciding, Recorded, Verdicts,
           Reviewing, Accepting, Settling
    <2> QED
      BY <1>3, <2>1, <2>2, Zenon DEF Ended, Moved
  <1>8. \A d \in Callers : CallInv(d)'
    BY <1>4, <1>7, OthersKeep, Zenon
  <1>9. \A a \in Stamps : PreviewInv(a)'
    BY <1>3, <1>4, PreviewCarried, Zenon DEF IGateInv
  <1>10. AcceptInv'
    <2>1. CASE log'["accept"] = log["accept"]
      BY <1>2, <1>4, <2>1, AcceptCarried, Zenon DEF IGateInv
    <2>2. CASE log'["accept"] = record
      BY <1>3, <1>6, <2>2, Zenon DEF AcceptInv
    <2> HIDE DEF record
    <2> QED
      BY <1>1, <1>2, <1>3, <2>1, <2>2, Published, Zenon
  <1>11. summary # Absent => Begun(summary.att)'
    <2> SUFFICES ASSUME summary # Absent PROVE Begun(summary.att)'
      BY Zenon
    <2>1. PICK a \in Stamps : a = summary.att
      BY <1>2, Zenon DEF TypeInv, Digests
    <2>2. Begun(a)'
      BY <1>4, <2>1, BegunStays, Zenon DEF IGateInv
    <2> QED
      BY <1>3, <2>1, <2>2, Zenon DEF Begun, Record
  <1>12. AcceptanceBacked'
    <2>1. att \in Stamps /\ (state = "accepted" => gates[att]["preview"].status # "absent")
      BY <1>2, Zenon DEF IGateInv, TypeInv, AcceptanceBacked
    <2>2. state = "accepted" =>
             gates[att]["preview"].digest \in Digests /\ "execution_complete" \in Present
      BY <2>1, Zenon DEF IGateInv, PreviewInv, Evaluated
    <2> QED
      BY <1>2, <1>3, <1>4, <2>2, BackedCarried, Zenon DEF IGateInv
  <1> QED
    BY <1>3, <1>4, <1>8, <1>9, <1>10, <1>11, <1>12, Zenon DEF IGateInv

\* The attempt becomes accepted only behind everything its acceptance rests on.
LEMMA SettleSteps ==
  ASSUME IGateInv, NEW c \in Callers, Settle(c)
  PROVE  IGateInv'
  <1> DEFINE a == call[c].att
             target == IF call[c].decision = "approve" THEN "accepted" ELSE "failed"
  <1>1. /\ UNCHANGED <<setup, gates, audits, decided, intake, tree, primary, log, summary,
                       faults, changes>>
        /\ call[c].pc = "settle" /\ Transition(a, target) /\ End(c)
    BY Zenon DEF Settle, rows, outside, At
  <1>2. TypeInv /\ call \in [Callers -> Calls] /\ call[c] \in Calls /\ a \in Stamps
    BY Zenon DEF IGateInv, TypeInv, Calls
  <1>3. Ended(c)
    BY <1>1, <1>2, CallSteps, Zenon
  <1>4. /\ att' = att /\ lapsed' = lapsed /\ state' \in AssignmentStates
        /\ state' = state \/ (state' = target /\ a = att)
    BY <1>1, <1>2, Transitions, Targets, Zenon
  <1>5. TypeInv'
    BY <1>1, <1>2, <1>3, <1>4, Zenon DEF TypeInv, Ended
  <1>6. \A d \in Callers : CallInv(d)'
    BY <1>1, <1>3, FreshCall, OthersKeep, Untouched, Zenon DEF Ended
  <1>7. CASE state' = target /\ a = att /\ call[c].decision = "approve"
    <2>1. EvaluateAt(c, "settle") /\ DecideAt(c, "settle")
      BY <1>1, Zenon DEF IGateInv, CallInv
    <2>2. /\ gates[a]["preview"].status = "satisfied"
          /\ gates[a]["preview"].digest = DigestOf(c) /\ decided[DigestOf(c)] = "approve"
          /\ setup.machineGate => gates[a]["machine"].status = "satisfied"
          /\ setup.reviewGate => gates[a]["review"].status = "satisfied"
          /\ log["human_review"] = Record(a, "approved")
          /\ log["accept"] = Record(a, "none")
      BY <1>7, <2>1, Zenon DEF DecideAt, GateState, Deciding, Recorded, Verdicts, Reviewing, Accepting, Settling
    <2>3. Evaluated(a)
      BY <1>2, <2>2, Zenon DEF IGateInv, PreviewInv
    <2>4. ExecutionState(Present) = "completed"
      BY <1>2, <2>3, CompletedState, Zenon DEF IGateInv, Evaluated
    <2>5. ExecutionState(Present)' = ExecutionState(Present)
      BY <1>1, SMTT(30) DEF ExecutionState, Folded, Latest, OccurredAt, Present
    <2>6. AcceptanceBacked'
      BY <1>1, <1>4, <1>7, <2>2, <2>3, <2>4, <2>5, Zenon DEF AcceptanceBacked, Evaluated, Begun,
         RequiresReviewer, Record
    <2> QED
      BY <1>1, <1>5, <1>6, <2>6, SummaryBegun, ControlStep, Zenon
  <1>8. CASE state' = "failed" \/ state' = state
    BY <1>1, <1>4, <1>5, <1>6, <1>8, SummaryBegun, ControlStep
  <1> QED
    BY <1>4, <1>7, <1>8, Zenon

\* Restarts, expiry, the operator's intervention, a retry and changes of the worktree and
\* of the primary branch touch neither a row nor the history.
LEMMA AroundSteps ==
  ASSUME IGateInv,
         Restart \/ LeaseLapses \/ OperatorEnds \/ Retry \/ WorktreeChanges \/ PrimaryMoves
  PROVE  IGateInv'
  <1>1. UNCHANGED <<setup, gates, audits, decided, intake, log, summary>>
    BY Zenon DEF Restart, LeaseLapses, OperatorEnds, Retry, WorktreeChanges, PrimaryMoves, Changes,
           rows
  <1>2. /\ TypeInv /\ call \in [Callers -> Calls] /\ setup \in Setups
        /\ faults \in Nat /\ changes \in Nat /\ faults + changes <= MaxDisturbances
        /\ lapsed \in BOOLEAN /\ tree \in Trees /\ primary \in {0, 1}
        /\ att \in Stamps /\ state \in AssignmentStates
    BY Zenon DEF IGateInv, TypeInv
  <1>3. faults' \in Nat /\ changes' \in Nat /\ faults' + changes' <= MaxDisturbances
    <2>1. CASE Restart
      BY <1>2, <2>1, GateAssumption, SMTT(30) DEF Restart, Undisturbed
    <2>2. CASE Retry
      BY <1>2, <2>2, Zenon DEF Retry
    <2>3. CASE Changes
      BY <1>2, <2>3, GateAssumption DEF Changes, Undisturbed
    <2> QED
      BY <2>1, <2>2, <2>3, Zenon DEF LeaseLapses, OperatorEnds, WorktreeChanges, PrimaryMoves
  <1>4. /\ att' \in Stamps /\ state' \in AssignmentStates /\ lapsed' \in BOOLEAN
        /\ tree' \in Trees /\ primary' \in {0, 1}
        /\ state' # "accepted" \/ (state' = state /\ att' = att)
    <2>1. CASE Restart
      BY <1>2, <2>1, Targets, Zenon DEF Restart
    <2>2. CASE LeaseLapses
      BY <1>2, <2>2, Zenon DEF LeaseLapses
    <2>3. CASE OperatorEnds
      <3>1. PICK target \in {"canceled", "failed"} : Transition(att, target)
        BY <2>3, Zenon DEF OperatorEnds
      <3>2. /\ att' = att /\ lapsed' = lapsed /\ state' \in AssignmentStates
            /\ state' = state \/ state' = target
        BY <1>2, <3>1, Transitions, Targets, Zenon
      <3> QED
        BY <1>2, <2>3, <3>2, Zenon DEF OperatorEnds
    <2>4. CASE Retry
      BY <1>2, <2>4, Targets, GateAssumption, Zenon DEF Retry
    <2>5. CASE WorktreeChanges \/ PrimaryMoves
      BY <1>2, <2>5, Zenon DEF WorktreeChanges, PrimaryMoves, control
    <2> QED
      BY <2>1, <2>2, <2>3, <2>4, <2>5, Zenon
  <1>5. call' = call \/ call' = [c \in Callers |-> Idle]
    BY Zenon DEF Restart, LeaseLapses, OperatorEnds, Retry, WorktreeChanges, PrimaryMoves
  <1>6. call' \in [Callers -> Calls]
    BY <1>2, <1>5, IdleTyped, Zenon
  <1>7. TypeInv'
    BY <1>1, <1>2, <1>3, <1>4, <1>6, Zenon DEF TypeInv
  <1>8. Stable
    BY <1>1, Untouched, Zenon
  <1>9. ASSUME NEW d \in Callers PROVE CallInv(d)'
    <2>1. CASE call' = call
      BY <1>2, <1>8, <2>1, EvaluateCarried, DecideCarried, Zenon DEF IGateInv, CallInv
    <2>2. CASE call' = [c \in Callers |-> Idle]
      BY <2>2, IdleTyped, FreshCall, Zenon
    <2> QED
      BY <1>5, <2>1, <2>2, Zenon
  <1> QED
    BY <1>1, <1>4, <1>7, <1>9, SummaryBegun, ControlStep, Zenon
-----------------------------------------------------------------------------
(* The theorems.                                                           *)

\* Before the first call nothing is on record.
LEMMA GateInit == Init => IGateInv
  <1> SUFFICES ASSUME Init PROVE IGateInv
    BY Zenon
  <1>1. NoRow \in Rows /\ NoRow.status = "absent"
    BY Zenon DEF NoRow, Rows, Statuses
  <1>2. /\ \A a \in Stamps, g \in Gates : gates[a][g] = NoRow
        /\ gates \in [Stamps -> [Gates -> Rows]]
    BY <1>1, Zenon DEF Init
  <1>3. \A k \in Keys : log[k] = Absent
    BY Zenon DEF Init, HistoryInit
  <1>4. Present = {} /\ log \in [Keys -> Records \cup {Absent}]
    BY <1>3, Zenon DEF Present, Init, HistoryInit
  <1>5. "collecting" \in AssignmentStates /\ state = "collecting"
    BY Targets, Zenon DEF Init
  <1>6. TypeInv
    <2>1. call \in [Callers -> Calls]
      BY IdleTyped, Zenon DEF Init
    <2>2. /\ decided \in [Digests -> {"none"} \cup setup.decisions]
          /\ intake \in [Stamps -> {"none", "accepted", "rejected"}]
      BY Zenon DEF Init
    <2>3. /\ setup \in Setups /\ att \in Stamps /\ lapsed \in BOOLEAN
          /\ summary \in Digests \cup {Absent} /\ tree \in Trees /\ primary \in {0, 1}
      BY GateAssumption, Zenon DEF Init
    <2>4. faults \in Nat /\ changes \in Nat /\ faults + changes <= MaxDisturbances
      BY GateAssumption DEF Init
    <2> QED
      BY <1>2, <1>4, <1>5, <2>1, <2>2, <2>3, <2>4, Zenon DEF TypeInv
  <1>7. HistoryInv /\ AcceptInv
    BY <1>4, Zenon DEF HistoryInv, AcceptInv
  <1>8. \A a \in Stamps : PreviewInv(a)
    BY <1>1, <1>2, Zenon DEF PreviewInv, Gates
  <1>9. \A c \in Callers : CallInv(c)
    BY IdleTyped DEF Init, CallInv, EvaluateAt, DecideAt, Completed, Deciding, Recorded, Verdicts,
       Reviewing, Accepting, Settling
  <1> QED
    BY <1>5, <1>6, <1>7, <1>8, <1>9, Zenon DEF Init, IGateInv, AcceptanceBacked

\* Every step keeps the inductive invariant.
LEMMA GateStep == IGateInv /\ [Next]_vars => IGateInv'
  <1> SUFFICES ASSUME IGateInv, [Next]_vars PROVE IGateInv'
    BY Zenon
  <1>1. ASSUME NEW c \in Callers, Evaluate(c) \/ BeginEvaluate(c) \/ CallFails(c)
        PROVE  IGateInv'
    BY <1>1, ReadingSteps, IntakeSteps, EarlySteps, MachineSteps, CompleteSteps, AwaitSteps,
       AutomatedSteps, ReviewPendingSteps, PreviewPendingSteps, SaveSteps DEF Evaluate
  <1>2. ASSUME NEW c \in Callers, Decide(c) \/ BeginDecide(c)
        PROVE  IGateInv'
    BY <1>2, BeginDecideSteps, CheckSteps, OperatorSteps, DecidePreviewSteps, DecideReviewSteps,
       HumanReviewSteps, AcceptSteps, SettleSteps DEF Decide
  <1>3. CASE UNCHANGED vars
    <2>1. UNCHANGED <<setup, att, state, lapsed, gates, audits, decided, intake, summary,
                      tree, primary, call, faults, changes, log>>
      BY <1>3, Zenon DEF vars
    <2>2. TypeInv'
      BY <2>1, Zenon DEF IGateInv, TypeInv
    <2>3. \A d \in Callers : CallInv(d)'
      BY <2>1, Untouched, EvaluateCarried, DecideCarried, Zenon DEF IGateInv, CallInv
    <2> QED
      BY <2>1, <2>2, <2>3, SummaryBegun, ControlStep, Zenon
  <1> QED
    BY <1>1, <1>2, <1>3, AroundSteps, Zenon DEF Next

\* The inductive invariant gives what the gate promises.
LEMMA GateImplied == IGateInv => GateInv
  <1> SUFFICES ASSUME IGateInv PROVE GateInv
    BY Zenon
  <1>1. TypeInv
    BY Zenon DEF IGateInv
  <1>2. \A a \in Stamps, g \in Gates : gates[a][g].status \in {"absent", "pending", "satisfied", "failed"}
    BY <1>1 DEF TypeInv, Rows, Statuses
  <1>3. \A c \in Callers : call[c].pc \in Pcs /\ call[c].att \in Stamps
    BY <1>1, Zenon DEF TypeInv, Calls
  <1>4. \A k \in Present : log[k].stamp \in Stamps
    BY <1>1, Zenon DEF TypeInv, Present, Records
  <1>5. faults + changes \in 0 .. MaxDisturbances
    BY <1>1, GateAssumption, SMTT(30) DEF TypeInv
  <1>6. TypeOK
    BY <1>1, <1>2, <1>3, <1>4, <1>5, Zenon DEF TypeInv, TypeOK
  <1>7. OneDecision
    <2>1. "accept" \in Keys
      BY Offsets, Zenon
    <2> QED
      BY <2>1, Zenon DEF IGateInv, PreviewInv, AcceptInv, OneDecision, Present
  <1> QED
    BY <1>6, <1>7, Zenon DEF IGateInv, GateInv

\* Whatever the calls of Evaluate and Decide do to each other, and wherever they or the
\* process fail: an accepted attempt has every row and record its acceptance rests on, and
\* the preview's verdict is the one decision recorded for its digest (gate.go).
THEOREM GateSafety == Spec => []GateInv
  <1>1. Spec => []IGateInv
    BY GateInit, GateStep, PTL DEF Spec
  <1> QED
    BY <1>1, GateImplied, PTL

\* The canonical history the gate publishes can always be replayed in the order of its
\* times (withKey and applyEvent of the work service), whichever calls published into it.
THEOREM HistorySafety == Spec => []HistoryReplays
  <1>1. Spec => []IGateInv
    BY GateInit, GateStep, PTL DEF Spec
  <1>2. IGateInv => HistoryReplays
    BY Replays, Zenon DEF IGateInv
  <1> QED
    BY <1>1, <1>2, PTL
=============================================================================
