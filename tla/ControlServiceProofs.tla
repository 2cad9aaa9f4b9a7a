------------------------ MODULE ControlServiceProofs ------------------------
(***************************************************************************)
(* Proofs about ControlService for every number of assignments, attempts,  *)
(* leases and callers, every lease duration and every bound on the clock.  *)
(***************************************************************************)
EXTENDS ControlService, TLAPS

StoreTypeOK ==
    /\ asg \in [Assignments -> AssignmentRows]
    /\ att \in [Attempts -> AttemptRows]
    /\ lease \in [Tokens -> LeaseRows]
    /\ \A o \in ops : o.digest \in Digests

StoreInv ==
    /\ StoreTypeOK
    /\ LeaseAgreement
    /\ ClaimedRows
    /\ CurrentAttemptAgreement
    /\ AbsentRows

\* The state table never leads back to a state without a lease row.
LEMMA TargetsOfFenced ==
    ASSUME NEW from \in FencedStates, NEW to, ReduceAssignmentState(from, to)
    PROVE  /\ to \in AssignmentStates
           /\ to \notin {"absent", "planned", "leased"}
           /\ to \in FencedStates \/ to \in TerminalStates
  BY Zenon DEF FencedStates, ReduceAssignmentState, PermittedTargets, AssignmentStates, LiveStates,
         TerminalStates, RetryableStates

\* The write shared by claim, bind, transition and reconcile keeps the columns typed.
LEMMA UpdateTypes ==
    ASSUME StoreTypeOK, NEW a \in Assignments, NEW t \in Attempts,
           NEW target \in AssignmentStates, NEW gen \in Nat, NEW rec \in Dispositions,
           NEW res \in BOOLEAN, UpdateAttemptState(a, t, target, gen, rec, res)
    PROVE  /\ asg' \in [Assignments -> AssignmentRows]
           /\ att' \in [Attempts -> AttemptRows]
  <1>1. asg' \in [Assignments -> AssignmentRows]
    BY ZenonT(60) DEF StoreTypeOK, UpdateAttemptState, AssignmentRows
  <1>2. [att[t] EXCEPT !.state = target, !.gen = gen, !.rec = rec, !.res = res] \in AttemptRows
    BY Zenon DEF StoreTypeOK, AttemptRows
  <1>3. att' \in [Attempts -> AttemptRows]
    BY <1>2, Zenon DEF StoreTypeOK, UpdateAttemptState
  <1> QED BY <1>1, <1>3, Zenon

\* The same write moves an assignment and its current attempt together, so the
\* assignment still mirrors the attempt and no superseded attempt is touched.
LEMMA UpdateAgreement ==
    ASSUME StoreTypeOK, CurrentAttemptAgreement, NEW a \in Assignments, NEW t \in Attempts,
           NEW expected, AttemptStateIs(a, t, expected), expected # "absent",
           NEW target \in AssignmentStates, target # "absent", NEW gen, NEW rec, NEW res,
           UpdateAttemptState(a, t, target, gen, rec, res)
    PROVE  CurrentAttemptAgreement'
  <1>1. /\ asg[a].cur = t /\ att[t].asg = a
        /\ asg[a].state # "absent" /\ att[t].state # "absent"
    BY Zenon DEF AttemptStateIs
  <1>2. \A b \in Assignments : /\ asg'[b].cur = asg[b].cur /\ asg'[b].wp = asg[b].wp
                               /\ asg'[b].num = asg[b].num /\ asg'[b].idem = asg[b].idem
                               /\ b # a => asg'[b] = asg[b]
    BY Zenon DEF StoreTypeOK, UpdateAttemptState, AssignmentRows
  <1>3. asg'[a].state = target /\ asg'[a].rec = rec
    BY Zenon DEF StoreTypeOK, UpdateAttemptState, AssignmentRows
  <1>4. \A u \in Attempts : /\ att'[u].asg = att[u].asg /\ att'[u].wp = att[u].wp
                            /\ att'[u].num = att[u].num /\ att'[u].idem = att[u].idem
                            /\ u # t => att'[u] = att[u]
    BY DEF StoreTypeOK, UpdateAttemptState, AttemptRows
  <1>5. att'[t].state = target /\ att'[t].rec = rec
    BY Zenon DEF StoreTypeOK, UpdateAttemptState, AttemptRows
  <1>6. ASSUME NEW b \in Assignments, asg'[b].state # "absent" PROVE MirrorsCurrent(b)'
    <2>1. MirrorsCurrent(b)
      BY <1>1, <1>2, <1>6, Zenon DEF CurrentAttemptAgreement
    <2>2. CASE b = a
      BY <1>1, <1>2, <1>3, <1>4, <1>5, <2>1, <2>2 DEF MirrorsCurrent
    <2>3. CASE b # a
      <3>1. asg[b].cur # t
        BY <1>1, <2>1, <2>3, Zenon DEF MirrorsCurrent
      <3> QED BY <1>2, <1>4, <2>1, <2>3, <3>1, Zenon DEF MirrorsCurrent
    <2> QED BY <2>2, <2>3, Zenon
  <1>7. ASSUME NEW u \in Attempts, att'[u].state # "absent"
        PROVE  /\ att'[u].asg \in Assignments
               /\ asg'[att'[u].asg].state # "absent"
               /\ asg'[att'[u].asg].wp = att'[u].wp
               /\ asg'[att'[u].asg].cur # u => Superseded(u)'
    <2>1. att[u].state # "absent"
      BY <1>1, <1>4, <1>7, Zenon
    <2>2. /\ att[u].asg \in Assignments
          /\ asg[att[u].asg].state # "absent"
          /\ asg[att[u].asg].wp = att[u].wp
          /\ asg[att[u].asg].cur # u => Superseded(u)
      BY <2>1, Zenon DEF CurrentAttemptAgreement
    <2>3. asg'[att[u].asg].state # "absent"
      BY <1>2, <1>3, <2>2, Zenon
    <2>4. asg[att[u].asg].cur # u => Superseded(u)'
      <3>1. asg[att[u].asg].cur # u => u # t
        BY <1>1, Zenon
      <3> QED BY <1>2, <1>4, <2>2, <3>1 DEF Superseded
    <2> QED BY <1>2, <1>4, <2>2, <2>3, <2>4
  <1> QED BY <1>6, <1>7, Zenon DEF CurrentAttemptAgreement

\* A new attempt that becomes the current one of a fresh assignment, or of one
\* whose current attempt has ended, leaves every other attempt superseded.
LEMMA InsertAgreement ==
    ASSUME StoreTypeOK, CurrentAttemptAgreement, NEW a \in Assignments, NEW t \in Attempts,
           att[t].state = "absent",
           \A b \in Assignments \ {a} : asg'[b] = asg[b],
           \A u \in Attempts \ {t} : att'[u] = att[u],
           asg'[a].state # "absent", asg'[a].cur = t, asg'[a].num \in Nat,
           att'[t].asg = a, att'[t].state = asg'[a].state, att'[t].num = asg'[a].num,
           att'[t].idem = asg'[a].idem, att'[t].rec = asg'[a].rec, att'[t].wp = asg'[a].wp,
           asg[a].state # "absent" => /\ asg'[a].wp = asg[a].wp
                                      /\ asg[a].num < asg'[a].num
                                      /\ att[asg[a].cur].state \in RetryableStates
    PROVE  CurrentAttemptAgreement'
  <1>1. ASSUME NEW b \in Assignments, asg'[b].state # "absent" PROVE MirrorsCurrent(b)'
    <2>1. CASE b = a
      BY <2>1, Zenon DEF MirrorsCurrent
    <2>2. CASE b # a
      <3>1. asg'[b] = asg[b] /\ MirrorsCurrent(b)
        BY <1>1, <2>2, Zenon DEF CurrentAttemptAgreement
      <3>2. asg[b].cur # t
        BY <1>1, <3>1, Zenon DEF MirrorsCurrent
      <3> QED BY <3>1, <3>2 DEF MirrorsCurrent
    <2> QED BY <2>1, <2>2, Zenon
  <1>2. ASSUME NEW u \in Attempts, att'[u].state # "absent"
        PROVE  /\ att'[u].asg \in Assignments
               /\ asg'[att'[u].asg].state # "absent"
               /\ asg'[att'[u].asg].wp = att'[u].wp
               /\ asg'[att'[u].asg].cur # u => Superseded(u)'
    <2>1. CASE u = t
      BY <2>1, Zenon
    <2>2. CASE u # t
      <3>1. /\ att'[u] = att[u]
            /\ att[u].asg \in Assignments
            /\ asg[att[u].asg].state # "absent"
            /\ asg[att[u].asg].wp = att[u].wp
            /\ asg[att[u].asg].cur # u => Superseded(u)
        BY <1>2, <2>2, Zenon DEF CurrentAttemptAgreement
      <3>2. CASE att[u].asg # a
        <4>1. asg'[att[u].asg] = asg[att[u].asg]
          BY <3>1, <3>2, Zenon
        <4> QED BY <3>1, <4>1, Zenon DEF Superseded
      <3>3. CASE att[u].asg = a
        <4>1. att[u].num \in Nat /\ asg[a].num \in Nat
          BY Zenon DEF StoreTypeOK, AttemptRows, AssignmentRows
        <4>2. CASE asg[a].cur = u
          <5>1. att[u].num = asg[a].num
            BY <3>1, <3>3, <4>2 DEF CurrentAttemptAgreement, MirrorsCurrent
          <5> QED BY <3>1, <3>3, <4>1, <4>2, <5>1 DEF Superseded
        <4>3. CASE asg[a].cur # u
          <5>1. att[u].state \in RetryableStates /\ att[u].num < asg[a].num
            BY <3>1, <3>3, <4>3, Zenon DEF Superseded
          <5> QED BY <3>1, <3>3, <4>1, <5>1 DEF Superseded
        <4> QED BY <4>2, <4>3, Zenon
      <3> QED BY <3>2, <3>3, Zenon
    <2> QED BY <2>1, <2>2, Zenon
  <1> QED BY <1>1, <1>2, Zenon DEF CurrentAttemptAgreement

\* Recording an operation keeps the ledger typed.
LEMMA RecordTypes ==
    ASSUME StoreTypeOK, NEW id, NEW d \in Digests, RecordOperation(id, d)
    PROVE  (\A o \in ops : o.digest \in Digests)'
  BY DEF StoreTypeOK, RecordOperation

\* A newly planned assignment keeps the tables consistent (Plan).
LEMMA PlanPreserves ==
    ASSUME StoreInv, NEW r \in PlanRequests, PlanCommits(r), PlanEffect(r)
    PROVE  StoreInv'
  <1> USE NoneAssumption DEF StoreInv, PlanRequests, PlanCommits, PlanEffect
  <1>1. StoreTypeOK'
    BY DEF StoreTypeOK, AssignmentRows, AttemptRows, AssignmentStates, LiveStates, Dispositions, RecordOperation
  <1>2. LeaseAgreement'
    BY SMTT(30) DEF StoreTypeOK, LeaseAgreement, ClaimedRows, FencedStates, AttemptInsertable, AttemptRows, LeaseRows
  <1>3. ClaimedRows'
    BY DEF StoreTypeOK, ClaimedRows, AttemptInsertable, AttemptRows, LeaseRows
  <1>4. CurrentAttemptAgreement'
    <2>1. att[r.t].state = "absent" /\ asg[r.a].state = "absent"
      BY Zenon DEF AttemptInsertable
    <2>2. /\ \A b \in Assignments \ {r.a} : asg'[b] = asg[b]
          /\ asg'[r.a] = [state |-> "planned", wp |-> r.wp, contract |-> r.contract, cur |-> r.t,
                          num |-> 1, idem |-> r.idem, rec |-> "none"]
      BY Zenon DEF StoreTypeOK
    <2>3. /\ \A u \in Attempts \ {r.t} : att'[u] = att[u]
          /\ att'[r.t] = [state |-> "planned", asg |-> r.a, wp |-> r.wp, num |-> 1, sup |-> None,
                          gen |-> 0, idem |-> r.idem, rec |-> "none", res |-> FALSE]
      BY Zenon DEF StoreTypeOK
    <2> QED BY SMTT(30), <2>1, <2>2, <2>3, InsertAgreement
  <1>5. AbsentRows'
    BY DEF StoreTypeOK, AbsentRows, AttemptRows, AssignmentRows
  <1> QED BY <1>1, <1>2, <1>3, <1>4, <1>5, Zenon

\* A claim gives the attempt its only lease row (Claim).
LEMMA ClaimPreserves ==
    ASSUME StoreInv, NEW r \in ClaimRequests, ClaimCommits(r), ClaimEffect(r, LeaseDuration)
    PROVE  StoreInv'
  <1> USE NoneAssumption, TimeAssumption
      DEF StoreInv, ClaimRequests, ClaimCommits, ClaimEffect, AttemptStateIs, UpdateAttemptState
  <1>1. StoreTypeOK'
    <2>1. asg' \in [Assignments -> AssignmentRows] /\ att' \in [Attempts -> AttemptRows]
      <3>1. /\ "leased" \in AssignmentStates /\ "none" \in Dispositions
            /\ att[r.t].gen + 1 \in Nat /\ att[r.t].res \in BOOLEAN
        BY DEF StoreTypeOK, AttemptRows, AssignmentStates, LiveStates, FencedStates, Dispositions
      <3> QED BY ZenonT(30), <3>1, UpdateTypes
    <2>2. lease' \in [Tokens -> LeaseRows]
      BY DEF StoreTypeOK, AttemptRows, LeaseRows
    <2> QED BY <2>1, <2>2, RecordTypes, Zenon DEF StoreTypeOK
  <1>2. LeaseAgreement'
    BY DEF StoreTypeOK, LeaseAgreement, ClaimedRows, FencedStates, AttemptRows, LeaseRows
  <1>3. ClaimedRows'
    BY DEF StoreTypeOK, ClaimedRows, AttemptRows, LeaseRows
  <1>4. CurrentAttemptAgreement'
    <2>1. "leased" \in AssignmentStates
      BY Zenon DEF AssignmentStates, LiveStates, FencedStates
    <2> QED BY ZenonT(30), <2>1, UpdateAgreement
  <1>5. AbsentRows'
    BY DEF StoreTypeOK, AbsentRows, AttemptRows, AssignmentRows
  <1> QED BY <1>1, <1>2, <1>3, <1>4, <1>5, Zenon

\* Binding resources keeps the lease and moves the attempt on (BindResources).
LEMMA BindPreserves ==
    ASSUME StoreInv, NEW r \in BindRequests, BindCommits(r), BindEffect(r)
    PROVE  StoreInv'
  <1> USE NoneAssumption DEF StoreInv, BindRequests, BindCommits, BindEffect, AttemptStateIs, UpdateAttemptState
  <1>1. StoreTypeOK'
    <2>1. asg' \in [Assignments -> AssignmentRows] /\ att' \in [Attempts -> AttemptRows]
      <3>1. /\ "preparing" \in AssignmentStates /\ "none" \in Dispositions
            /\ att[r.t].gen \in Nat
        BY Zenon DEF StoreTypeOK, AttemptRows, AssignmentStates, LiveStates, FencedStates, Dispositions
      <3> QED BY ZenonT(30), <3>1, UpdateTypes
    <2> QED BY <2>1, RecordTypes, Zenon DEF StoreTypeOK
  <1>2. LeaseAgreement'
    BY DEF StoreTypeOK, LeaseAgreement, ClaimedRows, FencedStates, AttemptRows, LeaseRows
  <1>3. ClaimedRows'
    BY DEF StoreTypeOK, ClaimedRows, AttemptRows, LeaseRows
  <1>4. CurrentAttemptAgreement'
    <2>1. "preparing" \in AssignmentStates
      BY Zenon DEF AssignmentStates, LiveStates, FencedStates
    <2> QED BY ZenonT(30), <2>1, UpdateAgreement
  <1>5. AbsentRows'
    BY DEF StoreTypeOK, AbsentRows, AttemptRows, AssignmentRows
  <1> QED BY <1>1, <1>2, <1>3, <1>4, <1>5, Zenon

\* A transition keeps the lease of an attempt that goes on and closes the lease of
\* one that ends (Transition).
LEMMA TransitionPreserves ==
    ASSUME StoreInv, NEW r \in TransitionRequests, TransitionCommits(r), TransitionEffect(r),
           r.expected \in FencedStates, ReduceAssignmentState(r.expected, r.target)
    PROVE  StoreInv'
  <1> USE NoneAssumption
      DEF StoreInv, TransitionRequests, TransitionCommits, TransitionEffect, FencedSnapshot,
          AttemptStateIs, UpdateAttemptState
  <1>0. /\ r.target \in AssignmentStates
        /\ r.target \notin {"absent", "planned", "leased"}
        /\ r.target \in FencedStates \/ r.target \in TerminalStates
    BY TargetsOfFenced, Zenon
  <1>a. FencedStates \cap TerminalStates = {} /\ FencedStates \cap RetryableStates = {}
    BY Zenon DEF FencedStates, TerminalStates, RetryableStates
  <1>1. StoreTypeOK'
    <2>1. asg' \in [Assignments -> AssignmentRows] /\ att' \in [Attempts -> AttemptRows]
      <3>1. "none" \in Dispositions /\ att[r.t].gen \in Nat /\ att[r.t].res \in BOOLEAN
        BY Zenon DEF StoreTypeOK, AttemptRows, Dispositions
      <3> QED BY ZenonT(30), <1>0, <3>1, UpdateTypes
    <2>2. lease' \in [Tokens -> LeaseRows]
      BY DEF StoreTypeOK, LeaseRows
    <2> QED BY <2>1, <2>2, RecordTypes, Zenon DEF StoreTypeOK
  <1>2. LeaseAgreement'
    BY <1>0, <1>a DEF StoreTypeOK, LeaseAgreement, ClaimedRows, NewestLease, AttemptRows, LeaseRows
  <1>3. ClaimedRows'
    BY <1>0 DEF StoreTypeOK, ClaimedRows, AttemptRows, LeaseRows
  <1>4. CurrentAttemptAgreement'
    <2>1. r.expected # "absent"
      BY Zenon DEF FencedStates
    <2> QED BY ZenonT(30), <1>0, <2>1, UpdateAgreement
  <1>5. AbsentRows'
    BY <1>0 DEF StoreTypeOK, AbsentRows, AttemptRows, AssignmentRows
  <1> QED BY <1>1, <1>2, <1>3, <1>4, <1>5, Zenon

\* A heartbeat moves one expiry and nothing else (Heartbeat).
LEMMA HeartbeatPreserves ==
    ASSUME StoreInv, NEW r \in HeartbeatRequests, HeartbeatCommits(r), HeartbeatEffect(r, ExtendBy)
    PROVE  StoreInv'
  <1> USE NoneAssumption, TimeAssumption DEF StoreInv, HeartbeatRequests, HeartbeatCommits, HeartbeatEffect
  <1>1. StoreTypeOK'
    BY DEF StoreTypeOK, LeaseRows
  <1>2. LeaseAgreement' /\ ClaimedRows'
    BY SMTT(60) DEF StoreTypeOK, LeaseAgreement, ClaimedRows, LeaseRows
  <1>3. CurrentAttemptAgreement' /\ AbsentRows'
    BY DEF CurrentAttemptAgreement, MirrorsCurrent, Superseded, AbsentRows
  <1> QED BY <1>1, <1>2, <1>3, Zenon

\* A retry supersedes an attempt that has ended and opens a fresh one (Retry).
LEMMA RetryPreserves ==
    ASSUME StoreInv, NEW r \in RetryRequests, RetryCommits(r), RetryEffect(r)
    PROVE  StoreInv'
  <1> USE NoneAssumption DEF StoreInv, RetryRequests, RetryCommits, RetryEffect
  <1>1. StoreTypeOK'
    <2>1. asg' \in [Assignments -> AssignmentRows]
      <3>1. [asg[r.a] EXCEPT !.state = "planned", !.cur = r.t, !.num = r.num, !.idem = r.idem,
                             !.rec = "none"] \in AssignmentRows
        <4>1. asg[r.a] \in AssignmentRows
          BY Zenon DEF StoreTypeOK
        <4>2. r.t \in Attempts /\ r.num \in Nat /\ r.idem \in Idems
          BY Zenon
        <4>3. "planned" \in AssignmentStates /\ "none" \in Dispositions
          BY Zenon DEF AssignmentStates, LiveStates, Dispositions
        <4> HIDE DEF StoreInv, RetryRequests, RetryCommits, RetryEffect
        <4> QED BY <4>1, <4>2, <4>3, Zenon DEF AssignmentRows
      <3> QED BY <3>1, Zenon DEF StoreTypeOK
    <2>2. att' \in [Attempts -> AttemptRows]
      BY DEF StoreTypeOK, AssignmentRows, AttemptRows, AssignmentStates, LiveStates, Dispositions
    <2> QED BY <2>1, <2>2, RecordTypes, Zenon DEF StoreTypeOK
  <1>2. LeaseAgreement'
    BY DEF StoreTypeOK, LeaseAgreement, ClaimedRows, FencedStates, AttemptInsertable, AttemptRows, LeaseRows
  <1>3. ClaimedRows'
    BY DEF StoreTypeOK, ClaimedRows, AttemptInsertable, AttemptRows, LeaseRows
  <1>4. CurrentAttemptAgreement'
    <2>1. att[r.t].state = "absent"
      BY Zenon DEF AttemptInsertable
    <2>2. /\ \A b \in Assignments \ {r.a} : asg'[b] = asg[b]
          /\ asg'[r.a].state = "planned" /\ asg'[r.a].cur = r.t /\ asg'[r.a].num = r.num
          /\ asg'[r.a].idem = r.idem /\ asg'[r.a].rec = "none" /\ asg'[r.a].wp = asg[r.a].wp
      BY DEF StoreTypeOK, AssignmentRows
    <2>3. /\ \A u \in Attempts \ {r.t} : att'[u] = att[u]
          /\ att'[r.t] = [state |-> "planned", asg |-> r.a, wp |-> asg[r.a].wp, num |-> r.num,
                          sup |-> r.prev, gen |-> 0, idem |-> r.idem, rec |-> "none", res |-> FALSE]
      BY Zenon DEF StoreTypeOK
    <2>4. asg[r.a].num < r.num /\ r.num \in Nat /\ att[asg[r.a].cur].state \in RetryableStates
      BY DEF StoreTypeOK, CurrentAttemptAgreement, MirrorsCurrent, AssignmentRows
    <2> QED BY <2>1, <2>2, <2>3, <2>4, InsertAgreement, SMTT(30)
  <1>5. AbsentRows'
    BY DEF StoreTypeOK, AbsentRows, AttemptRows, AssignmentRows
  <1> QED BY <1>1, <1>2, <1>3, <1>4, <1>5, Zenon

\* What reconciliation leaves in the rows of a live assignment is well typed.
LEMMA RecoveryTyped ==
    ASSUME NEW state, NEW res \in BOOLEAN
    PROVE  RecoveryForState(state, res) \in Dispositions
  <1>1. CASE state \in {"planned", "awaiting_gates"}
    BY <1>1, Zenon DEF RecoveryForState, Dispositions
  <1>2. CASE state = "leased"
    BY <1>2, Zenon DEF RecoveryForState, Dispositions
  <1>3. CASE state \in {"preparing", "running", "paused", "collecting"}
    BY <1>3, Zenon DEF RecoveryForState, Dispositions
  <1>4. CASE state \notin {"planned", "awaiting_gates", "leased", "preparing", "running", "paused", "collecting"}
    BY <1>4, Zenon DEF RecoveryForState, Dispositions
  <1> QED BY <1>1, <1>2, <1>3, <1>4, Zenon

\* Reconciliation closes lease, attempt and assignment of every overdue holder in
\* one transaction and leaves every other state alone (Reconcile).
LEMMA ReconcilePreserves ==
    ASSUME StoreInv, NEW at \in Nat, ReconcileEffect(at)
    PROVE  StoreInv'
  <1> USE NoneAssumption DEF StoreInv
  <1> DEFINE cur(t) == att[t].asg # None /\ asg[att[t].asg].cur = t /\ asg[att[t].asg].state \in LiveStates
  <1>1. ASSUME NEW a \in Assignments, asg[a].state \in LiveStates
        PROVE  /\ ReconciledState(a, at) \in AssignmentStates
               /\ ReconciledState(a, at) # "absent"
               /\ ReconciledRecovery(a, at) \in Dispositions
    <2>1. "expired" \in AssignmentStates /\ asg[a].state \in AssignmentStates /\ "absent" \notin LiveStates
      BY <1>1, Zenon DEF AssignmentStates, LiveStates, FencedStates, TerminalStates, RetryableStates
    <2>2. ReconciledState(a, at) \in AssignmentStates /\ ReconciledState(a, at) # "absent"
      BY <1>1, <2>1, Zenon DEF ReconciledState
    <2>3. asg[a].cur \in Attempts /\ att[asg[a].cur].res \in BOOLEAN
      BY <1>1, <2>1 DEF StoreTypeOK, CurrentAttemptAgreement, MirrorsCurrent, AttemptRows
    <2>4. RecoveryForState(att[asg[a].cur].state, att[asg[a].cur].res) \in Dispositions
      BY <2>3, RecoveryTyped, Zenon
    <2>5. ReconciledRecovery(a, at) \in Dispositions
      BY <2>4, Zenon DEF ReconciledRecovery, ExpiryDisposition, Dispositions
    <2> QED BY <2>2, <2>5, Zenon
  <1>2. StoreTypeOK'
    <2>1. asg' \in [Assignments -> AssignmentRows]
      <3>1. ASSUME NEW a \in Assignments PROVE asg'[a] \in AssignmentRows
        BY ZenonT(60), <1>1 DEF StoreTypeOK, ReconcileEffect, AssignmentRows
      <3> QED BY ZenonT(30), <3>1 DEF ReconcileEffect
    <2>2. att' \in [Attempts -> AttemptRows]
      <3>1. ASSUME NEW t \in Attempts PROVE att'[t] \in AttemptRows
        <4>1. CASE cur(t)
          <5>1. att[t].asg \in Assignments /\ att[t] \in AttemptRows
            BY <4>1, Zenon DEF StoreTypeOK, AttemptRows
          <5> QED BY ZenonT(30), <4>1, <5>1, <1>1 DEF ReconcileEffect, AttemptRows
        <4>2. CASE ~cur(t)
          BY ZenonT(30), <4>2 DEF StoreTypeOK, ReconcileEffect
        <4> QED BY <4>1, <4>2, Zenon
      <3> QED BY ZenonT(30), <3>1 DEF ReconcileEffect
    <2>3. lease' \in [Tokens -> LeaseRows]
      BY ZenonT(30) DEF StoreTypeOK, ReconcileEffect, LeaseRows
    <2> QED BY ZenonT(30), <2>1, <2>2, <2>3 DEF StoreTypeOK, ReconcileEffect
  <1>3. ASSUME NEW t \in Attempts, cur(t)
        PROVE  /\ att[t].asg \in Assignments
               /\ att[t].state = asg[att[t].asg].state
               /\ att'[t] = [att[t] EXCEPT !.state = ReconciledState(att[t].asg, at),
                                           !.rec = ReconciledRecovery(att[t].asg, at)]
               /\ att'[t].state = ReconciledState(att[t].asg, at)
               /\ att'[t].rec = ReconciledRecovery(att[t].asg, at)
    <2>1. att[t].asg \in Assignments
      BY <1>3, Zenon DEF StoreTypeOK, AttemptRows
    <2>2. asg[att[t].asg].state # "absent"
      BY <1>3, Zenon DEF LiveStates, FencedStates
    <2>3. att'[t] = [att[t] EXCEPT !.state = ReconciledState(att[t].asg, at),
                                   !.rec = ReconciledRecovery(att[t].asg, at)]
      BY ZenonT(30), <1>3 DEF ReconcileEffect
    <2>4. att'[t].state = ReconciledState(att[t].asg, at) /\ att'[t].rec = ReconciledRecovery(att[t].asg, at)
      BY <2>3 DEF StoreTypeOK, AttemptRows
    <2> QED BY <1>3, <2>1, <2>2, <2>3, <2>4 DEF CurrentAttemptAgreement, MirrorsCurrent
  <1>4. ASSUME NEW t \in Attempts, ~cur(t)
        PROVE  att'[t] = att[t] /\ att[t].state \notin LiveStates
    <2>1. att'[t] = att[t]
      BY ZenonT(30), <1>4 DEF ReconcileEffect
    <2>2. att[t].state = "absent" => att[t].state \notin LiveStates
      BY Zenon DEF LiveStates, FencedStates
    <2>3. ASSUME att[t].state # "absent" PROVE att[t].state \notin LiveStates
      <3>1. att[t].asg \in Assignments /\ asg[att[t].asg].state # "absent"
        BY <2>3, Zenon DEF CurrentAttemptAgreement
      <3>2. CASE asg[att[t].asg].cur = t
        BY <1>4, <3>1, <3>2 DEF CurrentAttemptAgreement, MirrorsCurrent
      <3>3. CASE asg[att[t].asg].cur # t
        BY <2>3, <3>3, Zenon DEF CurrentAttemptAgreement, Superseded, RetryableStates, LiveStates, FencedStates
      <3> QED BY <3>2, <3>3, Zenon
    <2> QED BY <2>1, <2>2, <2>3, Zenon
  <1>5. \A k \in Tokens : /\ (lease'[k].state = "absent") <=> (lease[k].state = "absent")
                          /\ lease'[k].att = lease[k].att /\ lease'[k].gen = lease[k].gen
                          /\ lease'[k].state = "active" <=> (lease[k].state = "active" /\ k \notin OverdueLeases(at))
    BY ZenonT(30) DEF ReconcileEffect, StoreTypeOK, LeaseRows, OverdueLeases
  <1>6. \A t \in Attempts : /\ att'[t].asg = att[t].asg /\ att'[t].gen = att[t].gen /\ att'[t].wp = att[t].wp
                            /\ att'[t].num = att[t].num /\ att'[t].idem = att[t].idem
                            /\ (att'[t].state = att[t].state) \/ (att'[t].state = "expired" /\ cur(t) /\ Overdue(att[t].asg, at))
    <2> TAKE t \in Attempts
    <2>1. CASE cur(t)
      <3>1. att[t] \in AttemptRows
        BY Zenon DEF StoreTypeOK
      <3>2. /\ att'[t].asg = att[t].asg /\ att'[t].gen = att[t].gen /\ att'[t].wp = att[t].wp
            /\ att'[t].num = att[t].num /\ att'[t].idem = att[t].idem
        BY ZenonT(60), <1>3, <2>1, <3>1 DEF AttemptRows
      <3>3. (att'[t].state = att[t].state) \/ (att'[t].state = "expired" /\ Overdue(att[t].asg, at))
        BY ZenonT(30), <1>3, <2>1 DEF ReconciledState
      <3> QED BY <2>1, <3>2, <3>3, Zenon
    <2>2. CASE ~cur(t)
      BY <1>4, <2>2, Zenon
    <2> QED BY <2>1, <2>2, Zenon
  <1>7. ASSUME NEW k \in Tokens, NEW t \in Attempts, lease[k].state = "active", lease[k].att = t, cur(t)
        PROVE  Overdue(att[t].asg, at) <=> k \in OverdueLeases(at)
    <2>1. asg[att[t].asg].cur = t
      BY <1>7, Zenon
    <2>2. \A j \in OverdueLeases(at) : lease[j].att = t => j = k
      BY <1>7, Zenon DEF OverdueLeases, LeaseAgreement, NewestLease
    <2> QED BY <1>7, <2>1, <2>2, Zenon DEF Overdue
  <1>8. LeaseAgreement'
    <2>1. ASSUME NEW t \in Attempts, att'[t].state \in FencedStates
          PROVE  \E k \in Tokens : lease'[k].state = "active" /\ lease'[k].att = t
      <3>1. att[t].state = att'[t].state /\ cur(t) /\ ~Overdue(att[t].asg, at)
        <4>1. "expired" \notin FencedStates /\ FencedStates \subseteq LiveStates
          BY Zenon DEF FencedStates, LiveStates
        <4>2. att[t].state = att'[t].state
          BY <1>6, <2>1, <4>1, Zenon
        <4>3. cur(t)
          BY <1>4, <2>1, <4>1, <4>2, Zenon
        <4> QED BY ZenonT(30), <1>3, <2>1, <4>1, <4>2, <4>3 DEF ReconciledState
      <3>2. PICK k \in Tokens : lease[k].state = "active" /\ lease[k].att = t
        BY <2>1, <3>1, Zenon DEF LeaseAgreement
      <3> QED BY <1>5, <1>7, <3>1, <3>2, Zenon
    <2>2. ASSUME NEW k \in Tokens, lease'[k].state = "active"
          PROVE  /\ att'[lease'[k].att].state \in FencedStates
                 /\ att'[lease'[k].att].gen = lease'[k].gen
      <3>1. lease[k].state = "active" /\ k \notin OverdueLeases(at) /\ lease'[k].att = lease[k].att
        BY <1>5, <2>2, Zenon
      <3>2. lease[k].att \in Attempts /\ att[lease[k].att].state \in FencedStates
        BY <3>1, Zenon DEF ClaimedRows, LeaseAgreement
      <3>3. cur(lease[k].att)
        BY <1>4, <3>2, Zenon DEF LiveStates
      <3>4. ~Overdue(att[lease[k].att].asg, at)
        BY <1>7, <3>1, <3>2, <3>3, Zenon
      <3> QED BY <1>5, <1>6, <3>1, <3>2, <3>4 DEF LeaseAgreement
    <2>3. \A j, k \in Tokens :
            (lease'[j].state # "absent" /\ lease'[k].state # "absent" /\ lease'[j].att = lease'[k].att) => j = k
      BY <1>5 DEF LeaseAgreement
    <2> QED BY <2>1, <2>2, <2>3, Zenon DEF LeaseAgreement
  <1>9. ClaimedRows'
    <2>1. \A t \in Attempts : att'[t].state \in {"absent", "planned"} => att[t].state = att'[t].state
      BY <1>6, Zenon
    <2>2. ASSUME NEW k \in Tokens, lease'[k].state # "absent"
          PROVE  lease'[k].att \in Attempts /\ att'[lease'[k].att].state \notin {"absent", "planned"}
      <3>1. lease[k].att \in Attempts /\ att[lease[k].att].state \notin {"absent", "planned"}
        BY <1>5, <2>2, Zenon DEF ClaimedRows
      <3> QED BY <1>5, <2>1, <3>1
    <2>3. ASSUME NEW t \in Attempts, att'[t].state \in {"absent", "planned"} PROVE att'[t].gen = 0
      <3>1. att[t].gen = 0
        BY <2>1, <2>3, Zenon DEF ClaimedRows
      <3> QED BY <1>6, <3>1, Zenon
    <2> QED BY <2>2, <2>3, Zenon DEF ClaimedRows
  <1>10. \A a \in Assignments :
            /\ asg'[a].cur = asg[a].cur /\ asg'[a].num = asg[a].num /\ asg'[a].idem = asg[a].idem /\ asg'[a].wp = asg[a].wp
            /\ asg'[a].state = "absent" <=> asg[a].state = "absent"
            /\ asg[a].state \in LiveStates => /\ asg'[a].state = ReconciledState(a, at)
                                              /\ asg'[a].rec = ReconciledRecovery(a, at)
            /\ asg[a].state \notin LiveStates => asg'[a] = asg[a]
    BY ZenonT(60), <1>1 DEF ReconcileEffect, StoreTypeOK, AssignmentRows, LiveStates, FencedStates
  <1>11. CurrentAttemptAgreement'
    <2>1. ASSUME NEW a \in Assignments, asg'[a].state # "absent"
          PROVE  MirrorsCurrent(a)'
      <3>1. asg[a].state # "absent" /\ MirrorsCurrent(a)
        BY <1>10, <2>1, Zenon DEF CurrentAttemptAgreement
      <3>2. CASE asg[a].state \in LiveStates
        <4>1. cur(asg[a].cur)
          BY <3>1, <3>2, Zenon DEF MirrorsCurrent
        <4>2. /\ att'[asg[a].cur].state = ReconciledState(a, at)
              /\ att'[asg[a].cur].rec = ReconciledRecovery(a, at)
          BY ZenonT(30), <1>3, <3>1, <4>1 DEF MirrorsCurrent
        <4>3. /\ asg'[a].cur = asg[a].cur /\ asg'[a].num = asg[a].num /\ asg'[a].idem = asg[a].idem
              /\ asg'[a].state = ReconciledState(a, at) /\ asg'[a].rec = ReconciledRecovery(a, at)
          BY <1>10, <3>2, Zenon
        <4>4. LET t == asg[a].cur IN
              /\ t \in Attempts /\ att'[t].asg = a /\ att'[t].num = asg[a].num /\ att'[t].idem = asg[a].idem
          BY <1>6, <3>1, Zenon DEF MirrorsCurrent
        <4> QED BY <4>2, <4>3, <4>4, Zenon DEF MirrorsCurrent
      <3>3. CASE asg[a].state \notin LiveStates
        <4>1. ~cur(asg[a].cur)
          BY <3>1, <3>3, Zenon DEF MirrorsCurrent
        <4> QED BY <1>4, <1>10, <3>1, <3>3, <4>1 DEF MirrorsCurrent
      <3> QED BY <3>2, <3>3, Zenon
    <2>2. ASSUME NEW t \in Attempts, att'[t].state # "absent"
          PROVE  /\ att'[t].asg \in Assignments
                 /\ asg'[att'[t].asg].state # "absent"
                 /\ asg'[att'[t].asg].wp = att'[t].wp
                 /\ asg'[att'[t].asg].cur # t => Superseded(t)'
      <3>1. att[t].state # "absent"
        BY ZenonT(30), <1>3, <1>6, <2>2 DEF LiveStates, FencedStates
      <3>2. asg[att[t].asg].cur # t => att'[t] = att[t]
        BY <1>4, Zenon
      <3>3. /\ att[t].asg \in Assignments /\ asg[att[t].asg].state # "absent"
            /\ asg[att[t].asg].wp = att[t].wp
            /\ asg[att[t].asg].cur # t => Superseded(t)
        BY <3>1, Zenon DEF CurrentAttemptAgreement
      <3>4. att'[t].asg = att[t].asg /\ att'[t].wp = att[t].wp /\ att'[t].num = att[t].num
        BY <1>6, Zenon
      <3>5. /\ asg'[att[t].asg].cur = asg[att[t].asg].cur /\ asg'[att[t].asg].num = asg[att[t].asg].num
            /\ asg'[att[t].asg].wp = asg[att[t].asg].wp /\ asg'[att[t].asg].state # "absent"
        BY <1>10, <3>3, Zenon
      <3>6. ASSUME asg[att[t].asg].cur # t PROVE Superseded(t)'
        BY <3>2, <3>3, <3>4, <3>5, <3>6, Zenon DEF Superseded
      <3> QED BY <3>3, <3>4, <3>5, <3>6, Zenon
    <2> QED BY <2>1, <2>2, Zenon DEF CurrentAttemptAgreement
  <1>12. AbsentRows'
    <2>1. \A t \in Attempts : att'[t].state = "absent" => att[t].state = "absent"
      BY <1>6, Zenon
    <2> QED BY <1>6, <1>10, <2>1 DEF AbsentRows
  <1> QED BY <1>2, <1>8, <1>9, <1>11, <1>12, Zenon

-----------------------------------------------------------------------------
\* The request in flight is of the kind its op says.
LEMMA CallKinds ==
    ASSUME NEW r \in Calls
    PROVE  /\ r.op = "plan" => r \in PlanRequests
           /\ r.op = "claim" => r \in ClaimRequests
           /\ r.op = "bind" => r \in BindRequests
           /\ r.op = "transition" => r \in TransitionRequests
           /\ r.op = "heartbeat" => r \in HeartbeatRequests
           /\ r.op = "retry" => r \in RetryRequests
           /\ r.op = "reconcile" => r \in ReconcileRequests
  <1>1. /\ r \in PlanRequests => r.op = "plan"
        /\ r \in ClaimRequests => r.op = "claim"
        /\ r \in BindRequests => r.op = "bind"
    BY Zenon DEF PlanRequests, ClaimRequests, BindRequests
  <1>2. /\ r \in TransitionRequests => r.op = "transition"
        /\ r \in HeartbeatRequests => r.op = "heartbeat"
    BY Zenon DEF TransitionRequests, HeartbeatRequests
  <1>3. /\ r \in RetryRequests => r.op = "retry"
        /\ r \in ReconcileRequests => r.op = "reconcile"
    BY Zenon DEF RetryRequests, ReconcileRequests
  <1>4. r = Idle => r.op = "idle"
    BY DEF Idle
  <1> QED BY <1>1, <1>2, <1>3, <1>4, Zenon DEF Calls

\* The invariant over the calls in flight and the clock.
CallInv ==
    /\ now \in Nat
    /\ call \in [Callers -> Calls]
    /\ AdmittedCalls
    /\ CallsInThePast

\* ControlInv is what it says of the rows and what it says of the calls in flight.
LEMMA InvSplit == ControlInv <=> StoreInv /\ CallInv
  BY Zenon DEF ControlInv, StoreInv, CallInv, TypeOK, StoreTypeOK

\* Ending a call, with or without effect, keeps the remaining calls admitted.
LEMMA ReturnPreserves ==
    ASSUME CallInv, NEW c \in Callers, Return(c)
    PROVE  CallInv'
  BY Zenon DEF CallInv, Return, Calls, Idle, AdmittedCalls, CallsInThePast

\* The tables only matter through their own variables.
LEMMA StoreUnchanged ==
    ASSUME StoreInv, UNCHANGED <<asg, att, lease, ops>>
    PROVE  StoreInv'
  <1>1. StoreTypeOK' /\ AbsentRows'
    BY Zenon DEF StoreInv, StoreTypeOK, AbsentRows
  <1>2. LeaseAgreement'
    BY DEF StoreInv, LeaseAgreement
  <1>3. ClaimedRows'
    BY Zenon DEF StoreInv, ClaimedRows
  <1>4. /\ \A a : MirrorsCurrent(a)' <=> MirrorsCurrent(a)
        /\ \A t : Superseded(t)' <=> Superseded(t)
    BY Zenon DEF MirrorsCurrent, Superseded
  <1>5. CurrentAttemptAgreement'
    BY <1>4, Zenon DEF StoreInv, CurrentAttemptAgreement
  <1> QED BY <1>1, <1>2, <1>3, <1>5, Zenon DEF StoreInv

\* Beginning a call with an admitted, currently timed request.
LEMMA BeginPreserves ==
    ASSUME CallInv, NEW c \in Callers, NEW r \in Calls, Begin(c, r),
           r.op = "transition" => r.expected \in FencedStates /\ ReduceAssignmentState(r.expected, r.target),
           r.op \in {"claim", "bind", "transition", "heartbeat", "reconcile"} => r.at = now
    PROVE  CallInv'
  BY DEF CallInv, Begin, AdmittedCalls, CallsInThePast

\* The first half of every method produces such a request.
LEMMA BeginsPreserve ==
    ASSUME StoreInv, CallInv, NEW c \in Callers,
           BeginPlan(c) \/ BeginClaim(c) \/ BeginBindResources(c) \/ BeginTransition(c)
           \/ BeginHeartbeat(c) \/ BeginRetry(c) \/ BeginReconcile(c)
    PROVE  StoreInv' /\ CallInv'
  <1>1. CASE BeginPlan(c)
    <2>1. PICK a \in Assignments, wp \in WorkPackages, t \in Attempts, contract \in Contracts,
               idem \in Idems, nonce \in Nonces, digest \in Digests :
            Begin(c, [op |-> "plan", a |-> a, wp |-> wp, t |-> t, contract |-> contract,
                      idem |-> idem, nonce |-> nonce, digest |-> digest])
      BY <1>1, Zenon DEF BeginPlan
    <2> DEFINE r == [op |-> "plan", a |-> a, wp |-> wp, t |-> t, contract |-> contract,
                     idem |-> idem, nonce |-> nonce, digest |-> digest]
    <2>2. r \in Calls /\ r.op = "plan"
      BY Zenon DEF Calls, PlanRequests
    <2> QED BY <2>1, <2>2, BeginPreserves, StoreUnchanged, Zenon DEF Begin
  <1>2. CASE BeginClaim(c)
    <2>1. PICK a \in Assignments, t \in Attempts, k \in Tokens, nonce \in Nonces, digest \in Digests :
            Begin(c, [op |-> "claim", a |-> a, t |-> t, k |-> k, nonce |-> nonce,
                      digest |-> digest, at |-> now])
      BY <1>2, Zenon DEF BeginClaim
    <2> DEFINE r == [op |-> "claim", a |-> a, t |-> t, k |-> k, nonce |-> nonce,
                     digest |-> digest, at |-> now]
    <2>2. r \in Calls /\ r.op = "claim" /\ r.at = now
      BY Zenon DEF Calls, ClaimRequests, CallInv
    <2> QED BY <2>1, <2>2, BeginPreserves, StoreUnchanged, Zenon DEF Begin
  <1>3. CASE BeginBindResources(c)
    <2>1. PICK a \in Assignments, t \in Attempts, gen \in Gens, k \in Tokens, nonce \in Nonces,
               digest \in Digests :
            Begin(c, [op |-> "bind", a |-> a, t |-> t, gen |-> gen, k |-> k, nonce |-> nonce,
                      digest |-> digest, at |-> now])
      BY <1>3, Zenon DEF BeginBindResources
    <2> DEFINE r == [op |-> "bind", a |-> a, t |-> t, gen |-> gen, k |-> k, nonce |-> nonce,
                     digest |-> digest, at |-> now]
    <2>2. r \in Calls /\ r.op = "bind" /\ r.at = now
      BY Zenon DEF Calls, BindRequests, CallInv
    <2> QED BY <2>1, <2>2, BeginPreserves, StoreUnchanged, Zenon DEF Begin
  <1>4. CASE BeginTransition(c)
    <2>1. PICK a \in Assignments, t \in Attempts, gen \in Gens, k \in Tokens,
               target \in AssignmentStates, nonce \in Nonces, digest \in Digests :
            /\ TransitionAdmits(a, t, gen, target)
            /\ Begin(c, [op |-> "transition", a |-> a, t |-> t, gen |-> gen, k |-> k,
                         expected |-> att[t].state, target |-> target, nonce |-> nonce,
                         digest |-> digest, at |-> now])
      BY <1>4, Zenon DEF BeginTransition
    <2> DEFINE r == [op |-> "transition", a |-> a, t |-> t, gen |-> gen, k |-> k,
                     expected |-> att[t].state, target |-> target, nonce |-> nonce,
                     digest |-> digest, at |-> now]
    <2>2. att[t].state \in AssignmentStates \cup {"absent"} /\ att[t].state \notin {"absent", "planned"}
      BY ZenonT(30), <2>1, GensAssumption DEF StoreInv, StoreTypeOK, AttemptRows, ClaimedRows, TransitionAdmits
    <2>3. att[t].state \notin TerminalStates
      BY <2>1, Zenon DEF TransitionAdmits, ReduceAssignmentState, PermittedTargets, TerminalStates, RetryableStates
    <2>4. att[t].state \in FencedStates /\ ReduceAssignmentState(att[t].state, target)
      BY ZenonT(30), <2>1, <2>2, <2>3 DEF TransitionAdmits, AssignmentStates, LiveStates
    <2>5. r \in Calls /\ r.op = "transition" /\ r.at = now
      BY <2>2, Zenon DEF Calls, TransitionRequests, CallInv
    <2> QED BY <2>1, <2>4, <2>5, BeginPreserves, StoreUnchanged, Zenon DEF Begin
  <1>5. CASE BeginHeartbeat(c)
    <2>1. PICK a \in Assignments, t \in Attempts, gen \in Gens, k \in Tokens :
            Begin(c, [op |-> "heartbeat", a |-> a, t |-> t, gen |-> gen, k |-> k, at |-> now])
      BY <1>5, Zenon DEF BeginHeartbeat
    <2> DEFINE r == [op |-> "heartbeat", a |-> a, t |-> t, gen |-> gen, k |-> k, at |-> now]
    <2>2. r \in Calls /\ r.op = "heartbeat" /\ r.at = now
      BY Zenon DEF Calls, HeartbeatRequests, CallInv
    <2> QED BY <2>1, <2>2, BeginPreserves, StoreUnchanged, Zenon DEF Begin
  <1>6. CASE BeginRetry(c)
    <2>1. PICK a \in Assignments, prev \in Attempts, t \in Attempts, idem \in Idems, nonce \in Nonces,
               digest \in Digests :
            /\ RetryAdmits(a, prev, t, idem)
            /\ Begin(c, [op |-> "retry", a |-> a, prev |-> prev, t |-> t, idem |-> idem,
                         num |-> att[asg[a].cur].num + (IF asg[a].cur = t THEN 0 ELSE 1),
                         nonce |-> nonce, digest |-> digest])
      BY ZenonT(30), <1>6 DEF BeginRetry
    <2> DEFINE r == [op |-> "retry", a |-> a, prev |-> prev, t |-> t, idem |-> idem,
                     num |-> att[asg[a].cur].num + (IF asg[a].cur = t THEN 0 ELSE 1),
                     nonce |-> nonce, digest |-> digest]
    <2>2. asg[a].cur \in Attempts
      BY ZenonT(30), <2>1 DEF RetryAdmits
    <2>3. att[asg[a].cur].num \in Nat
      BY <2>2, Zenon DEF StoreInv, StoreTypeOK, AttemptRows
    <2>4. att[asg[a].cur].num + (IF asg[a].cur = t THEN 0 ELSE 1) \in Nat
      <3>1. CASE asg[a].cur = t
        BY <2>3, <3>1, SMTT(30)
      <3>2. CASE asg[a].cur # t
        BY <2>3, <3>2
      <3> QED BY ZenonT(30), <3>1, <3>2
    <2>5. r \in RetryRequests
      BY <2>4, Zenon DEF RetryRequests
    <2>6. r \in Calls /\ r.op = "retry"
      BY <2>5, Zenon DEF Calls
    <2> QED BY <2>1, <2>6, BeginPreserves, StoreUnchanged, Zenon DEF Begin
  <1>7. CASE BeginReconcile(c)
    <2> DEFINE r == [op |-> "reconcile", at |-> now]
    <2>1. r \in Calls /\ r.op = "reconcile" /\ r.at = now
      BY Zenon DEF Calls, ReconcileRequests, CallInv
    <2> QED BY <1>7, <2>1, BeginPreserves, StoreUnchanged, Zenon DEF Begin, BeginReconcile
  <1> QED BY <1>1, <1>2, <1>3, <1>4, <1>5, <1>6, <1>7, Zenon

\* The second half of every method, whether its transaction commits or not.
LEMMA CommitsPreserve ==
    ASSUME StoreInv, CallInv, NEW c \in Callers,
           CommitPlan(c) \/ CommitClaim(c) \/ CommitBindResources(c) \/ CommitTransition(c)
           \/ CommitHeartbeat(c) \/ CommitRetry(c) \/ CommitReconcile(c) \/ Abandon(c)
    PROVE  StoreInv' /\ CallInv'
  <1>0. call[c] \in Calls
    BY Zenon DEF CallInv
  <1>1. ASSUME Refuse(c) PROVE StoreInv' /\ CallInv'
    BY <1>1, ReturnPreserves, StoreUnchanged, Zenon DEF Refuse
  <1>2. CASE CommitPlan(c)
    BY <1>0, <1>1, <1>2, CallKinds, PlanPreserves, ReturnPreserves, Zenon DEF CommitPlan
  <1>3. CASE CommitClaim(c)
    BY <1>0, <1>1, <1>3, CallKinds, ClaimPreserves, ReturnPreserves, Zenon DEF CommitClaim
  <1>4. CASE CommitBindResources(c)
    BY <1>0, <1>1, <1>4, CallKinds, BindPreserves, ReturnPreserves, Zenon DEF CommitBindResources
  <1>5. CASE CommitTransition(c)
    <2>1. /\ call[c] \in TransitionRequests
          /\ call[c].expected \in FencedStates
          /\ ReduceAssignmentState(call[c].expected, call[c].target)
      BY <1>0, <1>5, CallKinds, Zenon DEF CommitTransition, CallInv, AdmittedCalls
    <2> QED BY <1>1, <1>5, <2>1, TransitionPreserves, ReturnPreserves, Zenon DEF CommitTransition
  <1>6. CASE CommitHeartbeat(c)
    BY <1>0, <1>1, <1>6, CallKinds, HeartbeatPreserves, ReturnPreserves, Zenon DEF CommitHeartbeat
  <1>7. CASE CommitRetry(c)
    BY <1>0, <1>1, <1>7, CallKinds, RetryPreserves, ReturnPreserves, Zenon DEF CommitRetry
  <1>8. CASE CommitReconcile(c)
    <2>1. call[c].at \in Nat
      BY <1>0, <1>8, CallKinds, Zenon DEF CommitReconcile, ReconcileRequests
    <2> QED BY <1>8, <2>1, ReconcilePreserves, ReturnPreserves, Zenon DEF CommitReconcile
  <1>9. CASE Abandon(c)
    BY <1>1, <1>9, Zenon DEF Abandon
  <1> QED BY <1>2, <1>3, <1>4, <1>5, <1>6, <1>7, <1>8, <1>9, Zenon

\* The empty tables and idle callers satisfy the invariant.
LEMMA InitInv == Init => ControlInv
  <1> SUFFICES ASSUME Init PROVE StoreInv /\ CallInv
    BY InvSplit, Zenon
  <1> USE NoneAssumption DEF Init, StoreInit
  <1>1. StoreTypeOK
    BY Zenon DEF StoreTypeOK, NoAssignment, NoAttempt, NoLease, AssignmentRows, AttemptRows, LeaseRows, Dispositions
  <1>2. LeaseAgreement /\ ClaimedRows
    BY Zenon DEF LeaseAgreement, ClaimedRows, NoAttempt, NoLease, FencedStates
  <1>3. CurrentAttemptAgreement /\ AbsentRows
    BY Zenon DEF CurrentAttemptAgreement, AbsentRows, NoAttempt, NoAssignment
  <1>4. CallInv
    BY Zenon DEF CallInv, Calls, Idle, AdmittedCalls, CallsInThePast
  <1> QED BY <1>1, <1>2, <1>3, <1>4, Zenon DEF StoreInv

\* Every step of the service preserves the invariant.
LEMMA NextInv == ControlInv /\ [Next]_vars => ControlInv'
  <1> SUFFICES ASSUME StoreInv, CallInv, [Next]_vars PROVE StoreInv' /\ CallInv'
    BY InvSplit, Zenon DEF ControlInv, StoreInv, CallInv, TypeOK, StoreTypeOK
  <1>1. CASE Tick
    <2>1. StoreInv'
      BY <1>1, StoreUnchanged, Zenon DEF Tick
    <2>2. CallInv'
      <3>1. now \in Nat /\ now' = now + 1 /\ call' = call
        BY <1>1, Zenon DEF Tick, CallInv
      <3>2. ASSUME NEW c \in Callers,
                   call[c].op \in {"claim", "bind", "transition", "heartbeat", "reconcile"}
            PROVE  call[c].at <= now + 1
        <4>1. call[c].at \in Nat
          BY <3>2, CallKinds DEF CallInv, ClaimRequests, BindRequests, TransitionRequests,
                                 HeartbeatRequests, ReconcileRequests
        <4>2. call[c].at <= now
          BY <3>2, Zenon DEF CallInv, CallsInThePast
        <4> QED BY <3>1, <4>1, <4>2
      <3> QED BY <3>1, <3>2 DEF CallInv, AdmittedCalls, CallsInThePast
    <2> QED BY <2>1, <2>2, Zenon
  <1>2. ASSUME NEW c \in Callers, CallStep(c) PROVE StoreInv' /\ CallInv'
    BY <1>2, BeginsPreserve, CommitsPreserve, Zenon DEF CallStep
  <1>3. CASE UNCHANGED vars
    BY <1>3, StoreUnchanged, Zenon DEF vars, CallInv, AdmittedCalls, CallsInThePast
  <1> QED BY <1>1, <1>2, <1>3, Zenon DEF Next

\* The tables stay consistent under every interleaving of control calls: leases and
\* attempts agree, assignments mirror their current attempt, superseded attempts
\* stay ended.
THEOREM ControlSafety == Spec => []ControlInv
  BY InitInv, NextInv, PTL DEF Spec

-----------------------------------------------------------------------------
\* Reconciliation only ever expires an attempt, and only one whose lease has run out
\* by the time the call sampled.
LEMMA ExpiresOverdue ==
    ASSUME StoreInv, now \in Nat, NEW at \in Nat, at <= now, ReconcileEffect(at),
           NEW t \in Attempts, att'[t].state # att[t].state
    PROVE  att'[t].state = "expired" /\ LeaseRanOut(t)
  <1> DEFINE a == att[t].asg
  <1>2. a # None /\ asg[a].cur = t /\ asg[a].state \in LiveStates
    BY ZenonT(30) DEF ReconcileEffect
  <1>3. a \in Assignments /\ asg[a].state = att[t].state
    <2>1. a \in Assignments
      BY <1>2, Zenon DEF StoreInv, StoreTypeOK, AttemptRows
    <2>2. asg[a].state # "absent"
      BY <1>2, Zenon DEF LiveStates, FencedStates
    <2> QED BY <1>2, <2>1, <2>2 DEF StoreInv, CurrentAttemptAgreement, MirrorsCurrent
  <1>4. att'[t].state = ReconciledState(a, at)
    BY ZenonT(30), <1>2 DEF ReconcileEffect, StoreInv, StoreTypeOK, AttemptRows
  <1>5. Overdue(a, at) /\ att'[t].state = "expired"
    BY <1>3, <1>4, Zenon DEF ReconciledState
  <1>6. LeaseRanOut(t)
    <2>1. PICK k \in Tokens : lease[k].att = t /\ lease[k].state = "active" /\ lease[k].expires <= at
      BY <1>2, <1>5, Zenon DEF Overdue, OverdueLeases
    <2>2. lease[k].expires \in Nat
      BY Zenon DEF StoreInv, StoreTypeOK, LeaseRows
    <2> QED BY <2>1, <2>2 DEF LeaseRanOut
  <1> QED BY <1>5, <1>6, Zenon

\* Every committed change of an attempt follows the state table from the state the
\* attempt is in when the transaction runs, or expires an attempt whose lease ran out.
THEOREM TableSafety == Spec => StepsFollowTable
  <1> DEFINE Legal == \A t \in Attempts : att'[t].state # att[t].state =>
            \/ att[t].state = "absent" /\ att'[t].state = "planned"
            \/ ReduceAssignmentState(att[t].state, att'[t].state)
            \/ att'[t].state = "expired" /\ LeaseRanOut(t)
  <1>1. ControlInv /\ [Next]_vars => [Legal]_vars
    <2> SUFFICES ASSUME StoreInv, CallInv, Next, NEW t \in Attempts, att'[t].state # att[t].state
                 PROVE  \/ att[t].state = "absent" /\ att'[t].state = "planned"
                        \/ ReduceAssignmentState(att[t].state, att'[t].state)
                        \/ att'[t].state = "expired" /\ LeaseRanOut(t)
      BY InvSplit, Zenon
    <2>1. PICK c \in Callers : CallStep(c)
      BY Zenon DEF Next, Tick
    <2>2. call[c] \in Calls /\ now \in Nat
      BY Zenon DEF CallInv
    <2>3. CASE CommitPlan(c)
      <3> DEFINE r == call[c]
      <3>1. r \in PlanRequests
        BY <2>2, <2>3, CallKinds, Zenon DEF CommitPlan
      <3>2. PlanCommits(r) /\ PlanEffect(r)
        BY <2>3, Zenon DEF CommitPlan, Refuse
      <3>3. r.t \in Attempts /\ att[r.t].state = "absent"
        BY <3>1, <3>2, Zenon DEF PlanCommits, AttemptInsertable, PlanRequests
      <3>4. \A u \in Attempts \ {r.t} : att'[u] = att[u]
        BY <3>2, Zenon DEF PlanEffect, StoreInv, StoreTypeOK, AttemptRows
      <3>5. att'[r.t].state = "planned"
        BY <3>2, <3>3, Zenon DEF PlanEffect, StoreInv, StoreTypeOK, AttemptRows
      <3> QED BY <3>3, <3>4, <3>5, Zenon
    <2>4. CASE CommitClaim(c)
      <3> DEFINE r == call[c]
      <3>1. r \in ClaimRequests
        BY <2>2, <2>4, CallKinds, Zenon DEF CommitClaim
      <3>2. ClaimCommits(r) /\ ClaimEffect(r, LeaseDuration)
        BY <2>4, Zenon DEF CommitClaim, Refuse
      <3>3. /\ r.t \in Attempts /\ att[r.t].state = "planned"
            /\ att' = [att EXCEPT ![r.t] = [@ EXCEPT !.state = "leased", !.gen = att[r.t].gen + 1, !.rec = "none",
                                                     !.res = att[r.t].res]]
        BY <3>1, <3>2, Zenon DEF ClaimCommits, ClaimEffect, AttemptStateIs, UpdateAttemptState, ClaimRequests
      <3>4. t = r.t /\ att'[t].state = "leased"
        BY <3>3 DEF StoreInv, StoreTypeOK, AttemptRows
      <3>5. ReduceAssignmentState("planned", "leased")
        BY Zenon DEF ReduceAssignmentState, PermittedTargets
      <3> QED BY <3>3, <3>4, <3>5, Zenon
    <2>5. CASE CommitBindResources(c)
      <3> DEFINE r == call[c]
      <3>1. r \in BindRequests
        BY <2>2, <2>5, CallKinds, Zenon DEF CommitBindResources
      <3>2. BindCommits(r) /\ BindEffect(r)
        BY <2>5, Zenon DEF CommitBindResources, Refuse
      <3>3. /\ r.t \in Attempts /\ att[r.t].state = "leased"
            /\ att' = [att EXCEPT ![r.t] = [@ EXCEPT !.state = "preparing", !.gen = att[r.t].gen, !.rec = "none",
                                                     !.res = TRUE]]
        BY <3>1, <3>2, Zenon DEF BindCommits, BindEffect, AttemptStateIs, UpdateAttemptState, BindRequests
      <3>4. t = r.t /\ att'[t].state = "preparing"
        BY <3>3 DEF StoreInv, StoreTypeOK, AttemptRows
      <3>5. ReduceAssignmentState("leased", "preparing")
        BY Zenon DEF ReduceAssignmentState, PermittedTargets
      <3> QED BY <3>3, <3>4, <3>5, Zenon
    <2>6. CASE CommitTransition(c)
      <3> DEFINE r == call[c]
      <3>1. r \in TransitionRequests /\ ReduceAssignmentState(r.expected, r.target)
        BY <2>2, <2>6, CallKinds, Zenon DEF CommitTransition, CallInv, AdmittedCalls
      <3>2. TransitionCommits(r) /\ TransitionEffect(r)
        BY <2>6, Zenon DEF CommitTransition, Refuse
      <3>3. /\ r.t \in Attempts /\ att[r.t].state = r.expected
            /\ att' = [att EXCEPT ![r.t] = [@ EXCEPT !.state = r.target, !.gen = att[r.t].gen, !.rec = "none",
                                                     !.res = att[r.t].res]]
        BY <3>1, <3>2, Zenon DEF TransitionCommits, TransitionEffect, AttemptStateIs, UpdateAttemptState, TransitionRequests
      <3>4. t = r.t /\ att'[t].state = r.target
        BY <3>3 DEF StoreInv, StoreTypeOK, AttemptRows
      <3> QED BY <3>1, <3>3, <3>4, Zenon
    <2>7. CASE CommitRetry(c)
      <3> DEFINE r == call[c]
      <3>1. r \in RetryRequests
        BY <2>2, <2>7, CallKinds, Zenon DEF CommitRetry
      <3>2. RetryCommits(r) /\ RetryEffect(r)
        BY Zenon, <2>7 DEF CommitRetry, Refuse
      <3>3. r.t \in Attempts /\ att[r.t].state = "absent"
        BY <3>1, <3>2, Zenon DEF RetryCommits, AttemptInsertable, RetryRequests
      <3>4. \A u \in Attempts \ {r.t} : att'[u] = att[u]
        BY <3>2, Zenon DEF RetryEffect, StoreInv, StoreTypeOK, AttemptRows
      <3>5. att'[r.t].state = "planned"
        BY <3>2, <3>3, Zenon DEF RetryEffect, StoreInv, StoreTypeOK, AttemptRows
      <3> QED BY <3>3, <3>4, <3>5, Zenon
    <2>8. CASE CommitReconcile(c)
      <3>1. call[c].at \in Nat /\ call[c].at <= now
        BY <2>2, <2>8, CallKinds, Zenon DEF CommitReconcile, ReconcileRequests, CallInv, CallsInThePast
      <3> QED BY <2>2, <2>8, <3>1, ExpiresOverdue, Zenon DEF CommitReconcile
    <2>9. att' = att \/ CommitPlan(c) \/ CommitClaim(c) \/ CommitBindResources(c) \/ CommitTransition(c)
          \/ CommitRetry(c) \/ CommitReconcile(c)
      <3>1. \A request : Begin(c, request) => att' = att
        BY Zenon DEF Begin
      <3>2. BeginPlan(c) \/ BeginClaim(c) \/ BeginBindResources(c) \/ BeginTransition(c)
            \/ BeginHeartbeat(c) \/ BeginRetry(c) \/ BeginReconcile(c) => att' = att
        BY <3>1, ZenonT(60) DEF BeginPlan, BeginClaim, BeginBindResources, BeginTransition, BeginHeartbeat,
                                BeginRetry, BeginReconcile
      <3>3. CommitHeartbeat(c) \/ Abandon(c) => att' = att
        BY Zenon DEF CommitHeartbeat, HeartbeatEffect, Refuse, Abandon
      <3> QED BY <2>1, <3>2, <3>3, Zenon DEF CallStep
    <2> QED BY <2>3, <2>4, <2>5, <2>6, <2>7, <2>8, <2>9, Zenon
  <1> HIDE DEF Legal
  <1>2. Spec => [][Legal]_vars
    BY <1>1, ControlSafety, PTL DEF Spec
  <1> QED BY <1>2, Zenon DEF StepsFollowTable, Legal

-----------------------------------------------------------------------------
\* Only insertion gives an attempt its assignment, its number and what it supersedes.
SameChainColumns ==
    \A u \in Attempts : /\ att'[u].asg = att[u].asg
                        /\ att'[u].num = att[u].num
                        /\ att'[u].sup = att[u].sup
                        /\ att[u].state = "absent" => att'[u].state = "absent"

\* Updates of other columns leave the chains as they are.
LEMMA ChainKept ==
    ASSUME AttemptChain, SameChainColumns
    PROVE  AttemptChain'
  BY DEF AttemptChain, SameChainColumns

\* A new attempt is the first of its assignment or continues the numbering of the one
\* it supersedes; no older attempt can have pointed at the row it fills.
LEMMA ChainExtended ==
    ASSUME StoreInv, AttemptChain, NEW t \in Attempts, att[t].state = "absent",
           \A u \in Attempts \ {t} : att'[u] = att[u],
           \/ att'[t].num = 1 /\ att'[t].sup = None
           \/ /\ att'[t].sup \in Attempts \ {t}
              /\ att[att'[t].sup].asg = att'[t].asg
              /\ att[att'[t].sup].num + 1 = att'[t].num
    PROVE  AttemptChain'
  <1> SUFFICES ASSUME NEW u \in Attempts, att'[u].state # "absent"
               PROVE  \/ att'[u].num = 1 /\ att'[u].sup = None
                      \/ /\ att'[u].sup \in Attempts
                         /\ att'[att'[u].sup].asg = att'[u].asg
                         /\ att'[att'[u].sup].num + 1 = att'[u].num
    BY Zenon DEF AttemptChain
  <1>1. CASE u = t
    BY <1>1, Zenon
  <1>2. CASE u # t
    <2>1. att'[u] = att[u]
      BY <1>2, Zenon
    <2>2. att[u].asg \in Assignments
      BY <2>1, Zenon DEF StoreInv, CurrentAttemptAgreement
    <2>3. att[t].asg = None
      BY Zenon DEF StoreInv, AbsentRows
    <2>4. CASE att[u].num = 1 /\ att[u].sup = None
      BY <2>1, <2>4, Zenon
    <2>5. CASE /\ att[u].sup \in Attempts
               /\ att[att[u].sup].asg = att[u].asg
               /\ att[att[u].sup].num + 1 = att[u].num
      <3>1. att[u].sup # t
        BY <2>2, <2>3, <2>5, NoneAssumption, Zenon
      <3> QED BY <2>1, <2>5, <3>1
    <2> QED BY <2>1, <2>4, <2>5, Zenon DEF AttemptChain
  <1> QED BY <1>1, <1>2, Zenon

\* Through retries, late calls and reconciliation the attempts of an assignment stay
\* one chain: each but the first continues the numbering of one it supersedes.
THEOREM ChainSafety == Spec => []AttemptChain
  <1>1. Init => AttemptChain
    BY DEF Init, StoreInit, NoAttempt, AttemptChain
  <1>2. ControlInv /\ AttemptChain /\ [Next]_vars => AttemptChain'
    <2> SUFFICES ASSUME StoreInv, CallInv, AttemptChain, [Next]_vars PROVE AttemptChain'
      BY InvSplit, Zenon
    <2>1. ASSUME att' = att PROVE AttemptChain'
      BY <2>1, Zenon DEF AttemptChain
    <2>2. att' = att \/ \E c \in Callers : CallStep(c)
      BY Zenon DEF Next, Tick, vars
    <2>3. SUFFICES ASSUME NEW c \in Callers, CallStep(c), att' # att, call[c] \in Calls PROVE AttemptChain'
      BY <2>1, <2>2, Zenon DEF CallInv
    <2>4. CASE CommitPlan(c)
      <3> DEFINE r == call[c]
      <3>1. r \in PlanRequests
        BY <2>3, <2>4, CallKinds, Zenon DEF CommitPlan
      <3>2. PlanCommits(r) /\ PlanEffect(r)
        BY <2>3, <2>4, Zenon DEF CommitPlan, Refuse
      <3>3. r.t \in Attempts /\ att[r.t].state = "absent"
        BY <3>1, <3>2, Zenon DEF PlanCommits, AttemptInsertable, PlanRequests
      <3>4. /\ \A u \in Attempts \ {r.t} : att'[u] = att[u]
            /\ att'[r.t].num = 1 /\ att'[r.t].sup = None
        BY <3>2, <3>3, Zenon DEF PlanEffect, StoreInv, StoreTypeOK, AttemptRows
      <3> QED BY <3>3, <3>4, ChainExtended, Zenon
    <2>5. CASE CommitRetry(c)
      <3> DEFINE r == call[c]
      <3>1. r \in RetryRequests
        BY <2>3, <2>5, CallKinds, Zenon DEF CommitRetry
      <3>2. RetryCommits(r) /\ RetryEffect(r)
        BY Zenon, <2>3, <2>5 DEF CommitRetry, Refuse
      <3>3. r.t \in Attempts /\ att[r.t].state = "absent" /\ r.a \in Assignments
        BY <3>1, <3>2, Zenon DEF RetryCommits, AttemptInsertable, RetryRequests
      <3>4. r.prev \in Attempts \ {r.t} /\ att[r.prev].asg = r.a /\ att[r.prev].num + 1 = r.num
        <4>1. asg[r.a].state # "absent" /\ asg[r.a].cur = r.prev /\ r.num = att[r.prev].num + 1
              /\ att[r.prev].state \in RetryableStates
          BY <3>2, Zenon DEF RetryCommits
        <4>2. r.prev \in Attempts /\ att[r.prev].asg = r.a
          BY <3>3, <4>1 DEF StoreInv, CurrentAttemptAgreement, MirrorsCurrent
        <4> QED BY <3>3, <4>1, <4>2, Zenon DEF RetryableStates
      <3>5. /\ \A u \in Attempts \ {r.t} : att'[u] = att[u]
            /\ att'[r.t].asg = r.a /\ att'[r.t].num = r.num /\ att'[r.t].sup = r.prev
        BY <3>2, <3>3, Zenon DEF RetryEffect, StoreInv, StoreTypeOK, AttemptRows
      <3> QED BY <3>3, <3>4, <3>5, ChainExtended
    <2>6. CASE CommitClaim(c)
      <3> DEFINE r == call[c]
      <3>1. CASE att' = att
        BY <2>1, <3>1, Zenon
      <3>2. CASE ClaimCommits(r) /\ ClaimEffect(r, LeaseDuration)
        <4>1. r \in ClaimRequests /\ r.t \in Attempts /\ att[r.t].state # "absent"
          BY <2>3, <2>6, <3>2, CallKinds, Zenon DEF CommitClaim, ClaimRequests, ClaimCommits, AttemptStateIs, FencedSnapshot
        <4>2. SameChainColumns
          BY <3>2, <4>1 DEF ClaimEffect, UpdateAttemptState, SameChainColumns, StoreInv, StoreTypeOK, AttemptRows
        <4> QED BY <4>2, ChainKept, Zenon
      <3> QED BY <2>6, <3>1, <3>2, Zenon DEF CommitClaim, Refuse
    <2>7. CASE CommitBindResources(c)
      <3> DEFINE r == call[c]
      <3>1. CASE att' = att
        BY <2>1, <3>1, Zenon
      <3>2. CASE BindCommits(r) /\ BindEffect(r)
        <4>1. r \in BindRequests /\ r.t \in Attempts /\ att[r.t].state # "absent"
          BY <2>3, <2>7, <3>2, CallKinds, Zenon DEF CommitBindResources, BindRequests, BindCommits, AttemptStateIs, FencedSnapshot
        <4>2. SameChainColumns
          BY <3>2, <4>1 DEF BindEffect, UpdateAttemptState, SameChainColumns, StoreInv, StoreTypeOK, AttemptRows
        <4> QED BY <4>2, ChainKept, Zenon
      <3> QED BY <2>7, <3>1, <3>2, Zenon DEF CommitBindResources, Refuse
    <2>8. CASE CommitTransition(c)
      <3> DEFINE r == call[c]
      <3>1. CASE att' = att
        BY <2>1, <3>1, Zenon
      <3>2. CASE TransitionCommits(r) /\ TransitionEffect(r)
        <4>1. r \in TransitionRequests /\ r.t \in Attempts /\ att[r.t].state # "absent"
          BY <2>3, <2>8, <3>2, CallKinds, Zenon DEF CommitTransition, TransitionRequests, TransitionCommits, AttemptStateIs, FencedSnapshot
        <4>2. SameChainColumns
          BY <3>2, <4>1 DEF TransitionEffect, UpdateAttemptState, SameChainColumns, StoreInv, StoreTypeOK, AttemptRows
        <4> QED BY <4>2, ChainKept, Zenon
      <3> QED BY <2>8, <3>1, <3>2, Zenon DEF CommitTransition, Refuse
    <2>9. CASE CommitReconcile(c)
      <3>1. SameChainColumns
        <4> SUFFICES ASSUME NEW u \in Attempts
                     PROVE  /\ att'[u].asg = att[u].asg /\ att'[u].num = att[u].num /\ att'[u].sup = att[u].sup
                            /\ att[u].state = "absent" => att'[u].state = "absent"
          BY Zenon DEF SameChainColumns
        <4>1. CASE att'[u] = att[u]
          BY <4>1, Zenon
        <4>2. CASE /\ att[u].asg # None
                   /\ att'[u] = [att[u] EXCEPT !.state = ReconciledState(att[u].asg, call[c].at),
                                               !.rec = ReconciledRecovery(att[u].asg, call[c].at)]
          BY <4>2 DEF StoreInv, StoreTypeOK, AttemptRows, AbsentRows
        <4> QED BY ZenonT(30), <2>9, <4>1, <4>2 DEF CommitReconcile, ReconcileEffect
      <3> QED BY <3>1, ChainKept, Zenon
    <2>10. CommitPlan(c) \/ CommitClaim(c) \/ CommitBindResources(c) \/ CommitTransition(c)
           \/ CommitRetry(c) \/ CommitReconcile(c)
      <3>1. \A request : Begin(c, request) => att' = att
        BY Zenon DEF Begin
      <3>2. BeginPlan(c) \/ BeginClaim(c) \/ BeginBindResources(c) \/ BeginTransition(c)
            \/ BeginHeartbeat(c) \/ BeginRetry(c) \/ BeginReconcile(c) => att' = att
        BY <3>1, ZenonT(60) DEF BeginPlan, BeginClaim, BeginBindResources, BeginTransition, BeginHeartbeat,
                                BeginRetry, BeginReconcile
      <3>3. CommitHeartbeat(c) \/ Abandon(c) => att' = att
        BY Zenon DEF CommitHeartbeat, HeartbeatEffect, Refuse, Abandon
      <3> QED BY <2>3, <3>2, <3>3, Zenon DEF CallStep
    <2> QED BY <2>4, <2>5, <2>6, <2>7, <2>8, <2>9, <2>10, Zenon
  <1> QED BY <1>1, <1>2, ControlSafety, PTL DEF Spec
-----------------------------------------------------------------------------
\* The transaction of a request runs to its end.
Applies(r) ==
    \/ r \in PlanRequests /\ PlanCommits(r) /\ PlanEffect(r)
    \/ r \in ClaimRequests /\ ClaimCommits(r) /\ ClaimEffect(r, LeaseDuration)
    \/ r \in BindRequests /\ BindCommits(r) /\ BindEffect(r)
    \/ r \in TransitionRequests /\ TransitionCommits(r) /\ TransitionEffect(r)
    \/ r \in HeartbeatRequests /\ HeartbeatCommits(r) /\ HeartbeatEffect(r, ExtendBy)
    \/ r \in RetryRequests /\ RetryCommits(r) /\ RetryEffect(r)
    \/ r \in ReconcileRequests /\ ReconcileEffect(r.at)

\* A step leaves the tables alone, or is one transaction of a request timed in the past.
LEMMA StepKinds ==
    ASSUME CallInv, [Next]_vars
    PROVE  \/ UNCHANGED <<asg, att, lease, ops>> /\ now' \in Nat /\ now <= now'
           \/ \E r \in Calls :
                /\ Applies(r)
                /\ r.op \in {"claim", "heartbeat", "reconcile"} => r.at <= now
                /\ now' = now
  <1>1. CASE Tick
    BY <1>1 DEF Tick, CallInv
  <1>2. CASE UNCHANGED vars
    BY <1>2 DEF vars, CallInv
  <1>3. ASSUME NEW c \in Callers, CallStep(c)
        PROVE  \/ UNCHANGED <<asg, att, lease, ops>> /\ now' = now
               \/ /\ Applies(call[c])
                  /\ call[c].op \in {"claim", "heartbeat", "reconcile"} => call[c].at <= now
                  /\ now' = now
    <2> DEFINE Quiet == UNCHANGED <<asg, att, lease, ops>> /\ now' = now
    <2>0. call[c] \in Calls
      BY Zenon DEF CallInv
    <2>1. call[c].op \in {"claim", "heartbeat", "reconcile"} => call[c].at <= now
      BY Zenon DEF CallInv, CallsInThePast
    <2>2. \A request : Begin(c, request) => Quiet
      BY Zenon DEF Begin
    <2>3. BeginPlan(c) \/ BeginClaim(c) \/ BeginBindResources(c) \/ BeginTransition(c)
          \/ BeginHeartbeat(c) \/ BeginRetry(c) \/ BeginReconcile(c) => Quiet
      <3> HIDE DEF Quiet
      <3> QED BY <2>2, ZenonT(60) DEF BeginPlan, BeginClaim, BeginBindResources, BeginTransition,
                                      BeginHeartbeat, BeginRetry, BeginReconcile
    <2>4. Refuse(c) => Quiet
      BY Zenon DEF Refuse, Return
    <2>5. Return(c) => now' = now
      BY Zenon DEF Return
    <2> HIDE DEF Quiet
    <2>K. /\ call[c].op = "plan" => call[c] \in PlanRequests
          /\ call[c].op = "claim" => call[c] \in ClaimRequests
          /\ call[c].op = "bind" => call[c] \in BindRequests
          /\ call[c].op = "transition" => call[c] \in TransitionRequests
          /\ call[c].op = "heartbeat" => call[c] \in HeartbeatRequests
          /\ call[c].op = "retry" => call[c] \in RetryRequests
          /\ call[c].op = "reconcile" => call[c] \in ReconcileRequests
      BY <2>0, CallKinds, Zenon
    <2> DEFINE Done == Quiet \/ (Applies(call[c]) /\ now' = now)
    <2>6. CommitPlan(c) \/ CommitClaim(c) \/ CommitBindResources(c) => Done
      BY <2>K, <2>4, <2>5, ZenonT(30) DEF CommitPlan, CommitClaim, CommitBindResources, Applies
    <2>7. CommitTransition(c) \/ CommitHeartbeat(c) => Done
      BY <2>K, <2>4, <2>5, ZenonT(30) DEF CommitTransition, CommitHeartbeat, Applies
    <2>8. CommitRetry(c) \/ CommitReconcile(c) => Done
      BY <2>K, <2>4, <2>5, ZenonT(30) DEF CommitRetry, CommitReconcile, Applies
    <2>9. Abandon(c) => Done
      BY <2>4, Zenon DEF Abandon
    <2>10. Quiet => Done
      BY Zenon
    <2> HIDE DEF Done
    <2>11. Done
      BY <1>3, <2>3, <2>6, <2>7, <2>8, <2>9, <2>10, ZenonT(30) DEF CallStep
    <2> QED BY <2>1, <2>11, Zenon DEF Quiet, Done
  <1>4. ASSUME NEW c \in Callers, CallStep(c) PROVE call[c] \in Calls /\ now \in Nat
    BY Zenon DEF CallInv
  <1> QED BY <1>1, <1>2, <1>3, <1>4, SMTT(30) DEF Next

\* What one transaction does to the lease rows: it opens an absent one, renews an
\* active one, or closes active ones, the row's other columns staying as they are.
LEMMA LeaseEffects ==
    ASSUME StoreInv, NEW r \in Calls, Applies(r), NEW k \in Tokens
    PROVE  \/ lease'[k] = lease[k]
           \/ /\ lease[k].state = "absent" /\ r.op = "claim" /\ r.at \in Nat
              /\ lease'[k].expires = r.at + LeaseDuration
           \/ /\ lease[k].state = "active" /\ r.op = "heartbeat" /\ r.at \in Nat
              /\ lease'[k].expires = r.at + ExtendBy
           \/ lease[k].state = "active" /\ lease'[k].state \in {"released", "expired"}
  <1> USE DEF StoreInv, StoreTypeOK
  <1>1. CASE r \in ClaimRequests /\ ClaimCommits(r) /\ ClaimEffect(r, LeaseDuration)
    BY <1>1, Zenon DEF ClaimRequests, ClaimCommits, ClaimEffect
  <1>2. CASE r \in TransitionRequests /\ TransitionCommits(r) /\ TransitionEffect(r)
    <2>1. r.k \in Tokens /\ lease[r.k].state = "active" /\ lease[r.k] \in LeaseRows
      BY <1>2, Zenon DEF TransitionRequests, TransitionCommits, FencedSnapshot
    <2>2. lease' = [lease EXCEPT ![r.k].state =
                        IF r.target \notin TerminalStates THEN @
                        ELSE IF r.target = "expired" THEN "expired" ELSE "released"]
      BY <1>2, Zenon DEF TransitionEffect
    <2>3. CASE r.target \notin TerminalStates
      BY <2>1, <2>2, <2>3, Zenon DEF LeaseRows
    <2>4. CASE r.target \in TerminalStates
      BY <2>1, <2>2, <2>4, Zenon DEF LeaseRows
    <2> QED BY <2>3, <2>4, Zenon
  <1>3. CASE r \in HeartbeatRequests /\ HeartbeatCommits(r) /\ HeartbeatEffect(r, ExtendBy)
    BY <1>3 DEF HeartbeatRequests, HeartbeatCommits, HeartbeatEffect, LeaseRows
  <1>4. CASE r \in ReconcileRequests /\ ReconcileEffect(r.at)
    <2>1. k \in OverdueLeases(r.at) => lease[k].state = "active"
      BY Zenon DEF OverdueLeases
    <2>2. lease'[k] = IF k \in OverdueLeases(r.at) THEN [lease[k] EXCEPT !.state = "expired"] ELSE lease[k]
      BY <1>4, Zenon DEF ReconcileEffect
    <2> QED BY <2>1, <2>2, Zenon DEF LeaseRows
  <1>5. PlanEffect(r) \/ BindEffect(r) \/ RetryEffect(r) => lease' = lease
    BY Zenon DEF PlanEffect, BindEffect, RetryEffect
  <1> QED BY <1>1, <1>2, <1>3, <1>4, <1>5, Zenon DEF Applies

\* A lease never reaches further than one period past the clock, however often it is
\* renewed: claims and heartbeats date it from the time their call was sampled.
THEOREM HorizonSafety == Spec => []LeaseHorizon
  <1>1. Init => LeaseHorizon
    BY DEF Init, StoreInit, NoLease, LeaseHorizon
  <1>2. ControlInv /\ LeaseHorizon /\ [Next]_vars => LeaseHorizon'
    <2> SUFFICES ASSUME StoreInv, StoreInv', CallInv, LeaseHorizon, [Next]_vars,
                        NEW k \in Tokens, lease'[k].state = "active"
                 PROVE  lease'[k].expires <= now' + LeaseDuration \/ lease'[k].expires <= now' + ExtendBy
      BY InvSplit, NextInv, Zenon DEF LeaseHorizon, ControlInv, TypeOK, StoreInv, StoreTypeOK
    <2>1. /\ now \in Nat /\ LeaseDuration \in Nat /\ ExtendBy \in Nat
          /\ lease[k].expires \in Nat /\ lease'[k].expires \in Nat
      BY TimeAssumption, Zenon DEF CallInv, StoreInv, StoreTypeOK, LeaseRows
    <2>2. CASE UNCHANGED <<asg, att, lease, ops>> /\ now' \in Nat /\ now <= now'
      BY <2>1, <2>2 DEF LeaseHorizon
    <2>3. ASSUME NEW r \in Calls, Applies(r), now' = now,
                 r.op \in {"claim", "heartbeat", "reconcile"} => r.at <= now
          PROVE  lease'[k].expires <= now' + LeaseDuration \/ lease'[k].expires <= now' + ExtendBy
      <3>1. CASE lease'[k] = lease[k]
        BY <2>3, <3>1, Zenon DEF LeaseHorizon
      <3>2. CASE r.op = "claim" /\ r.at \in Nat /\ lease'[k].expires = r.at + LeaseDuration
        BY <2>1, <2>3, <3>2, SMTT(30)
      <3>3. CASE r.op = "heartbeat" /\ r.at \in Nat /\ lease'[k].expires = r.at + ExtendBy
        BY <2>1, <2>3, <3>3
      <3> QED BY <2>3, <3>1, <3>2, <3>3, LeaseEffects, Zenon
    <2> QED BY <2>2, <2>3, StepKinds, Zenon
  <1> QED BY <1>1, <1>2, ControlSafety, PTL DEF Spec

\* A released or expired lease row is never written again, by whichever late call.
THEOREM ClosedLeaseSafety == Spec => ClosedLeasesStayClosed
  <1> DEFINE Kept == \A k \in Tokens : lease[k].state \in {"released", "expired"} => lease'[k] = lease[k]
  <1>1. ControlInv /\ [Next]_vars => [Kept]_vars
    <2> SUFFICES ASSUME StoreInv, CallInv, [Next]_vars, NEW k \in Tokens,
                        lease[k].state \in {"released", "expired"}
                 PROVE  lease'[k] = lease[k]
      BY InvSplit, Zenon
    <2> QED BY StepKinds, LeaseEffects, Zenon
  <1> HIDE DEF Kept
  <1>2. Spec => [][Kept]_vars
    BY <1>1, ControlSafety, PTL DEF Spec
  <1> QED BY <1>2, Zenon DEF ClosedLeasesStayClosed, Kept

\* A transaction that records its operation and writes the attempt it names only.
RecordsFirst(t) == \E id \in {o.id : o \in ops'} : id[2] = t /\ ~Recorded(id)

\* An operation that was not recorded is recorded for the first time.
LEMMA FirstRecord ==
    ASSUME NEW label, NEW t, NEW nonce, NEW digest, ~Recorded(OpId(label, t, nonce)),
           RecordOperation(OpId(label, t, nonce), digest)
    PROVE  RecordsFirst(t)
  <1> DEFINE id == OpId(label, t, nonce)
             o == [id |-> id, digest |-> digest]
  <1>1. o \in ops' /\ o.id = id
    BY Zenon DEF RecordOperation
  <1>2. id[2] = t
    BY Zenon DEF OpId
  <1> QED BY <1>1, <1>2, Zenon DEF RecordsFirst

\* A transaction other than reconciliation changes the attempt it names and no other,
\* and records an operation on that attempt for the first time.
LEMMA AttemptEffects ==
    ASSUME StoreInv, NEW r \in Calls, Applies(r), r \notin ReconcileRequests,
           NEW t \in Attempts, att'[t].state # att[t].state
    PROVE  RecordsFirst(t)
  <1> USE DEF StoreInv, StoreTypeOK
  <1>1. CASE PlanCommits(r) /\ PlanEffect(r)
    <2>1. t = r.t
      BY <1>1, Zenon DEF PlanEffect
    <2> QED BY <1>1, <2>1, FirstRecord, Zenon DEF PlanCommits, PlanEffect
  <1>2. CASE ClaimCommits(r) /\ ClaimEffect(r, LeaseDuration)
    <2>1. t = r.t
      BY <1>2, Zenon DEF ClaimEffect, UpdateAttemptState
    <2> QED BY <1>2, <2>1, FirstRecord, Zenon DEF ClaimCommits, ClaimEffect
  <1>3. CASE BindCommits(r) /\ BindEffect(r)
    <2>1. t = r.t
      BY <1>3, Zenon DEF BindEffect, UpdateAttemptState
    <2> QED BY <1>3, <2>1, FirstRecord, Zenon DEF BindCommits, BindEffect
  <1>4. CASE TransitionCommits(r) /\ TransitionEffect(r)
    <2>1. t = r.t
      BY <1>4, Zenon DEF TransitionEffect, UpdateAttemptState
    <2> QED BY <1>4, <2>1, FirstRecord, Zenon DEF TransitionCommits, TransitionEffect
  <1>5. CASE RetryCommits(r) /\ RetryEffect(r)
    <2>1. t = r.t
      BY <1>5, Zenon DEF RetryEffect
    <2> QED BY <1>5, <2>1, FirstRecord, Zenon DEF RetryCommits, RetryEffect
  <1>6. ~HeartbeatEffect(r, ExtendBy)
    BY Zenon DEF HeartbeatEffect
  <1> QED BY <1>1, <1>2, <1>3, <1>4, <1>5, <1>6, Zenon DEF Applies

\* A call is applied at most once: an attempt changes with the first record of an
\* operation on it, or because reconciliation found its lease run out.
THEOREM OnceSafety == Spec => AppliedOnce
  <1> DEFINE Once == \A t \in Attempts : att'[t].state # att[t].state =>
            \/ \E id \in {o.id : o \in ops'} : id[2] = t /\ ~Recorded(id)
            \/ att'[t].state = "expired" /\ LeaseRanOut(t)
  <1>1. ControlInv /\ [Next]_vars => [Once]_vars
    <2> SUFFICES ASSUME StoreInv, CallInv, [Next]_vars, NEW t \in Attempts, att'[t].state # att[t].state
                 PROVE  RecordsFirst(t) \/ (att'[t].state = "expired" /\ LeaseRanOut(t))
      BY InvSplit, Zenon DEF RecordsFirst
    <2>1. PICK r \in Calls : /\ Applies(r)
                             /\ r.op \in {"claim", "heartbeat", "reconcile"} => r.at <= now
      BY StepKinds, Zenon
    <2>2. CASE r \notin ReconcileRequests
      BY <2>1, <2>2, AttemptEffects, Zenon
    <2>3. CASE r \in ReconcileRequests
      <3>1. ReconcileEffect(r.at) /\ r.at \in Nat /\ r.at <= now
        <4>1. r.op = "reconcile" /\ r.at \in Nat
          BY <2>3, Zenon DEF ReconcileRequests
        <4>2. r \notin PlanRequests /\ r \notin ClaimRequests /\ r \notin BindRequests
          BY <4>1, Zenon DEF PlanRequests, ClaimRequests, BindRequests
        <4>3. r \notin TransitionRequests /\ r \notin HeartbeatRequests /\ r \notin RetryRequests
          BY <4>1, Zenon DEF TransitionRequests, HeartbeatRequests, RetryRequests
        <4> QED BY <2>1, <4>1, <4>2, <4>3, Zenon DEF Applies
      <3> QED BY <3>1, ExpiresOverdue, Zenon DEF CallInv
    <2> QED BY <2>2, <2>3, Zenon
  <1> HIDE DEF Once
  <1>2. Spec => [][Once]_vars
    BY <1>1, ControlSafety, PTL DEF Spec
  <1> QED BY <1>2, Zenon DEF AppliedOnce, Once

-----------------------------------------------------------------------------
(* The control service implements AssignmentLifecycle.                     *)

\* The abstract phase of each concrete state.
LEMMA PhaseValues ==
    /\ Phase("absent") = "unplanned"
    /\ Phase("planned") = "open"
    /\ \A s \in FencedStates : Phase(s) = "held"
    /\ \A s \in RetryableStates : Phase(s) = "closed"
    /\ Phase("accepted") = "accepted"
  <1>1. Phase("absent") = "unplanned" /\ Phase("planned") = "open" /\ Phase("accepted") = "accepted"
    BY Zenon DEF Phase, FencedStates
  <1>2. ASSUME NEW s \in FencedStates PROVE Phase(s) = "held"
    BY Zenon DEF Phase, FencedStates
  <1>3. ASSUME NEW s \in RetryableStates PROVE Phase(s) = "closed"
    BY Zenon DEF Phase, FencedStates, RetryableStates
  <1> QED BY <1>1, <1>2, <1>3, Zenon

PhaseOf == [a \in Assignments |-> Phase(asg[a].state)]

HolderOf == [a \in Assignments |-> asg[a].cur]

SpentOf == [a \in Assignments |-> {t \in Attempts : att[t].asg = a /\ asg[a].cur # t}]

\* An attempt without a row is fresh: no assignment holds it or has used it up.
LEMMA AbsentIsFresh ==
    ASSUME StoreInv, NEW t \in Attempts, att[t].state = "absent"
    PROVE  Lifecycle!Fresh(t)
  <1>1. att[t].asg = None
    BY Zenon DEF StoreInv, AbsentRows
  <1>2. \A a \in Assignments : asg[a].cur # t
    BY NoneAssumption DEF StoreInv, AbsentRows, CurrentAttemptAgreement, MirrorsCurrent
  <1> QED BY <1>1, <1>2, NoneAssumption, Zenon DEF Lifecycle!Fresh

\* Plan opens an assignment.
LEMMA PlanRefines ==
    ASSUME StoreInv, NEW r \in PlanRequests, PlanCommits(r), PlanEffect(r)
    PROVE  Lifecycle!LNext
  <1> USE NoneAssumption DEF PlanRequests, PlanCommits, PlanEffect
  <1>1. Lifecycle!Fresh(r.t)
    BY AbsentIsFresh, Zenon DEF AttemptInsertable
  <1>2. PhaseOf[r.a] = "unplanned" /\ PhaseOf' = [PhaseOf EXCEPT ![r.a] = "open"]
    BY PhaseValues, Zenon DEF PhaseOf, StoreInv, StoreTypeOK, AssignmentRows
  <1>3. HolderOf' = [HolderOf EXCEPT ![r.a] = r.t]
    BY Zenon DEF HolderOf, StoreInv, StoreTypeOK, AssignmentRows
  <1>4. SpentOf' = SpentOf
    <2>1. \A u \in Attempts : att[u].asg # r.a
      BY DEF StoreInv, CurrentAttemptAgreement, AbsentRows
    <2>2. att[r.t].asg = None
      BY Zenon DEF StoreInv, AbsentRows, AttemptInsertable
    <2> QED BY <2>1, <2>2 DEF SpentOf, StoreInv, StoreTypeOK, AttemptRows, AssignmentRows
  <1>8. Lifecycle!Open(r.a, r.t)
    BY <1>1, <1>2, <1>3, <1>4, Zenon DEF Lifecycle!Open, PhaseOf, HolderOf, SpentOf
  <1> QED BY <1>8, Zenon DEF Lifecycle!LNext

\* A write to the state columns of one attempt and its assignment changes neither
\* who holds what nor what is used up.
LEMMA UpdateKeepsHolders ==
    ASSUME StoreInv, NEW a \in Assignments, NEW t \in Attempts, NEW target, NEW gen, NEW rec,
           NEW res, UpdateAttemptState(a, t, target, gen, rec, res)
    PROVE  /\ HolderOf' = HolderOf
           /\ SpentOf' = SpentOf
           /\ PhaseOf' = [PhaseOf EXCEPT ![a] = Phase(target)]
  <1>1. \A b \in Assignments : /\ asg'[b].cur = asg[b].cur
                               /\ asg'[b].state = IF b = a THEN target ELSE asg[b].state
    BY DEF UpdateAttemptState, StoreInv, StoreTypeOK, AssignmentRows
  <1>2. \A u \in Attempts : att'[u].asg = att[u].asg
    BY DEF UpdateAttemptState, StoreInv, StoreTypeOK, AttemptRows
  <1> QED BY <1>1, <1>2, Zenon DEF HolderOf, SpentOf, PhaseOf

\* Claim makes an open assignment held.
LEMMA ClaimRefines ==
    ASSUME StoreInv, NEW r \in ClaimRequests, ClaimCommits(r), ClaimEffect(r, LeaseDuration)
    PROVE  Lifecycle!Move(r.a, "open", "held")
  <1>1. r.a \in Assignments /\ r.t \in Attempts /\ asg[r.a].state = "planned"
    BY Zenon DEF ClaimRequests, ClaimCommits, AttemptStateIs
  <1>2. HolderOf' = HolderOf /\ SpentOf' = SpentOf /\ PhaseOf' = [PhaseOf EXCEPT ![r.a] = Phase("leased")]
    BY <1>1, UpdateKeepsHolders, Zenon DEF ClaimEffect
  <1>3. PhaseOf[r.a] = "open" /\ Phase("leased") = "held"
    BY <1>1, PhaseValues, Zenon DEF PhaseOf, FencedStates
  <1> QED BY <1>2, <1>3, Zenon DEF Lifecycle!Move, PhaseOf, HolderOf, SpentOf

\* Binding resources is invisible to the lifecycle.
LEMMA BindRefines ==
    ASSUME StoreInv, NEW r \in BindRequests, BindCommits(r), BindEffect(r)
    PROVE  UNCHANGED Lifecycle!lifecycleVars
  <1>1. r.a \in Assignments /\ r.t \in Attempts /\ asg[r.a].state = "leased"
    BY Zenon DEF BindRequests, BindCommits, AttemptStateIs
  <1>2. HolderOf' = HolderOf /\ SpentOf' = SpentOf /\ PhaseOf' = [PhaseOf EXCEPT ![r.a] = Phase("preparing")]
    BY <1>1, UpdateKeepsHolders, Zenon DEF BindEffect
  <1>3. PhaseOf[r.a] = "held" /\ Phase("preparing") = "held"
    BY <1>1, PhaseValues, Zenon DEF PhaseOf, FencedStates
  <1>4. PhaseOf' = PhaseOf
    BY <1>2, <1>3, Zenon DEF PhaseOf
  <1> QED BY <1>2, <1>4, Zenon DEF Lifecycle!lifecycleVars, PhaseOf, HolderOf, SpentOf

\* A transition keeps a held assignment held, closes it or accepts it.
LEMMA TransitionRefines ==
    ASSUME StoreInv, NEW r \in TransitionRequests, TransitionCommits(r), TransitionEffect(r),
           r.expected \in FencedStates, ReduceAssignmentState(r.expected, r.target)
    PROVE  \/ UNCHANGED Lifecycle!lifecycleVars
           \/ Lifecycle!Move(r.a, "held", "closed")
           \/ Lifecycle!Move(r.a, "held", "accepted")
  <1>1. r.a \in Assignments /\ r.t \in Attempts /\ asg[r.a].state = r.expected
    BY Zenon DEF TransitionRequests, TransitionCommits, AttemptStateIs
  <1>2. HolderOf' = HolderOf /\ SpentOf' = SpentOf /\ PhaseOf' = [PhaseOf EXCEPT ![r.a] = Phase(r.target)]
    BY <1>1, UpdateKeepsHolders, Zenon DEF TransitionEffect
  <1>3. PhaseOf[r.a] = "held"
    BY <1>1, PhaseValues, Zenon DEF PhaseOf
  <1>4. Phase(r.target) \in {"held", "closed", "accepted"}
    BY PhaseValues, TargetsOfFenced, Zenon DEF TerminalStates
  <1>5. CASE Phase(r.target) = "held"
    <2>1. PhaseOf' = PhaseOf
      BY <1>2, <1>3, <1>5, Zenon DEF PhaseOf
    <2> QED BY <1>2, <2>1, Zenon DEF Lifecycle!lifecycleVars, PhaseOf, HolderOf, SpentOf
  <1>6. CASE Phase(r.target) = "closed"
    BY <1>2, <1>3, <1>6, Zenon DEF Lifecycle!Move, PhaseOf, HolderOf, SpentOf
  <1>7. CASE Phase(r.target) = "accepted"
    BY <1>2, <1>3, <1>7, Zenon DEF Lifecycle!Move, PhaseOf, HolderOf, SpentOf
  <1> QED BY <1>4, <1>5, <1>6, <1>7, Zenon

\* Retry reopens a closed assignment with a fresh attempt.
LEMMA RetryRefines ==
    ASSUME StoreInv, NEW r \in RetryRequests, RetryCommits(r), RetryEffect(r)
    PROVE  Lifecycle!LNext
  <1> USE NoneAssumption DEF RetryRequests, RetryCommits, RetryEffect
  <1>1. Lifecycle!Fresh(r.t)
    BY AbsentIsFresh, Zenon DEF AttemptInsertable
  <1>2. asg[r.a].state \in RetryableStates
    BY DEF StoreInv, CurrentAttemptAgreement, MirrorsCurrent
  <1>3. PhaseOf[r.a] = "closed" /\ PhaseOf' = [PhaseOf EXCEPT ![r.a] = "open"]
    BY <1>2, PhaseValues, Zenon DEF PhaseOf, StoreInv, StoreTypeOK, AssignmentRows
  <1>c. \A b \in Assignments : asg'[b].cur = IF b = r.a THEN r.t ELSE asg[b].cur
    BY DEF StoreInv, StoreTypeOK, AssignmentRows
  <1>4. HolderOf' = [HolderOf EXCEPT ![r.a] = r.t]
    BY <1>c, Zenon DEF HolderOf
  <1>5. SpentOf' = [SpentOf EXCEPT ![r.a] = @ \cup {HolderOf[r.a]}]
    <2>1. att[r.t].asg = None /\ r.prev # r.t /\ att[r.prev].asg = r.a
      BY DEF StoreInv, AbsentRows, AttemptInsertable, CurrentAttemptAgreement, MirrorsCurrent, RetryableStates
    <2>2. \A u \in Attempts : att'[u].asg = IF u = r.t THEN r.a ELSE att[u].asg
      BY Zenon DEF StoreInv, StoreTypeOK, AttemptRows
    <2>4. ASSUME NEW b \in Assignments
          PROVE  {u \in Attempts : att'[u].asg = b /\ asg'[b].cur # u}
                    = IF b = r.a THEN SpentOf[b] \cup {HolderOf[b]} ELSE SpentOf[b]
      BY <1>c, <2>1, <2>2 DEF SpentOf, HolderOf
    <2>5. \A b \in Assignments :
            SpentOf'[b] = IF b = r.a THEN SpentOf[b] \cup {HolderOf[b]} ELSE SpentOf[b]
      BY <2>4, Zenon DEF SpentOf
    <2>6. SpentOf = [b \in Assignments |-> SpentOf[b]] /\ SpentOf' = [b \in Assignments |-> SpentOf'[b]]
      BY Zenon DEF SpentOf
    <2> HIDE DEF RetryEffect, RetryCommits
    <2> QED BY <2>5, <2>6, Zenon
  <1>8. Lifecycle!Reopen(r.a, r.t)
    BY <1>1, <1>3, <1>4, <1>5, Zenon DEF Lifecycle!Reopen, PhaseOf, HolderOf, SpentOf
  <1> QED BY <1>8, Zenon DEF Lifecycle!LNext

\* Reconciliation closes every assignment whose holder is overdue, and no other.
LEMMA ReconcileRefines ==
    ASSUME StoreInv, NEW at \in Nat, ReconcileEffect(at)
    PROVE  \E lost \in SUBSET Assignments : Lifecycle!Expire(lost)
  <1> DEFINE lost == {a \in Assignments : asg[a].state \in LiveStates /\ Overdue(a, at)}
  <1>1. HolderOf' = HolderOf /\ SpentOf' = SpentOf
    <2>1. \A a \in Assignments : asg'[a].cur = asg[a].cur
      BY Zenon DEF ReconcileEffect, StoreInv, StoreTypeOK, AssignmentRows
    <2>2. \A t \in Attempts : att'[t].asg = att[t].asg
      BY Zenon DEF ReconcileEffect, StoreInv, StoreTypeOK, AttemptRows
    <2> QED BY <2>1, <2>2, Zenon DEF HolderOf, SpentOf
  <1>2. \A a \in lost : PhaseOf[a] = "held"
    <2> TAKE a \in lost
    <2>1. PICK k \in Tokens : lease[k].att = asg[a].cur /\ lease[k].state = "active"
      BY Zenon DEF Overdue, OverdueLeases
    <2>2. asg[a].state \in FencedStates
      BY <2>1 DEF StoreInv, LeaseAgreement, CurrentAttemptAgreement, MirrorsCurrent, LiveStates, FencedStates
    <2> QED BY <2>2, PhaseValues, Zenon DEF PhaseOf
  <1>3. \A a \in Assignments : asg'[a].state = IF a \in lost THEN "expired" ELSE asg[a].state
    BY Zenon DEF ReconcileEffect, ReconciledState, StoreInv, StoreTypeOK, AssignmentRows
  <1>4. Phase("expired") = "closed"
    BY PhaseValues, Zenon DEF RetryableStates
  <1>5. PhaseOf' = [a \in Assignments |-> IF a \in lost THEN "closed" ELSE PhaseOf[a]]
    BY <1>3, <1>4, Zenon DEF PhaseOf
  <1>6. Lifecycle!Expire(lost)
    BY <1>1, <1>2, <1>5, Zenon DEF Lifecycle!Expire, PhaseOf, HolderOf, SpentOf
  <1> QED BY <1>6, Zenon

-----------------------------------------------------------------------------
\* Whatever leaves the assignment and attempt tables alone is no lifecycle step.
LEMMA TablesAloneStutter ==
    ASSUME UNCHANGED <<asg, att>>
    PROVE  UNCHANGED Lifecycle!lifecycleVars
  BY DEF Lifecycle!lifecycleVars, Phase

\* Every step of the service is a step of the lifecycle or none.
LEMMA StepRefines ==
    ASSUME StoreInv, CallInv, [Next]_vars
    PROVE  [Lifecycle!LNext]_(Lifecycle!lifecycleVars)
  <1>1. CASE UNCHANGED <<asg, att>>
    BY <1>1, TablesAloneStutter, Zenon
  <1>2. CASE ~UNCHANGED <<asg, att>>
    <2>1. PICK c \in Callers : CallStep(c)
      BY <1>2, Zenon DEF Next, Tick, vars
    <2> DEFINE r == call[c]
    <2>2. r \in Calls
      BY Zenon DEF CallInv
    <2>3. CASE CommitPlan(c)
      <3>1. r \in PlanRequests /\ PlanCommits(r) /\ PlanEffect(r)
        BY <1>2, <2>2, <2>3, CallKinds, Zenon DEF CommitPlan, Refuse
      <3> QED BY <3>1, PlanRefines, Zenon
    <2>4. CASE CommitClaim(c)
      <3>1. r \in ClaimRequests /\ ClaimCommits(r) /\ ClaimEffect(r, LeaseDuration)
        BY <1>2, <2>2, <2>4, CallKinds, Zenon DEF CommitClaim, Refuse
      <3>2. Lifecycle!Move(r.a, "open", "held") /\ r.a \in Assignments
        BY <3>1, ClaimRefines, Zenon DEF ClaimRequests
      <3> QED BY <3>2, Zenon DEF Lifecycle!LNext
    <2>5. CASE CommitBindResources(c)
      <3>1. r \in BindRequests /\ BindCommits(r) /\ BindEffect(r)
        BY <1>2, <2>2, <2>5, CallKinds, Zenon DEF CommitBindResources, Refuse
      <3> QED BY <3>1, BindRefines, Zenon
    <2>6. CASE CommitTransition(c)
      <3>1. r \in TransitionRequests /\ r.expected \in FencedStates /\ ReduceAssignmentState(r.expected, r.target)
        BY <2>2, <2>6, CallKinds, Zenon DEF CommitTransition, CallInv, AdmittedCalls
      <3>2. TransitionCommits(r) /\ TransitionEffect(r)
        BY <1>2, <2>6, Zenon DEF CommitTransition, Refuse
      <3>3. r.a \in Assignments
        BY <3>1, Zenon DEF TransitionRequests
      <3>4. \/ UNCHANGED Lifecycle!lifecycleVars
            \/ Lifecycle!Move(r.a, "held", "closed")
            \/ Lifecycle!Move(r.a, "held", "accepted")
        BY <3>1, <3>2, TransitionRefines, Zenon
      <3> QED BY <3>3, <3>4, Zenon DEF Lifecycle!LNext
    <2>7. CASE CommitRetry(c)
      <3>1. r \in RetryRequests /\ RetryCommits(r) /\ RetryEffect(r)
        BY <1>2, <2>2, <2>7, CallKinds, Zenon DEF CommitRetry, Refuse
      <3> QED BY <3>1, RetryRefines, Zenon
    <2>8. CASE CommitReconcile(c)
      <3>1. r.at \in Nat /\ ReconcileEffect(r.at)
        BY <2>2, <2>8, CallKinds, Zenon DEF CommitReconcile, ReconcileRequests
      <3>2. \E lost \in SUBSET Assignments : Lifecycle!Expire(lost)
        BY <3>1, ReconcileRefines, Zenon
      <3> QED BY <3>2, Zenon DEF Lifecycle!LNext
    <2>9. CommitPlan(c) \/ CommitClaim(c) \/ CommitBindResources(c) \/ CommitTransition(c)
          \/ CommitRetry(c) \/ CommitReconcile(c)
      <3>1. ~(\E request : Begin(c, request))
        BY <1>2, Zenon DEF Begin
      <3>2. /\ ~BeginPlan(c) /\ ~BeginClaim(c) /\ ~BeginBindResources(c) /\ ~BeginTransition(c)
            /\ ~BeginHeartbeat(c) /\ ~BeginRetry(c) /\ ~BeginReconcile(c)
        BY <3>1, ZenonT(60) DEF BeginPlan, BeginClaim, BeginBindResources, BeginTransition, BeginHeartbeat,
                                BeginRetry, BeginReconcile
      <3>3. ~CommitHeartbeat(c) /\ ~Abandon(c)
        BY <1>2, Zenon DEF CommitHeartbeat, HeartbeatEffect, Refuse, Abandon
      <3> QED BY <2>1, <3>2, <3>3, Zenon DEF CallStep
    <2> QED BY <2>3, <2>4, <2>5, <2>6, <2>7, <2>8, <2>9, Zenon
  <1> QED BY <1>1, <1>2, Zenon

\* The empty tables are the abstract initial state.
LEMMA InitRefines == Init => Lifecycle!LInit
  <1> SUFFICES ASSUME Init PROVE Lifecycle!LInit
    BY Zenon
  <1>1. \A a \in Assignments : asg[a].state = "absent" /\ asg[a].cur = None
    BY Zenon DEF Init, StoreInit, NoAssignment
  <1>2. \A t \in Attempts : att[t].asg = None
    BY Zenon DEF Init, StoreInit, NoAttempt
  <1> QED BY <1>1, <1>2, PhaseValues, NoneAssumption, Zenon DEF Lifecycle!LInit

\* The control service, with every race between its callers, implements the
\* abstract lifecycle: one holder at a time, every attempt handed out once, a new
\* one only after the last was closed, acceptance final.
THEOREM LifecycleRefinement == Spec => ImplementsLifecycle
  <1>1. ControlInv /\ [Next]_vars => [Lifecycle!LNext]_(Lifecycle!lifecycleVars)
    BY InvSplit, StepRefines, Zenon
  <1> QED BY <1>1, InitRefines, ControlSafety, PTL DEF Spec, ImplementsLifecycle, Lifecycle!LSpec
=============================================================================
