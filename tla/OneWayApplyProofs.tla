------------------------- MODULE OneWayApplyProofs -------------------------
(***************************************************************************)
(* Proofs about OneWayApply for every history of revisions, every target   *)
(* share, any number of concurrent calls, local edits, errors and crashes. *)
(***************************************************************************)
EXTENDS OneWayApply, FiniteSetTheorems, TLAPS

CallRecords == [pc : Steps, rev : Revisions, target : Pointers]

\* The type invariant without the count of lock holders.
ColumnsTyped ==
    /\ site \in Sites /\ dest \in Contents
    /\ ready \in [Revisions -> Contents]
    /\ intent \in [Revisions -> Pointers \cup {Absent}]
    /\ history \in [Revisions -> Contents]
    /\ index \in Pointers
    /\ accepted \subseteq Revisions
    /\ tombstones \subseteq accepted
    /\ works \subseteq Works
    /\ app \in [Appliers -> {Idle} \cup CallRecords]
    /\ edits \in 0 .. MaxEdits /\ faults \in 0 .. site.faults

\* The path lock excludes every other call.
Exclusive == \A a, b \in Appliers : Holds(a) /\ Holds(b) => a = b

\* What the holder of the lock knows between its steps: from the inspection to the
\* commit its intent is on disk; it moves the destination only to a history path that
\* is empty and installs only where nothing is left; it commits what it has verified.
HolderKnows(a) ==
    LET r == app[a].rev IN
    /\ app[a].pc \in {"inspect", "preserve", "install", "verify", "commit"} => intent[r] # Absent
    /\ app[a].pc = "preserve" => history[r] = Absent
    /\ app[a].pc = "install" => dest = Absent
    /\ app[a].pc \in {"commit", "tidyIntent"} => VerifyTerminal(r)
    /\ app[a].pc = "tidyIntent" => index = r

\* The inductive invariant.
PathInv ==
    /\ ColumnsTyped
    /\ Exclusive
    /\ \A a \in Appliers : HolderKnows(a)
    /\ SettledAgrees

-----------------------------------------------------------------------------
\* A call in progress has a revision and a target.
LEMMA BusyCall ==
    ASSUME ColumnsTyped, NEW a \in Appliers, app[a].pc # "idle"
    PROVE  app[a] \in CallRecords /\ app[a].rev \in Revisions /\ app[a].target \in Pointers
  BY DEF ColumnsTyped, Idle, CallRecords

\* Every revision has a content.
LEMMA ContentTyped == /\ Absent \in Contents /\ "dir" \in Contents
                      /\ \A r \in Revisions : Content[r] \in Contents
  <1>1. Absent \in Contents /\ "dir" \in Contents
    BY Zenon DEF Contents, Directories
  <1>2. \A r \in Revisions : Content[r] \in Contents
    BY Zenon DEF Contents
  <1> QED BY <1>1, <1>2, Zenon

\* The inductive invariant holds at the start.
LEMMA InitPath == Init => PathInv
  <1> SUFFICES ASSUME Init PROVE PathInv
    BY Zenon
  <1>0. /\ site \in Sites /\ site.accepted \subseteq Revisions
        /\ site.current \in site.accepted \cup {NoRevision} /\ site.faults \in Nat
    BY SiteAssumption, Zenon DEF Init
  <1>1. dest \in Contents
    BY <1>0, ContentTyped, Zenon DEF Init
  <1>2. ColumnsTyped
    BY <1>0, <1>1, ContentTyped, EditsAssumption DEF Init, ColumnsTyped, Pointers
  <1>3. \A a \in Appliers : app[a].pc = "idle"
    BY Zenon DEF Init, Idle
  <1>4. Exclusive /\ \A a \in Appliers : HolderKnows(a)
    BY <1>3, Zenon DEF Exclusive, HolderKnows, Holds
  <1>5. SettledAgrees
    BY <1>0, RevisionAssumption, Zenon DEF Init, SettledAgrees, Tracked, Matches, IsDeletion, IsDirectory, Directories, Absent
  <1> QED BY <1>2, <1>4, <1>5, Zenon DEF PathInv

\* A call moves on to another step, or returns.
LEMMA Moved ==
    ASSUME ColumnsTyped, NEW a \in Appliers, app[a].pc # "idle", NEW pc \in Steps, Goto(a, pc)
    PROVE  /\ app' \in [Appliers -> {Idle} \cup CallRecords]
           /\ \A b \in Appliers \ {a} : app'[b] = app[b]
           /\ app'[a].pc = pc /\ app'[a].rev = app[a].rev /\ app'[a].target = app[a].target
  <1>1. app[a] \in CallRecords
    BY BusyCall, Zenon
  <1>2. [app[a] EXCEPT !.pc = pc] \in CallRecords
    BY <1>1, Zenon DEF CallRecords
  <1>3. app' = [app EXCEPT ![a] = [app[a] EXCEPT !.pc = pc]]
    BY Zenon DEF Goto
  <1>4. app' \in [Appliers -> {Idle} \cup CallRecords]
    BY <1>2, <1>3, Zenon DEF ColumnsTyped
  <1>5. app'[a] = [app[a] EXCEPT !.pc = pc] /\ \A b \in Appliers \ {a} : app'[b] = app[b]
    BY <1>3, Zenon DEF ColumnsTyped
  <1> QED BY <1>1, <1>4, <1>5, Zenon DEF CallRecords

\* A call returns.
LEMMA Returned ==
    ASSUME ColumnsTyped, NEW a \in Appliers, Return(a)
    PROVE  /\ app' \in [Appliers -> {Idle} \cup CallRecords]
           /\ \A b \in Appliers \ {a} : app'[b] = app[b]
           /\ app'[a] = Idle /\ app'[a].pc = "idle"
  <1>1. app'[a] = Idle /\ (\A b \in Appliers \ {a} : app'[b] = app[b])
        /\ app' \in [Appliers -> {Idle} \cup CallRecords]
    BY Zenon DEF Return, ColumnsTyped
  <1> QED BY <1>1 DEF Idle

\* A step of the lock holder: the others do not hold the lock and know nothing, so
\* only what the holder knows afterwards matters.
LEMMA HolderStep ==
    ASSUME Exclusive, NEW a \in Appliers, Holds(a),
           \A b \in Appliers \ {a} : app'[b] = app[b], HolderKnows(a)'
    PROVE  Exclusive' /\ \A b \in Appliers : HolderKnows(b)'
  <1>1. \A b \in Appliers \ {a} : app'[b].pc \in {"idle", "lock"}
    BY Zenon DEF Exclusive, Holds
  <1>2. Exclusive'
    BY <1>1, Zenon DEF Exclusive, Holds
  <1>3. \A b \in Appliers \ {a} : HolderKnows(b)'
    BY <1>1, Zenon DEF HolderKnows
  <1> QED BY <1>2, <1>3, Zenon

\* A step by someone who does not hold the lock and leaves the files alone that the
\* holder knows about.
LEMMA OtherStep ==
    ASSUME Exclusive, \A a \in Appliers : HolderKnows(a),
           UNCHANGED <<dest, intent, history, index>>,
           \A b \in Appliers : app'[b] = app[b] \/ app'[b].pc \in {"idle", "lock"}
    PROVE  Exclusive' /\ \A b \in Appliers : HolderKnows(b)'
  <1>1. Exclusive'
    BY Zenon DEF Exclusive, Holds
  <1>2. ASSUME NEW b \in Appliers PROVE HolderKnows(b)'
    <2>1. CASE app'[b] = app[b]
      BY <2>1, Zenon DEF HolderKnows, VerifyTerminal
    <2>2. CASE app'[b].pc \in {"idle", "lock"}
      BY <2>2, Zenon DEF HolderKnows
    <2> QED BY <2>1, <2>2, Zenon
  <1> QED BY <1>1, <1>2, Zenon

\* Disk and index keep agreeing in a step that moves neither and removes no intent.
LEMMA AgreesKept ==
    ASSUME SettledAgrees, UNCHANGED <<dest, index, edits>>,
           \A r \in Revisions : intent'[r] = Absent => intent[r] = Absent
    PROVE  SettledAgrees'
  BY Zenon DEF SettledAgrees

-----------------------------------------------------------------------------
\* The steps of a call that only read: they move the call on or end it.
LEMMA ReadsPreserve ==
    ASSUME PathInv, NEW a \in Appliers, Holds(a), UNCHANGED <<site, files, tables, works, counters>>,
           NEW pc, GotoOrFail(a, pc), pc \in Steps \cup {"fail"},
           pc \in {"inspect", "preserve", "install", "verify", "commit"} => intent[app[a].rev] # Absent,
           pc = "preserve" => history[app[a].rev] = Absent,
           pc = "install" => dest = Absent,
           pc \in {"commit", "tidyIntent"} => VerifyTerminal(app[a].rev),
           pc = "tidyIntent" => index = app[a].rev
    PROVE  PathInv'
  <1> USE DEF PathInv, files, tables, counters
  <1>0. app[a].pc # "idle"
    BY Zenon DEF Holds
  <1>1. CASE pc = "fail" /\ Return(a)
    <2>1. ColumnsTyped'
      BY <1>1, Returned, Zenon DEF ColumnsTyped
    <2>2. Exclusive' /\ \A b \in Appliers : HolderKnows(b)'
      BY <1>1, Returned, OtherStep, Zenon
    <2> QED BY <2>1, <2>2, AgreesKept, Zenon
  <1>2. CASE pc \in Steps /\ Goto(a, pc)
    <2>1. ColumnsTyped'
      BY <1>0, <1>2, Moved, Zenon DEF ColumnsTyped
    <2>2. HolderKnows(a)'
      BY <1>0, <1>2, Moved, Zenon DEF HolderKnows, VerifyTerminal
    <2>3. Exclusive' /\ \A b \in Appliers : HolderKnows(b)'
      BY <1>0, <1>2, <2>2, Moved, HolderStep, Zenon
    <2> QED BY <2>1, <2>3, AgreesKept, Zenon
  <1>3. "fail" \notin Steps
    BY Zenon DEF Steps
  <1> QED BY <1>1, <1>2, <1>3, Zenon DEF GotoOrFail

\* What the inspection of the path establishes before its first rename.
LEMMA InspectAnswers ==
    ASSUME NEW w
    PROVE  /\ Inspect(w) \in {"fail", "verify", "preserve", "install"}
           /\ Inspect(w) = "preserve" => history[w.rev] = Absent
           /\ Inspect(w) = "install" => dest = Absent
  BY Zenon DEF Inspect

\* The path lock is taken.
LEMMA LockPathPreserves ==
    ASSUME PathInv, NEW a \in Appliers, LockPath(a)
    PROVE  PathInv'
  <1> USE DEF PathInv, files, tables, counters, LockPath
  <1>0. app[a].pc # "idle" /\ "check" \in Steps
    BY Zenon DEF Steps
  <1>1. ColumnsTyped'
    BY <1>0, Moved, Zenon DEF ColumnsTyped
  <1>2. \A b \in Appliers \ {a} : app'[b].pc \in {"idle", "lock"}
    BY <1>0, Moved, Zenon DEF Holds
  <1>3. Exclusive'
    BY <1>2, Zenon DEF Exclusive, Holds
  <1>4. \A b \in Appliers : HolderKnows(b)'
    BY <1>0, <1>2, Moved DEF HolderKnows
  <1> QED BY <1>1, <1>3, <1>4, AgreesKept, Zenon

\* The applied, conflicting and unknown cases are told apart.
LEMMA CheckPreserves ==
    ASSUME PathInv, NEW a \in Appliers, Check(a)
    PROVE  PathInv'
  <1> DEFINE w == app[a]
             pc == CASE index = w.rev -> IF VerifyTerminal(w.rev) THEN "tidyIntent" ELSE "fail"
                     [] index # w.rev /\ index # w.target -> "fail"
                     [] OTHER ->
                          IF intent[w.rev] # Absent
                          THEN IF intent[w.rev] = w.target THEN "inspect" ELSE "fail"
                          ELSE IF VerifyInitial(w) THEN "write" ELSE "fail"
  <1>1. /\ pc \in {"tidyIntent", "fail", "inspect", "write"}
        /\ pc = "tidyIntent" => index = w.rev /\ VerifyTerminal(w.rev)
        /\ pc = "inspect" => intent[w.rev] # Absent
    BY Zenon
  <1>2. GotoOrFail(a, pc) /\ UNCHANGED <<site, files, tables, works, counters>> /\ Holds(a)
    BY Zenon DEF Check, Holds
  <1> HIDE DEF pc
  <1> QED BY <1>1, <1>2, ReadsPreserve, Zenon DEF Steps

\* The path is inspected.
LEMMA InspectPreserves ==
    ASSUME PathInv, NEW a \in Appliers, InspectPath(a)
    PROVE  PathInv'
  <1>1. GotoOrFail(a, Inspect(app[a])) /\ UNCHANGED <<site, files, tables, works, counters>> /\ Holds(a)
    BY Zenon DEF InspectPath, Holds
  <1>2. intent[app[a].rev] # Absent
    BY Zenon DEF InspectPath, PathInv, HolderKnows
  <1> QED BY <1>1, <1>2, InspectAnswers, ReadsPreserve, Zenon DEF Steps

\* The installed content is verified.
LEMMA VerifyPreserves ==
    ASSUME PathInv, NEW a \in Appliers, Verify(a)
    PROVE  PathInv'
  <1> DEFINE pc == IF VerifyTerminal(app[a].rev) THEN "commit" ELSE "fail"
  <1>1. GotoOrFail(a, pc) /\ UNCHANGED <<site, files, tables, works, counters>> /\ Holds(a)
    BY Zenon DEF Verify, Holds
  <1>2. intent[app[a].rev] # Absent
    BY Zenon DEF Verify, PathInv, HolderKnows
  <1> QED BY <1>1, <1>2, ReadsPreserve, Zenon DEF Steps

\* The intent is recorded before anything is moved.
LEMMA WriteIntentPreserves ==
    ASSUME PathInv, NEW a \in Appliers, WriteIntent(a)
    PROVE  PathInv'
  <1> USE DEF PathInv, tables, counters
  <1> DEFINE r == app[a].rev
  <1>0. /\ app[a].pc = "write" /\ app[a].pc # "idle" /\ Holds(a) /\ "inspect" \in Steps
        /\ r \in Revisions /\ app[a].target \in Pointers /\ app[a].target # Absent
    BY BusyCall, RevisionAssumption, Zenon DEF WriteIntent, Holds, Steps, Pointers, NoRevision, Absent
  <1>1. CASE intent[r] = Absent
    <2>1. intent' = [intent EXCEPT ![r] = app[a].target] /\ Goto(a, "inspect")
      BY <1>1, Zenon DEF WriteIntent
    <2>2. ColumnsTyped'
      BY <1>0, <2>1, Moved, Zenon DEF ColumnsTyped, WriteIntent
    <2>3. HolderKnows(a)'
      BY <1>0, <2>1, Moved, Zenon DEF HolderKnows, ColumnsTyped
    <2>4. Exclusive' /\ \A b \in Appliers : HolderKnows(b)'
      BY <1>0, <2>1, <2>3, Moved, HolderStep, Zenon
    <2>5. \A q \in Revisions : intent'[q] = Absent => intent[q] = Absent
      BY <1>0, <2>1, Zenon DEF ColumnsTyped
    <2> QED BY <2>2, <2>4, <2>5, AgreesKept, Zenon DEF WriteIntent
  <1>2. CASE intent[r] # Absent
    <2>1. Return(a) /\ UNCHANGED <<site, dest, ready, intent, history, tables, works, counters>>
      BY <1>2, Zenon DEF WriteIntent
    <2>2. ColumnsTyped'
      BY <2>1, Returned, Zenon DEF ColumnsTyped
    <2>3. Exclusive' /\ \A b \in Appliers : HolderKnows(b)'
      BY <2>1, Returned, OtherStep, Zenon
    <2> QED BY <2>1, <2>2, <2>3, AgreesKept, Zenon
  <1> QED BY <1>1, <1>2, Zenon

\* While an intent is on disk the agreement of disk and index is not claimed.
LEMMA IntentExcuses ==
    ASSUME NEW r \in Revisions, intent'[r] # Absent
    PROVE  SettledAgrees'
  BY Zenon DEF SettledAgrees

\* What was at the path goes to history.
LEMMA PreservePreserves ==
    ASSUME PathInv, NEW a \in Appliers, Preserve(a)
    PROVE  PathInv'
  <1> USE DEF PathInv, tables, counters
  <1> DEFINE r == app[a].rev
             pc == IF IsDeletion(r) THEN "verify" ELSE "install"
  <1>0. /\ app[a].pc = "preserve" /\ app[a].pc # "idle" /\ Holds(a) /\ pc \in Steps
        /\ r \in Revisions /\ intent[r] # Absent /\ intent' = intent
    BY BusyCall, Zenon DEF Preserve, Holds, Steps, HolderKnows
  <1>1. CASE dest = Absent
    <2>1. Return(a) /\ UNCHANGED <<site, dest, ready, intent, history, tables, works, counters>>
      BY <1>1, Zenon DEF Preserve
    <2>2. ColumnsTyped'
      BY <2>1, Returned, Zenon DEF ColumnsTyped
    <2>3. Exclusive' /\ \A b \in Appliers : HolderKnows(b)'
      BY <2>1, Returned, OtherStep, Zenon
    <2> QED BY <2>1, <2>2, <2>3, AgreesKept, Zenon
  <1>2. CASE dest # Absent
    <2>1. history' = [history EXCEPT ![r] = dest] /\ dest' = Absent /\ Goto(a, pc)
      BY <1>2, Zenon DEF Preserve
    <2>2. ColumnsTyped'
      BY <1>0, <2>1, Moved, ContentTyped, Zenon DEF ColumnsTyped, Preserve
    <2>3. HolderKnows(a)'
      <3>1. pc \in {"verify", "install"}
        BY Zenon
      <3> HIDE DEF pc
      <3> QED BY <1>0, <2>1, <3>1, Moved, Zenon DEF HolderKnows
    <2>4. Exclusive' /\ \A b \in Appliers : HolderKnows(b)'
      BY <1>0, <2>1, <2>3, Moved, HolderStep, Zenon
    <2> QED BY <1>0, <2>2, <2>4, IntentExcuses, Zenon
  <1> QED BY <1>1, <1>2, Zenon

\* The ready file goes to the path.
LEMMA InstallPreserves ==
    ASSUME PathInv, NEW a \in Appliers, Install(a)
    PROVE  PathInv'
  <1> USE DEF PathInv, tables, counters
  <1> DEFINE r == app[a].rev
  <1>0. /\ app[a].pc = "install" /\ app[a].pc # "idle" /\ Holds(a) /\ "verify" \in Steps
        /\ r \in Revisions /\ intent[r] # Absent /\ intent' = intent
        /\ UNCHANGED <<site, intent, history, tables, works, counters>>
    BY BusyCall, Zenon DEF Install, Holds, Steps, HolderKnows
  <1>1. CASE Return(a) /\ UNCHANGED <<dest, ready>>
    <2>2. ColumnsTyped'
      BY <1>0, <1>1, Returned, Zenon DEF ColumnsTyped
    <2>3. Exclusive' /\ \A b \in Appliers : HolderKnows(b)'
      BY <1>0, <1>1, Returned, OtherStep, Zenon
    <2> QED BY <1>0, <1>1, <2>2, <2>3, AgreesKept, Zenon
  <1>2. CASE Goto(a, "verify") /\ dest' \in Contents /\ ready' \in [Revisions -> Contents]
    <2>2. ColumnsTyped'
      BY <1>0, <1>2, Moved, Zenon DEF ColumnsTyped
    <2>3. HolderKnows(a)'
      BY <1>0, <1>2, Moved, Zenon DEF HolderKnows
    <2>4. Exclusive' /\ \A b \in Appliers : HolderKnows(b)'
      BY <1>0, <1>2, <2>3, Moved, HolderStep, Zenon
    <2> QED BY <1>0, <2>2, <2>4, IntentExcuses, Zenon
  <1>3. \/ Return(a) /\ UNCHANGED <<dest, ready>>
        \/ Goto(a, "verify") /\ dest' \in Contents /\ ready' \in [Revisions -> Contents]
    BY <1>0, ContentTyped DEF Install, ColumnsTyped
  <1> QED BY <1>1, <1>2, <1>3, Zenon

\* The transaction moves the index to what the path holds.
LEMMA CommitPreserves ==
    ASSUME PathInv, NEW a \in Appliers, Commit(a)
    PROVE  PathInv'
  <1> USE DEF PathInv, files, counters
  <1> DEFINE w == app[a]
             r == app[a].rev
  <1>0. /\ app[a].pc = "commit" /\ app[a].pc # "idle" /\ Holds(a) /\ "tidyIntent" \in Steps
        /\ r \in Revisions /\ intent[r] # Absent /\ VerifyTerminal(r)
        /\ UNCHANGED <<site, files, works, counters>>
    BY BusyCall, Zenon DEF Commit, Holds, Steps, HolderKnows
  <1>1. CASE Return(a) /\ UNCHANGED tables
    <2>2. ColumnsTyped'
      BY <1>0, <1>1, Returned, Zenon DEF ColumnsTyped, tables
    <2>3. Exclusive' /\ \A b \in Appliers : HolderKnows(b)'
      BY <1>0, <1>1, Returned, OtherStep, Zenon DEF tables
    <2> QED BY <1>0, <1>1, <2>2, <2>3, AgreesKept, Zenon DEF tables
  <1>2. CASE /\ Goto(a, "tidyIntent") /\ index' = r
             /\ accepted' \subseteq Revisions /\ tombstones' \subseteq accepted'
    <2>2. ColumnsTyped'
      BY <1>0, <1>2, Moved, Zenon DEF ColumnsTyped, Pointers
    <2>3. HolderKnows(a)'
      BY <1>0, <1>2, Moved, Zenon DEF HolderKnows, VerifyTerminal
    <2>4. Exclusive' /\ \A b \in Appliers : HolderKnows(b)'
      BY <1>0, <1>2, <2>3, Moved, HolderStep, Zenon
    <2> QED BY <1>0, <2>2, <2>4, IntentExcuses, Zenon
  <1>3. \/ Return(a) /\ UNCHANGED tables
        \/ /\ Goto(a, "tidyIntent") /\ index' = r
           /\ accepted' \subseteq Revisions /\ tombstones' \subseteq accepted'
    BY <1>0, Zenon DEF Commit, AlreadyRecorded, ColumnsTyped, tables
  <1> QED BY <1>1, <1>2, <1>3, Zenon

\* Intent and ready file are removed.
LEMMA TidyPreserves ==
    ASSUME PathInv, NEW a \in Appliers, TidyIntent(a) \/ TidyReady(a)
    PROVE  PathInv'
  <1> USE DEF PathInv, tables, counters
  <1>1. CASE TidyIntent(a)
    <2>0. /\ app[a].pc = "tidyIntent" /\ app[a].pc # "idle" /\ Holds(a) /\ "tidyReady" \in Steps
          /\ app[a].rev \in Revisions /\ index = app[a].rev /\ VerifyTerminal(app[a].rev)
          /\ Goto(a, "tidyReady")
      BY <1>1, BusyCall, Zenon DEF TidyIntent, Holds, Steps, HolderKnows
    <2>1. ColumnsTyped'
      BY <1>1, <2>0, Moved, Zenon DEF ColumnsTyped, TidyIntent
    <2>2. HolderKnows(a)'
      BY <2>0, Moved, Zenon DEF HolderKnows
    <2>3. Exclusive' /\ \A b \in Appliers : HolderKnows(b)'
      BY <2>0, <2>2, Moved, HolderStep, Zenon
    <2>4. IF Tracked(index) THEN Matches(index, dest) ELSE dest = Absent
      BY <2>0, RevisionAssumption, Zenon DEF VerifyTerminal, Tracked
    <2>5. SettledAgrees'
      BY <1>1, <2>4, Zenon DEF TidyIntent, SettledAgrees
    <2> QED BY <2>1, <2>3, <2>5, Zenon
  <1>2. CASE TidyReady(a)
    <2>1. ColumnsTyped'
      <3>1. ready' \in [Revisions -> Contents]
        BY <1>2, ContentTyped, Zenon DEF ColumnsTyped, TidyReady
      <3> QED BY <1>2, <3>1, Returned, Zenon DEF ColumnsTyped, TidyReady
    <2>2. Exclusive' /\ \A b \in Appliers : HolderKnows(b)'
      BY <1>2, Returned, OtherStep, Zenon DEF TidyReady
    <2> QED BY <1>2, <2>1, <2>2, AgreesKept, Zenon DEF TidyReady
  <1> QED BY <1>1, <1>2, Zenon

\* An error, a crash, a new call, a preparation or a transfer: the holder, if any stays,
\* keeps what it knows.
LEMMA OutsidePreserves ==
    ASSUME PathInv,
           \/ \E r \in Revisions : Prepare(r) \/ Receive(r)
           \/ \E a \in Appliers, w \in works : Begin(a, w)
           \/ \E a \in Appliers : Interrupted(a)
           \/ Crash
    PROVE  PathInv'
  <1> USE DEF PathInv, files, tables, counters
  <1>1. ASSUME NEW r \in Revisions, Prepare(r) PROVE PathInv'
    <2>1. works' \subseteq Works
      BY <1>1, SMTT(30) DEF Prepare, ColumnsTyped, Works
    <2>2. ColumnsTyped'
      BY <1>1, <2>1, Zenon DEF Prepare, ColumnsTyped
    <2>3. Exclusive' /\ \A b \in Appliers : HolderKnows(b)'
      BY <1>1, OtherStep, Zenon DEF Prepare
    <2> QED BY <1>1, <2>2, <2>3, AgreesKept, Zenon DEF Prepare
  <1>2. ASSUME NEW r \in Revisions, Receive(r) PROVE PathInv'
    <2>1. ready' \in [Revisions -> Contents]
      BY <1>2, ContentTyped, Zenon DEF Receive, ColumnsTyped
    <2>2. ColumnsTyped'
      BY <1>2, <2>1, Zenon DEF Receive, ColumnsTyped
    <2>3. Exclusive' /\ \A b \in Appliers : HolderKnows(b)'
      BY <1>2, OtherStep, Zenon DEF Receive
    <2> QED BY <1>2, <2>2, <2>3, AgreesKept, Zenon DEF Receive
  <1>3. ASSUME NEW a \in Appliers, NEW w \in works, Begin(a, w) PROVE PathInv'
    <2> DEFINE new == [pc |-> "lock", rev |-> w.rev, target |-> w.target]
    <2>1. new \in CallRecords
      BY Zenon DEF ColumnsTyped, Works, CallRecords, Steps
    <2>2. app' = [app EXCEPT ![a] = new]
      BY <1>3, Zenon DEF Begin
    <2>3. ColumnsTyped'
      <3> HIDE DEF new
      <3> QED BY <1>3, <2>1, <2>2, Zenon DEF Begin, ColumnsTyped
    <2>4. \A b \in Appliers : app'[b] = app[b] \/ app'[b].pc \in {"idle", "lock"}
      BY <2>2, Zenon DEF ColumnsTyped
    <2>5. Exclusive' /\ \A b \in Appliers : HolderKnows(b)'
      BY <1>3, <2>4, OtherStep, Zenon DEF Begin
    <2> QED BY <1>3, <2>3, <2>5, AgreesKept, Zenon DEF Begin
  <1>F. faults < site.faults /\ faults' = faults + 1 /\ site' = site => faults' \in 0 .. site'.faults
    BY SiteAssumption DEF ColumnsTyped
  <1>4. ASSUME NEW a \in Appliers, Interrupted(a) PROVE PathInv'
    <2>1. ColumnsTyped'
      BY <1>4, <1>F, Returned, Zenon DEF Interrupted, ColumnsTyped
    <2>2. Exclusive' /\ \A b \in Appliers : HolderKnows(b)'
      BY <1>4, Returned, OtherStep, Zenon DEF Interrupted
    <2> QED BY <1>4, <2>1, <2>2, AgreesKept, Zenon DEF Interrupted
  <1>5. CASE Crash
    <2>1. ColumnsTyped'
      BY <1>5, <1>F, Zenon DEF Crash, ColumnsTyped
    <2>2. \A b \in Appliers : app'[b].pc \in {"idle", "lock"}
      BY <1>5, Zenon DEF Crash, Idle
    <2>3. Exclusive' /\ \A b \in Appliers : HolderKnows(b)'
      BY <1>5, <2>2, OtherStep, Zenon DEF Crash
    <2> QED BY <1>5, <2>1, <2>3, AgreesKept, Zenon DEF Crash
  <1> QED BY <1>1, <1>2, <1>3, <1>4, <1>5, Zenon

\* A local user's edit finds nobody holding the path.
LEMMA EditPreserves ==
    ASSUME PathInv, NEW c \in Contents, LocalEdit(c)
    PROVE  PathInv'
  <1> USE DEF PathInv, tables
  <1>1. edits \in Nat /\ edits' = edits + 1 /\ edits' # 0 /\ edits' \in 0 .. MaxEdits
    BY EditsAssumption DEF LocalEdit, ColumnsTyped
  <1>2. ColumnsTyped'
    BY <1>1, Zenon DEF LocalEdit, ColumnsTyped
  <1>3. \A b \in Appliers : app'[b].pc \in {"idle", "lock"}
    BY Zenon DEF LocalEdit, Holds
  <1>4. Exclusive' /\ \A b \in Appliers : HolderKnows(b)'
    BY <1>3, Zenon DEF Exclusive, Holds, HolderKnows
  <1>5. SettledAgrees'
    BY <1>1, Zenon DEF SettledAgrees
  <1> QED BY <1>2, <1>4, <1>5, Zenon

\* Every step keeps the inductive invariant.
LEMMA PathNext == PathInv /\ [Next]_vars => PathInv'
  <1> SUFFICES ASSUME PathInv, [Next]_vars PROVE PathInv'
    BY Zenon
  <1>1. ASSUME NEW a \in Appliers, Apply(a) PROVE PathInv'
    BY <1>1, LockPathPreserves, CheckPreserves, WriteIntentPreserves, InspectPreserves, PreservePreserves,
       InstallPreserves, VerifyPreserves, CommitPreserves, TidyPreserves, Zenon DEF Apply
  <1>2. CASE UNCHANGED vars
    <2> USE <1>2 DEF vars, files, tables, counters, PathInv
    <2>1. ColumnsTyped'
      BY Zenon DEF ColumnsTyped
    <2>2. Exclusive' /\ \A b \in Appliers : HolderKnows(b)'
      BY OtherStep, Zenon
    <2> QED BY <2>1, <2>2, AgreesKept, Zenon
  <1> QED BY <1>1, <1>2, OutsidePreserves, EditPreserves, Zenon DEF Next

\* The inductive invariant holds of every behaviour.
LEMMA PathInductive == Spec => []PathInv
  BY InitPath, PathNext, PTL DEF Spec

\* Wherever an apply stops, disk and index agree or an intent is there to resume it, and
\* one call at most holds the path's lock.
THEOREM ApplySafety == Spec => []ApplyInv
  <1>1. PathInv => ApplyInv
    <2> SUFFICES ASSUME PathInv PROVE TypeOK
      BY Zenon DEF ApplyInv, PathInv
    <2> DEFINE holders == {a \in Appliers : Holds(a)}
    <2>1. holders = {} \/ \E a \in Appliers : holders = {a}
      BY DEF PathInv, Exclusive
    <2>2. Cardinality(holders) \in {0, 1}
      BY <2>1, FS_EmptySet, FS_Singleton, Zenon
    <2>3. Cardinality(holders) <= 1
      BY <2>2
    <2> HIDE DEF holders
    <2> QED BY <2>3, Zenon DEF TypeOK, PathInv, ColumnsTyped, CallRecords, holders
  <1> QED BY <1>1, PathInductive, PTL

\* The index never returns to a revision it has been at: only the transaction that
\* records a revision for the first time moves it.
THEOREM RollbackSafety == Spec => NoRollback
  <1> DEFINE Forward == index' # index => index' \notin accepted
  <1>1. [Next]_vars => [Forward]_vars
    <2> SUFFICES ASSUME Next PROVE Forward
      BY Zenon
    <2> USE DEF tables
    <2>1. /\ \A r \in Revisions : Prepare(r) \/ Receive(r) => index' = index
          /\ \A a \in Appliers : \A w \in works : Begin(a, w) => index' = index
          /\ \A a \in Appliers : Interrupted(a) => index' = index
          /\ Crash => index' = index
          /\ \A c \in Contents : LocalEdit(c) => index' = index
      BY Zenon DEF Prepare, Receive, Begin, Interrupted, Crash, LocalEdit
    <2>2. ASSUME NEW a \in Appliers, Apply(a), ~Commit(a) PROVE index' = index
      BY <2>2, Zenon DEF Apply, LockPath, Check, WriteIntent, InspectPath, Preserve, Install, Verify, TidyIntent, TidyReady
    <2>3. ASSUME NEW a \in Appliers, Commit(a) PROVE Forward
      BY <2>3, Zenon DEF Commit, Records
    <2> QED BY <2>1, <2>2, <2>3, Zenon DEF Next
  <1> HIDE DEF Forward
  <1>2. Spec => [][Forward]_vars
    BY <1>1, PTL DEF Spec
  <1> QED BY <1>2, Zenon DEF NoRollback, Forward

\* Whatever the destination or the history holds survives every step of the program.
THEOREM LossSafety == Spec => NothingLost
  <1> DEFINE Kept == edits' = edits => Held \subseteq Held'
  <1>1. PathInv /\ [Next]_vars => [Kept]_vars
    <2> SUFFICES ASSUME PathInv, Next, edits' = edits PROVE Held \subseteq Held'
      BY Zenon DEF vars, counters
    <2> USE DEF tables, files, counters
    <2>0. CASE UNCHANGED <<dest, history>>
      BY <2>0, Zenon DEF Held
    <2>1. ASSUME NEW a \in Appliers, Preserve(a) PROVE Held \subseteq Held'
      <3>1. app[a].rev \in Revisions /\ history[app[a].rev] = Absent
        BY <2>1, BusyCall, Zenon DEF Preserve, PathInv, HolderKnows
      <3>2. CASE dest # Absent
        <4>1. history' = [history EXCEPT ![app[a].rev] = dest]
          BY <2>1, <3>2, Zenon DEF Preserve
        <4>2. \A r \in Revisions : history'[r] = IF r = app[a].rev THEN dest ELSE history[r]
          BY <4>1, Zenon DEF PathInv, ColumnsTyped
        <4> QED BY <3>1, <4>2 DEF Held
      <3>3. CASE dest = Absent
        BY <2>0, <2>1, <3>3, Zenon DEF Preserve
      <3> QED BY <3>2, <3>3, Zenon
    <2>2. ASSUME NEW a \in Appliers, Install(a) PROVE Held \subseteq Held'
      <3>1. dest = Absent /\ history' = history
        BY <2>2, Zenon DEF Install, PathInv, HolderKnows
      <3> QED BY <3>1, Zenon DEF Held
    <2>3. ASSUME NEW a \in Appliers, Apply(a), ~Preserve(a), ~Install(a) PROVE UNCHANGED <<dest, history>>
      BY <2>3, Zenon DEF Apply, LockPath, Check, WriteIntent, InspectPath, Verify, Commit, TidyIntent, TidyReady
    <2>4. /\ \A r \in Revisions : Prepare(r) \/ Receive(r) => UNCHANGED <<dest, history>>
          /\ \A a \in Appliers : \A w \in works : Begin(a, w) => UNCHANGED <<dest, history>>
          /\ \A a \in Appliers : Interrupted(a) => UNCHANGED <<dest, history>>
          /\ Crash => UNCHANGED <<dest, history>>
      BY Zenon DEF Prepare, Receive, Begin, Interrupted, Crash
    <2>5. \A c \in Contents : ~LocalEdit(c)
      BY DEF LocalEdit, PathInv, ColumnsTyped
    <2> QED BY <2>0, <2>1, <2>2, <2>3, <2>4, <2>5, Zenon DEF Next
  <1> HIDE DEF Kept
  <1>2. Spec => [][Kept]_vars
    BY <1>1, PathInductive, PTL DEF Spec
  <1> QED BY <1>2, Zenon DEF NothingLost, Kept
=============================================================================
