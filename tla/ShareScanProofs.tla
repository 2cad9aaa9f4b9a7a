--------------------------- MODULE ShareScanProofs --------------------------
(***************************************************************************)
(* Proofs about ShareScan for any number of paths, any contents and any    *)
(* deletion guard: ScanInv is an invariant, and CommitsJustified holds of  *)
(* every step.                                                             *)
(***************************************************************************)
EXTENDS ShareScan, FiniteSetTheorems, TLAPS

-----------------------------------------------------------------------------
(* The inductive invariant, beside the type invariant.                     *)

\* As long as the loop lives it is running exactly while a scan is on or its
\* outcome waits, and only a running loop has a pending trigger.
LoopBusy ==
    loop.alive =>
        /\ loop.running <=> (scan # NoScan \/ done # "none")
        /\ loop.pending => loop.running

\* While a scan is on, what an available share holds has been seen.
DiskSeen == scan # NoScan /\ mounted => \A p \in Paths : disk[p] \in seen[p]

\* A walking scan is the only writer: its start and its previous index are still
\* the counter and the index, and what it got has been seen.
WalkCurrent ==
    scan.pc = "walk" =>
        /\ scan.start = sequence /\ scan.previous = index
        /\ Len(scan.got) <= NPaths
        /\ \A p \in 1 .. Len(scan.got) : scan.got[p] \in seen[p]

\* The numbers in use, with the ones a commit has used and the counter of a running
\* daemon has still to move over.
InUse == sequence + (IF scan.pc = "advance" THEN scan.count ELSE 0)
SequenceAhead == daemon # "down" => \A i \in DOMAIN revs : revs[i].seq <= InUse

\* x is the last of the first n revisions of path p, 0 when there is none.
IsLast(x, p, n) ==
    /\ x \in 0 .. n
    /\ x # 0 => revs[x].path = p
    /\ \A j \in 1 .. n : revs[j].path = p => j <= x

\* The index points at the last revision of each path.
IndexLast == \A p \in Paths : IsLast(index[p], p, Len(revs))

Ordered == \A i, j \in DOMAIN revs : i < j => revs[i].seq < revs[j].seq
ParentsLast == \A i \in DOMAIN revs : IsLast(revs[i].parent, revs[i].path, i - 1)

WriterInv == LoopBusy /\ DiskSeen /\ WalkCurrent
ChainInv == SequenceAhead /\ IndexLast /\ Ordered /\ ParentsLast
IScanInv == TypeOK /\ WriterInv /\ ChainInv
-----------------------------------------------------------------------------
(* Greatest elements and ranks.                                            *)

\* The greatest element of a set is the one no other exceeds.
LEMMA MaxIs ==
  ASSUME NEW S \in SUBSET Nat, NEW x \in S, \A y \in S : x >= y
  PROVE  Max(S) = x
  <1>1. Max(S) \in S /\ \A y \in S : Max(S) >= y
    BY Zenon DEF Max
  <1>2. Max(S) >= x /\ x >= Max(S)
    BY <1>1, Zenon
  <1>3. Max(S) \in Nat /\ x \in Nat
    BY <1>1, Zenon
  <1> QED
    BY <1>2, <1>3

Rank(S, q) == Cardinality({r \in S : r <= q})

\* The ranks of a set of paths number it without gaps or repetitions: what lets
\* BuildRevisions go through the changed paths in order.
LEMMA Ranks ==
  ASSUME NEW S \in SUBSET Paths
  PROVE  /\ Cardinality(S) \in Nat
         /\ \A q \in S : Rank(S, q) \in 1 .. Cardinality(S)
         /\ \A q, r \in S : Rank(S, q) = Rank(S, r) => q = r
         /\ \A i \in 1 .. Cardinality(S) : \E q \in S : Rank(S, q) = i
  <1> DEFINE n == Cardinality(S)
             f == [q \in S |-> Rank(S, q)]
  <1>1. IsFiniteSet(Paths)
    BY ScanAssumption, FS_Interval DEF Paths
  <1>2. IsFiniteSet(S) /\ n \in Nat
    BY <1>1, FS_Subset, FS_CardinalityType, Zenon
  <1>3. ASSUME NEW q \in S
        PROVE  Rank(S, q) \in 1 .. n
    <2> DEFINE T == {r \in S : r <= q}
    <2>1. IsFiniteSet(T) /\ Cardinality(T) <= n
      BY <1>2, FS_Subset, Zenon
    <2>2. Cardinality(T) \in Nat
      BY <2>1, FS_CardinalityType, Zenon
    <2>3. q \in T
      BY DEF Paths
    <2>4. Cardinality(T) # 0
      BY <2>1, <2>3, FS_EmptySet, Zenon
    <2> QED
      BY <1>2, <2>1, <2>2, <2>4 DEF Rank
  <1>4. ASSUME NEW q \in S, NEW r \in S, q < r
        PROVE  Rank(S, q) # Rank(S, r)
    <2> DEFINE T == {x \in S : x <= q}
               U == {x \in S : x <= r}
    <2> S \subseteq Nat
      BY DEF Paths
    <2>1. T \in SUBSET U /\ r \in U /\ r \notin T
      <3>1. \A x \in S : x <= q => x <= r
        BY <1>4
      <3>2. r <= r /\ ~(r <= q)
        BY <1>4
      <3> QED
        BY <3>1, <3>2, Zenon
    <2>2. IsFiniteSet(U)
      BY <1>2, FS_Subset, Zenon
    <2>3. Cardinality(U) # Cardinality(T)
      BY <2>1, <2>2, FS_Subset, Zenon
    <2> QED
      BY <2>3, Zenon DEF Rank
  <1>5. \A q, r \in S : Rank(S, q) = Rank(S, r) => q = r
    <2> SUFFICES ASSUME NEW q \in S, NEW r \in S, Rank(S, q) = Rank(S, r)
                 PROVE  q = r
      BY Zenon
    <2>1. q < r \/ r < q \/ q = r
      BY DEF Paths
    <2> QED
      BY <1>4, <2>1, Zenon
  <1>6. f \in Injection(S, 1 .. n)
    BY <1>3, <1>5, Zenon DEF Injection, IsInjective
  <1>7. IsFiniteSet(1 .. n) /\ Cardinality(1 .. n) = n
    BY <1>2, FS_Interval
  <1>8. f \in Surjection(S, 1 .. n)
    BY <1>6, <1>7, FS_Injection, Zenon
  <1>9. \A i \in 1 .. n : \E q \in S : Rank(S, q) = i
    BY <1>8, Zenon DEF Surjection
  <1> QED
    BY <1>2, <1>3, <1>5, <1>9, Zenon
-----------------------------------------------------------------------------
(* The types, and what a commit appends.                                   *)

Revision == [path : Paths, parent : Nat, content : Contents, seq : Nat]
Walk == [pc : {"walk"}, start : Nat, previous : [Paths -> Nat], got : Seq(Contents)]

\* A scan in its walk is a walk record, and one that is to advance has a count.
LEMMA ScanShape ==
  ASSUME scan \in ScanRecords
  PROVE  /\ scan.pc \in {"none", "root", "list", "walk", "advance"}
         /\ scan.pc = "walk" => scan \in Walk
         /\ scan.pc = "advance" => scan.count \in Nat
         /\ scan.pc = "none" <=> scan = NoScan
  BY DEF ScanRecords, Walk, NoScan, StartedScan

\* The step in which CommitScan's transaction is accepted.
Commits ==
    /\ scan.pc = "walk" /\ Len(scan.got) = NPaths
    /\ DeletionsAllowed(scan) /\ CommitAccepts(scan)
    /\ revs' = revs \o BuildRevisions(scan)
    /\ index' = [p \in Paths |-> Pointer(scan, p)]
    /\ scan' = [pc |-> "advance", count |-> Cardinality(Changed(scan))]
    /\ UNCHANGED <<share, sequence, done, loop, watching, manual, daemon, seen, upsets>>

\* Only an accepted commit changes the store.
LEMMA StoreSteps ==
  ASSUME [Next]_vars
  PROVE  Commits \/ UNCHANGED store
  <1>1. CASE CommitScan
    BY <1>1, Zenon DEF CommitScan, Commits
  <1>2. CASE Scanning /\ ~CommitScan
    BY <1>2, Zenon DEF Scanning, CheckShareRoot, ListIndex, WalkPath, AdvanceSequence
  <1>3. CASE Watching \/ Scheduling \/ TimerFires
    BY <1>3, Zenon DEF Watching, DebounceExpires, Forward, CreateWatcher, Scheduling, TakeManual,
                TakeRequest, ScanDone, LoopReturns, TimerFires
  <1>4. CASE \/ \E p \in Paths, c \in Contents : Edit(p, c)
             \/ RootLost \/ RootBack \/ WatcherEnds \/ RequestScan
    BY <1>4, Zenon DEF Edit, RootLost, RootBack, WatcherEnds, RequestScan
  <1>5. CASE Start \/ Cancel \/ CloseStore \/ Exit \/ Crash
    BY <1>5, Zenon DEF Start, Cancel, CloseStore, Exit, Crash
  <1>6. CASE UNCHANGED vars
    BY <1>6, Zenon DEF vars
  <1> QED
    BY <1>1, <1>2, <1>3, <1>4, <1>5, <1>6, Zenon DEF Next

\* BuildRevisions makes one revision of each changed path, in the order of the ranks.
LEMMA BuiltRevisions ==
  ASSUME NEW s \in Walk, Len(s.got) = NPaths
  PROVE  /\ Cardinality(Changed(s)) \in Nat
         /\ BuildRevisions(s) \in Seq(Revision)
         /\ Len(BuildRevisions(s)) = Cardinality(Changed(s))
         /\ \A i \in 1 .. Cardinality(Changed(s)) :
               LET r == BuildRevisions(s)[i]
               IN  /\ r.path \in Changed(s) /\ Rank(Changed(s), r.path) = i
                   /\ r.parent = s.previous[r.path] /\ r.content = s.got[r.path]
                   /\ r.seq = s.start + i
  <1> DEFINE n == Cardinality(Changed(s))
             Q(i) == CHOOSE q \in Changed(s) : Cardinality({r \in Changed(s) : r <= q}) = i
             B == BuildRevisions(s)
  <1>1. Changed(s) \in SUBSET Paths
    BY Zenon DEF Changed
  <1>2. /\ n \in Nat
        /\ \A i \in 1 .. n : \E q \in Changed(s) : Rank(Changed(s), q) = i
    BY <1>1, Ranks, Zenon
  <1>3. \A i \in 1 .. n : Q(i) \in Changed(s) /\ Rank(Changed(s), Q(i)) = i
    BY <1>2, Zenon DEF Rank
  <1> HIDE DEF Q
  <1>4. B = [i \in 1 .. n |-> [path |-> Q(i), parent |-> s.previous[Q(i)],
                               content |-> s.got[Q(i)], seq |-> s.start + i]]
    BY Zenon DEF BuildRevisions, Q
  <1>5. \A p \in Paths : s.got[p] \in Contents /\ s.previous[p] \in Nat
    BY ScanAssumption DEF Walk, Paths
  <1>6. s.start \in Nat
    BY Zenon DEF Walk
  <1> HIDE DEF n, B
  <1>7. \A i \in 1 .. n : /\ B[i] = [path |-> Q(i), parent |-> s.previous[Q(i)],
                                   content |-> s.got[Q(i)], seq |-> s.start + i]
                          /\ B[i] \in Revision
    <2> SUFFICES ASSUME NEW i \in 1 .. n
                 PROVE  [path |-> Q(i), parent |-> s.previous[Q(i)],
                         content |-> s.got[Q(i)], seq |-> s.start + i] \in Revision
      BY <1>4, Zenon
    <2>1. Q(i) \in Paths
      BY <1>1, <1>3, Zenon
    <2>2. s.start + i \in Nat
      BY <1>2, <1>6
    <2> QED
      BY <1>5, <2>1, <2>2, Zenon DEF Revision
  <1>8. B \in [1 .. n -> Revision]
    BY <1>4, <1>7, Zenon
  <1>9. B \in Seq(Revision) /\ Len(B) = n
    BY <1>2, <1>8
  <1>10. \A i \in 1 .. n : /\ B[i].path = Q(i) /\ B[i].parent = s.previous[Q(i)]
                           /\ B[i].content = s.got[Q(i)] /\ B[i].seq = s.start + i
    <2> TAKE i \in 1 .. n
    <2>1. B[i] = [path |-> Q(i), parent |-> s.previous[Q(i)],
                  content |-> s.got[Q(i)], seq |-> s.start + i]
      BY <1>7, Zenon
    <2> QED
      BY ONLY <2>1
  <1>11. \A i \in 1 .. n : B[i].path \in Changed(s) /\ Rank(Changed(s), B[i].path) = i
    BY <1>3, <1>10, Zenon
  <1> QED
    BY <1>2, <1>9, <1>10, <1>11, Zenon DEF n, B

\* The elements of two sequences one after the other.
LEMMA Concatenated ==
  ASSUME NEW R, NEW s \in Seq(R), NEW t \in Seq(R)
  PROVE  /\ s \o t \in Seq(R) /\ Len(s \o t) = Len(s) + Len(t)
         /\ DOMAIN s = 1 .. Len(s) /\ DOMAIN (s \o t) = 1 .. Len(s) + Len(t)
         /\ \A i \in 1 .. Len(s) : (s \o t)[i] = s[i]
         /\ \A i \in Len(s) + 1 .. Len(s) + Len(t) : (s \o t)[i] = t[i - Len(s)]
  <1>1. s \o t \in Seq(R) /\ Len(s \o t) = Len(s) + Len(t)
    OBVIOUS
  <1>2. DOMAIN s = 1 .. Len(s) /\ DOMAIN (s \o t) = 1 .. Len(s) + Len(t)
    BY <1>1
  <1>3. \A i \in 1 .. Len(s) : (s \o t)[i] = s[i]
    OBVIOUS
  <1>4. \A i \in Len(s) + 1 .. Len(s) + Len(t) : (s \o t)[i] = t[i - Len(s)]
    OBVIOUS
  <1> QED
    BY <1>1, <1>2, <1>3, <1>4, Zenon

\* What an accepted commit leaves: the old revisions, then one of each changed path.
LEMMA Appended ==
  ASSUME TypeOK, Commits
  PROVE  LET n == Cardinality(Changed(scan))
             m == Len(revs)
         IN  /\ n \in Nat /\ m \in Nat /\ scan \in Walk
             /\ revs' \in Seq(Revision) /\ Len(revs') = m + n
             /\ DOMAIN revs = 1 .. m /\ DOMAIN revs' = 1 .. m + n
             /\ \A i \in 1 .. m : revs'[i] = revs[i]
             /\ \A i \in m + 1 .. m + n :
                   /\ revs'[i].path \in Changed(scan)
                   /\ Rank(Changed(scan), revs'[i].path) = i - m
                   /\ revs'[i].parent = scan.previous[revs'[i].path]
                   /\ revs'[i].content = scan.got[revs'[i].path]
                   /\ revs'[i].seq = scan.start + (i - m)
  <1> DEFINE n == Cardinality(Changed(scan))
             m == Len(revs)
             B == BuildRevisions(scan)
  <1>1. scan \in Walk
    BY ScanShape, Zenon DEF TypeOK, Commits
  <1>2. /\ n \in Nat /\ B \in Seq(Revision) /\ Len(B) = n
        /\ \A i \in 1 .. n : /\ B[i].path \in Changed(scan)
                             /\ Rank(Changed(scan), B[i].path) = i
                             /\ B[i].parent = scan.previous[B[i].path]
                             /\ B[i].content = scan.got[B[i].path]
                             /\ B[i].seq = scan.start + i
    BY <1>1, BuiltRevisions, Zenon DEF Commits
  <1>3. revs \in Seq(Revision) /\ m \in Nat
    BY DEF TypeOK, Revision
  <1>4. revs' = revs \o B
    BY Zenon DEF Commits
  <1> HIDE DEF n, m, B
  <1>5. /\ revs' \in Seq(Revision) /\ Len(revs') = m + n
        /\ DOMAIN revs = 1 .. m /\ DOMAIN revs' = 1 .. m + n
        /\ \A i \in 1 .. m : revs'[i] = revs[i]
        /\ \A i \in m + 1 .. m + n : revs'[i] = B[i - m]
    <2>1. B \in Seq(Revision) /\ Len(B) = n /\ Len(revs) = m
      BY <1>2, Zenon DEF m
    <2>2. /\ revs \o B \in Seq(Revision) /\ Len(revs \o B) = m + n
          /\ DOMAIN revs = 1 .. m /\ DOMAIN (revs \o B) = 1 .. m + n
          /\ \A i \in 1 .. m : (revs \o B)[i] = revs[i]
          /\ \A i \in m + 1 .. m + n : (revs \o B)[i] = B[i - m]
      BY ONLY <1>3, <2>1, Concatenated, ZenonT(30)
    <2> QED
      BY ONLY <1>4, <2>2, Zenon
  <1>6. \A i \in m + 1 .. m + n : i - m \in 1 .. n
    BY <1>2, <1>3
  <1>7. \A i \in m + 1 .. m + n :
           /\ revs'[i].path \in Changed(scan)
           /\ Rank(Changed(scan), revs'[i].path) = i - m
           /\ revs'[i].parent = scan.previous[revs'[i].path]
           /\ revs'[i].content = scan.got[revs'[i].path]
           /\ revs'[i].seq = scan.start + (i - m)
    <2> TAKE i \in m + 1 .. m + n
    <2>1. revs'[i] = B[i - m] /\ i - m \in 1 .. n
      BY <1>5, <1>6, Zenon
    <2> QED
      BY <1>2, <2>1
  <1> QED
    BY <1>1, <1>2, <1>3, <1>5, <1>7, Zenon DEF n, m

\* The index of a commit points at the new revision of a changed path and stays for
\* the others.
LEMMA Repointed ==
  ASSUME TypeOK, Commits
  PROVE  LET n == Cardinality(Changed(scan))
         IN  /\ index' \in [Paths -> 0 .. Len(revs')]
             /\ \A p \in Paths \ Changed(scan) : index'[p] = index[p]
             /\ \A p \in Changed(scan) :
                   /\ index'[p] = Len(revs) + Rank(Changed(scan), p)
                   /\ Rank(Changed(scan), p) \in 1 .. n
  <1> DEFINE n == Cardinality(Changed(scan))
             m == Len(revs)
  <1>1. n \in Nat /\ m \in Nat /\ Len(revs') = m + n
    BY Appended, Zenon
  <1>2. Changed(scan) \in SUBSET Paths
    BY Zenon DEF Changed
  <1>3. \A p \in Changed(scan) : Rank(Changed(scan), p) \in 1 .. n
    BY <1>2, Ranks, Zenon
  <1>4. index' = [p \in Paths |-> IF p \in Changed(scan) THEN m + Rank(Changed(scan), p)
                                  ELSE index[p]]
    BY Zenon DEF Commits, Pointer, Rank
  <1>5. \A p \in Paths : index[p] \in 0 .. m
    BY Zenon DEF TypeOK
  <1> HIDE DEF n, m
  <1>6. \A p \in Paths : index'[p] \in 0 .. m + n
    <2> TAKE p \in Paths
    <2>1. CASE p \in Changed(scan)
      BY <1>1, <1>3, <1>4, <2>1
    <2>2. CASE p \notin Changed(scan)
      BY <1>1, <1>4, <1>5, <2>2
    <2> QED
      BY <2>1, <2>2, Zenon
  <1> QED
    BY <1>1, <1>2, <1>3, <1>4, <1>6, Zenon DEF m, n
-----------------------------------------------------------------------------
(* Types.                                                                  *)

\* The initial states have their types.
LEMMA TypeInit == Init => TypeOK
  <1> SUFFICES ASSUME Init PROVE TypeOK
    BY Zenon
  <1>1. revs \in Seq([path : Paths, parent : Nat, content : Contents, seq : Nat])
    BY DEF Init
  <1>2. index \in [Paths -> 0 .. Len(revs)]
    BY DEF Init
  <1>3. trigger \in 0 .. OutputSize /\ requests \in 0 .. OutputSize /\ sequence \in Nat
    BY ScanAssumption DEF Init
  <1>4. scan \in ScanRecords
    BY Zenon DEF Init, ScanRecords
  <1> QED
    BY <1>1, <1>2, <1>3, <1>4, Zenon DEF Init, TypeOK

\* The part of TypeOK about the store and the counters of requests.
StoreTyped ==
    /\ index \in [Paths -> 0..Len(revs)]
    /\ revs \in Seq(Revision)
QueuesTyped ==
    /\ trigger \in 0..OutputSize /\ requests \in 0..OutputSize
RestTyped ==
    /\ disk \in [Paths -> Contents] /\ mounted \in BOOLEAN
    /\ done \in {"none", "ok", "err"}
    /\ loop \in [alive : BOOLEAN, running : BOOLEAN, pending : BOOLEAN, timer : BOOLEAN]
    /\ watch \in [alive : BOOLEAN, events : BOOLEAN]
    /\ manual \in BOOLEAN
    /\ daemon \in {"down", "up", "canceled", "closed"}
    /\ seen \in [Paths -> SUBSET Contents]
ScanTyped ==
    /\ sequence \in Nat
    /\ scan \in ScanRecords
    /\ done # "none" => scan = NoScan

\* TypeOK in four parts.
LEMMA TypeParts == TypeOK <=> StoreTyped /\ QueuesTyped /\ RestTyped /\ ScanTyped
  BY Zenon DEF TypeOK, StoreTyped, QueuesTyped, RestTyped, ScanTyped, Revision

\* The columns of a revision.
LEMMA RevisionTyped ==
  ASSUME TypeOK
  PROVE  /\ Len(revs) \in Nat /\ DOMAIN revs = 1 .. Len(revs)
         /\ \A i \in 1 .. Len(revs) : /\ revs[i].path \in Paths /\ revs[i].parent \in Nat
                                      /\ revs[i].content \in Contents /\ revs[i].seq \in Nat
  <1>1. revs \in Seq(Revision)
    BY Zenon DEF TypeOK, Revision
  <1>2. Len(revs) \in Nat /\ DOMAIN revs = 1 .. Len(revs)
    BY <1>1
  <1>3. \A i \in 1 .. Len(revs) : revs[i] \in Revision
    BY <1>1
  <1> QED
    BY <1>2, <1>3, Zenon DEF Revision

\* MaxSequence loads a number no revision exceeds.
LEMMA GreatestSequence ==
  ASSUME TypeOK, Ordered
  PROVE  LET g == Max({revs[i].seq : i \in DOMAIN revs} \cup {0})
         IN  g \in Nat /\ \A i \in DOMAIN revs : revs[i].seq <= g
  <1> DEFINE m == Len(revs)
             S == {revs[i].seq : i \in DOMAIN revs} \cup {0}
  <1>1. m \in Nat /\ DOMAIN revs = 1 .. m /\ \A i \in 1 .. m : revs[i].seq \in Nat
    BY RevisionTyped, Zenon
  <1>2. S \in SUBSET Nat
    BY <1>1
  <1>3. \A i \in DOMAIN revs : revs[i].seq \in S
    BY Zenon
  <1> HIDE DEF m
  <1>4. CASE m = 0
    <2>1. DOMAIN revs = {}
      BY <1>1, <1>4
    <2>2. S = {0}
      BY <2>1, Zenon
    <2>3. Max(S) = 0
      BY <1>2, <2>2, MaxIs
    <2> QED
      BY <2>1, <2>3
  <1>5. CASE m # 0
    <2> DEFINE x == revs[m].seq
    <2>1. m \in DOMAIN revs /\ x \in S /\ x \in Nat
      BY <1>1, <1>3, <1>5
    <2>2. \A i \in DOMAIN revs : revs[i].seq <= x
      <3> TAKE i \in DOMAIN revs
      <3>1. i < m \/ i = m
        BY <1>1
      <3>2. CASE i < m
        <4>1. revs[i].seq < x
          BY <2>1, <3>2, Zenon DEF Ordered
        <4> QED
          BY <1>1, <2>1, <4>1
      <3> QED
        BY <1>1, <2>1, <3>1, <3>2
    <2>3. \A y \in S : x >= y
      BY <1>1, <2>1, <2>2
    <2>4. Max(S) = x
      BY <1>2, <2>1, <2>3, MaxIs, Zenon
    <2> QED
      BY <2>1, <2>2, <2>4, Zenon
  <1> QED
    BY <1>4, <1>5, Zenon

\* A trigger keeps the loop's and the scan's invariants.
LEMMA TriggeredTyped ==
  ASSUME RestTyped, ScanTyped, LoopBusy, loop.alive,
         NEW next \in [alive : BOOLEAN, running : BOOLEAN, pending : BOOLEAN, timer : BOOLEAN],
         next.alive = loop.alive, next.running = loop.running, next.pending = loop.pending,
         Triggered(next), done' = done, disk' = disk, mounted' = mounted
  PROVE  /\ loop' \in [alive : BOOLEAN, running : BOOLEAN, pending : BOOLEAN, timer : BOOLEAN]
         /\ seen' \in [Paths -> SUBSET Contents]
         /\ scan' \in ScanRecords
         /\ done' # "none" => scan' = NoScan
         /\ LoopBusy'
         /\ (scan' = scan /\ seen' = seen) \/ (scan' = StartedScan /\ seen' = FreshlySeen)
  <1>1. CASE loop.running
    BY <1>1, Zenon DEF Triggered, RestTyped, ScanTyped, LoopBusy
  <1>2. CASE ~loop.running
    <2>1. /\ loop' = [next EXCEPT !.running = TRUE]
          /\ scan' = StartedScan /\ seen' = FreshlySeen
      BY <1>2, Zenon DEF Triggered
    <2>2. done = "none"
      BY <1>2, Zenon DEF LoopBusy
    <2>3. scan' \in ScanRecords /\ scan' # NoScan
      BY <2>1, Zenon DEF ScanRecords, StartedScan, NoScan
    <2>4. seen' \in [Paths -> SUBSET Contents]
      BY <2>1 DEF FreshlySeen, RestTyped
    <2>5. /\ loop' \in [alive : BOOLEAN, running : BOOLEAN, pending : BOOLEAN, timer : BOOLEAN]
          /\ loop'.running
      BY <2>1, Zenon
    <2> QED
      BY <2>1, <2>2, <2>3, <2>4, <2>5, Zenon DEF LoopBusy
  <1> QED
    BY <1>1, <1>2

\* Every step keeps the types of the requests in the channels.
LEMMA QueuesNext == QueuesTyped /\ [Next]_vars => QueuesTyped'
  <1> SUFFICES ASSUME QueuesTyped, [Next]_vars PROVE QueuesTyped'
    BY Zenon
  <1> USE ScanAssumption DEF QueuesTyped
  <1>1. CASE Watching \/ WatcherEnds
    BY <1>1 DEF Watching, DebounceExpires, Forward, CreateWatcher, WatcherEnds, Flushed
  <1>2. CASE Scheduling \/ TimerFires
    BY <1>2 DEF Scheduling, TakeManual, TakeRequest, ScanDone, LoopReturns, TimerFires, watching
  <1>3. CASE Scanning
    BY <1>3 DEF Scanning, CheckShareRoot, ListIndex, WalkPath, CommitScan, AdvanceSequence,
                watching
  <1>4. CASE \/ \E p \in Paths, c \in Contents : Edit(p, c)
             \/ RootLost \/ RootBack \/ RequestScan
    BY <1>4, Zenon DEF Edit, RootLost, RootBack, RequestScan, watching
  <1>5. CASE Start \/ Cancel \/ CloseStore \/ Exit \/ Crash
    BY <1>5 DEF Start, Cancel, CloseStore, Exit, Crash, ProcessEnds, watching
  <1>6. CASE UNCHANGED vars
    BY <1>6, Zenon DEF vars, watching
  <1> QED
    BY <1>1, <1>2, <1>3, <1>4, <1>5, <1>6, Zenon DEF Next

\* The store keeps its types.
LEMMA StoreNext == TypeOK /\ [Next]_vars => StoreTyped'
  <1> SUFFICES ASSUME TypeOK, [Next]_vars PROVE StoreTyped'
    BY Zenon
  <1>1. CASE Commits
    BY <1>1, Appended, Repointed, Zenon DEF StoreTyped
  <1>2. CASE UNCHANGED store
    BY <1>2, Zenon DEF store, StoreTyped, TypeOK, Revision
  <1> QED
    BY <1>1, <1>2, StoreSteps, Zenon

\* What the rest of a step needs to know of the loop, the scan and the share.
Writer == RestTyped /\ ScanTyped /\ LoopBusy

\* The share's and the watcher's steps keep the loop and the scan.
LEMMA WatchingTyped ==
  ASSUME Writer,
         \/ \E p \in Paths, c \in Contents : Edit(p, c)
         \/ RootLost \/ RootBack \/ WatcherEnds \/ Watching \/ RequestScan
  PROVE  Writer'
  <1> USE DEF Writer
  <1>1. ASSUME NEW p \in Paths, NEW c \in Contents, Edit(p, c)
        PROVE  Writer'
    <2>1. disk' \in [Paths -> Contents] /\ seen' \in [Paths -> SUBSET Contents]
      BY <1>1, Zenon DEF Edit, RestTyped
    <2>2. watch' \in [alive : BOOLEAN, events : BOOLEAN]
      BY <1>1, Zenon DEF Edit, RestTyped
    <2> QED
      BY <1>1, <2>1, <2>2 DEF Edit, RestTyped, ScanTyped, LoopBusy
  <1>2. CASE RootLost
    BY <1>2, Zenon DEF RootLost, RestTyped, ScanTyped, LoopBusy, watching
  <1>3. CASE RootBack
    BY <1>3 DEF RootBack, RestTyped, ScanTyped, LoopBusy, watching
  <1>4. CASE WatcherEnds \/ Watching
    <2>1. watch' \in [alive : BOOLEAN, events : BOOLEAN]
      <3>1. \/ watch' = watch \/ watch' = [watch EXCEPT !.events = FALSE]
            \/ watch' = [alive |-> TRUE, events |-> FALSE]
            \/ watch' = [alive |-> FALSE, events |-> FALSE]
        BY <1>4, Zenon DEF WatcherEnds, Watching, DebounceExpires, Forward, CreateWatcher
      <3>2. /\ watch \in [alive : BOOLEAN, events : BOOLEAN]
            /\ [watch EXCEPT !.events = FALSE] \in [alive : BOOLEAN, events : BOOLEAN]
        BY Zenon DEF RestTyped
      <3>3. \A b \in BOOLEAN : [alive |-> b, events |-> FALSE] \in [alive : BOOLEAN, events : BOOLEAN]
        BY Zenon
      <3> QED
        BY <3>1, <3>2, <3>3, Zenon
    <2>2. UNCHANGED <<disk, mounted, sequence, scan, done, loop, manual, daemon, seen>>
      BY <1>4, Zenon DEF WatcherEnds, Watching, DebounceExpires, Forward, CreateWatcher, share
    <2> QED
      BY <2>1, <2>2 DEF RestTyped, ScanTyped, LoopBusy
  <1>5. CASE RequestScan
    BY <1>5 DEF RequestScan, RestTyped, ScanTyped, LoopBusy, share, watching
  <1> QED
    BY <1>1, <1>2, <1>3, <1>4, <1>5

\* The loop's steps keep the loop and the scan.
LEMMA SchedulingTyped ==
  ASSUME Writer, Scheduling \/ TimerFires
  PROVE  Writer'
  <1> USE DEF Writer
  <1> DEFINE Loops == [alive : BOOLEAN, running : BOOLEAN, pending : BOOLEAN, timer : BOOLEAN]
  <1>1. CASE TimerFires
    <2> DEFINE next == [loop EXCEPT !.timer = FALSE]
    <2>1. /\ next \in Loops /\ next.alive = loop.alive /\ next.running = loop.running
          /\ next.pending = loop.pending
      BY Zenon DEF RestTyped
    <2>2. /\ loop.alive /\ Triggered(next) /\ done' = done /\ disk' = disk
          /\ mounted' = mounted /\ sequence' = sequence /\ watch' = watch /\ manual' = manual
          /\ daemon' = daemon
      BY <1>1, Zenon DEF TimerFires, share, watching
    <2> HIDE DEF next
    <2>3. /\ loop' \in Loops /\ seen' \in [Paths -> SUBSET Contents]
          /\ scan' \in ScanRecords /\ (done' # "none" => scan' = NoScan) /\ LoopBusy'
      BY <2>1, <2>2, TriggeredTyped, Zenon
    <2> QED
      BY <2>2, <2>3 DEF RestTyped, ScanTyped
  <1>2. CASE TakeManual \/ TakeRequest
    <2>1. /\ loop.alive /\ Triggered(loop) /\ done' = done /\ disk' = disk
          /\ mounted' = mounted /\ sequence' = sequence /\ watch' = watch
          /\ manual' \in BOOLEAN /\ daemon' = daemon
      BY <1>2, Zenon DEF TakeManual, TakeRequest, share, watching, RestTyped
    <2>2. loop \in Loops
      BY Zenon DEF RestTyped
    <2>3. /\ loop' \in Loops /\ seen' \in [Paths -> SUBSET Contents]
          /\ scan' \in ScanRecords /\ (done' # "none" => scan' = NoScan) /\ LoopBusy'
      BY <2>1, <2>2, TriggeredTyped, Zenon
    <2> QED
      BY <2>1, <2>3 DEF RestTyped, ScanTyped
  <1>3. CASE ScanDone
    <2>1. loop' \in Loops /\ loop'.running = loop.pending /\ loop'.pending = FALSE
      BY <1>3, Zenon DEF ScanDone, RestTyped
    <2>2. StartedScan \in ScanRecords /\ StartedScan # NoScan
      BY Zenon DEF ScanRecords, StartedScan, NoScan
    <2>3. FreshlySeen \in [Paths -> SUBSET Contents]
      BY DEF FreshlySeen, RestTyped
    <2>4. scan = NoScan
      BY <1>3, Zenon DEF ScanDone, ScanTyped
    <2>5. LoopBusy'
      BY <1>3, <2>1, <2>2, <2>4, Zenon DEF ScanDone, LoopBusy, RestTyped
    <2>6. ScanTyped'
      BY <1>3, <2>2, Zenon DEF ScanDone, ScanTyped
    <2> QED
      BY <1>3, <2>1, <2>3, <2>5, <2>6 DEF ScanDone, RestTyped, share, watching
  <1>4. CASE LoopReturns
    <2>1. loop' \in Loops /\ loop'.alive = FALSE
      BY <1>4, Zenon DEF LoopReturns, RestTyped
    <2> QED
      BY <1>4, <2>1, Zenon DEF LoopReturns, RestTyped, ScanTyped, LoopBusy, share
  <1> QED
    BY <1>1, <1>2, <1>3, <1>4, Zenon DEF Scheduling

\* Reading a path adds what the disk holds to what the walk has got.
LEMMA WalksOn ==
  ASSUME RestTyped, WalkPath, mounted, scan \in Walk
  PROVE  LET p == Len(scan.got) + 1
         IN  /\ p \in Paths /\ scan' \in Walk /\ done' = done
             /\ scan'.start = scan.start /\ scan'.previous = scan.previous
             /\ Len(scan'.got) = p /\ scan'.got[p] = disk[p]
             /\ \A q \in 1 .. Len(scan.got) : scan'.got[q] = scan.got[q]
  <1> DEFINE p == Len(scan.got) + 1
             g == Append(scan.got, disk[p])
  <1>1. scan.got \in Seq(Contents) /\ Len(scan.got) \in Nat
    BY DEF Walk
  <1>2. p \in Paths
    BY <1>1, ScanAssumption DEF WalkPath, Paths
  <1>3. disk[p] \in Contents
    BY <1>2, Zenon DEF RestTyped
  <1>4. /\ g \in Seq(Contents) /\ Len(g) = p /\ g[p] = disk[p]
        /\ \A q \in 1 .. Len(scan.got) : g[q] = scan.got[q]
    BY <1>1, <1>3
  <1>5. scan' = [scan EXCEPT !.got = g] /\ done' = done
    BY Zenon DEF WalkPath
  <1> HIDE DEF g, p
  <1>6. /\ scan' \in Walk /\ scan'.got = g
        /\ scan'.start = scan.start /\ scan'.previous = scan.previous
    BY <1>4, <1>5, Zenon DEF Walk
  <1> QED
    BY <1>2, <1>4, <1>5, <1>6 DEF p

\* The scan's steps keep the loop and the scan.
LEMMA ScanningTyped ==
  ASSUME TypeOK, Writer, Scanning
  PROVE  Writer'
  <1> USE DEF Writer
  <1>1. scan # NoScan /\ done = "none"
    BY ScanShape, Zenon DEF Scanning, CheckShareRoot, ListIndex, WalkPath, CommitScan, AdvanceSequence,
                     ScanTyped, NoScan
  <1>2. /\ disk' = disk /\ mounted' = mounted /\ loop' = loop /\ watch' = watch
        /\ manual' = manual /\ daemon' = daemon /\ seen' = seen
    BY Zenon DEF Scanning, CheckShareRoot, ListIndex, WalkPath, CommitScan, AdvanceSequence, share,
           watching
  <1>3. \/ scan' = NoScan /\ done' \in {"ok", "err"}
        \/ scan' \in ScanRecords /\ scan' # NoScan /\ done' = done
    <2>1. CASE CheckShareRoot
      BY <2>1 DEF CheckShareRoot, Outcome, ScanRecords, NoScan
    <2>2. CASE ListIndex
      <3>1. index \in [Paths -> Nat] /\ sequence \in Nat
        BY DEF TypeOK
      <3> DEFINE w == [pc |-> "walk", start |-> sequence, previous |-> index, got |-> <<>>]
      <3>2. w \in Walk /\ w.pc = "walk"
        BY <3>1 DEF Walk
      <3>3. w \in ScanRecords /\ w # NoScan
        BY <3>2, Zenon DEF Walk, ScanRecords, NoScan
      <3> HIDE DEF w
      <3> QED
        BY <2>2, <3>3 DEF ListIndex, Outcome, w
    <2>3. CASE WalkPath
      <3>1. scan \in Walk
        BY <2>3, ScanShape, Zenon DEF WalkPath, ScanTyped
      <3>2. CASE mounted
        BY <2>3, <3>1, <3>2, WalksOn DEF Walk, ScanRecords, NoScan
      <3>3. CASE ~mounted
        BY <2>3, <3>3, Zenon DEF WalkPath, Outcome
      <3> QED
        BY <3>2, <3>3, Zenon
    <2>4. CASE CommitScan
      <3>1. CASE Commits
        <4>1. Cardinality(Changed(scan)) \in Nat
          BY <3>1, Appended, Zenon
        <4> QED
          BY <3>1, <4>1, Zenon DEF Commits, ScanRecords, NoScan
      <3>2. CASE ~Commits
        BY <2>4, <3>2, Zenon DEF CommitScan, Commits, Outcome
      <3> QED
        BY <3>1, <3>2, Zenon
    <2>5. CASE AdvanceSequence
      BY <2>5, Zenon DEF AdvanceSequence, Outcome
    <2> QED
      BY <2>1, <2>2, <2>3, <2>4, <2>5, Zenon DEF Scanning
  <1>4. sequence' \in Nat
    <2>1. CASE AdvanceSequence
      BY <2>1, ScanShape DEF AdvanceSequence, ScanTyped
    <2>2. CASE ~AdvanceSequence
      BY <2>2, Zenon DEF Scanning, CheckShareRoot, ListIndex, WalkPath, CommitScan, ScanTyped
    <2> QED
      BY <2>1, <2>2, Zenon
  <1>5. ScanTyped'
    BY <1>1, <1>3, <1>4, Zenon DEF ScanTyped, ScanRecords
  <1> QED
    BY <1>1, <1>2, <1>3, <1>5 DEF RestTyped, LoopBusy

\* The daemon's steps keep the loop and the scan.
LEMMA DaemonTyped ==
  ASSUME TypeOK, Writer, Ordered, Start \/ Cancel \/ CloseStore \/ Exit \/ Crash
  PROVE  Writer'
  <1> USE DEF Writer
  <1>1. CASE Start
    <2>1. sequence' \in Nat
      BY <1>1, GreatestSequence, Zenon DEF Start
    <2>2. scan' \in ScanRecords /\ scan' # NoScan
      BY <1>1, Zenon DEF Start, ScanRecords, StartedScan, NoScan
    <2>3. seen' \in [Paths -> SUBSET Contents]
      BY <1>1 DEF Start, FreshlySeen, RestTyped
    <2> QED
      BY <1>1, <2>1, <2>2, <2>3, Zenon DEF Start, RestTyped, ScanTyped, LoopBusy, share
  <1>2. CASE Cancel \/ CloseStore
    BY <1>2 DEF Cancel, CloseStore, RestTyped, ScanTyped, LoopBusy, share, watching
  <1>3. CASE Exit \/ Crash
    <2>1. /\ ProcessEnds /\ disk' = disk /\ mounted' = mounted /\ sequence' = sequence
          /\ seen' = seen
      BY <1>3, Zenon DEF Exit, Crash, share
    <2>2. /\ loop' \in [alive : BOOLEAN, running : BOOLEAN, pending : BOOLEAN, timer : BOOLEAN]
          /\ loop'.alive = FALSE
      BY <2>1, Zenon DEF ProcessEnds, RestTyped
    <2>3. scan' \in ScanRecords
      BY <2>1, Zenon DEF ProcessEnds, ScanRecords
    <2> QED
      BY <2>1, <2>2, <2>3, Zenon DEF ProcessEnds, RestTyped, ScanTyped, LoopBusy
  <1> QED
    BY <1>1, <1>2, <1>3, Zenon

\* Every step keeps the types, the loop and the scan.
LEMMA WriterNext == TypeOK /\ LoopBusy /\ Ordered /\ [Next]_vars => TypeOK' /\ LoopBusy'
  <1> SUFFICES ASSUME TypeOK, LoopBusy, Ordered, [Next]_vars PROVE TypeOK' /\ LoopBusy'
    BY Zenon
  <1>1. Writer
    BY TypeParts, Zenon DEF Writer
  <1>2. Writer'
    <2>1. CASE \/ \E p \in Paths, c \in Contents : Edit(p, c)
               \/ RootLost \/ RootBack \/ WatcherEnds \/ Watching \/ RequestScan
      BY <1>1, <2>1, WatchingTyped, Zenon
    <2>2. CASE Scheduling \/ TimerFires
      BY <1>1, <2>2, SchedulingTyped, Zenon
    <2>3. CASE Scanning
      BY <1>1, <2>3, ScanningTyped, Zenon
    <2>4. CASE Start \/ Cancel \/ CloseStore \/ Exit \/ Crash
      BY <1>1, <2>4, DaemonTyped, Zenon
    <2>5. CASE UNCHANGED vars
      BY <1>1, <2>5 DEF vars, share, watching, Writer, RestTyped, ScanTyped, LoopBusy
    <2> QED
      BY <2>1, <2>2, <2>3, <2>4, <2>5 DEF Next
  <1>3. QueuesTyped'
    BY TypeParts, QueuesNext, Zenon
  <1>4. StoreTyped'
    BY StoreNext, Zenon
  <1>5. TypeOK'
    BY <1>2, <1>3, <1>4, Zenon DEF Writer, TypeOK, StoreTyped, QueuesTyped, RestTyped, ScanTyped, Revision
  <1> QED
    BY <1>2, <1>5, Zenon DEF Writer
-----------------------------------------------------------------------------
(* The scan and what it has seen.                                          *)

\* The disk of an available share stays within what was seen.
LEMMA DiskSeenNext ==
  ASSUME TypeOK, LoopBusy, DiskSeen, [Next]_vars
  PROVE  DiskSeen'
  <1>1. ASSUME NEW p \in Paths, NEW c \in Contents, Edit(p, c)
        PROVE  DiskSeen'
    <2>1. mounted /\ scan' = scan
      BY <1>1, Zenon DEF Edit
    <2>2. \A q \in Paths : /\ disk'[q] = (IF q = p THEN c ELSE disk[q])
                           /\ seen'[q] = (IF q = p THEN seen[q] \cup {c} ELSE seen[q])
      BY <1>1, Zenon DEF Edit, TypeOK
    <2> QED
      BY <2>1, <2>2, Zenon DEF DiskSeen
  <1>2. CASE RootLost
    BY <1>2, Zenon DEF RootLost, DiskSeen
  <1>3. CASE RootBack
    BY <1>3, Zenon DEF RootBack, DiskSeen
  <1>4. CASE WatcherEnds \/ Watching \/ RequestScan \/ LoopReturns
    BY <1>4, Zenon DEF WatcherEnds, Watching, DebounceExpires, Forward, CreateWatcher, RequestScan,
                LoopReturns, DiskSeen, share
  <1>5. CASE TimerFires \/ TakeManual \/ TakeRequest \/ ScanDone
    <2>1. /\ disk' = disk /\ mounted' = mounted
          /\ (scan' = scan /\ seen' = seen) \/ seen' = FreshlySeen
      BY <1>5, Zenon DEF TimerFires, TakeManual, TakeRequest, ScanDone, Triggered, share
    <2> QED
      BY <2>1, Zenon DEF DiskSeen, FreshlySeen
  <1>6. CASE Scanning
    <2>1. disk' = disk /\ mounted' = mounted /\ seen' = seen /\ scan # NoScan
      BY <1>6 DEF Scanning, CheckShareRoot, ListIndex, WalkPath, CommitScan, AdvanceSequence,
                  share, NoScan
    <2> QED
      BY <2>1, Zenon DEF DiskSeen
  <1>7. CASE Start
    BY <1>7, Zenon DEF Start, DiskSeen, FreshlySeen, share
  <1>8. CASE Cancel \/ CloseStore \/ Exit \/ Crash
    BY <1>8, Zenon DEF Cancel, CloseStore, Exit, Crash, ProcessEnds, DiskSeen, share
  <1>9. CASE UNCHANGED vars
    BY <1>9, Zenon DEF vars, share, DiskSeen
  <1> QED
    BY <1>1, <1>2, <1>3, <1>4, <1>5, <1>6, <1>7, <1>8, <1>9, Zenon DEF Next, Scheduling

\* A walking scan's start, previous index and contents stay current.
LEMMA WalkCurrentNext ==
  ASSUME TypeOK, LoopBusy, DiskSeen, WalkCurrent, [Next]_vars
  PROVE  WalkCurrent'
  <1>1. ASSUME scan' = scan, sequence' = sequence, index' = index,
               \A p \in Paths : seen[p] \subseteq seen'[p]
        PROVE  WalkCurrent'
    <2> SUFFICES ASSUME scan.pc = "walk"
                 PROVE  WalkCurrent'
      BY <1>1, Zenon DEF WalkCurrent
    <2>1. scan \in Walk
      BY ScanShape, Zenon DEF TypeOK
    <2>2. Len(scan.got) \in Nat /\ \A p \in 1 .. Len(scan.got) : p \in Paths
      BY <2>1, ScanAssumption DEF Walk, WalkCurrent, Paths
    <2> QED
      BY <1>1, <2>2, Zenon DEF WalkCurrent
  <1>2. CASE \E p \in Paths, c \in Contents : Edit(p, c)
    BY <1>1, <1>2 DEF Edit, TypeOK, store
  <1>3. CASE RootBack
    BY <1>1, <1>3, Zenon DEF RootBack, store
  <1>4. CASE RootLost \/ WatcherEnds \/ Watching \/ RequestScan \/ LoopReturns \/ Cancel \/ CloseStore
    BY <1>1, <1>4, Zenon DEF RootLost, WatcherEnds, Watching, DebounceExpires, Forward, CreateWatcher,
                      RequestScan, LoopReturns, Cancel, CloseStore, store
  <1>5. CASE TimerFires \/ TakeManual \/ TakeRequest \/ ScanDone
    <2>1. /\ sequence' = sequence /\ index' = index
          /\ (scan' = scan /\ seen' = seen) \/ scan' = StartedScan
      BY <1>5, Zenon DEF TimerFires, TakeManual, TakeRequest, ScanDone, Triggered, store
    <2> QED
      BY <1>1, <2>1 DEF WalkCurrent, StartedScan
  <1>6. CASE CheckShareRoot \/ CommitScan \/ AdvanceSequence
    BY <1>6, SMTT(30) DEF CheckShareRoot, CommitScan, AdvanceSequence, Outcome, NoScan, WalkCurrent
  <1>7. CASE ListIndex
    <2>1. CASE ctxOK
      <3>1. /\ scan' = [pc |-> "walk", start |-> sequence, previous |-> index, got |-> <<>>]
            /\ sequence' = sequence /\ index' = index
        BY <1>7, <2>1, Zenon DEF ListIndex, store
      <3>2. /\ scan'.start = sequence /\ scan'.previous = index /\ scan'.got = <<>>
        BY <3>1, Zenon
      <3> QED
        BY <3>1, <3>2, ScanAssumption DEF WalkCurrent
    <2>2. CASE ~ctxOK
      BY <1>7, <2>2 DEF ListIndex, Outcome, NoScan, WalkCurrent
    <2> QED
      BY <2>1, <2>2, Zenon
  <1>8. CASE WalkPath
    <2>1. CASE mounted
      <3>1. RestTyped
        BY TypeParts, Zenon
      <3>2. scan \in Walk /\ scan # NoScan /\ scan.pc = "walk"
        BY <1>8, ScanShape, Zenon DEF TypeOK, WalkPath, NoScan
      <3>3. sequence' = sequence /\ index' = index /\ seen' = seen
        BY <1>8, Zenon DEF WalkPath, store
      <3> DEFINE p == Len(scan.got) + 1
      <3>4. /\ p \in Paths /\ scan'.start = scan.start /\ scan'.previous = scan.previous
            /\ Len(scan'.got) = p /\ scan'.got[p] = disk[p]
            /\ \A q \in 1 .. Len(scan.got) : scan'.got[q] = scan.got[q]
        BY <1>8, <2>1, <3>1, <3>2, WalksOn
      <3>5. disk[p] \in seen[p]
        BY <2>1, <3>2, <3>4 DEF DiskSeen
      <3>6. Len(scan.got) \in Nat
        BY <3>2 DEF Walk
      <3>7. \A q \in 1 .. p : q \in 1 .. Len(scan.got) \/ q = p
        BY <3>6
      <3>8. p <= NPaths
        BY <3>4 DEF Paths
      <3> HIDE DEF p
      <3> QED
        BY <3>2, <3>3, <3>4, <3>5, <3>7, <3>8 DEF WalkCurrent
    <2>2. CASE ~mounted
      BY <1>8, <2>2 DEF WalkPath, Outcome, NoScan, WalkCurrent
    <2> QED
      BY <2>1, <2>2, Zenon
  <1>9. CASE Start \/ Exit \/ Crash
    BY <1>9 DEF Start, Exit, Crash, ProcessEnds, StartedScan, NoScan, WalkCurrent
  <1>10. CASE UNCHANGED vars
    BY <1>1, <1>10, Zenon DEF vars, store
  <1> QED
    BY <1>2, <1>3, <1>4, <1>5, <1>6, <1>7, <1>8, <1>9, <1>10 DEF Next, Scheduling, Scanning
-----------------------------------------------------------------------------
(* The chain of revisions.                                                 *)

\* When a commit is accepted no revision's number is above the counter.
LEMMA CommitAbove ==
  ASSUME TypeOK, SequenceAhead, Commits
  PROVE  \A i \in 1 .. Len(revs) : revs[i].seq \in Nat /\ revs[i].seq <= sequence
  <1>1. daemon = "up" /\ scan.pc = "walk" /\ sequence \in Nat
    BY Zenon DEF Commits, CommitAccepts, ctxOK, TypeOK
  <1>2. InUse = sequence
    BY <1>1 DEF InUse
  <1> QED
    BY <1>1, <1>2, RevisionTyped, Zenon DEF SequenceAhead

\* A commit appends numbers above every number in use, in order.
LEMMA OrderedNext ==
  ASSUME TypeOK, WalkCurrent, SequenceAhead, Ordered, [Next]_vars
  PROVE  Ordered'
  <1>1. CASE Commits
    <2> DEFINE n == Cardinality(Changed(scan))
               m == Len(revs)
    <2>1. /\ n \in Nat /\ m \in Nat
          /\ DOMAIN revs = 1 .. m /\ DOMAIN revs' = 1 .. m + n
          /\ \A i \in 1 .. m : revs'[i] = revs[i]
          /\ \A i \in m + 1 .. m + n : revs'[i].seq = scan.start + (i - m)
      BY <1>1, Appended, Zenon
    <2>2. scan.start = sequence /\ sequence \in Nat
      BY <1>1, Zenon DEF Commits, WalkCurrent, TypeOK
    <2>3. \A i \in 1 .. m : revs[i].seq \in Nat /\ revs[i].seq <= sequence
      BY <1>1, CommitAbove
    <2> HIDE DEF n, m
    <2> SUFFICES ASSUME NEW i \in 1 .. m + n, NEW j \in 1 .. m + n, i < j
                 PROVE  revs'[i].seq < revs'[j].seq
      BY <2>1, Zenon DEF Ordered
    <2>4. CASE i \in 1 .. m /\ j \in 1 .. m
      BY <2>1, <2>4 DEF Ordered
    <2>5. CASE i \in 1 .. m /\ j \in m + 1 .. m + n
      BY <2>1, <2>2, <2>3, <2>5
    <2>6. CASE i \in m + 1 .. m + n /\ j \in m + 1 .. m + n
      BY <2>1, <2>2, <2>6
    <2> QED
      BY <2>1, <2>4, <2>5, <2>6
  <1>2. CASE UNCHANGED store
    BY <1>2, Zenon DEF store, Ordered
  <1> QED
    BY <1>1, <1>2, StoreSteps

\* The counter of a running daemon stays ahead of the numbers of the revisions.
LEMMA SequenceNext ==
  ASSUME TypeOK, LoopBusy, WalkCurrent, SequenceAhead, Ordered, [Next]_vars
  PROVE  SequenceAhead'
  <1>1. CASE Commits
    <2> DEFINE n == Cardinality(Changed(scan))
               m == Len(revs)
    <2>1. /\ n \in Nat /\ m \in Nat
          /\ DOMAIN revs = 1 .. m /\ DOMAIN revs' = 1 .. m + n
          /\ \A i \in 1 .. m : revs'[i] = revs[i]
          /\ \A i \in m + 1 .. m + n : revs'[i].seq = scan.start + (i - m)
      BY <1>1, Appended
    <2>2. scan.start = sequence /\ sequence' = sequence /\ sequence \in Nat
      BY <1>1, Zenon DEF Commits, WalkCurrent, TypeOK
    <2>3. \A i \in 1 .. m : revs[i].seq \in Nat /\ revs[i].seq <= sequence
      BY <1>1, CommitAbove, Zenon
    <2>4. InUse' = sequence + n
      BY <1>1, <2>2, Zenon DEF Commits, InUse
    <2> HIDE DEF n, m
    <2>5. \A i \in 1 .. m + n : revs'[i].seq <= sequence + n
      <3> TAKE i \in 1 .. m + n
      <3>1. CASE i \in 1 .. m
        BY <2>1, <2>2, <2>3, <3>1
      <3>2. CASE i \in m + 1 .. m + n
        BY <2>1, <2>2, <3>2
      <3> QED
        BY <2>1, <3>1, <3>2
    <2> QED
      BY <2>1, <2>4, <2>5 DEF SequenceAhead
  <1>2. CASE UNCHANGED store /\ ~Commits
    <2>1. revs' = revs
      BY <1>2, Zenon DEF store
    <2>2. CASE \/ \E p \in Paths, c \in Contents : Edit(p, c)
               \/ RootLost \/ RootBack \/ WatcherEnds \/ Watching \/ RequestScan \/ LoopReturns
               \/ Cancel \/ CloseStore \/ UNCHANGED vars
      <3>1. /\ scan' = scan /\ sequence' = sequence
            /\ daemon' = daemon \/ daemon # "down"
        BY <2>2, Zenon DEF Edit, RootLost, RootBack, WatcherEnds, Watching, DebounceExpires, Forward,
                    CreateWatcher, RequestScan, LoopReturns, Cancel, CloseStore, vars
      <3> QED
        BY <2>1, <3>1 DEF SequenceAhead, InUse
    <2>3. CASE TimerFires \/ TakeManual \/ TakeRequest \/ ScanDone
      <3>1. sequence' = sequence /\ daemon' = daemon /\ (scan' = scan \/ scan' = StartedScan)
        BY <2>3, Zenon DEF TimerFires, TakeManual, TakeRequest, ScanDone, Triggered
      <3>2. CASE scan' = scan
        BY <2>1, <3>1, <3>2 DEF SequenceAhead, InUse
      <3>3. CASE scan' # scan
        <4>1. scan = NoScan
          BY <2>3, <3>3 DEF TimerFires, TakeManual, TakeRequest, ScanDone, Triggered, LoopBusy,
                            TypeOK
        <4>2. InUse = sequence /\ InUse' = sequence'
          BY <3>1, <3>3, <4>1 DEF InUse, StartedScan, NoScan, TypeOK
        <4> QED
          BY <2>1, <3>1, <4>2 DEF SequenceAhead
      <3> QED
        BY <3>2, <3>3
    <2>4. CASE CheckShareRoot \/ ListIndex \/ WalkPath \/ CommitScan
      <3>1. /\ sequence' = sequence /\ daemon' = daemon
            /\ scan.pc # "advance" /\ scan'.pc # "advance"
        <4>1. CASE WalkPath
          <5>1. scan \in Walk
            BY <4>1, ScanShape, Zenon DEF WalkPath, TypeOK
          <5> QED
            BY <4>1, <5>1 DEF WalkPath, Outcome, NoScan, Walk
        <4>2. CASE CommitScan
          BY <1>2, <4>2, SMTT(30) DEF CommitScan, Commits, Outcome, NoScan
        <4> QED
          BY <2>4, <4>1, <4>2, SMTT(30) DEF CheckShareRoot, ListIndex, Outcome, NoScan
      <3> QED
        BY <2>1, <3>1, Zenon DEF SequenceAhead, InUse
    <2>5. CASE AdvanceSequence
      <3>1. /\ sequence' = sequence + scan.count /\ daemon' = daemon /\ scan.pc = "advance"
            /\ scan'.pc # "advance"
        BY <2>5 DEF AdvanceSequence, Outcome, NoScan
      <3>2. InUse' = sequence'
        BY <3>1, ScanShape DEF InUse, TypeOK
      <3> QED
        BY <2>1, <3>1, <3>2 DEF SequenceAhead, InUse
    <2>6. CASE Start
      <3>1. sequence' \in Nat /\ \A i \in DOMAIN revs : revs[i].seq <= sequence'
        BY <2>6, GreatestSequence, Zenon DEF Start
      <3>2. InUse' = sequence'
        BY <2>6, <3>1 DEF Start, InUse, StartedScan
      <3> QED
        BY <2>1, <3>1, <3>2, Zenon DEF SequenceAhead
    <2>7. CASE Exit \/ Crash
      BY <2>7, Zenon DEF Exit, Crash, ProcessEnds, SequenceAhead
    <2> QED
      BY <2>2, <2>3, <2>4, <2>5, <2>6, <2>7 DEF Next, Scheduling, Scanning
  <1> QED
    BY <1>1, <1>2, StoreSteps

\* A commit leaves the index at the last revision of every path, and gives each new
\* revision the last one before it as its parent.
LEMMA LastNext ==
  ASSUME TypeOK, WalkCurrent, IndexLast, ParentsLast, [Next]_vars
  PROVE  IndexLast' /\ ParentsLast'
  <1>1. CASE Commits
    <2> DEFINE C == Changed(scan)
               n == Cardinality(C)
               m == Len(revs)
    <2>1. /\ n \in Nat /\ m \in Nat /\ Len(revs') = m + n
          /\ DOMAIN revs = 1 .. m /\ DOMAIN revs' = 1 .. m + n
          /\ \A i \in 1 .. m : revs'[i] = revs[i]
          /\ \A i \in m + 1 .. m + n :
                /\ revs'[i].path \in C /\ Rank(C, revs'[i].path) = i - m
                /\ revs'[i].parent = scan.previous[revs'[i].path]
      BY <1>1, Appended
    <2>2. /\ \A p \in Paths \ C : index'[p] = index[p]
          /\ \A p \in C : index'[p] = m + Rank(C, p) /\ Rank(C, p) \in 1 .. n
      BY <1>1, Repointed
    <2>3. C \in SUBSET Paths
      BY Zenon DEF Changed
    <2>4. \A q, r \in C : Rank(C, q) = Rank(C, r) => q = r
      BY <2>3, Ranks
    <2>5. scan.previous = index
      BY <1>1, Zenon DEF Commits, WalkCurrent
    <2> HIDE DEF C, n, m
    <2>6. \A p \in Paths : /\ index[p] \in 0 .. m
                           /\ index[p] # 0 => revs'[index[p]].path = p
                           /\ \A j \in 1 .. m : revs'[j].path = p => j <= index[p]
      <3> TAKE p \in Paths
      <3>1. IsLast(index[p], p, m)
        BY Zenon DEF IndexLast, m
      <3>2. index[p] \in 0 .. m /\ (index[p] # 0 => index[p] \in 1 .. m)
        BY <2>1, <3>1 DEF IsLast
      <3> QED
        BY <2>1, <3>1, <3>2 DEF IsLast
    <2>7. \A i \in 1 .. m + n : i \in 1 .. m \/ i \in m + 1 .. m + n
      BY <2>1
    <2>8. ASSUME NEW p \in Paths
          PROVE  IsLast(index[p], p, Len(revs))'
      <3> DEFINE x == index'[p]
      <3>1. CASE p \in C
        <4>1. x = m + Rank(C, p) /\ Rank(C, p) \in 1 .. n
          BY <2>2, <3>1
        <4>2. x \in m + 1 .. m + n /\ x - m = Rank(C, p) /\ x \in 0 .. m + n
          BY <2>1, <4>1
        <4>3. revs'[x].path = p
          BY <2>1, <2>4, <3>1, <4>2
        <4>4. \A j \in m + 1 .. m + n : revs'[j].path = p => j = x
          BY <2>1, <4>1, <4>2
        <4>5. \A j \in 1 .. m + n : revs'[j].path = p => j <= x
          BY <2>1, <2>7, <4>2, <4>4
        <4> HIDE DEF x
        <4> QED
          BY <2>1, <4>2, <4>3, <4>5 DEF IsLast, x
      <3>2. CASE p \notin C
        <4>1. x = index[p]
          BY <2>2, <3>2
        <4>2. \A j \in m + 1 .. m + n : revs'[j].path # p
          BY <2>1, <3>2
        <4>3. x \in 0 .. m + n /\ (x # 0 => revs'[x].path = p)
          BY <2>1, <2>6, <4>1
        <4>4. \A j \in 1 .. m + n : revs'[j].path = p => j <= x
          BY <2>6, <2>7, <4>1, <4>2, Zenon
        <4> HIDE DEF x
        <4> QED
          BY <2>1, <4>3, <4>4 DEF IsLast, x
      <3> QED
        BY <3>1, <3>2, Zenon
    <2>9. ASSUME NEW i \in 1 .. m + n
          PROVE  IsLast(revs[i].parent, revs[i].path, i - 1)'
      <3>1. CASE i \in 1 .. m
        <4>1. IsLast(revs[i].parent, revs[i].path, i - 1)
          BY <2>1, <3>1 DEF ParentsLast
        <4>2. revs'[i] = revs[i] /\ \A j \in 1 .. i - 1 : revs'[j] = revs[j]
          BY <2>1, <3>1
        <4>3. revs[i].parent \in 0 .. i - 1 /\ (revs[i].parent # 0 => revs[i].parent \in 1 .. i - 1)
          BY <3>1, <4>1 DEF IsLast
        <4> QED
          BY <4>1, <4>2, <4>3 DEF IsLast
      <3>2. CASE i \in m + 1 .. m + n
        <4> DEFINE q == revs'[i].path
        <4>1. q \in C /\ q \in Paths /\ Rank(C, q) = i - m /\ revs'[i].parent = index[q]
          BY <2>1, <2>3, <2>5, <3>2
        <4>2. \A j \in m + 1 .. i - 1 : revs'[j].path # q
          <5> SUFFICES ASSUME NEW j \in m + 1 .. i - 1, revs'[j].path = q
                       PROVE  FALSE
            BY Zenon
          <5>1. j \in m + 1 .. m + n
            BY <2>1, <3>2
          <5>2. Rank(C, q) = j - m
            BY <2>1, <5>1, Zenon
          <5> QED
            BY <2>1, <3>2, <4>1, <5>2
        <4>3. \A j \in 1 .. i - 1 : j \in 1 .. m \/ j \in m + 1 .. i - 1
          BY <2>1, <3>2
        <4>4. index[q] \in 0 .. i - 1
          <5>1. index[q] \in 0 .. m
            BY <2>6, <4>1
          <5> QED
            BY <2>1, <3>2, <5>1
        <4> HIDE DEF q
        <4>5. \A j \in 1 .. i - 1 : revs'[j].path = q => j <= index[q]
          BY <2>6, <4>1, <4>2, <4>3
        <4> QED
          BY <2>6, <4>1, <4>4, <4>5, Zenon DEF IsLast, q
      <3> QED
        BY <2>7, <3>1, <3>2
    <2> QED
      BY <2>1, <2>8, <2>9 DEF IndexLast, ParentsLast
  <1>2. CASE UNCHANGED store
    BY <1>2, Zenon DEF store, IndexLast, ParentsLast, IsLast
  <1> QED
    BY <1>1, <1>2, StoreSteps
-----------------------------------------------------------------------------
(* The theorems.                                                           *)

\* The last of the earlier revisions of a path is the greatest of their positions.
LEMMA LastIsMax ==
  ASSUME NEW p, NEW n \in Nat, NEW x, IsLast(x, p, n)
  PROVE  x = Max({j \in 1 .. n : revs[j].path = p} \cup {0})
  <1> DEFINE S == {j \in 1 .. n : revs[j].path = p} \cup {0}
  <1>1. S \in SUBSET Nat
    OBVIOUS
  <1>2. x \in S
    BY DEF IsLast
  <1>3. \A y \in S : x >= y
    BY DEF IsLast
  <1> HIDE DEF S
  <1>4. Max(S) = x
    BY <1>1, <1>2, <1>3, MaxIs, Zenon
  <1> QED
    BY <1>4, Zenon DEF S

\* The inductive invariant implies what the runs check.
LEMMA ScanImplied == IScanInv => ScanInv
  <1> SUFFICES ASSUME IScanInv PROVE ScanInv
    BY Zenon
  <1>1. PendingHasScan
    BY Zenon DEF IScanInv, WriterInv, LoopBusy, PendingHasScan, TypeOK
  <1>2. \A i \in DOMAIN revs :
           revs[i].parent = Max({j \in 1..i - 1 : revs[j].path = revs[i].path} \cup {0})
    <2> TAKE i \in DOMAIN revs
    <2>1. i - 1 \in Nat
      BY RevisionTyped DEF IScanInv
    <2>2. IsLast(revs[i].parent, revs[i].path, i - 1)
      BY Zenon DEF IScanInv, ChainInv, ParentsLast
    <2> QED
      BY <2>1, <2>2, LastIsMax
  <1> QED
    BY <1>1, <1>2 DEF IScanInv, ChainInv, ScanInv, RevisionsChain, Ordered

\* The inductive invariant holds initially and is kept by every step.
LEMMA ScanInductive == (Init => IScanInv) /\ (IScanInv /\ [Next]_vars => IScanInv')
  <1>1. Init => IScanInv
    <2> SUFFICES ASSUME Init PROVE IScanInv
      BY Zenon
    <2>1. WriterInv
      BY Zenon DEF Init, WriterInv, LoopBusy, DiskSeen, WalkCurrent, NoScan
    <2>2. Len(revs) = 0 /\ DOMAIN revs = {}
      BY DEF Init
    <2>3. IndexLast
      BY <2>2, SMTT(30) DEF Init, IndexLast, IsLast
    <2> QED
      BY <2>1, <2>2, <2>3, TypeInit DEF IScanInv, ChainInv, SequenceAhead, Ordered, ParentsLast
  <1>2. IScanInv /\ [Next]_vars => IScanInv'
    <2> SUFFICES ASSUME IScanInv, [Next]_vars PROVE IScanInv'
      BY Zenon
    <2>1. TypeOK' /\ LoopBusy'
      BY WriterNext DEF IScanInv, WriterInv, ChainInv
    <2>2. DiskSeen' /\ WalkCurrent'
      BY DiskSeenNext, WalkCurrentNext DEF IScanInv, WriterInv
    <2>3. Ordered' /\ SequenceAhead'
      BY OrderedNext, SequenceNext DEF IScanInv, WriterInv, ChainInv
    <2>4. IndexLast' /\ ParentsLast'
      BY LastNext DEF IScanInv, WriterInv, ChainInv
    <2> QED
      BY <2>1, <2>2, <2>3, <2>4 DEF IScanInv, WriterInv, ChainInv
  <1> QED
    BY <1>1, <1>2

\* For any number of paths and any bound: the loop never loses a pending trigger, and
\* through failed commits, shutdowns, crashes and the reload of the sequence the
\* share's revisions stay one chain with increasing numbers.
THEOREM ScanSafety == Spec => []ScanInv
  <1>1. Spec => []IScanInv
    BY ScanInductive, PTL DEF Spec
  <1> QED
    BY <1>1, ScanImplied, PTL

\* A commit records contents the scan has seen.
LEMMA RecordsSeen ==
  ASSUME IScanInv, [Next]_vars
  PROVE  \A i \in (DOMAIN revs') \ (DOMAIN revs) : revs'[i].content \in seen[revs'[i].path]
  <1>1. CASE Commits
    <2> DEFINE n == Cardinality(Changed(scan))
               m == Len(revs)
    <2>1. /\ n \in Nat /\ m \in Nat
          /\ DOMAIN revs = 1 .. m /\ DOMAIN revs' = 1 .. m + n
          /\ \A i \in m + 1 .. m + n : /\ revs'[i].path \in Changed(scan)
                                       /\ revs'[i].content = scan.got[revs'[i].path]
      BY <1>1, Appended DEF IScanInv
    <2>2. \A p \in Paths : scan.got[p] \in seen[p]
      BY <1>1, Zenon DEF IScanInv, WriterInv, WalkCurrent, Commits, Paths
    <2>3. \A p \in Changed(scan) : p \in Paths
      BY Zenon DEF Changed
    <2> HIDE DEF n, m
    <2>4. \A i \in (1 .. m + n) \ (1 .. m) : i \in m + 1 .. m + n
      BY <2>1
    <2> QED
      BY <2>1, <2>2, <2>3, <2>4
  <1>2. CASE UNCHANGED store
    BY <1>2, Zenon DEF store
  <1> QED
    BY <1>1, <1>2, StoreSteps

\* A commit's deletions are those the guard has counted, out of the paths it counted.
LEMMA LostBounded ==
  ASSUME IScanInv, [Next]_vars, MaxPercent > 0
  PROVE  LET active == {p \in Paths : Indexed(index, p) # Gone}
             lost == {p \in active : index'[p] # index[p] /\ revs'[index'[p]].content = Gone}
         IN  Cardinality(lost) * 100 <= MaxPercent * Cardinality(active)
  <1> DEFINE active == {p \in Paths : Indexed(index, p) # Gone}
             lost == {p \in active : index'[p] # index[p] /\ revs'[index'[p]].content = Gone}
  <1>1. IsFiniteSet(Paths)
    BY ScanAssumption, FS_Interval DEF Paths
  <1>2. IsFiniteSet(active) /\ Cardinality(active) \in Nat
    BY <1>1, FS_Subset, FS_CardinalityType, Zenon
  <1>3. CASE Commits
    <2> DEFINE n == Cardinality(Changed(scan))
               m == Len(revs)
    <2>1. scan.previous = index
      BY <1>3 DEF IScanInv, WriterInv, WalkCurrent, Commits
    <2>2. Active(scan) = active
      BY <2>1 DEF Active
    <2>3. /\ n \in Nat /\ m \in Nat
          /\ \A i \in m + 1 .. m + n : /\ revs'[i].path \in Changed(scan)
                                       /\ Rank(Changed(scan), revs'[i].path) = i - m
                                       /\ revs'[i].content = scan.got[revs'[i].path]
      BY <1>3, Appended DEF IScanInv
    <2>4. /\ \A p \in Paths \ Changed(scan) : index'[p] = index[p]
          /\ \A p \in Changed(scan) :
                index'[p] = m + Rank(Changed(scan), p) /\ Rank(Changed(scan), p) \in 1 .. n
      BY <1>3, Repointed DEF IScanInv
    <2>5. \A q, r \in Changed(scan) : Rank(Changed(scan), q) = Rank(Changed(scan), r) => q = r
      BY Ranks DEF Changed
    <2> HIDE DEF n, m
    <2>6. ASSUME NEW p \in lost
          PROVE  p \in Deleted(scan)
      <3>1. p \in Paths /\ p \in Changed(scan) /\ revs'[index'[p]].content = Gone
        BY <2>4
      <3> DEFINE x == index'[p]
      <3>2. x \in m + 1 .. m + n /\ x - m = Rank(Changed(scan), p)
        BY <2>3, <2>4, <3>1, SMTT(30)
      <3>3. revs'[x].path = p
        BY <2>3, <2>5, <3>1, <3>2
      <3>4. scan.got[p] = Gone
        BY <2>3, <3>1, <3>2, <3>3
      <3> QED
        BY <3>1, <3>4 DEF Deleted
    <2>7. IsFiniteSet(Deleted(scan)) /\ Cardinality(Deleted(scan)) \in Nat
      BY <1>1, FS_Subset, FS_CardinalityType DEF Deleted, Changed
    <2>8. Cardinality(lost) <= Cardinality(Deleted(scan)) /\ Cardinality(lost) \in Nat
      BY <2>6, <2>7, FS_Subset, FS_CardinalityType
    <2>9. Cardinality(Deleted(scan)) * 100 <= MaxPercent * Cardinality(active)
      BY <1>3, <2>2 DEF Commits, DeletionsAllowed
    <2>10. MaxPercent * Cardinality(active) \in Int
      BY <1>2, ScanAssumption
    <2> HIDE DEF active, lost
    <2> QED
      BY <2>7, <2>8, <2>9, <2>10, SMTT(30) DEF active, lost
  <1>4. CASE UNCHANGED store
    <2>1. lost = {}
      BY <1>4 DEF store
    <2>2. Cardinality(lost) = 0
      BY <2>1, FS_EmptySet, Zenon
    <2>3. MaxPercent * Cardinality(active) >= 0
      BY <1>2, ScanAssumption
    <2> QED
      BY <2>2, <2>3, SMTT(30)
  <1> QED
    BY <1>3, <1>4, StoreSteps, Zenon

\* For any number of paths and any guard: however edits, lost roots and restarts
\* interleave with a scan, a commit records only what the disk held while the scan ran,
\* and deletes no larger a share of the indexed paths than the guard allows.
THEOREM CommitSafety == Spec => CommitsJustified
  <1>1. Spec => []IScanInv
    BY ScanInductive, PTL DEF Spec
  <1>2. IScanInv /\ [Next]_vars =>
            [\A i \in (DOMAIN revs') \ (DOMAIN revs) : revs'[i].content \in seen[revs'[i].path]]_vars
    BY RecordsSeen
  <1>3. IScanInv /\ [Next]_vars =>
            [LET active == {p \in Paths : Indexed(index, p) # Gone}
                 lost == {p \in active : index'[p] # index[p] /\ revs'[index'[p]].content = Gone}
             IN  MaxPercent > 0 => Cardinality(lost) * 100 <= MaxPercent * Cardinality(active)]_vars
    BY LostBounded
  <1>4. Spec => RecordsWhatWasSeen
    BY <1>1, <1>2, PTL DEF Spec, RecordsWhatWasSeen
  <1>5. Spec => DeletionsBounded
    BY <1>1, <1>3, PTL DEF Spec, DeletionsBounded
  <1> QED
    BY <1>4, <1>5 DEF CommitsJustified
=============================================================================
