----------------------------- MODULE ShareScan -----------------------------
(***************************************************************************)
(* The automatic scanner of one source share: the platform watcher and its *)
(* supervisor, the scan schedule, the scan goroutine that walks the share  *)
(* and commits revisions, and the daemon that starts and stops them        *)
(* (src/internal/sync/{watcher,supervisor,scheduler,planner,reconcile,     *)
(* deletion_guard,revisions,commit}.go, src/internal/daemon/daemon.go).    *)
(*                                                                         *)
(* Paths are numbered in their sort order.  The content of a path is a     *)
(* model value, or Gone.  Delays are left to fairness: an armed timer may  *)
(* fire at any time.  Each SQLite transaction is one step.                 *)
(***************************************************************************)
EXTENDS Naturals, Sequences, FiniteSets, FiniteSetsExt, TLC

CONSTANTS
    NPaths,         \* paths of the share are 1..NPaths
    Values,         \* contents a path can have
    Gone,           \* the content of a path that does not exist
    MaxCount,       \* DeletionGuard.MaxCount, 0 for no limit
    MaxPercent,     \* DeletionGuard.MaxPercent, 0 for no limit
    OutputSize,     \* capacity of the trigger and the request channels
    MaxUpsets       \* bound on edits, losses of the root or the watcher, and stops

ASSUME ScanAssumption ==
    /\ NPaths \in Nat \ {0} /\ Gone \notin Values
    /\ MaxCount \in Nat /\ MaxPercent \in 0..100 /\ OutputSize \in Nat \ {0}

Paths == 1..NPaths
Contents == Values \cup {Gone}
NoScan == [pc |-> "none"]

VARIABLES
    disk,       \* what each path of the share holds
    mounted,    \* is the share root available?
    index,      \* file_index: current revision of each path, 0 for no row
    revs,       \* the revisions table, in the order of insertion
    sequence,   \* the share runtime's in-memory sequence counter
    scan,       \* the scan goroutine
    done,       \* its outcome in the done channel: "none", "ok" or "err"
    loop,       \* the schedule loop: alive, running, pending, timer armed
    watch,      \* the watcher: alive, events in the open debounce window
    trigger,    \* requests in the WatchTrigger's channel
    requests,   \* requests in the supervisor's channel
    manual,     \* is a manual request in its channel?
    daemon,     \* "down", "up", "canceled", "closed"
    seen,       \* contents each path had while the present scan ran
    upsets      \* how many edits, losses and stops there were

share == <<disk, mounted>>
store == <<index, revs>>
watching == <<watch, trigger, requests>>
vars == <<share, store, sequence, scan, done, loop, watching, manual, daemon, seen, upsets>>

\* What the index says a path holds.
Indexed(i, p) == IF i[p] = 0 THEN Gone ELSE revs[i[p]].content

Init ==
    /\ disk \in [Paths -> Contents]
    /\ mounted = TRUE
    /\ index = [p \in Paths |-> 0]
    /\ revs = <<>>
    /\ sequence = 0
    /\ scan = NoScan /\ done = "none"
    /\ loop = [alive |-> FALSE, running |-> FALSE, pending |-> FALSE, timer |-> FALSE]
    /\ watch = [alive |-> FALSE, events |-> FALSE]
    /\ trigger = 0 /\ requests = 0 /\ manual = FALSE
    /\ daemon = "down"
    /\ seen = [p \in Paths |-> {}]
    /\ upsets = 0

-----------------------------------------------------------------------------
(* The share's root and its files.                                         *)

\* A live watcher reports the change, or that its queue overflowed.
Edit(p, c) ==
    /\ upsets < MaxUpsets /\ mounted /\ c # disk[p]
    /\ disk' = [disk EXCEPT ![p] = c]
    /\ seen' = [seen EXCEPT ![p] = @ \cup {c}]
    /\ watch' = [watch EXCEPT !.events = watch.alive]
    /\ upsets' = upsets + 1
    /\ UNCHANGED <<mounted, store, sequence, scan, done, loop, trigger, requests, manual,
                   daemon>>

RootLost ==
    /\ upsets < MaxUpsets /\ mounted
    /\ mounted' = FALSE
    /\ upsets' = upsets + 1
    /\ UNCHANGED <<disk, store, sequence, scan, done, loop, watching, manual, daemon, seen>>

RootBack ==
    /\ ~mounted
    /\ mounted' = TRUE
    /\ seen' = [p \in Paths |-> seen[p] \cup {disk[p]}]
    /\ UNCHANGED <<disk, store, sequence, scan, done, loop, watching, manual, daemon, upsets>>

-----------------------------------------------------------------------------
(* The watcher and its supervisor.                                         *)

\* flush: a full channel drops the request, for one in it will be served later.
Flushed == IF watch.events /\ trigger < OutputSize THEN trigger + 1 ELSE trigger

DebounceExpires ==
    /\ watch.alive /\ watch.events
    /\ trigger' = Flushed
    /\ watch' = [watch EXCEPT !.events = FALSE]
    /\ UNCHANGED <<share, store, sequence, scan, done, loop, requests, manual, daemon, seen, upsets>>

\* The backend closes its events: the open window is flushed, the trigger ends.
WatcherEnds ==
    /\ upsets < MaxUpsets /\ watch.alive
    /\ trigger' = Flushed
    /\ watch' = [alive |-> FALSE, events |-> FALSE]
    /\ upsets' = upsets + 1
    /\ UNCHANGED <<share, store, sequence, scan, done, loop, requests, manual, daemon, seen>>

\* The supervisor passes a request on, waiting for room.
Forward ==
    /\ daemon = "up" /\ trigger > 0 /\ requests < OutputSize
    /\ trigger' = trigger - 1
    /\ requests' = requests + 1
    /\ UNCHANGED <<share, store, sequence, scan, done, loop, watch, manual, daemon, seen, upsets>>

\* After the ended trigger is drained a new watcher is created; when the root is
\* not there the creation fails and asks for a scan instead.
CreateWatcher ==
    /\ daemon = "up" /\ ~watch.alive /\ trigger = 0
    /\ \/ /\ mounted
          /\ watch' = [alive |-> TRUE, events |-> FALSE]
          /\ UNCHANGED requests
       \/ /\ ~mounted /\ requests < OutputSize
          /\ requests' = requests + 1
          /\ UNCHANGED watch
    /\ UNCHANGED <<share, store, sequence, scan, done, loop, trigger, manual, daemon, seen, upsets>>

-----------------------------------------------------------------------------
(* The schedule loop.                                                      *)

StartedScan == [pc |-> "root"]
FreshlySeen == [p \in Paths |-> IF mounted THEN {disk[p]} ELSE {}]

\* A trigger starts a scan, or is kept as the one pending trigger.
Triggered(next) ==
    IF loop.running
    THEN /\ loop' = [next EXCEPT !.pending = TRUE]
         /\ UNCHANGED <<scan, seen>>
    ELSE /\ loop' = [next EXCEPT !.running = TRUE]
         /\ scan' = StartedScan
         /\ seen' = FreshlySeen

TimerFires ==
    /\ loop.alive /\ loop.timer
    /\ Triggered([loop EXCEPT !.timer = FALSE])
    /\ UNCHANGED <<share, store, sequence, done, watching, manual, daemon, upsets>>

TakeManual ==
    /\ loop.alive /\ manual
    /\ manual' = FALSE
    /\ Triggered(loop)
    /\ UNCHANGED <<share, store, sequence, done, watching, daemon, upsets>>

TakeRequest ==
    /\ loop.alive /\ requests > 0
    /\ requests' = requests - 1
    /\ Triggered(loop)
    /\ UNCHANGED <<share, store, sequence, done, watch, trigger, manual, daemon, upsets>>

\* Mutant: the timer is left as the last scan found it.
ScanDoneKeepsTimer ==
    /\ loop.alive /\ done # "none"
    /\ done' = "none"
    /\ loop' = [loop EXCEPT !.running = loop.pending, !.pending = FALSE]
    /\ scan' = IF loop.pending THEN StartedScan ELSE scan
    /\ seen' = IF loop.pending THEN FreshlySeen ELSE seen
    /\ UNCHANGED <<share, store, sequence, watching, manual, daemon, upsets>>

\* The outcome of a scan is received: the timer is reset (after a failure with a
\* longer delay) and a pending trigger starts the next scan.
ScanDone ==
    /\ loop.alive /\ done # "none"
    /\ done' = "none"
    /\ loop' = [loop EXCEPT !.running = loop.pending, !.pending = FALSE, !.timer = TRUE]
    /\ scan' = IF loop.pending THEN StartedScan ELSE scan
    /\ seen' = IF loop.pending THEN FreshlySeen ELSE seen
    /\ UNCHANGED <<share, store, sequence, watching, manual, daemon, upsets>>

-----------------------------------------------------------------------------
(* The scan goroutine: root check, file index, walk, guard, commit.        *)

Outcome(o) ==
    /\ scan' = NoScan
    /\ done' = o

ctxOK == daemon = "up"

CheckShareRoot ==
    /\ scan.pc = "root"
    /\ IF mounted THEN scan' = [pc |-> "list"] /\ UNCHANGED done ELSE Outcome("err")
    /\ UNCHANGED <<share, store, sequence, loop, watching, manual, daemon, seen, upsets>>

\* scan() reads its sequence start; Plan lists the previous file index.
ListIndex ==
    /\ scan.pc = "list"
    /\ IF ctxOK
       THEN /\ scan' = [pc |-> "walk", start |-> sequence, previous |-> index, got |-> <<>>]
            /\ UNCHANGED done
       ELSE Outcome("err")
    /\ UNCHANGED <<share, store, sequence, loop, watching, manual, daemon, seen, upsets>>

\* Mutant: a path that cannot be read is taken to be gone.
WalkPathIgnoresErrors ==
    /\ scan.pc = "walk" /\ Len(scan.got) < NPaths
    /\ LET p == Len(scan.got) + 1
       IN  scan' = [scan EXCEPT !.got = Append(@, IF mounted THEN disk[p] ELSE Gone)]
    /\ UNCHANGED <<share, store, sequence, done, loop, watching, manual, daemon, seen, upsets>>

\* ScanShare reads the paths in order; any error fails the scan.
WalkPath ==
    /\ scan.pc = "walk" /\ Len(scan.got) < NPaths
    /\ IF mounted
       THEN /\ scan' = [scan EXCEPT !.got = Append(@, disk[Len(@) + 1])]
            /\ UNCHANGED done
       ELSE Outcome("err")
    /\ UNCHANGED <<share, store, sequence, loop, watching, manual, daemon, seen, upsets>>

\* ReconcileScan: the changes of a scan s, and its deletions.
Changed(s) == {p \in Paths : Indexed(s.previous, p) # s.got[p]}
Deleted(s) == {p \in Changed(s) : s.got[p] = Gone}
Active(s) == {p \in Paths : Indexed(s.previous, p) # Gone}

\* CheckDeletionGuard
DeletionsAllowed(s) ==
    LET count == Cardinality(Deleted(s))
    IN  /\ MaxCount > 0 => count <= MaxCount
        /\ MaxPercent > 0 => count * 100 <= MaxPercent * Cardinality(Active(s))

\* BuildRevisions: one per change, in path order, numbered on from the start.
BuildRevisions(s) ==
    [i \in 1..Cardinality(Changed(s)) |->
        LET p == CHOOSE q \in Changed(s) : Cardinality({r \in Changed(s) : r <= q}) = i
        IN  [path |-> p, parent |-> s.previous[p], content |-> s.got[p], seq |-> s.start + i]]

\* CommitSnapshotAndTombstones compares the snapshot with the index once more.
CommitAccepts(s) == ctxOK /\ \A p \in Changed(s) : index[p] = s.previous[p]

\* The index pointers after the revisions are appended.
Pointer(s, p) ==
    IF p \in Changed(s)
    THEN Len(revs) + Cardinality({q \in Changed(s) : q <= p})
    ELSE index[p]

CommitScan ==
    /\ scan.pc = "walk" /\ Len(scan.got) = NPaths
    /\ IF DeletionsAllowed(scan) /\ CommitAccepts(scan)
       THEN /\ revs' = revs \o BuildRevisions(scan)
            /\ index' = [p \in Paths |-> Pointer(scan, p)]
            /\ scan' = [pc |-> "advance", count |-> Cardinality(Changed(scan))]
            /\ UNCHANGED done
       ELSE /\ Outcome(IF DeletionsAllowed(scan) THEN "err" ELSE "ok")
            /\ UNCHANGED store
    /\ UNCHANGED <<share, sequence, loop, watching, manual, daemon, seen, upsets>>

\* Mutant: the counter stays where it was.
AdvanceNothing ==
    /\ scan.pc = "advance"
    /\ Outcome("ok")
    /\ UNCHANGED <<share, store, sequence, loop, watching, manual, daemon, seen, upsets>>

\* After the commit the runtime's counter moves on; the request for project
\* ingestion that follows may fail.
AdvanceSequence ==
    /\ scan.pc = "advance"
    /\ sequence' = sequence + scan.count
    /\ \E o \in {"ok", "err"} : Outcome(o)
    /\ UNCHANGED <<share, store, loop, watching, manual, daemon, seen, upsets>>

-----------------------------------------------------------------------------
(* The daemon.                                                             *)

\* RequestScan
RequestScan ==
    /\ daemon = "up" /\ ~manual
    /\ manual' = TRUE
    /\ UNCHANGED <<share, store, sequence, scan, done, loop, watching, daemon, seen, upsets>>

\* Bootstrap loads the greatest sequence (MaxSequence); startRuntimes starts the
\* loop, which starts a scan at once.
Start ==
    /\ daemon = "down"
    /\ daemon' = "up"
    /\ sequence' = Max({revs[i].seq : i \in DOMAIN revs} \cup {0})
    /\ loop' = [alive |-> TRUE, running |-> TRUE, pending |-> FALSE, timer |-> TRUE]
    /\ scan' = StartedScan
    /\ seen' = FreshlySeen
    /\ done' = "none" /\ manual' = FALSE
    /\ watch' = [alive |-> FALSE, events |-> FALSE] /\ trigger' = 0 /\ requests' = 0
    /\ UNCHANGED <<share, store, upsets>>

\* Close cancels the run context.
Cancel ==
    /\ daemon = "up" /\ upsets < MaxUpsets
    /\ daemon' = "canceled"
    /\ upsets' = upsets + 1
    /\ UNCHANGED <<share, store, sequence, scan, done, loop, watching, manual, seen>>

\* The loop sees ctx.Done and returns, closing its outcomes channel.
LoopReturns ==
    /\ daemon = "canceled" /\ loop.alive
    /\ loop' = [loop EXCEPT !.alive = FALSE]
    /\ watch' = [alive |-> FALSE, events |-> FALSE]
    /\ UNCHANGED <<share, store, sequence, scan, done, trigger, requests, manual, daemon, seen, upsets>>

\* retainOutcomes has seen the channel closed: runtimeWG.Wait returns and the
\* store is closed.
CloseStore ==
    /\ daemon = "canceled" /\ ~loop.alive
    /\ daemon' = "closed"
    /\ UNCHANGED <<share, store, sequence, scan, done, loop, watching, manual, seen, upsets>>

\* The process ends, with every goroutine in it.
ProcessEnds ==
    /\ daemon' = "down"
    /\ scan' = NoScan /\ done' = "none"
    /\ loop' = [loop EXCEPT !.alive = FALSE, !.running = FALSE, !.pending = FALSE, !.timer = FALSE]
    /\ watch' = [alive |-> FALSE, events |-> FALSE] /\ trigger' = 0 /\ requests' = 0
    /\ manual' = FALSE

Exit ==
    /\ daemon = "closed"
    /\ ProcessEnds
    /\ UNCHANGED <<share, store, sequence, seen, upsets>>

Crash ==
    /\ daemon # "down" /\ upsets < MaxUpsets
    /\ upsets' = upsets + 1
    /\ ProcessEnds
    /\ UNCHANGED <<share, store, sequence, seen>>

Watching == DebounceExpires \/ Forward \/ CreateWatcher
Scheduling == TakeManual \/ TakeRequest \/ ScanDone \/ LoopReturns
Scanning == CheckShareRoot \/ ListIndex \/ WalkPath \/ CommitScan \/ AdvanceSequence

Next ==
    \/ \E p \in Paths, c \in Contents : Edit(p, c)
    \/ RootLost \/ RootBack \/ WatcherEnds
    \/ Watching \/ Scheduling \/ TimerFires \/ Scanning
    \/ RequestScan
    \/ Start \/ Cancel \/ CloseStore \/ Exit \/ Crash

\* Go's runtime runs every goroutine that can run and fires every armed timer,
\* its select chooses among ready channels at random, a lost root comes back and
\* the daemon is started again after it stopped.
Fairness ==
    /\ WF_vars(Watching) /\ WF_vars(Scanning)
    /\ WF_vars(TimerFires) /\ WF_vars(ScanDone) /\ WF_vars(LoopReturns)
    /\ SF_vars(TakeRequest) /\ SF_vars(TakeManual)
    /\ WF_vars(RootBack) /\ WF_vars(Start) /\ WF_vars(CloseStore) /\ WF_vars(Exit)

Spec == Init /\ [][Next]_vars /\ Fairness

-----------------------------------------------------------------------------
ScanRecords ==
    {NoScan, StartedScan, [pc |-> "list"]}
    \cup [pc : {"walk"}, start : Nat, previous : [Paths -> Nat], got : Seq(Contents)]
    \cup [pc : {"advance"}, count : Nat]

\* The type invariant; an outcome waits in the channel only after its scan ended.
TypeOK ==
    /\ disk \in [Paths -> Contents] /\ mounted \in BOOLEAN
    /\ index \in [Paths -> 0..Len(revs)]
    /\ revs \in Seq([path : Paths, parent : Nat, content : Contents, seq : Nat])
    /\ sequence \in Nat
    /\ scan \in ScanRecords
    /\ done \in {"none", "ok", "err"}
    /\ done # "none" => scan = NoScan
    /\ loop \in [alive : BOOLEAN, running : BOOLEAN, pending : BOOLEAN, timer : BOOLEAN]
    /\ watch \in [alive : BOOLEAN, events : BOOLEAN]
    /\ trigger \in 0..OutputSize /\ requests \in 0..OutputSize /\ manual \in BOOLEAN
    /\ daemon \in {"down", "up", "canceled", "closed"}
    /\ seen \in [Paths -> SUBSET Contents]

\* A request taken while a scan runs is not forgotten: as long as the loop lives,
\* a pending trigger has a scan before it whose end will start the next one.
PendingHasScan ==
    loop.alive /\ loop.pending => loop.running /\ (scan # NoScan \/ done # "none")

\* What a commit records was on the disk while the scan ran: an unavailable root,
\* whenever it is lost, never turns into deletions.
RecordsWhatWasSeen ==
    [][\A i \in (DOMAIN revs') \ (DOMAIN revs) : revs'[i].content \in seen[revs'[i].path]]_vars

\* Over commits, failures, shutdowns and crashes the sequence numbers of the share
\* never repeat and never go back, and each revision continues the one before it.
RevisionsChain ==
    /\ \A i, j \in DOMAIN revs : i < j => revs[i].seq < revs[j].seq
    /\ \A i \in DOMAIN revs :
          revs[i].parent = Max({j \in 1..i - 1 : revs[j].path = revs[i].path} \cup {0})

\* The loop forgets no trigger and the share's history stays one chain, through
\* failed commits, shutdowns, crashes and restarts of the sequence.
ScanInv == TypeOK /\ PendingHasScan /\ RevisionsChain

\* No commit takes more of the indexed paths away than the configured percentage
\* of those that were there, however the scan and the edits interleave.
DeletionsBounded ==
    [][LET active == {p \in Paths : Indexed(index, p) # Gone}
           lost == {p \in active : index'[p] # index[p] /\ revs'[index'[p]].content = Gone}
       IN  MaxPercent > 0 => Cardinality(lost) * 100 <= MaxPercent * Cardinality(active)]_vars

\* A commit records nothing but what the scan saw, and no more deletions than the
\* guard lets through, whatever is edited, unmounted or lost while the scan walks.
CommitsJustified == RecordsWhatWasSeen /\ DeletionsBounded

\* The deletions a scan of the present disk would find are more than the guard lets
\* through; nothing is recorded until an operator or an edit changes that.
GuardHolds ==
    ~DeletionsAllowed([previous |-> index, got |-> [p \in Paths |-> disk[p]]])

\* Once the edits stop, the index catches up with every path unless the deletion
\* guard holds the scan back: watcher failures, dropped requests, lost roots and
\* restarts only delay it.
ChangesReachIndex ==
    \A p \in Paths : []<>(Indexed(index, p) = disk[p] \/ GuardHolds)
=============================================================================
