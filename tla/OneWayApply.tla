---------------------------- MODULE OneWayApply ----------------------------
(***************************************************************************)
(* The one-way apply of src/internal/sync/apply.go at one path of a target *)
(* share: the crash-recoverable sequence intent -> preserve -> install ->  *)
(* SQLite commit -> cleanup, its retries, and the drift decision of        *)
(* policy.go that admits it.                                               *)
(*                                                                         *)
(* File contents are model values; a directory is "dir" when it is empty   *)
(* and "full" otherwise; nothing at the path is Absent.  A source revision *)
(* whose content is Absent is a deletion.  SQLite runs on one connection   *)
(* (store.go:28), so each transaction is one step; each rename, link and   *)
(* remove is one step; an applier may stop between any two of them.        *)
(***************************************************************************)
EXTENDS Naturals, FiniteSets

CONSTANTS
    Revisions,          \* every revision of the path
    Parent,             \* ParentRevisionID of each revision
    Content,            \* what each revision puts at the path
    Sites,              \* the target shares considered, see SiteAssumption
    Appliers,           \* concurrent calls of OneWayApplyExecutor.Apply
    MaxEdits            \* bound on local edits

NoRevision == "no revision"
Absent == "absent"
Idle == [pc |-> "idle"]
Directories == {"dir", "full"}
Pointers == Revisions \cup {NoRevision}

ASSUME RevisionAssumption ==
    /\ Parent \in [Revisions -> Pointers]
    /\ NoRevision \notin Revisions /\ Absent \notin Revisions

ASSUME EditsAssumption == MaxEdits \in Nat

\* A site: the revisions the target has recorded, the one its index names, the
\* ones the source may ask it to apply, its drift policy, what a local user may
\* put at the path, the calls that may run and the bound on failures and crashes.
ASSUME SiteAssumption ==
    \A s \in Sites :
        /\ s.accepted \subseteq Revisions /\ s.source \subseteq Revisions
        /\ s.current \in s.accepted \cup {NoRevision}
        /\ \A r \in s.accepted : Parent[r] \in s.accepted \cup {NoRevision}
        /\ s.policy \in {"reject", "preserve_conflict_copy", "report_only"}
        /\ s.calls \subseteq Appliers /\ s.faults \in Nat

VARIABLES
    site,       \* the target share, fixed throughout a behaviour
    dest,       \* what is at the destination path
    ready,      \* .sync-incoming/one-way/<key>.ready, per revision
    intent,     \* <key>.intent: the prepared target it names, or Absent
    history,    \* .sync-history/one-way/<key>/<path>, per revision
    index,      \* file_index.current_revision_id of the path
    accepted,   \* rows of the revisions table
    tombstones, \* deletion revisions with a tombstone row
    works,      \* the queued PreparedOneWayChange descriptors
    app,        \* the Apply calls in progress
    edits, faults

files == <<dest, ready, intent, history>>
tables == <<index, accepted, tombstones>>
counters == <<edits, faults>>
vars == <<site, files, tables, works, app, counters>>

Contents == {Content[r] : r \in Revisions} \cup (UNION {s.local : s \in Sites}) \cup {Absent} \cup Directories
Works == [rev : Revisions, target : Pointers]
Steps == {"lock", "check", "write", "inspect", "preserve", "install",
          "verify", "commit", "tidyIntent", "tidyReady"}

IsDeletion(r) == Content[r] = Absent
IsDirectory(r) == Content[r] \in Directories

\* verifyRevisionPath and revisionPathMatches: a directory matches whatever it
\* holds, a file by size and hash, and a deletion matches nothing.
Matches(r, c) ==
    IF IsDirectory(r) THEN c \in Directories ELSE c # Absent /\ c = Content[r]

\* "current exists and is not deleted".
Tracked(r) == r # NoRevision /\ ~IsDeletion(r)

\* verifyInitialFilesystemState: the destination is what the index says it is,
\* and the received artifact of a file is there.
VerifyInitial(w) ==
    /\ IF Tracked(w.target) THEN Matches(w.target, dest) ELSE dest = Absent
    /\ ~IsDeletion(w.rev) /\ ~IsDirectory(w.rev) => Matches(w.rev, ready[w.rev])

VerifyTerminal(r) == IF IsDeletion(r) THEN dest = Absent ELSE Matches(r, dest)

\* Mutant: the destination is replaced in place.
InspectReplacesUnpreserved(w) ==
    IF IsDeletion(w.rev) THEN "preserve"
    ELSE IF Matches(w.rev, dest) THEN "verify" ELSE "install"

\* Mutant: the interrupted rename of an earlier try is not recognised.
InspectRequiresDestination(w) ==
    CASE Tracked(w.target) /\ Matches(w.target, dest) ->
            IF history[w.rev] # Absent THEN "fail"
            ELSE IF IsDirectory(w.rev) /\ IsDirectory(w.target) THEN "verify" ELSE "preserve"
      [] ~Tracked(w.target) /\ dest = Absent ->
            IF IsDeletion(w.rev) THEN "verify" ELSE "install"
      [] OTHER -> IF Matches(w.rev, dest) THEN "verify" ELSE "fail"

\* applyOneWayFilesystem up to its first rename: which step comes next, or
\* "fail" for each of its error returns.
Inspect(w) ==
    LET kept == history[w.rev]
        proceed == IF IsDeletion(w.rev) THEN "verify" ELSE "install"
    IN CASE Tracked(w.target) /\ kept # Absent ->
                IF ~Matches(w.target, kept) THEN "fail"
                ELSE IF dest = Absent THEN proceed
                ELSE IF Matches(w.rev, dest) THEN "verify" ELSE "fail"
         [] Tracked(w.target) /\ kept = Absent ->
                IF ~Matches(w.target, dest) THEN "fail"
                ELSE IF IsDirectory(w.rev) /\ IsDirectory(w.target) THEN "verify"
                ELSE IF IsDeletion(w.rev) /\ dest = "full" THEN "fail"
                ELSE "preserve"
         [] OTHER ->
                IF dest = Absent THEN proceed
                ELSE IF Matches(w.rev, dest) THEN "verify" ELSE "fail"

Init ==
    /\ site \in Sites
    /\ dest = IF site.current = NoRevision THEN Absent ELSE Content[site.current]
    /\ ready = [r \in Revisions |-> Absent]
    /\ intent = [r \in Revisions |-> Absent]
    /\ history = [r \in Revisions |-> Absent]
    /\ index = site.current
    /\ accepted = site.accepted
    /\ tombstones = {r \in site.accepted : IsDeletion(r)}
    /\ works = {}
    /\ app = [a \in Appliers |-> Idle]
    /\ edits = 0 /\ faults = 0

Holds(a) == app[a].pc \notin {"idle", "lock"}
Goto(a, pc) == app' = [app EXCEPT ![a].pc = pc]
Return(a) == app' = [app EXCEPT ![a] = Idle]

\* Continue at pc, or return the error and release the path.
GotoOrFail(a, pc) == IF pc = "fail" THEN Return(a) ELSE Goto(a, pc)

-----------------------------------------------------------------------------
\* DecideOneWayChange within Prepare and PrepareAndQueue: the descriptor carries
\* the target revision it saw; a drifted one is queued only when conflict
\* copies are to be preserved.
Prepare(r) ==
    /\ r \in site.source
    /\ index = Parent[r] \/ site.policy = "preserve_conflict_copy"
    /\ works' = works \cup {[rev |-> r, target |-> index]}
    /\ UNCHANGED <<site, files, tables, app, counters>>

\* The receive transfer commits the verified file at its ready path.
Receive(r) ==
    /\ \E w \in works : w.rev = r
    /\ ~IsDeletion(r) /\ ~IsDirectory(r)
    /\ ready[r] = Absent
    /\ ready' = [ready EXCEPT ![r] = Content[r]]
    /\ UNCHANGED <<site, dest, intent, history, tables, works, app, counters>>

\* validateOneWayApplyRequest: a drifted descriptor must preserve a conflict copy;
\* its other fields are the ones it was prepared with.
ValidRequest(w) == w.target # Parent[w.rev] => site.policy = "preserve_conflict_copy"

\* Apply is called (or retried) for a queued descriptor.
Begin(a, w) ==
    /\ app[a] = Idle /\ a \in site.calls
    /\ ValidRequest(w)
    /\ app' = [app EXCEPT ![a] = [pc |-> "lock", rev |-> w.rev, target |-> w.target]]
    /\ UNCHANGED <<site, files, tables, works, counters>>

\* lockOneWayApplyPath
LockPath(a) ==
    /\ app[a].pc = "lock"
    /\ \A b \in Appliers : ~Holds(b)
    /\ Goto(a, "check")
    /\ UNCHANGED <<site, files, tables, works, counters>>

\* The reads of Apply between the lock and the first write.
Check(a) ==
    LET w == app[a] IN
    /\ w.pc = "check"
    /\ GotoOrFail(a,
         CASE index = w.rev -> IF VerifyTerminal(w.rev) THEN "tidyIntent" ELSE "fail"
           [] index # w.rev /\ index # w.target -> "fail"
           [] OTHER ->
                IF intent[w.rev] # Absent
                THEN IF intent[w.rev] = w.target THEN "inspect" ELSE "fail"
                ELSE IF VerifyInitial(w) THEN "write" ELSE "fail")
    /\ UNCHANGED <<site, files, tables, works, counters>>

\* writeOneWayApplyIntent: the link fails when the intent exists.
WriteIntent(a) ==
    LET r == app[a].rev IN
    /\ app[a].pc = "write"
    /\ IF intent[r] = Absent
       THEN /\ intent' = [intent EXCEPT ![r] = app[a].target]
            /\ Goto(a, "inspect")
       ELSE /\ Return(a)
            /\ UNCHANGED intent
    /\ UNCHANGED <<site, dest, ready, history, tables, works, counters>>

InspectPath(a) ==
    /\ app[a].pc = "inspect"
    /\ GotoOrFail(a, Inspect(app[a]))
    /\ UNCHANGED <<site, files, tables, works, counters>>

\* os.Rename(destinationPath, historyPath)
Preserve(a) ==
    LET r == app[a].rev IN
    /\ app[a].pc = "preserve"
    /\ IF dest = Absent
       THEN Return(a) /\ UNCHANGED <<dest, history>>
       ELSE /\ history' = [history EXCEPT ![r] = dest]
            /\ dest' = Absent
            /\ Goto(a, IF IsDeletion(r) THEN "verify" ELSE "install")
    /\ UNCHANGED <<site, ready, intent, tables, works, counters>>

\* os.Mkdir (an existing path is not an error), or the rename of the ready
\* file, which replaces a file and fails on a directory.
Install(a) ==
    LET r == app[a].rev IN
    /\ app[a].pc = "install"
    /\ \/ /\ IsDirectory(r)
          /\ dest' = IF dest = Absent THEN "dir" ELSE dest
          /\ Goto(a, "verify")
          /\ UNCHANGED ready
       \/ /\ ~IsDirectory(r)
          /\ Matches(r, ready[r]) /\ dest \notin Directories
          /\ dest' = ready[r]
          /\ ready' = [ready EXCEPT ![r] = Absent]
          /\ Goto(a, "verify")
       \/ /\ ~IsDirectory(r)
          /\ ~Matches(r, ready[r]) \/ dest \in Directories
          /\ Return(a)
          /\ UNCHANGED <<dest, ready>>
    /\ UNCHANGED <<site, intent, history, tables, works, counters>>

\* verifyTerminalFilesystemState after the filesystem steps
Verify(a) ==
    /\ app[a].pc = "verify"
    /\ GotoOrFail(a, IF VerifyTerminal(app[a].rev) THEN "commit" ELSE "fail")
    /\ UNCHANGED <<site, files, tables, works, counters>>

\* Mutant: an accepted revision may be recorded again.
RecordsAgain(w) ==
    /\ index = w.target
    /\ index = NoRevision => ~IsDeletion(w.rev)
    /\ Parent[w.rev] \in accepted \cup {NoRevision}

\* CommitOneWayApply records w.rev: it is a new revision, the index still names
\* the prepared target, a deletion has something to delete, and the foreign
\* key of parent_revision_id is satisfied.
Records(w) ==
    /\ w.rev \notin accepted
    /\ index = w.target
    /\ index = NoRevision => ~IsDeletion(w.rev)
    /\ Parent[w.rev] \in accepted \cup {NoRevision}

\* idempotentOneWayApplyResult
AlreadyRecorded(w) == w.rev \in accepted /\ index = w.rev

\* appliedFileIndexEntry stats the destination before the transaction.
Commit(a) ==
    LET w == app[a] IN
    /\ w.pc = "commit"
    /\ \/ /\ Records(w) /\ (IsDeletion(w.rev) \/ dest # Absent)
          /\ accepted' = accepted \cup {w.rev}
          /\ index' = w.rev
          /\ tombstones' = IF IsDeletion(w.rev) THEN tombstones \cup {w.rev} ELSE tombstones
          /\ Goto(a, "tidyIntent")
       \/ /\ AlreadyRecorded(w) /\ (IsDeletion(w.rev) \/ dest # Absent)
          /\ Goto(a, "tidyIntent")
          /\ UNCHANGED tables
       \/ /\ ~(Records(w) \/ AlreadyRecorded(w)) \/ (~IsDeletion(w.rev) /\ dest = Absent)
          /\ Return(a)
          /\ UNCHANGED tables
    /\ UNCHANGED <<site, files, works, counters>>

\* cleanupApplyArtifacts
TidyIntent(a) ==
    /\ app[a].pc = "tidyIntent"
    /\ intent' = [intent EXCEPT ![app[a].rev] = Absent]
    /\ Goto(a, "tidyReady")
    /\ UNCHANGED <<site, dest, ready, history, tables, works, counters>>

TidyReady(a) ==
    /\ app[a].pc = "tidyReady"
    /\ ready' = [ready EXCEPT ![app[a].rev] = Absent]
    /\ Return(a)
    /\ UNCHANGED <<site, dest, intent, history, tables, works, counters>>

\* Mutant: a failed apply removes its intent.
InterruptedTidiesUp(a) ==
    /\ faults < site.faults
    /\ app[a] # Idle
    /\ faults' = faults + 1
    /\ IF app[a].pc \in {"preserve", "install", "verify", "commit"}
       THEN intent' = [intent EXCEPT ![app[a].rev] = Absent]
       ELSE UNCHANGED intent
    /\ Return(a)
    /\ UNCHANGED <<site, dest, ready, history, tables, works, edits>>

\* A file-system or SQLite error, or a canceled context, ends one call: what it
\* wrote stays, the deferred release drops the path lock.
Interrupted(a) ==
    /\ faults < site.faults
    /\ app[a] # Idle
    /\ faults' = faults + 1
    /\ Return(a)
    /\ UNCHANGED <<site, files, tables, works, edits>>

\* The process dies: every call and the path locks are gone.
Crash ==
    /\ faults < site.faults
    /\ faults' = faults + 1
    /\ app' = [a \in Appliers |-> Idle]
    /\ UNCHANGED <<site, files, tables, works, edits>>

\* A local user changes what is at the path while no apply holds it.  (Between an
\* apply's inspection and its renames a user's file would be replaced: the file
\* system offers no lock against it.)
LocalEdit(c) ==
    /\ edits < MaxEdits
    /\ \A a \in Appliers : ~Holds(a)
    /\ c \in site.local /\ c # dest
    /\ dest' = c
    /\ edits' = edits + 1
    /\ UNCHANGED <<site, ready, intent, history, tables, works, app, faults>>

Apply(a) ==
    \/ LockPath(a) \/ Check(a) \/ WriteIntent(a) \/ InspectPath(a)
    \/ Preserve(a) \/ Install(a) \/ Verify(a) \/ Commit(a)
    \/ TidyIntent(a) \/ TidyReady(a)

Next ==
    \/ \E r \in Revisions : Prepare(r) \/ Receive(r)
    \/ \E a \in Appliers, w \in works : Begin(a, w)
    \/ \E a \in Appliers : Apply(a) \/ Interrupted(a)
    \/ Crash
    \/ \E c \in Contents : LocalEdit(c)

\* An apply of r has begun to change the target and is not recorded.
Unfinished(r) == intent[r] # Absent /\ r \notin accepted

\* A call that runs goes on; Go mutexes are starvation free.  An unfinished
\* change is tried again, by the job queue up to its limit and after that by the
\* operator's retry, and each try fetches the artifact it lacks.
Fairness ==
    /\ \A a \in Appliers : WF_vars(Apply(a)) /\ SF_vars(LockPath(a))
    /\ WF_vars(\E r \in Revisions : Receive(r))
    /\ SF_vars(\E a \in Appliers, w \in works : Unfinished(w.rev) /\ Begin(a, w))

Spec == Init /\ [][Next]_vars /\ Fairness

-----------------------------------------------------------------------------
\* The type invariant.
TypeOK ==
    /\ site \in Sites /\ dest \in Contents
    /\ ready \in [Revisions -> Contents]
    /\ intent \in [Revisions -> Pointers \cup {Absent}]
    /\ history \in [Revisions -> Contents]
    /\ index \in Pointers
    /\ accepted \subseteq Revisions
    /\ tombstones \subseteq accepted
    /\ works \subseteq Works
    /\ app \in [Appliers -> {Idle} \cup [pc : Steps, rev : Revisions, target : Pointers]]
    /\ Cardinality({a \in Appliers : Holds(a)}) <= 1
    /\ edits \in 0..MaxEdits /\ faults \in 0..site.faults

\* While no local user has touched the path, the destination is what the index
\* says it is unless an intent records that an apply is under way: wherever an
\* apply stops, either nothing happened or its intent is there to resume it.
SettledAgrees ==
    edits = 0 /\ (\A r \in Revisions : intent[r] = Absent)
        => IF Tracked(index) THEN Matches(index, dest) ELSE dest = Absent

\* Disk and index agree wherever an apply stops, and one applier at most holds
\* the path's lock.
ApplyInv == TypeOK /\ SettledAgrees

\* What the destination or the history holds is never lost to a step of the
\* program: the apply moves what it replaces to history first, and no retry
\* replaces a history version.
Held == ({dest} \cup {history[r] : r \in Revisions}) \ {Absent}

NothingLost == [][edits' = edits => Held \subseteq Held']_vars

\* The index never returns to a revision it has been at: a late or repeated
\* apply of an already accepted revision cannot roll the path back.
NoRollback == [][index' # index => index' \notin accepted]_vars

\* Where the source's changes arrive in order (any other policy refuses drift), an
\* apply that has written its intent is completed by retries and its revision
\* accepted, wherever it was interrupted.
ApplySettles ==
    \A r \in Revisions :
        intent[r] # Absent /\ site.policy # "preserve_conflict_copy" ~> r \in accepted

\* docs/architecture/one-way-sync.md:84-87, "A retry can ... finish an incomplete
\* file/directory/deletion operation, and commit state": under every policy.
RetriesCommit ==
    \A r \in Revisions : intent[r] # Absent ~> r \in accepted
=============================================================================
