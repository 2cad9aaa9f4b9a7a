--------------------------- MODULE ProjectRecords ---------------------------
(***************************************************************************)
(* Calls that write and project the records of one project root on one     *)
(* device: operations of the work-history service (internal/workhistory),  *)
(* project migrations (internal/projectmigration over                      *)
(* internal/project/bootstrap.go), the scan hook of the daemon and         *)
(* explicit rebuilds, while files arrive from a peer, are damaged or are   *)
(* edited, filesystem and database operations fail, and the process stops. *)
(*                                                                         *)
(* A call walks through its program by pc.  The two kinds of gate are not  *)
(* variables: the write gate of the work-history service is held by the    *)
(* operation past "idle", a projector's gate by the call inside an         *)
(* ingestion with that projector.                                          *)
(***************************************************************************)
EXTENDS HistoryOperations

CONSTANT Setups     \* initial trees, calls and fault budgets

\* A setup begins with records at their paths and with at most the registration
\* of the manifest that is there.  An operation publishes its event last, and
\* an artifact with a blob as the first record of its registration.
SoundCall(c) ==
    /\ c.kind \in {"hook", "rebuild", "operate", "migrate"} /\ c.tries \in Nat
    /\ c.kind = "migrate" => Decodes(c.manifest) /\ Catalog[c.manifest].type = "manifest"

SoundRecords(c, list) ==
    /\ list \in Seq(DOMAIN Catalog) /\ list # <<>>
    /\ \A i \in DOMAIN list :
        /\ Catalog[list[i]].kind # "registered" /\ Catalog[list[i]].type \notin {"manifest", "blob"}
        /\ Catalog[list[i]].blob # NoFile => c.op = "RegisterArtifact" /\ i = 1

SoundSetup(s) ==
    /\ \A p \in DOMAIN s.files : s.files[p] = Junk \/ (Decodes(s.files[p]) /\ Path(s.files[p]) = p)
    /\ s.registered # NoFile => ManifestPath \in DOMAIN s.files /\ s.registered = s.files[ManifestPath] /\ Decodes(s.registered)
    /\ \A content \in {s.source} \cup s.budget.edits : Decodes(content) /\ Catalog[content].type = "blob"
    /\ s.budget \in [faults : Nat, stops : Nat, damage : Nat, arrivals : SUBSET DOMAIN Catalog, edits : SUBSET DOMAIN Catalog]
    /\ \A p \in DOMAIN s.calls :
        /\ SoundCall(s.calls[p])
        /\ s.calls[p].kind = "operate" => \A content \in {s.source} \cup s.budget.edits : SoundRecords(s.calls[p], s.calls[p].records[content])

ASSUME SetupsAssumption == \A s \in Setups : SoundSetup(s)

VARIABLES
    setup,      \* the setup of this behaviour; never changes
    call,       \* the call of each caller
    audit,      \* whether the migration's audit event is recorded
    budget      \* faults, stops, arrivals and edits that may still happen

vars == <<files, control, source, db, setup, call, audit, budget>>

Callers == DOMAIN setup.calls
Kind(p) == setup.calls[p].kind
Project == "p"

\* A caller that may make so many calls still, after the result of the last.
Idle(left, result) ==
    [pc |-> "idle", ret |-> "none", i |-> 0, list |-> <<>>, todo |-> <<>>, seen |-> <<>>,
     conf |-> <<>>, own |-> FALSE, read |-> {}, left |-> left, result |-> result]

Init ==
    /\ setup \in Setups
    /\ files = [p \in Paths |-> IF p \in DOMAIN setup.files THEN setup.files[p] ELSE NoFile]
    /\ control = (\E p \in Paths : files[p] # NoFile)
    /\ source = setup.source
    /\ db = Registered(EmptyDatabase, setup.registered)
    /\ audit = FALSE
    /\ call = [p \in DOMAIN setup.calls |-> Idle(setup.calls[p].tries, "none")]
    /\ budget = setup.budget

-----------------------------------------------------------------------------
(* Steps of a call                                                         *)

Goto(p, pc) == call' = [call EXCEPT ![p].pc = pc]

\* A call returns; the hook is called again after every scan.
Finish(p, result) ==
    call' = [call EXCEPT ![p] = Idle(IF Kind(p) = "hook" THEN call[p].left ELSE call[p].left - 1, result)]

Calling(p) == call[p].pc = "idle" /\ call[p].left > 0

\* Some filesystem or database operation returns an error.
Fault(p, result) ==
    /\ budget.faults > 0
    /\ budget' = [budget EXCEPT !.faults = @ - 1]
    /\ Finish(p, result)

-----------------------------------------------------------------------------
(* Projector.run                                                           *)

IngestStages == {"read", "commit", "checkpoint"}

Ingest(p, ret) == call' = [call EXCEPT ![p].pc = "ingest", ![p].ret = ret]

GateFree(p) ==
    \A q \in Callers : setup.calls[q].projector = setup.calls[p].projector => call[q].pc \notin IngestStages

\* What an ingestion's error means to its caller: before the publication the
\* operation failed, after it the records are there and only the projection
\* has to be repeated.
IngestError(p) == IF Kind(p) = "operate" /\ call[p].ret = "done" THEN "recoverable" ELSE "error"

\* The gate, the manifest, and the walk that lists the candidates.
IngestStart(p) ==
    /\ call[p].pc = "ingest"
    /\ GateFree(p)
    /\ IF ~Decodes(files[ManifestPath]) THEN Finish(p, "error")
       ELSE call' = [call EXCEPT ![p].pc = "read", ![p].todo = Discovered, ![p].seen = <<>>]
    /\ UNCHANGED <<files, control, source, db, audit, budget, setup>>

\* The candidates are read one by one in the order of their paths, the blobs
\* of the artifacts among them after the last.
IngestRead(p) ==
    /\ call[p].pc = "read"
    /\ call[p].todo # <<>>
    /\ LET path == Head(call[p].todo)
           c == files[path]
           blob == IF Decodes(c) /\ Catalog[c].blob # NoFile THEN <<Path(Catalog[c].blob)>> ELSE <<>>
           seen == call[p].seen
       IN  call' = [call EXCEPT ![p].seen = [q \in DOMAIN seen \cup {path} |-> IF q \in DOMAIN seen THEN seen[q] ELSE c],
                                ![p].todo = Tail(@) \o blob]
    /\ UNCHANGED <<files, control, source, db, audit, budget, setup>>

\* Mutant: the hook has nothing to do after an unchanged ingestion.
IngestReturnIdle(p, d) ==
    /\ db' = d
    /\ IF call[p].ret = "done" \/ (call[p].pc = "read" /\ Kind(p) = "hook") THEN Finish(p, "ok")
       ELSE call' = [call EXCEPT ![p].pc = call[p].ret, ![p].seen = <<>>]

\* The end of an ingestion that succeeds.
IngestReturn(p, d) ==
    /\ db' = d
    /\ IF call[p].ret = "done" THEN Finish(p, "ok")
       ELSE call' = [call EXCEPT ![p].pc = call[p].ret, ![p].seen = <<>>]

\* The registration, then the comparison with the checkpoint.
IngestCompare(p) ==
    /\ call[p].pc = "read"
    /\ call[p].todo = <<>>
    /\ LET man == call[p].seen[ManifestPath]
       IN  IF ~CanRegister(man) THEN Finish(p, IngestError(p)) /\ UNCHANGED db
           ELSE IF Kind(p) # "rebuild" /\ db.checkpoint = Fingerprint(call[p].seen)
           THEN IngestReturn(p, Registered(db, man))
           ELSE db' = Registered(db, man) /\ Goto(p, "commit")
    /\ UNCHANGED <<files, control, source, audit, budget, setup>>

\* RebuildProjectProjection; its transaction may fail.
IngestCommit(p) ==
    /\ call[p].pc = "commit"
    /\ \/ /\ IF RowsConflict(call[p].seen) THEN Finish(p, IngestError(p)) /\ UNCHANGED db
             ELSE db' = Replaced(db, call[p].seen) /\ Goto(p, "checkpoint")
          /\ UNCHANGED budget
       \/ Fault(p, IngestError(p)) /\ UNCHANGED db
    /\ UNCHANGED <<files, control, source, audit, setup>>

IngestCheckpoint(p) ==
    /\ call[p].pc = "checkpoint"
    /\ \/ IngestReturn(p, Checkpointed(db, call[p].seen)) /\ UNCHANGED budget
       \/ Fault(p, IngestError(p)) /\ UNCHANGED db
    /\ UNCHANGED <<files, control, source, audit, setup>>

-----------------------------------------------------------------------------
(* Calculator.Rebuild                                                      *)

InsightsRead(p) ==
    /\ call[p].pc = "insights"
    /\ call' = [call EXCEPT ![p].pc = "measure", ![p].read = db.rows.events]
    /\ UNCHANGED <<files, control, source, db, audit, budget, setup>>

\* ReplaceProjectInsights.
InsightsReplace(p) ==
    /\ call[p].pc = "measure"
    /\ db' = Measured(db, call[p].read)
    /\ IF Kind(p) = "migrate" THEN call' = [call EXCEPT ![p].pc = "audit", ![p].read = {}]
       ELSE Finish(p, "ok")
    /\ UNCHANGED <<files, control, source, audit, budget, setup>>

-----------------------------------------------------------------------------
(* The daemon's scan hook and the administrator's rebuild                  *)

\* A scan of the share has committed.
HookStart(p) ==
    /\ Kind(p) = "hook"
    /\ Calling(p)
    /\ Ingest(p, "insights")
    /\ UNCHANGED <<files, control, source, db, audit, budget, setup>>

\* ProjectRebuild, of a registered project.
RebuildStart(p) ==
    /\ Kind(p) = "rebuild"
    /\ Calling(p)
    /\ db.registered # NoFile
    /\ Ingest(p, "insights")
    /\ UNCHANGED <<files, control, source, db, audit, budget, setup>>

-----------------------------------------------------------------------------
(* Service.operate                                                         *)

Op(p) == setup.calls[p].op
Stopped(p) == call[p].pc \in {"idle", "enter"}

\* The records of the operation; those of an artifact follow from its source.
OperateStart(p) ==
    /\ Kind(p) = "operate"
    /\ Calling(p)
    /\ call' = [call EXCEPT ![p].pc = "enter", ![p].list = setup.calls[p].records[source]]
    /\ UNCHANGED <<files, control, source, db, audit, budget, setup>>

\* A resumption is built from the execution's manifest.
Buildable(p) ==
    /\ Decodes(files[ManifestPath])
    /\ Op(p) = "ResumeExecution" => Found(Catalog[Last(call[p].list)].ref) = "present"

AfterCheck(p) == IF Op(p) = "RegisterArtifact" THEN "blob" ELSE "publish"

\* Mutant: operations on one project do not exclude each other.
OperateEnterUngated(p) ==
    LET found == {Found(call[p].list[i]) : i \in DOMAIN call[p].list}
    IN  /\ call[p].pc = "enter"
        /\ CASE ~Buildable(p) \/ "conflict" \in found -> Finish(p, "conflict")
             [] Buildable(p) /\ found = {"present"} ->
                   call' = [call EXCEPT ![p].pc = AfterCheck(p), ![p].i = Len(call[p].list) + 1]
             [] OTHER -> call' = [call EXCEPT ![p].pc = "ingest", ![p].ret = "check"]
        /\ UNCHANGED <<files, control, source, db, audit, budget, setup>>

\* Under the write gate: every record is looked for.  When all are there the
\* operation only repeats its projection.
OperateEnter(p) ==
    LET found == {Found(call[p].list[i]) : i \in DOMAIN call[p].list}
    IN  /\ call[p].pc = "enter"
        /\ \A q \in Callers \ {p} : Kind(q) = "operate" => Stopped(q)
        /\ CASE ~Buildable(p) \/ "conflict" \in found -> Finish(p, "conflict")
             [] Buildable(p) /\ found = {"present"} ->
                   call' = [call EXCEPT ![p].pc = AfterCheck(p), ![p].i = Len(call[p].list) + 1]
             [] OTHER -> call' = [call EXCEPT ![p].pc = "ingest", ![p].ret = "check"]
        /\ UNCHANGED <<files, control, source, db, audit, budget, setup>>

\* rejectProjectedIdentityConflict.
IdentityConflict(list) ==
    \E row \in db.rows.events : \E i \in DOMAIN list :
        list[i] # row[1] /\ Catalog[list[i]].type = "event" /\ Catalog[list[i]].id = Catalog[row[1]].id

\* loadState and validateState.
OperateCheck(p) ==
    /\ call[p].pc = "check"
    /\ IF /\ ~IdentityConflict(call[p].list)
          /\ Allows(ProjectedHistory, Op(p), Last(call[p].list))
       THEN call' = [call EXCEPT ![p].pc = AfterCheck(p), ![p].i = 1] ELSE Finish(p, "refused")
    /\ UNCHANGED <<files, control, source, db, audit, budget, setup>>

\* beforePublish: an artifact without a blob only has its source verified; a
\* blob is addressed by what the source holds now.
Artifact(p) == Catalog[call[p].list[1]]

BlobHash(p) ==
    /\ call[p].pc = "blob"
    /\ IF Artifact(p).blob # NoFile /\ Found(source) = "free"
       THEN call' = [call EXCEPT ![p].pc = "copy", ![p].conf = <<source>>]
       ELSE IF source = Artifact(p).content /\ (Artifact(p).blob # NoFile => Found(source) = "present")
       THEN Goto(p, "publish") ELSE Finish(p, "conflict")
    /\ UNCHANGED <<files, control, source, db, audit, budget, setup>>

\* Mutant: the published blob is not compared with the manifest's digest.
BlobCopyUnverified(p) ==
    /\ call[p].pc = "copy"
    /\ IF source # call[p].conf[1] THEN Finish(p, "conflict") /\ UNCHANGED files
       ELSE /\ PublishNoReplace(source)
            /\ call' = [call EXCEPT ![p].pc = "publish", ![p].conf = <<>>]
    /\ UNCHANGED <<control, source, db, audit, budget, setup>>

\* The copy must have the digest the path was derived from, and in the end the
\* digest that the manifest states.
BlobCopy(p) ==
    /\ call[p].pc = "copy"
    /\ IF source # call[p].conf[1] THEN Finish(p, "conflict") /\ UNCHANGED files
       ELSE /\ PublishNoReplace(source)
            /\ IF source = Artifact(p).content /\ Found(source) # "conflict"
               THEN call' = [call EXCEPT ![p].pc = "publish", ![p].conf = <<>>] ELSE Finish(p, "conflict")
    /\ UNCHANGED <<control, source, db, audit, budget, setup>>

-----------------------------------------------------------------------------
(* PublishRecord over the list of a call                                   *)

Record(p) == call[p].list[call[p].i]
NextRecord(p) == call' = [call EXCEPT ![p].pc = "publish", ![p].i = @ + 1]

\* The manifest that a concurrent migration published first is adopted when it
\* states the requested identity.
PublishConflict(p) ==
    LET man == files[ManifestPath]
    IN  IF Kind(p) = "migrate" /\ call[p].i = 1 /\ call[p].own /\ Preflight(Project) # "blocked"
        THEN call' = [call EXCEPT ![p].pc = "publish", ![p].list = <<man, Registration(man)>>, ![p].own = FALSE]
        ELSE Finish(p, "conflict")

PublishInspect(p) ==
    /\ call[p].pc = "publish"
    /\ call[p].i <= Len(call[p].list)
    /\ CASE Found(Record(p)) = "free"     -> Goto(p, "link")
         [] Found(Record(p)) = "present"  -> NextRecord(p)
         [] Found(Record(p)) = "conflict" -> PublishConflict(p)
    /\ UNCHANGED <<files, control, source, db, audit, budget, setup>>

PublishLink(p) ==
    /\ call[p].pc = "link"
    /\ \/ /\ PublishNoReplace(Record(p))
          /\ control' = TRUE
          /\ IF Found(Record(p)) = "conflict" THEN PublishConflict(p) ELSE NextRecord(p)
          /\ UNCHANGED budget
       \/ Fault(p, "error") /\ UNCHANGED <<files, control>>
    /\ UNCHANGED <<source, db, audit, setup>>

\* projectCanonical, or the ingestion of a migration.
PublishEnd(p) ==
    /\ call[p].pc = "publish"
    /\ call[p].i > Len(call[p].list)
    /\ call' = [call EXCEPT ![p].pc = "ingest", ![p].ret = IF Kind(p) = "migrate" THEN "insights" ELSE "done"]
    /\ UNCHANGED <<files, control, source, db, audit, budget, setup>>

-----------------------------------------------------------------------------
(* The migration of a root to a project                                    *)

MigrationStatus ==
    CASE Preflight(Project) = "blocked" -> "blocked"
      [] db.registered # NoFile /\ Catalog[db.registered].project # Project -> "blocked"
      [] Preflight(Project) = "initialized" /\ db.registered # NoFile -> "already_complete"
      [] OTHER -> "ready"

\* The confirmation covers the status and every entry of the root.
Confirmation == <<files, control, source, MigrationStatus>>

\* The operator asks for a preflight and later applies what it confirmed.
MigratePreflight(p) ==
    /\ Kind(p) = "migrate"
    /\ Calling(p)
    /\ call' = [call EXCEPT ![p].pc = "confirm", ![p].conf = Confirmation]
    /\ UNCHANGED <<files, control, source, db, audit, budget, setup>>

\* Service.Apply up to the bootstrap.
MigrateApply(p) ==
    /\ call[p].pc = "confirm"
    /\ IF call[p].conf # Confirmation \/ MigrationStatus = "blocked" THEN Finish(p, "refused")
       ELSE call' = [call EXCEPT ![p].pc = "bootstrap", ![p].conf = <<>>]
    /\ UNCHANGED <<files, control, source, db, audit, budget, setup>>

\* Mutant: a root that has its manifest is taken to be initialized.
BootstrapSettled(p) ==
    /\ call[p].pc = "bootstrap"
    /\ LET man == files[ManifestPath]
           own == setup.calls[p].manifest
       IN  CASE Preflight(Project) = "blocked" -> Finish(p, "conflict")
             [] Preflight(Project) # "blocked" /\ man # NoFile ->
                   call' = [call EXCEPT ![p].pc = "dirs", ![p].list = <<man>>]
             [] OTHER -> call' = [call EXCEPT ![p].pc = "dirs", ![p].list = <<own, Registration(own)>>, ![p].own = TRUE]
    /\ UNCHANGED <<files, control, source, db, audit, budget, setup>>

\* ProjectBootstrapper.Bootstrap: its own preflight decides which manifest.
Bootstrap(p) ==
    /\ call[p].pc = "bootstrap"
    /\ LET own == files[ManifestPath] = NoFile
           man == IF own THEN setup.calls[p].manifest ELSE files[ManifestPath]
       IN  IF Preflight(Project) = "blocked" THEN Finish(p, "conflict")
           ELSE call' = [call EXCEPT ![p].pc = "dirs", ![p].list = <<man, Registration(man)>>, ![p].own = own]
    /\ UNCHANGED <<files, control, source, db, audit, budget, setup>>

\* ensureBootstrapDirectory for every directory of the layout.
BootstrapDirectories(p) ==
    /\ call[p].pc = "dirs"
    /\ control' = TRUE
    /\ call' = [call EXCEPT ![p].pc = "publish", ![p].i = 1]
    /\ UNCHANGED <<files, source, db, audit, budget, setup>>

\* recordAuditIdempotently and the request for a scan.
MigrateAudit(p) ==
    /\ call[p].pc = "audit"
    /\ audit' = TRUE
    /\ Finish(p, "ok")
    /\ UNCHANGED <<files, control, source, db, budget, setup>>

-----------------------------------------------------------------------------
(* The world around the calls                                              *)

\* A record or a blob is applied from the authority, in any order.
Arrive(c) ==
    /\ c \in budget.arrivals
    /\ files' = [files EXCEPT ![Path(c)] = c]
    /\ control' = TRUE
    /\ budget' = [budget EXCEPT !.arrivals = @ \ {c}]
    /\ UNCHANGED <<source, db, call, audit, setup>>

\* A file is overwritten or removed behind the program's back, and the
\* authority's copy of it comes again.
Damage(p, content) ==
    /\ budget.damage > 0
    /\ p # ManifestPath
    /\ files[p] \notin {NoFile, Junk}
    /\ files' = [files EXCEPT ![p] = content]
    /\ budget' = [budget EXCEPT !.damage = @ - 1, !.arrivals = @ \cup {files[p]}]
    /\ UNCHANGED <<control, source, db, call, audit, setup>>

\* The user saves another version of the artifact's source.
Edit(content) ==
    /\ content \in budget.edits
    /\ source' = content
    /\ budget' = [budget EXCEPT !.edits = @ \ {content}]
    /\ UNCHANGED <<files, control, db, call, audit, setup>>

\* The process stops in the middle of its calls and is started again.
Stop ==
    /\ budget.stops > 0
    /\ \E p \in Callers : call[p].pc # "idle"
    /\ call' = [p \in Callers |-> Idle(call[p].left, call[p].result)]
    /\ budget' = [budget EXCEPT !.stops = @ - 1]
    /\ UNCHANGED <<files, control, source, db, audit, setup>>

-----------------------------------------------------------------------------

Step(p) ==
    \/ IngestStart(p) \/ IngestRead(p) \/ IngestCompare(p) \/ IngestCommit(p) \/ IngestCheckpoint(p)
    \/ InsightsRead(p) \/ InsightsReplace(p)
    \/ HookStart(p) \/ RebuildStart(p)
    \/ OperateStart(p) \/ OperateEnter(p) \/ OperateCheck(p) \/ BlobHash(p) \/ BlobCopy(p)
    \/ PublishInspect(p) \/ PublishLink(p) \/ PublishEnd(p)
    \/ MigratePreflight(p) \/ MigrateApply(p) \/ Bootstrap(p) \/ BootstrapDirectories(p) \/ MigrateAudit(p)

Next ==
    \/ \E p \in Callers : Step(p)
    \/ \E c \in DOMAIN Catalog : Arrive(c)
    \/ \E p \in Paths, content \in {NoFile, Junk} : Damage(p, content)
    \/ \E content \in DOMAIN Catalog : Edit(content)
    \/ Stop

\* Scans of a share go on for as long as the daemon runs, and a call of the
\* hook goes on to its end.
Spec == Init /\ [][Next]_vars /\ WF_vars(\E p \in Callers : Kind(p) = "hook" /\ Step(p))

-----------------------------------------------------------------------------
(* Properties                                                              *)

Tokens == DOMAIN Catalog \cup {NoFile, Junk}
Reasons ==
    {NoReason, "invalid_record", "project_identity_mismatch", "record_path_mismatch", "artifact_content_mismatch",
     "missing_task_graph", "invalid_task_graph", "missing_task_revision"}

\* The variables have their types; a registration is one of a manifest, and a
\* blob is never a candidate.
TypeOK ==
    /\ files \in [Paths -> Tokens]
    /\ control \in BOOLEAN /\ audit \in BOOLEAN
    /\ db.registered = NoFile \/ Catalog[db.registered].type = "manifest"
    /\ \A row \in db.rows.events : row[2] \in {"accepted", "pending"}
    /\ \A row \in db.rows.rejected : row[1] \notin BlobPaths /\ row[2] \in Reasons \ {NoReason}
    /\ \A entry \in db.checkpoint : entry[1] \notin BlobPaths /\ entry[2] \in Tokens /\ entry[3] \in Reasons
    /\ \A p \in Callers : call[p].result \in {"none", "ok", "error", "recoverable", "conflict", "refused"}

\* An ingestion that would find the checkpoint equal to what is on disk, and
\* so change nothing, leaves the very rows that a clean rebuild would write
\* (candidateFingerprint, the order of the projection and its checkpoint).
UnchangedIsSafe ==
    Decodes(files[ManifestPath]) /\ db.checkpoint = Fingerprint(Current) => db.rows = Rows(Current)

\* A task that was published or arrived in part is not projected: where tasks
\* have rows, every work package of them has its definition on disk
\* (prepareTaskAggregates).
TasksWhole ==
    setup.budget.damage = 0 =>
        \A row \in db.rows.tasks : \A node \in row.nodes :
            \E p \in Paths : Decodes(files[p]) /\ Catalog[files[p]].type = "definition" /\ Catalog[files[p]].wp = node[1]

\* No publisher replaces or removes what a path already holds
\* (publishNoReplace); only the world around the calls does.
RecordsImmutable ==
    [][\A p \in Paths :
          files[p] # NoFile /\ files'[p] # files[p] =>
              budget'.damage # budget.damage \/ budget'.arrivals # budget.arrivals]_vars

\* The operations whose event has this kind.
Recorders(kind) ==
    CASE kind = "created"   -> {"CreateWorkPackage"}
      [] kind = "changed"   -> {"TransitionWorkPackage"}
      [] kind = "started"   -> {"StartExecution", "ResumeExecution"}
      [] kind = "paused"    -> {"PauseExecution"}
      [] kind = "failed"    -> {"FailExecution"}
      [] kind = "completed" -> {"CompleteExecution"}
      [] kind = "tested"    -> {"RecordTest"}
      [] kind = "telemetry" -> {"RecordTelemetry"}
      [] kind = "reviewed"  -> {"RecordReview"}
      [] kind = "accepted"  -> {"AcceptWork"}
      [] kind = "handoff"   -> {"CreateHandoff"}
      [] kind = "recorded"  -> {"RegisterArtifact", "RegisterArtifactReference"}
      [] OTHER              -> {"CreateTask"}

\* An event is published only if it is legal after the accepted events that
\* are on disk at that moment: of two operations that start from one state at
\* most one publishes, also when the process stopped between a publication and
\* its projection (operate: write gate, ingestion, validateState).
PublishedLegally ==
    [][budget'.arrivals = budget.arrivals /\ Decodes(files[ManifestPath]) =>
          \A p \in Paths :
              files'[p] # files[p] /\ Decodes(files'[p]) /\ Catalog[files'[p]].type = "event" =>
                  \E op \in Recorders(Catalog[files'[p]].kind) :
                      Allows(HistoryOf(AcceptedEvents(Valid(Current))), op, files'[p])]_vars

\* Publication only ever adds, and only what is legal at that moment.
Publishing == RecordsImmutable /\ PublishedLegally

\* Two events on disk never share an identifier, which would make every later
\* projection of the project fail (rejectProjectedIdentityConflict).
EventsProjectable == Decodes(files[ManifestPath]) => ~RowsConflict(Current)

\* An artifact manifest that this device published has its blob beside it,
\* whenever the source was edited (PublishArtifactBlob before PublishRecord).
ArtifactBacked ==
    setup.budget.arrivals = {} /\ setup.budget.damage = 0 =>
        \A p \in Paths : Decodes(files[p]) /\ Catalog[files[p]].blob # NoFile =>
            Found(Catalog[files[p]].blob) = "present"

\* A registration event belongs to the manifest on disk, whichever of several
\* concurrent migrations published it (Bootstrap).
RegistrationMatches ==
    \A p \in Paths : Decodes(files[p]) /\ Catalog[files[p]].kind = "registered" =>
        files[ManifestPath] = Catalog[files[p]].ref

\* What a record on disk needs is on disk beside it: tasks their definitions,
\* artifacts their blobs, registrations their manifest, and no two events one
\* identifier.
RecordsInv == TypeOK /\ TasksWhole /\ EventsProjectable /\ ArtifactBacked /\ RegistrationMatches

\* A migration that reports success, also the repetition of an interrupted
\* one, left the manifest, its registration event, the registration and the
\* audit event; an operation left its records and the row of its event.
SuccessIsComplete ==
    \A p \in Callers : call[p].result = "ok" =>
        /\ Kind(p) = "migrate" =>
              /\ Decodes(files[ManifestPath])
              /\ Found(Registration(files[ManifestPath])) = "present"
              /\ db.registered = files[ManifestPath]
              /\ audit
        /\ Kind(p) = "operate" =>
              \E content \in DOMAIN setup.calls[p].records :
                  LET list == setup.calls[p].records[content]
                  IN  /\ \A i \in DOMAIN list : Found(list[i]) = "present"
                      /\ <<Last(list), "accepted">> \in db.rows.events

\* Once the files stop changing, the hook brings the projection and the
\* insights to what is on disk and keeps them there, whatever stopped or
\* failed before (the checkpoint follows the projection; Calculator.Rebuild
\* runs after an unchanged ingestion too).
Converges ==
    <>[]((\E p \in Callers : Kind(p) = "hook") /\ Decodes(files[ManifestPath]) =>
            db.rows = Rows(Current) /\ db.insights = <<db.rows.events>>)
=============================================================================
