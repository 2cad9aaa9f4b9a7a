-------------------------- MODULE RecordProjection --------------------------
(***************************************************************************)
(* The local projection of a project's records: what the projector         *)
(* (internal/projector) makes of the candidates it has read, and the rows  *)
(* that storage/sqlite keeps of them.                                      *)
(*                                                                         *)
(* seen maps each path that was read, blobs included, to the token found   *)
(* there.  Every row is a function of seen, so are the checkpoint's hash   *)
(* (here the set of what is hashed) and the insights of the event rows.    *)
(***************************************************************************)
EXTENDS PortableRecords

VARIABLE db     \* the rows of the project

NoRows == [events |-> {}, artifacts |-> {}, tasks |-> {}, rejected |-> {}]
NoCheckpoint == {}
NoInsights == <<>>

EmptyDatabase ==
    [registered |-> NoFile, rows |-> NoRows, checkpoint |-> NoCheckpoint, insights |-> NoInsights]

-----------------------------------------------------------------------------
(* discoverCandidates, prepareArtifactCandidates and prepareTaskAggregates *)

Candidates(seen) == DOMAIN seen \cap CandidatePaths

NoReason == "none"

\* The reason for which a single candidate is rejected.
RecordReason(seen, p) ==
    LET c == seen[p]
    IN  IF ~Decodes(c) THEN "invalid_record"
        ELSE IF Catalog[c].project # Catalog[seen[ManifestPath]].project THEN "project_identity_mismatch"
        ELSE IF Path(c) # p THEN "record_path_mismatch"
        ELSE IF Catalog[c].blob # NoFile /\ seen[Path(Catalog[c].blob)] # Catalog[c].blob
        THEN "artifact_content_mismatch" ELSE NoReason

Sound(seen) == {seen[p] : p \in {q \in Candidates(seen) : RecordReason(seen, q) = NoReason}}

Of(records, type) == {c \in records : Catalog[c].type = type}

\* The graph of a task, the task of a graph, and whether every member has the
\* definition that the graph pins.
GraphsOf(sound, t) == {g \in Of(sound, "graph") : Path(g) = Catalog[t].graph}
TasksOf(sound, g) == {t \in Of(sound, "task") : Catalog[t].graph = Path(g)}

WholeGraph(sound, g) == Catalog[g].members \subseteq sound

\* The reason for which a sound task or graph is rejected with its aggregate.
TaskReason(sound, c) ==
    CASE Catalog[c].type = "task" ->
            IF GraphsOf(sound, c) = {} THEN "missing_task_graph"
            ELSE IF \E g \in GraphsOf(sound, c) : ~WholeGraph(sound, g) THEN "invalid_task_graph" ELSE NoReason
      [] Catalog[c].type = "graph" ->
            IF TasksOf(sound, c) = {} THEN "missing_task_revision"
            ELSE IF ~WholeGraph(sound, c) THEN "invalid_task_graph" ELSE NoReason
      [] OTHER -> NoReason

Valid(seen) == LET sound == Sound(seen) IN {c \in sound : TaskReason(sound, c) = NoReason}

\* Every candidate with its content and its outcome.
Outcomes(seen) ==
    LET sound == Sound(seen)
        reason(p) == IF RecordReason(seen, p) # NoReason THEN RecordReason(seen, p) ELSE TaskReason(sound, seen[p])
    IN  {<<p, seen[p], reason(p)>> : p \in Candidates(seen)}

-----------------------------------------------------------------------------
(* buildProjectionState, eventProjectionStatus and the rows                *)

\* An event waits for the work package and the execution it names and for the
\* record it refers to; a project's registration refers to the manifest.
EventStatus(valid, e) ==
    IF /\ Catalog[e].wp # "" => \E d \in Of(valid, "definition") : Catalog[d].wp = Catalog[e].wp
       /\ Catalog[e].exec # "" => \E x \in Of(valid, "execution") : Catalog[x].exec = Catalog[e].exec
       /\ Catalog[e].ref # "" => Catalog[e].ref \in valid
    THEN "accepted" ELSE "pending"

AcceptedEvents(valid) == {e \in Of(valid, "event") : EventStatus(valid, e) = "accepted"}

\* An event as the readiness fold takes it.
FoldedEvent(e) ==
    [id |-> Catalog[e].id, at |-> Catalog[e].at, wp |-> Catalog[e].wp,
     type |-> Catalog[e].kind, from |-> Catalog[e].from, to |-> Catalog[e].to]

\* The readiness of a task's nodes, reduced from its accepted events.
TaskRow(valid, t) ==
    LET g == CHOOSE h \in GraphsOf(valid, t) : TRUE
        defs == Catalog[g].members
        wps == {Catalog[d].wp : d \in defs}
        graph == [w \in wps |-> Catalog[CHOOSE d \in defs : Catalog[d].wp = w].deps]
        folded == {FoldedEvent(e) : e \in {f \in AcceptedEvents(valid) :
                      Catalog[f].wp \in wps /\ Catalog[f].kind \in {"created", "changed", "reviewed", "accepted"}}}
        node == ReduceReadiness(graph, Canonical(wps, folded))
    IN  [task |-> t, state |-> SummarizeTask(node), nodes |-> {<<w, node[w]>> : w \in wps}]

Rows(seen) ==
    LET valid == Valid(seen)
    IN  [events    |-> {<<e, EventStatus(valid, e)>> : e \in Of(valid, "event")},
         artifacts |-> Of(valid, "artifact"),
         tasks     |-> {TaskRow(valid, t) : t \in Of(valid, "task")},
         rejected  |-> {<<o[1], o[3]>> : o \in {q \in Outcomes(seen) : q[3] # NoReason}}]

\* Two valid events under one identifier make the transaction fail.
RowsConflict(seen) ==
    \E e, f \in Of(Valid(seen), "event") : e # f /\ Catalog[e].id = Catalog[f].id

\* Mutant: only the last path and its content are remembered.
FingerprintOfLast(seen) == {o \in Outcomes(seen) : \A p \in Candidates(seen) : p <= o[1]}

\* candidateFingerprint: path, content and outcome of every candidate.
Fingerprint(seen) == Outcomes(seen)

\* What a reader of the whole tree would see now.
Current ==
    [p \in {q \in CandidatePaths : files[q] # NoFile} \cup BlobPaths |-> files[p]]

-----------------------------------------------------------------------------
(* The store                                                               *)

\* RegisterProject: the first registration stays; a different one conflicts.
CanRegister(man) == db.registered \in {NoFile, man}
Registered(d, man) == [d EXCEPT !.registered = man]

\* RebuildProjectProjection: one transaction replaces every row and drops the
\* checkpoint and the insights with them.
Replaced(d, seen) ==
    [d EXCEPT !.rows = Rows(seen), !.checkpoint = NoCheckpoint, !.insights = NoInsights]

Checkpointed(d, seen) == [d EXCEPT !.checkpoint = Fingerprint(seen)]

\* Calculator.Rebuild reads the event rows, then replaces the insights.
Measured(d, events) == [d EXCEPT !.insights = <<events>>]

-----------------------------------------------------------------------------
(* loadState: the history that operations are checked against              *)

WorkPackages == {Catalog[c].wp : c \in DOMAIN Catalog}
Executions == {Catalog[c].exec : c \in DOMAIN Catalog}

NoHistory == [wp |-> [w \in WorkPackages |-> NoState], exec |-> [x \in Executions |-> "none"]]

\* ListProjectEvents: by time, then by identifier.
HistoryBefore(e, f) ==
    \/ Catalog[e].at < Catalog[f].at
    \/ Catalog[e].at = Catalog[f].at /\ Catalog[e].id < Catalog[f].id

\* applyEvent: it follows the events without checking where they start.
HistoryAfter(h, e) ==
    LET w == Catalog[e].wp
        x == Catalog[e].exec
        kind == Catalog[e].kind
    IN  CASE kind = "created"  -> [h EXCEPT !.wp[w].state = "planned"]
          [] kind = "changed"  ->
                [h EXCEPT !.wp[w] = [state |-> Catalog[e].to, approved |-> @.approved /\ Catalog[e].to = "review"]]
          [] kind = "reviewed" -> [h EXCEPT !.wp[w].approved = Catalog[e].to = "approved"]
          [] kind = "accepted" -> [h EXCEPT !.wp[w].state = "accepted"]
          [] kind = "started"  -> [h EXCEPT !.exec[x] = "running"]
          [] kind \in {"paused", "failed", "completed"} -> [h EXCEPT !.exec[x] = kind]
          [] OTHER -> h

HistoryOf(events) == FoldLeft(HistoryAfter, NoHistory, Sorted(events, HistoryBefore))

\* The accepted event rows, in their order.
ProjectedHistory == HistoryOf({row[1] : row \in {r \in db.rows.events : r[2] = "accepted"}})
=============================================================================
