------------------------- MODULE HistoryOperations -------------------------
(***************************************************************************)
(* The operations of the work-history service (internal/workhistory): the  *)
(* records of each in the order of their publication, and the history it   *)
(* asks for before it publishes.  The event comes last, so that whatever   *)
(* it refers to is on disk before it.                                      *)
(***************************************************************************)
EXTENDS RecordProjection

Wp(h, e) == h.wp[Catalog[e].wp]
Exec(h, e) == h.exec[Catalog[e].exec]

\* requireState and requireExecution.
RequireState(h, e, state) == Wp(h, e).state = state
RequireExecution(h, e, allowed) == Exec(h, e) \in allowed

-----------------------------------------------------------------------------

\* The task, its definitions, the graph that pins them, and one event for each
\* work package; no state is asked for.
CreateTask(task, definitions, graph, created) ==
    [op |-> "CreateTask", records |-> <<task>> \o definitions \o <<graph>> \o created]

CreateWorkPackage(definition, e) == [op |-> "CreateWorkPackage", records |-> <<definition, e>>]
CreateWorkPackageAllowed(h, e) == RequireState(h, e, "none")

TransitionWorkPackage(e) == [op |-> "TransitionWorkPackage", records |-> <<e>>]
TransitionWorkPackageAllowed(h, e) ==
    RequireState(h, e, Catalog[e].from) /\ Catalog[e].to \in WorkPackageTargets(Catalog[e].from)

StartExecution(manifest, e) == [op |-> "StartExecution", records |-> <<manifest, e>>]
StartExecutionAllowed(h, e) == RequireState(h, e, "in_progress") /\ RequireExecution(h, e, {"none"})

\* A resumption is built from the execution's manifest, which must be there.
ResumeExecution(e) == [op |-> "ResumeExecution", records |-> <<e>>]
ResumeExecutionAllowed(h, e) == RequireExecution(h, e, {"paused"})

PauseExecution(e) == [op |-> "PauseExecution", records |-> <<e>>]
PauseExecutionAllowed(h, e) == RequireExecution(h, e, {"running"})

FailExecution(e) == [op |-> "FailExecution", records |-> <<e>>]
FailExecutionAllowed(h, e) == RequireExecution(h, e, {"running", "paused"})

CompleteExecution(e) == [op |-> "CompleteExecution", records |-> <<e>>]
CompleteExecutionAllowed(h, e) == RequireExecution(h, e, {"running"})

RecordTest(e) == [op |-> "RecordTest", records |-> <<e>>]
RecordTestAllowed(h, e) == RequireExecution(h, e, {"running"})

RecordTelemetry(e) == [op |-> "RecordTelemetry", records |-> <<e>>]
RecordTelemetryAllowed(h, e) == ~RequireExecution(h, e, {"none"})

RecordReview(e) == [op |-> "RecordReview", records |-> <<e>>]
RecordReviewAllowed(h, e) == RequireState(h, e, "review")

AcceptWork(e) == [op |-> "AcceptWork", records |-> <<e>>]
AcceptWorkAllowed(h, e) == RequireState(h, e, "review") /\ Wp(h, e).approved

CreateHandoff(handoff, e) == [op |-> "CreateHandoff", records |-> <<handoff, e>>]
CreateHandoffAllowed(h, e) == RequireExecution(h, e, {"completed", "failed"})

RegisterArtifact(artifact, e) == [op |-> "RegisterArtifact", records |-> <<artifact, e>>]
RegisterArtifactReference(artifact, e) == [op |-> "RegisterArtifactReference", records |-> <<artifact, e>>]
RegisterArtifactAllowed(h, e) ==
    ~RequireState(h, e, "none") /\ (Catalog[e].exec # "" => ~RequireExecution(h, e, {"none"}))

-----------------------------------------------------------------------------

\* validateState of an operation, for its event.
Allows(h, op, e) ==
    CASE op = "CreateTask"            -> TRUE
      [] op = "CreateWorkPackage"     -> CreateWorkPackageAllowed(h, e)
      [] op = "TransitionWorkPackage" -> TransitionWorkPackageAllowed(h, e)
      [] op = "StartExecution"        -> StartExecutionAllowed(h, e)
      [] op = "ResumeExecution"       -> ResumeExecutionAllowed(h, e)
      [] op = "PauseExecution"        -> PauseExecutionAllowed(h, e)
      [] op = "FailExecution"         -> FailExecutionAllowed(h, e)
      [] op = "CompleteExecution"     -> CompleteExecutionAllowed(h, e)
      [] op = "RecordTest"            -> RecordTestAllowed(h, e)
      [] op = "RecordTelemetry"       -> RecordTelemetryAllowed(h, e)
      [] op = "RecordReview"          -> RecordReviewAllowed(h, e)
      [] op = "AcceptWork"            -> AcceptWorkAllowed(h, e)
      [] op = "CreateHandoff"         -> CreateHandoffAllowed(h, e)
      [] op \in {"RegisterArtifact", "RegisterArtifactReference"} -> RegisterArtifactAllowed(h, e)
=============================================================================
