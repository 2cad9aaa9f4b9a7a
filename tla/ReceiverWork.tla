---------------------------- MODULE ReceiverWork ----------------------------
(***************************************************************************)
(* Work a peer asks of this node (internal/sync/authenticated_work.go,     *)
(* prepare.go, policy.go, revision_manifest.go and oneWayWorkStore of      *)
(* internal/storage/sqlite/store.go).  A change named over an              *)
(* authenticated session is validated, decided, authorized by two reads of *)
(* the permission table and then stored as a transfer and a job by one     *)
(* transaction that authorizes again; the job queue authorizes a third     *)
(* time before it executes.  The queue itself is module JobQueue, what an  *)
(* execution does to the files module OneWayApply.                         *)
(***************************************************************************)
EXTENDS DeviceTrust

CONSTANTS
    JobIds,
    MaxEntries,     \* entries a manifest may hold
    MaxTries        \* RetryCount at which a job fails

VARIABLES
    target,         \* for each path the revision this node holds
    worker,         \* PrepareAndQueue: the next store call
    jobs,           \* one_way_jobs, each with its transfer
    runner          \* the job queue's worker

workVars == <<target, worker, jobs, runner>>

NotWorking == [pc |-> "idle", request |-> 0, decision |-> ""]
NoJob == [state |-> "none", request |-> 0, retry |-> 0]
NotRunning == [pc |-> "idle", job |-> "", since |-> 0]

WorkInit(revisions) ==
    /\ target = revisions
    /\ worker = NotWorking
    /\ jobs = [j \in JobIds |-> NoJob]
    /\ runner = NotRunning

-----------------------------------------------------------------------------
(* Validation of the advertisement, the change and the source revision     *)

\* RevisionManifestEntry.Validate
ValidEntry(entry) == entry.type \in {"file", "directory", "deleted"} /\ entry.seq >= 1

\* RevisionAdvertisementRequest.Validate
ValidAdvertisement(advertised) ==
    /\ Len(advertised) \in 1..MaxEntries
    /\ \A n \in 1..Len(advertised) : ValidEntry(advertised[n])
    /\ \A m, n \in 1..Len(advertised) : advertised[m].rev = advertised[n].rev => m = n

\* oneWayActionCapability
ActionCapability(action) ==
    CASE action = "add" -> "upload" [] action = "modify" -> "modify" [] action = "delete" -> "delete"

\* validateAuthenticatedAdvertisement: the change asked for was advertised by this peer.
AuthenticatedAdvertisement(peer, request) ==
    /\ ValidAdvertisement(request.advertised)
    /\ request.source = peer
    /\ \E n \in 1..Len(request.advertised) : request.advertised[n] = request.entry

\* validateSourceRevision, with OneWayChangeRequest.Validate
ValidSourceRevision(request) ==
    /\ request.action \in {"add", "modify", "delete"}
    /\ ValidEntry(request.entry)
    /\ request.entry.parent = request.base
    /\ (request.entry.type = "deleted") <=> (request.action = "delete")

\* validateOneWayPolicies
ValidPolicies(request) ==
    /\ request.modes = <<"one_way_source", "one_way_target">>
    /\ request.drift \in {"reject", "preserve_conflict_copy", "report_only"}

\* DecideOneWayChange: what a target that moved on since the expected base means.
DecideOneWayChange(request, observed) ==
    CASE observed = request.base -> "apply"
      [] observed # request.base /\ request.drift = "reject" -> "reject_drift"
      [] observed # request.base /\ request.drift = "preserve_conflict_copy" -> "preserve_conflict_copy"
      [] OTHER -> "report_only"

Applies(decision) == decision \in {"apply", "preserve_conflict_copy"}

-----------------------------------------------------------------------------
(* PrepareAndQueue, by store call                                          *)

\* The session's peer, the advertisement, the change and the decision, before any store call.
PrepareRequest(n, request) ==
    /\ worker = NotWorking
    /\ request.key \in sessions
    /\ AuthenticatedAdvertisement(IdOf[request.key], request)
    /\ ValidSourceRevision(request)
    /\ ValidPolicies(request)
    /\ worker' = [pc |-> "sync", request |-> n,
                  decision |-> DecideOneWayChange(request, target[request.entry.path])]
    /\ UNCHANGED <<target, jobs, runner>>

\* Prepare asks for the sync capability, then for the action's.
PrepareAuthorize(request) ==
    LET step == IF worker.pc = "sync" THEN [capability |-> "sync", then |-> "action"]
                ELSE [capability |-> ActionCapability(request.action),
                      then |-> IF Applies(worker.decision) THEN "create" ELSE "idle"] IN
    /\ worker.pc \in {"sync", "action"}
    /\ worker' = IF Authorized(request.source, request.share, step.capability, request.remote) /\ step.then # "idle"
                 THEN [worker EXCEPT !.pc = step.then] ELSE NotWorking
    /\ UNCHANGED <<target, jobs, runner>>

\* CreateAuthenticatedOneWayWork authorizes again inside its transaction.
CreateAuthorized(request) ==
    \A capability \in {"sync", ActionCapability(request.action)} :
        Authorized(request.source, request.share, capability, request.remote)

\* insertTransferTx and insertOneWayJobTx: a new job is queued.
QueuedJob(n) == [state |-> "queued", request |-> n, retry |-> 0]

\* The rows are inserted; a job ID that exists belongs to the same work, or the call fails.
CreateWork(id, request) ==
    /\ worker.pc = "create"
    /\ jobs' = IF CreateAuthorized(request) /\ jobs[id] = NoJob
               THEN [jobs EXCEPT ![id] = QueuedJob(worker.request)]
               ELSE jobs
    /\ worker' = NotWorking
    /\ UNCHANGED <<target, runner>>

-----------------------------------------------------------------------------
(* The job queue's worker, by store call                                   *)

\* ClaimOneWayJob, by the one worker; JobQueue has the queue's order and its leases.
ClaimJob(id) ==
    /\ runner = NotRunning
    /\ jobs[id].state \in {"queued", "retry_wait"}
    /\ jobs' = [jobs EXCEPT ![id].state = "running"]
    /\ runner' = [pc |-> "sync", job |-> id, since |-> Len(audit)]
    /\ UNCHANGED <<target, worker>>

\* Mutant: one retry too many.
FailLate(id) ==
    LET retry == jobs[id].retry + 1 IN
    [jobs EXCEPT ![id].state = IF retry <= MaxTries THEN "retry_wait" ELSE "failed", ![id].retry = retry]

\* A failed attempt waits for its retry; the last one fails the job.
FailJob(id) ==
    LET retry == jobs[id].retry + 1 IN
    [jobs EXCEPT ![id].state = IF retry < MaxTries THEN "retry_wait" ELSE "failed", ![id].retry = retry]

\* Mutant: the queue does not authorize.
RunUnchecked(request) ==
    /\ runner.pc \in {"sync", "action"}
    /\ runner' = [runner EXCEPT !.pc = "execute"]
    /\ UNCHANGED <<target, worker, jobs>>

\* UpdateOneWayJob may fail: the worker is gone and the row still says running.
Updated(rows) == {rows, jobs}

\* AuthorizeAuthenticatedOneWayJob: the sync capability, then the action's.
RunAuthorize(request) ==
    LET capability == IF runner.pc = "sync" THEN "sync" ELSE ActionCapability(request.action)
        allowed == Authorized(request.source, request.share, capability, request.remote) IN
    /\ runner.pc \in {"sync", "action"}
    /\ runner' = IF ~allowed THEN NotRunning
                 ELSE [runner EXCEPT !.pc = IF runner.pc = "sync" THEN "action" ELSE "execute"]
    /\ jobs' \in IF allowed THEN {jobs} ELSE Updated(FailJob(runner.job))
    /\ UNCHANGED <<target, worker>>

\* Execute: the applied change becomes the target's revision, or the attempt fails.
RunExecute(request, works) ==
    /\ runner.pc = "execute"
    /\ target' = IF works THEN [target EXCEPT ![request.entry.path] = request.entry.rev] ELSE target
    /\ jobs' \in Updated(IF works THEN [jobs EXCEPT ![runner.job].state = "completed"] ELSE FailJob(runner.job))
    /\ runner' = NotRunning
    /\ UNCHANGED worker

\* The target's user changes a file of the share; its scan records another revision.
Drift(path, rev) ==
    /\ target[path] # rev
    /\ target' = [target EXCEPT ![path] = rev]
    /\ UNCHANGED <<worker, jobs, runner>>
=============================================================================
