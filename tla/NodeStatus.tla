----------------------------- MODULE NodeStatus -----------------------------
(***************************************************************************)
(* Status of paired nodes (internal/nodestatus/protocol.go,                *)
(* internal/storage/sqlite/node_status.go, internal/api/node_federation.go *)
(* and internal/api/cross_node_projects.go): a peer signs snapshots of     *)
(* itself; the receiver checks the device, then the grant, then saves, in  *)
(* three store calls; the control plane lists and classifies what it has.  *)
(* Snapshots are lost, repeated and delivered in any order.                *)
(***************************************************************************)
EXTENDS DeviceTrust

CONSTANTS
    SnapshotTTL,    \* MaxSnapshotTTL
    StaleAfter      \* federationStaleAfter

VARIABLES
    published,      \* for each planned report: when it was signed, by this node's clock
    replica,        \* node_status_replicas
    applying        \* the receiver: which store call comes next

statusVars == <<published, replica, applying>>

NoReplica == [rev |-> 0, mark |-> 0, protocol |-> "", observed |-> 0, expires |-> 0, received |-> 0]
NotApplying == [pc |-> "idle", report |-> 0, at |-> 0]

StatusInit(reports) ==
    /\ published = [n \in reports |-> Never]
    /\ replica = [d \in Devices |-> NoReplica]
    /\ applying = NotApplying

\* The snapshot of report n: its time is the time of the signer's clock.
Snapshot(n, plan) ==
    [source |-> IdOf[plan.key], key |-> plan.key, rev |-> plan.rev, mark |-> plan.mark, protocol |-> plan.protocol,
     observed |-> published[n] + Ahead[plan.key], expires |-> published[n] + Ahead[plan.key] + plan.ttl]

\* Compatibility and SupportedProtocol
SupportedProtocol(protocol) == protocol \in {"current", "legacy"}

\* ValidateSnapshot, with the project summaries and counts left out.
ValidateSnapshot(snapshot, now) ==
    /\ SupportedProtocol(snapshot.protocol)
    /\ snapshot.rev >= 1
    /\ snapshot.expires > snapshot.observed
    /\ snapshot.expires - snapshot.observed <= SnapshotTTL
    /\ snapshot.observed <= now + Skew
    /\ snapshot.expires > now

\* Build: the signer validates the snapshot at its own observation time.
Publish(n, plan) ==
    /\ published[n] = Never
    /\ plan.ttl \in 1..SnapshotTTL
    /\ published' = [published EXCEPT ![n] = clock]
    /\ UNCHANGED <<replica, applying>>

-----------------------------------------------------------------------------
(* Receiver.Apply                                                          *)

\* The snapshot is valid now, its source trusted, the signature the stored key's.
ApplyCheckDevice(n, plan) ==
    LET snapshot == Snapshot(n, plan) IN
    /\ applying = NotApplying
    /\ published[n] # Never
    /\ ValidateSnapshot(snapshot, clock)
    /\ Trusted(snapshot.source)
    /\ device[snapshot.source].key = snapshot.key
    /\ applying' = [pc |-> "grant", report |-> n, at |-> clock]
    /\ UNCHANGED <<published, replica>>

ActiveGrant(g, now) == g.read /\ ~g.revoked /\ g.expires > now

ApplyCheckGrant(snapshot) ==
    /\ applying.pc = "grant"
    /\ applying' = IF ActiveGrant(grant[snapshot.source], applying.at)
                   THEN [applying EXCEPT !.pc = "save"] ELSE NotApplying
    /\ UNCHANGED <<published, replica>>

\* Mutant: a snapshot with an older revision replaces a newer one.
AcceptableInAnyOrder(stored, snapshot) == stored.mark # snapshot.mark

\* SaveNodeStatusReplica: a newer revision with another watermark than the stored one.
Newer(stored, snapshot) ==
    \/ stored = NoReplica
    \/ snapshot.rev > stored.rev /\ snapshot.mark # stored.mark

ApplySave(snapshot) ==
    LET d == snapshot.source IN
    /\ applying.pc = "save"
    /\ replica' = IF Newer(replica[d], snapshot)
                  THEN [replica EXCEPT ![d] =
                           [rev |-> snapshot.rev, mark |-> snapshot.mark, protocol |-> snapshot.protocol,
                            observed |-> snapshot.observed, expires |-> snapshot.expires, received |-> applying.at]]
                  ELSE replica
    /\ applying' = NotApplying
    /\ UNCHANGED published

\* Revoke deletes the replica in its transaction.
WithoutReplica(d) == [replica EXCEPT ![d] = NoReplica]

-----------------------------------------------------------------------------
(* The federation view of the control plane                                *)

\* ListVisibleNodeStatusReplicas and ListFederatedNodes
Visible(d) == replica[d] # NoReplica /\ Trusted(d) /\ ActiveGrant(grant[d], clock)

\* classifyFederatedObservation
ClassifyFederatedObservation(r, now) ==
    CASE r.protocol # "current" -> "incompatible"
      [] r.expires <= now -> "offline"
      [] r.observed <= now - StaleAfter -> "stale"
      [] OTHER -> "replica"
=============================================================================
