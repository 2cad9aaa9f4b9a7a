------------------------------ MODULE Devices ------------------------------
(***************************************************************************)
(* A node, its peers and its operator.  With its peers: pairing and        *)
(* sessions (DeviceTrust), the status they report (NodeStatus), the work   *)
(* they ask for (ReceiverWork), a file that crosses a session              *)
(* (FileTransfer).  On its own machine: its key (IdentityStore), its       *)
(* settings and its start (DesktopNode), the credential of its API         *)
(* (AdminCredential) and the sessions of its browser (BrowserSessions).    *)
(* A setup chooses what the parties of a behaviour may attempt.            *)
(***************************************************************************)
EXTENDS NodeStatus, ReceiverWork, FileTransfer, IdentityStore, DesktopNode, AdminCredential, BrowserSessions

CONSTANT Setups

VARIABLES
    setup,          \* the setup of this behaviour; never changes
    budget          \* the interruptions and edits still to come

hostVars == <<deskVars, credVars, webVars>>
vars == <<setup, budget, trustVars, statusVars, workVars, transferVars, identityVars, hostVars>>

Init ==
    /\ setup \in Setups
    /\ budget = setup.budget
    /\ TrustInit(DOMAIN setup.invites)
    /\ StatusInit(DOMAIN setup.reports)
    /\ WorkInit(setup.revisions)
    /\ TransferInit(setup.source, setup.existing)
    /\ IdentityInit("development")
    /\ DeskInit(setup.layouts)
    /\ CredInit(setup.stores)
    /\ WebInit

Paths == DOMAIN setup.revisions

Spend(what) == budget[what] > 0 /\ budget' = [budget EXCEPT ![what] = @ - 1]

-----------------------------------------------------------------------------

\* CreatePairingInvitation and AcceptPairingInvitation, by command or API
PairingCall ==
    /\ \/ \E i \in DOMAIN setup.invites : CreateInvitation(i, setup.invites[i])
       \/ \E request \in setup.accepts : Accept(request)
    /\ UNCHANGED replica

\* RevokePairingDevice: the replica goes in the same transaction.
Revocation == \E d \in Devices : Revoke(d) /\ replica' = WithoutReplica(d)

Connections ==
    /\ \/ setup.connects # {} /\ Listen
       \/ \E k \in setup.connects : Handshake(k)
       \/ setup.closes /\ (CloseListener \/ \E k \in setup.connects : CloseSession(k))
    /\ UNCHANGED replica

TrustStep ==
    /\ PairingCall \/ Revocation \/ Connections \/ (Tick(setup.until) /\ UNCHANGED replica)
    /\ UNCHANGED <<setup, budget, published, applying, workVars, transferVars, identityVars, hostVars>>

\* Receiver.Apply continues; the snapshot it holds is the report's.
ApplyStep ==
    /\ applying # NotApplying
    /\ LET snapshot == Snapshot(applying.report, setup.reports[applying.report]) IN
       ApplyCheckGrant(snapshot) \/ ApplySave(snapshot)
    /\ UNCHANGED <<setup, budget, trustVars, workVars, transferVars, identityVars, hostVars>>

StatusStep ==
    /\ \E n \in DOMAIN setup.reports : Publish(n, setup.reports[n]) \/ ApplyCheckDevice(n, setup.reports[n])
    /\ UNCHANGED <<setup, budget, trustVars, workVars, transferVars, identityVars, hostVars>>

\* A peer asks for a change; the target's user changes files meanwhile.
RequestStep ==
    /\ \/ /\ \E n \in DOMAIN setup.requests : PrepareRequest(n, setup.requests[n])
          /\ Spend("requests")
       \/ /\ \E path \in Paths : Drift(path, "mine")
          /\ Spend("edits")
    /\ UNCHANGED <<setup, trustVars, statusVars, transferVars, identityVars, hostVars>>

PrepareStep ==
    /\ worker # NotWorking
    /\ LET request == setup.requests[worker.request] IN
       PrepareAuthorize(request) \/ \E id \in JobIds : CreateWork(id, request)
    /\ UNCHANGED <<setup, budget, trustVars, statusVars, transferVars, identityVars, hostVars>>

JobStep ==
    /\ \/ \E id \in JobIds : ClaimJob(id)
       \/ /\ runner # NotRunning
          /\ LET request == setup.requests[jobs[runner.job].request] IN
             RunAuthorize(request) \/ \E works \in BOOLEAN : RunExecute(request, works)
    /\ UNCHANGED <<setup, budget, trustVars, statusVars, transferVars, identityVars, hostVars>>

\* The commands that send and receive one file
SendOnce == StatSource \/ HashChunk \/ SendManifest \/ SendChunk

ReceiveOnce ==
    \/ ReceiveManifest \/ ReceiveChunk \/ StreamEnds
    \/ CommitVerify \/ CommitPrepare(setup.replace) \/ CommitRename

SendStep ==
    /\ setup.sends
    /\ SendOnce \/ ReceiveOnce
    /\ UNCHANGED <<setup, budget, trustVars, statusVars, workVars, identityVars, hostVars>>

SendFaults ==
    /\ setup.sends
    /\ \/ Interrupt /\ Spend("interrupts")
       \/ SendAgain /\ Spend("requests")
       \/ (\E bytes \in setup.contents : EditSource(bytes)) /\ Spend("edits")
    /\ UNCHANGED <<setup, trustVars, statusVars, workVars, identityVars, hostVars>>

KeyStep ==
    /\ setup.boots
    /\ IdentityOp \/ IdentityStep
    /\ UNCHANGED <<setup, budget, trustVars, statusVars, workVars, transferVars, hostVars>>

\* The operator's commands on the node's settings and on local execution
Commands ==
    \/ \E change \in setup.changes : Stage(change)
    \/ \E share \in setup.shares : StageShare(share)
    \/ Discard \/ ApplyBegin
    \/ /\ setup.executes
       /\ \/ MarkDisposable \/ Preflight(clock) \/ Disable
          \/ \E receipt \in 1..Len(issued) : Enable(receipt, clock)

DeskStep ==
    /\ setup.desk
    /\ \/ /\ Commands \/ SettingsStep \/ NodePrepare(setup.first) \/ NodeStep
          /\ UNCHANGED budget
       \/ /\ \/ \E change \in setup.machine : MachineChanges(change)
             \/ \E l \in setup.layouts : InstallProgram(l)
             \/ setup.executes /\ \E present \in BOOLEAN : SetCredential(present)
          /\ Spend("edits")
    /\ UNCHANGED <<setup, trustVars, statusVars, workVars, transferVars, identityVars, credVars, webVars>>

CredStep ==
    /\ setup.credentials
    /\ \/ (\E p \in Loaders : CredentialStep(p)) /\ UNCHANGED budget
       \/ UserRemoves /\ Spend("edits")
    /\ UNCHANGED <<setup, trustVars, statusVars, workVars, transferVars, identityVars, deskVars, webVars>>

\* A browser and the CLI send requests with tokens they were given.
WebAsk(c) ==
    \/ Ask(c, "issue", 0, 0, clock)
    \/ \E token \in 1..randoms : Ask(c, "exchange", token, 0, clock)
    \/ \E session \in 1..(IF setup.visits THEN Len(opened) ELSE 0) :
        \/ \E kind \in {"get", "read"} : Ask(c, kind, session, 0, clock)
        \/ \E token \in 1..randoms : Ask(c, "post", session, token, clock)

BrowserStep ==
    /\ setup.calls # {}
    /\ \/ (\E c \in setup.calls : WebAsk(c)) /\ Spend("requests")
       \/ (\E c \in setup.calls : WebStep(c, clock)) /\ UNCHANGED budget
       \/ DrainServer /\ Spend("interrupts")
       \/ RestartServer /\ UNCHANGED budget
    /\ UNCHANGED <<setup, trustVars, statusVars, workVars, transferVars, identityVars, deskVars, credVars>>

Next ==
    \/ TrustStep \/ StatusStep \/ ApplyStep \/ RequestStep \/ PrepareStep \/ JobStep
    \/ SendStep \/ SendFaults \/ KeyStep
    \/ DeskStep \/ CredStep \/ BrowserStep

\* Every property is about safety: nobody is obliged to do anything.
Spec == Init /\ [][Next]_vars

-----------------------------------------------------------------------------
(* Properties                                                              *)

\* Rows, sessions and calls stay within their types.
TypeOK ==
    /\ \A d \in Devices : device[d].key \in Keys \cup {NoKey} /\ device[d].trust \in {"unknown", "trusted", "revoked"}
    /\ \A d \in Devices, s \in Shares : permission[d][s].caps \subseteq {"sync", "upload", "modify", "delete", "download"}
    /\ \A n \in 1..Len(audit) : audit[n].name \in {"invited", "accepted", "revoked"}
    /\ sessions \subseteq Keys
    /\ applying.pc \in {"idle", "grant", "save"}
    /\ worker.pc \in {"idle", "sync", "action", "create"}
    /\ \A id \in JobIds : jobs[id].state \in {"none", "queued", "running", "retry_wait", "failed", "completed"}
                          /\ jobs[id].retry \in 0..MaxTries
    /\ runner.pc \in {"idle", "sync", "action", "execute"}
    /\ sender.pc \in {"idle", "hash", "check", "send", "sent", "failed"}
    /\ receiver.pc \in {"idle", "chunk", "verify", "prepare", "rename", "committed", "failed"}
    /\ {vault, meta} \subseteq IdentityKeys \cup {NoKeyStored}
    /\ lineage \subseteq IdentityKeys
    /\ \A d \in Dirs : layout[d] \in Nat /\ marker[d] \in 0..MaxReceipts /\ evidence[d].receipt \in 0..Len(issued)
    /\ cli.pc \in {"idle", "relocate", "backup", "activate", "drop"}
    /\ node.pc \in {"off", "prepare", "load", "boot", "bind", "up"}
    /\ secret \in -1..MaxSecrets
    /\ \A c \in Calls : call[c].pc \in {"idle", "lock", "store", "read", "rotate", "post", "admitted"}

\* A device is trusted exactly when the last thing the audit log says of it
\* is that an invitation was accepted, and no invitation is accepted twice:
\* an acceptance repeated after a revocation does not bring trust back.
TrustAudited ==
    /\ \A d \in Devices \ {Local} : Trusted(d) <=> TrustedBy(audit, d)
    /\ \A m, n \in 1..Len(audit) :
        audit[m].name = "accepted" /\ audit[n].name = "accepted" /\ audit[m].invite = audit[n].invite => m = n

\* The permission table holds what the acceptances since the last revocation
\* granted and nothing older: no grant outlives a revocation.
PermissionsExplained ==
    \A d \in Devices \ {Local}, s \in Shares : permission[d][s] = Granted(audit, d, s)

\* A session is with the very key its device was paired under, whatever was
\* accepted and revoked meanwhile, also when two keys share a device ID.
SessionsPinned == \A k \in sessions : device[IdOf[k]].key = k

\* However reports are repeated and reordered, the replica of a node that
\* stays paired never goes back to an older revision.
StatusMonotone ==
    \A d \in Devices : replica[d] # NoReplica /\ replica'[d] # NoReplica => replica'[d].rev >= replica[d].rev

\* A node the control plane calls a current replica was heard from within
\* the staleness limit and the tolerated skew, however wrong its clock is.
HeardRecently ==
    \A d \in Devices :
        Visible(d) /\ ClassifyFederatedObservation(replica[d], clock) = "replica" =>
            clock - replica[d].received < StaleAfter + Skew

\* Status is shown only of a device that was given a control-plane grant by
\* an acceptance since its last revocation.
VisibleByGrant == \A d \in Devices : Visible(d) => \E e \in Standing(audit, d) : e.control > 0

Capabilities(request) == {"sync", ActionCapability(request.action)}

Permits(given, capability, remote) == capability \in given.caps /\ ~(remote /\ given.lan)

\* Work is stored only while the log grants its peer both capabilities: a
\* revocation between the checks of Prepare and the transaction stops it.
WorkAuthorized ==
    \A id \in JobIds : jobs[id] = NoJob /\ jobs'[id] # NoJob =>
        LET request == setup.requests[jobs'[id].request] IN
        \A capability \in Capabilities(request) :
            Permits(Granted(audit, request.source, request.share), capability, request.remote)

\* A job that executes had each capability at some moment after its claim:
\* work queued before a revocation does not run after it.
ExecutionAuthorized ==
    runner.pc = "execute" =>
        LET request == setup.requests[jobs[runner.job].request] IN
        \A capability \in Capabilities(request) :
            \E n \in runner.since..Len(audit) :
                Permits(Granted(SubSeq(audit, 1, n), request.source, request.share), capability, request.remote)

\* The destination holds bytes the source file had as a whole at one moment,
\* or what it held before: never a mixture, and never a part.
CommittedWhole == dest.bytes \in file.had \cup {NoFile, setup.existing}

\* What the destination held is in the history once it is replaced.
PreviousKept ==
    /\ dest.bytes # NoFile /\ dest'.bytes # dest.bytes => dest.bytes \in dest'.history
    /\ dest.history \subseteq dest'.history

\* Outside of a Save, a key the node was given is stored: no failed write that is
\* rolled back, crash or migration loses the identity peers know.  Only a Save cut
\* short between its two writes, by a crash or by the failure of its rollback,
\* leaves the new key in place of the old.
KeyKept ==
    lineage # {} /\ keeper.pc \notin {"save_meta", "rollback"} => vault \in lineage \/ legacy \in lineage

\* The node never runs under a key it was not given: starting it does not
\* silently make a new identity.
IdentityStable == keeper.pc = "running" => keeper.key \in lineage

\* Enabled execution is backed by its own evidence: through staging, moves,
\* preflights and crashes the active data root holds the preflight record of
\* the receipt the configuration names.
AuthorizationBacked == config.exec.enabled => evidence[config.data].receipt = config.exec.receipt

\* A node that executes runs what an operator approved: its receipt was
\* accepted by Enable, for the executable and the commit it started with.
RunsWhatWasApproved ==
    node.exec =>
        /\ node.cfg.exec.receipt \in approved
        /\ issued[node.cfg.exec.receipt].exe = node.exe
        /\ issued[node.cfg.exec.receipt].head = node.head

\* The control state follows the data root: once the node was prepared, the
\* active data root has a control state, whichever write a crash comes after.
ControlStateFollows == (\E d \in Dirs : layout[d] # 0) => layout[config.data] # 0

\* No program, older or newer, and no move takes a layout back.
LayoutKept == \A d \in Dirs : layout'[d] >= layout[d]

\* Every daemon serves the credential the first one served: a vault that
\* lost it, a failed marker or a crash does not make a second one.
CredentialStable ==
    store = "vault" => \A p \in Daemons : loader[p].pc = "serving" => loader[p].got = firstServed

\* What a daemon serves is what a client finds, unless the user removed it:
\* no second daemon replaces the credential under the first.
ServedIsStored ==
    \A p \in Daemons : loader[p].pc = "serving" => secret = loader[p].got \/ removed

\* A bootstrap ticket opens one session, however many requests carry it at once.
TicketsUsedOnce == \A m, n \in 1..Len(opened) : opened[m] = opened[n] => m = n

\* Concurrent exchanges do not get past the limit on sessions.
SessionsBounded == Cardinality(web) <= MaxWebSessions /\ Cardinality(tickets) <= MaxTickets

\* No request is admitted later than a ticket's and a session's lifetime
\* after its ticket was issued, however often the session was read.
AdmittedInTime == \A c \in Calls : call[c].pc = "admitted" => call[c].now < call[c].since + TicketTTL + SessionTTL

-----------------------------------------------------------------------------
(* The properties above, by the question they answer                       *)

\* Trust, permissions, sessions and the status shown of a device are what the
\* audit log explains, through acceptances and revocations in any order
\* (Accept and Revoke write them in one transaction with their event).
TrustFollowsLog == TrustAudited /\ PermissionsExplained /\ SessionsPinned /\ VisibleByGrant

\* The status shown of a peer is recent and never goes back, although reports
\* are repeated, reordered and stamped by a clock that is wrong.
StatusCurrent == [][HeardRecently' /\ StatusMonotone]_vars

\* A revocation stops work at whichever of the three authorizations comes next:
\* between Prepare and its transaction, or between the queue's claim and its run.
PeersAuthorized == [][ExecutionAuthorized' /\ WorkAuthorized]_vars

\* A transfer replaces a file by another whole one and keeps the old, although
\* the source is edited and both ends are interrupted (Commit of ReceiveWriter).
TransferWhole == [][CommittedWhole' /\ PreviousKept]_vars

\* The node's key and its administration credential are neither lost nor silently
\* replaced while they are in use: by a failed write and its rollback, a crash, a
\* migration, or a second process (Save of CredentialStore, the credential's load).
SecretsKept == KeyKept /\ IdentityStable /\ CredentialStable /\ ServedIsStored

\* A node executes only what its own evidence and an operator's approval cover,
\* although settings are staged, roots moved and the machine changed meanwhile.
ApprovedExecution == AuthorizationBacked /\ RunsWhatWasApproved

\* The control state is where the configuration says and is never downgraded,
\* whichever write of a move a crash comes after, whichever program starts.
StateFollowsRoot == [][ControlStateFollows' /\ LayoutKept]_vars

\* The browser's tickets and sessions keep their single use, their number and
\* their lifetime although requests overlap and each read the clock earlier.
BrowserAdmission == TicketsUsedOnce /\ SessionsBounded /\ AdmittedInTime
=============================================================================
