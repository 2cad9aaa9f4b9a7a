---------------------------- MODULE DesktopNode ----------------------------
(***************************************************************************)
(* The files a desktop node is run from and the commands that change them  *)
(* (internal/desktop/{lifecycle,settings,execution,credentials,roots}.go,  *)
(* internal/config/config.go, runNode of cmd/syncgate/main.go, Bootstrap   *)
(* of internal/daemon/daemon.go): settings are staged, confirmed and       *)
(* applied, roots are moved, and local execution is enabled on the         *)
(* evidence of a preflight.                                                *)
(*                                                                         *)
(* Every file write is a rename.  The operator runs one command at a time, *)
(* a command may crash between two writes, and the node may be started at  *)
(* any moment of it.  Of the four movable roots the data root and the      *)
(* worktree root are modelled; logs and cache follow the worktree root's   *)
(* rule.  config.previous.json is written and never read, so its content   *)
(* is left out.  A digest stands for what it was computed from.            *)
(***************************************************************************)
EXTENDS Integers, Sequences, FiniteSets

CONSTANTS
    Dirs,           \* directories that can be the data or the worktree root
    ProjectDir,     \* the directory that holds the disposable project
    PreflightTTL,   \* ExecutionPreflightLifetime
    MaxReceipts     \* bound on preflights and on markers

VARIABLES
    config,         \* config.json
    pending,        \* config.pending.json
    layout,         \* for each directory the layout in its control state file, 0 for none
    content,        \* directories that hold anything else
    marker,         \* for each directory the project's disposable marker, 0 for none
    evidence,       \* for each directory execution-preflight.json
    machine,        \* the runtime executable, the project and the provider's credential
    binary,         \* the control layout of the installed program
    cli,            \* the command that is running
    node,           \* the node process
    issued,         \* every preflight record, by receipt
    approved        \* receipts an Enable accepted

deskFiles == <<config, pending, layout, content, marker, evidence>>
deskVars == <<deskFiles, machine, binary, cli, node, issued, approved>>

NoConfig == [data |-> "none", trees |-> "none", port |-> 0, shares |-> {}, exec |-> [enabled |-> FALSE, receipt |-> 0]]
NoEvidence == [receipt |-> 0, exe |-> 0, marker |-> 0, head |-> 0, expires |-> 0]
NoCommand == [pc |-> "idle", op |-> "", active |-> NoConfig, candidate |-> NoConfig]
NodeOff == [pc |-> "off", cfg |-> NoConfig, exec |-> FALSE, exe |-> 0, head |-> 0]

DeskInit(layouts) ==
    /\ config = NoConfig /\ pending = NoConfig
    /\ layout = [d \in Dirs |-> 0]
    /\ content = {ProjectDir}
    /\ marker = [d \in Dirs |-> 0]
    /\ evidence = [d \in Dirs |-> NoEvidence]
    /\ machine = [exe |-> 1, head |-> 1, clean |-> TRUE, credential |-> FALSE]
    /\ binary \in layouts
    /\ cli = NoCommand /\ node = NodeOff
    /\ issued = <<>> /\ approved = {}

\* validateRoots: the roots are separate; NodeConfig.validate says so again.
SeparateRoots(c) == c.data # c.trees

ValidNode(c) == SeparateRoots(c)

ValidExecution(c) == c.exec.enabled => c.exec.receipt # 0

\* ShareConfig.validate: share IDs differ.
ValidShares(c) == \A s, t \in c.shares : s.id = t.id => s = t

\* ApplyDefaultsAndValidate
ValidConfig(c) == ValidNode(c) /\ ValidExecution(c) /\ ValidShares(c)

\* A command begins with the active configuration.
Idle == cli.pc = "idle" /\ config # NoConfig

-----------------------------------------------------------------------------
(* Settings (settings.go)                                                  *)

\* The candidate a change is made to: the pending one, else the active one
Candidate == IF pending # NoConfig THEN pending ELSE config

WritePending(c) ==
    /\ ValidConfig(c) /\ SeparateRoots(c)
    /\ pending' = c
    /\ UNCHANGED <<config, layout, content, marker, evidence, machine, binary, cli, node, issued, approved>>

Stage(change) == Idle /\ WritePending([Candidate EXCEPT ![change.field] = change.value])

\* The share's root is checked against the roots of the candidate as it is now.
StageShare(share) ==
    /\ Idle
    /\ share.place \notin {Candidate.data, Candidate.trees}
    /\ \A s \in Candidate.shares : s.id # share.id
    /\ WritePending([Candidate EXCEPT !.shares = @ \cup {share}])

Discard ==
    /\ Idle
    /\ pending # NoConfig
    /\ pending' = NoConfig
    /\ UNCHANGED <<config, layout, content, marker, evidence, machine, binary, cli, node, issued, approved>>

\* ensureNodeStopped dials the port of the active configuration.
NodeStopped == ~(node.pc = "up" /\ node.cfg.port = config.port)

Command(op, pc, candidate) == cli' = [op |-> op, pc |-> pc, active |-> config, candidate |-> candidate]

\* Apply reads all it decides on before it writes; the confirmation is the pending candidate's digest.
ApplyBegin ==
    /\ Idle /\ NodeStopped
    /\ pending # NoConfig
    /\ SeparateRoots(pending)
    /\ Command("apply", "relocate", pending)
    /\ UNCHANGED <<deskFiles, machine, binary, node, issued, approved>>

\* Mutant: the control state stays in the old data root.
CopiedNowhere(from, to) == layout

\* prepareRelocation copies the control state to a new data root.
CopiedState(from, to) == [layout EXCEPT ![to] = layout[from]]

\* requireRelocatable: both ends are empty but for the old control state.
Relocatable(active, candidate) ==
    /\ active.data # candidate.data =>
        /\ {active.data, candidate.data} \cap content = {}
        /\ layout[candidate.data] = 0
        /\ layout[active.data] # 0
    /\ active.trees # candidate.trees =>
        /\ {active.trees, candidate.trees} \cap content = {}
        /\ layout[active.trees] = 0 /\ layout[candidate.trees] = 0

ApplyRelocate ==
    /\ cli.pc = "relocate"
    /\ IF Relocatable(cli.active, cli.candidate)
       THEN /\ layout' = IF cli.active.data = cli.candidate.data THEN layout
                         ELSE CopiedState(cli.active.data, cli.candidate.data)
            /\ cli' = [cli EXCEPT !.pc = "backup"]
       ELSE cli' = NoCommand /\ UNCHANGED layout
    /\ UNCHANGED <<config, pending, content, marker, evidence, machine, binary, node, issued, approved>>

\* The active configuration is copied aside, then the candidate takes its place.
WritePrevious ==
    /\ cli.pc = "backup"
    /\ cli' = [cli EXCEPT !.pc = "activate"]
    /\ UNCHANGED <<deskFiles, machine, binary, node, issued, approved>>

Activate ==
    /\ cli.pc = "activate"
    /\ config' = cli.candidate
    /\ approved' = IF cli.op = "enable" THEN approved \cup {cli.candidate.exec.receipt} ELSE approved
    /\ cli' = IF cli.op = "apply" THEN [cli EXCEPT !.pc = "drop"] ELSE NoCommand
    /\ UNCHANGED <<pending, layout, content, marker, evidence, machine, binary, node, issued>>

DropPending ==
    /\ cli.pc = "drop"
    /\ pending' = NoConfig
    /\ cli' = NoCommand
    /\ UNCHANGED <<config, layout, content, marker, evidence, machine, binary, node, issued, approved>>

\* Between two writes, or in one: what is not renamed yet is not there.
CommandDies ==
    /\ cli.pc # "idle"
    /\ cli' = NoCommand
    /\ UNCHANGED <<deskFiles, machine, binary, node, issued, approved>>

-----------------------------------------------------------------------------
(* Local execution (execution.go, credentials.go)                          *)

\* validateProjectRoot and git status: the project is a clean child of the worktree root.
ProjectReady(c) == c.trees = ProjectDir /\ machine.clean

SetCredential(present) ==
    /\ Idle
    /\ machine.credential # present
    /\ machine' = [machine EXCEPT !.credential = present]
    /\ UNCHANGED <<deskFiles, binary, cli, node, issued, approved>>

\* Each marking gives the project a new opaque ID.
MarkDisposable ==
    /\ Idle /\ ProjectReady(config)
    /\ marker[config.data] < MaxReceipts
    /\ marker' = [marker EXCEPT ![config.data] = @ + 1]
    /\ content' = content \cup {config.data}
    /\ UNCHANGED <<config, pending, layout, evidence, machine, binary, cli, node, issued, approved>>

\* readDisposableMarker: the marker of the project, if there is one.
DisposableMarker(d) == {marker[d]} \ {0}

\* readExecutionPreflight: the record in a data root, if there is one.
ExecutionPreflight(d) == {evidence[d]} \ {NoEvidence}

\* inspectRuntimeExecutable
RuntimeDigest == machine.exe

\* Mutant: execution may be on while new evidence is gathered.
PreflightAnyTime(c) == TRUE

PreflightAllowed(c) == ~c.exec.enabled

Preflight(now) ==
    /\ Idle
    /\ PreflightAllowed(config)
    /\ ProjectReady(config) /\ machine.credential
    /\ Len(issued) < MaxReceipts
    /\ \E m \in DisposableMarker(config.data) :
       LET record == [receipt |-> Len(issued) + 1, exe |-> RuntimeDigest, marker |-> m,
                      head |-> machine.head, expires |-> now + PreflightTTL] IN
       /\ evidence' = [evidence EXCEPT ![config.data] = record]
       /\ issued' = Append(issued, record)
    /\ content' = content \cup {config.data}
    /\ UNCHANGED <<config, pending, layout, marker, machine, binary, cli, node, approved>>

\* What Enable and the node's start check again.
StillHolds(record, c) ==
    /\ machine.credential
    /\ RuntimeDigest = record.exe
    /\ ProjectReady(c)
    /\ record.marker \in DisposableMarker(c.data)
    /\ record.head = machine.head

NoPendingSettings == pending = NoConfig

Enable(receipt, now) ==
    /\ Idle /\ NoPendingSettings /\ NodeStopped
    /\ \E record \in ExecutionPreflight(config.data) :
       /\ receipt = record.receipt
       /\ now < record.expires
       /\ StillHolds(record, config)
    /\ Command("enable", "backup", [config EXCEPT !.exec = [enabled |-> TRUE, receipt |-> receipt]])
    /\ UNCHANGED <<deskFiles, machine, binary, node, issued, approved>>

Disable ==
    /\ Idle /\ NoPendingSettings /\ NodeStopped
    /\ Command("disable", "backup", [config EXCEPT !.exec.enabled = FALSE])
    /\ UNCHANGED <<deskFiles, machine, binary, node, issued, approved>>

-----------------------------------------------------------------------------
(* Starting the node (Initialize, prepareControlState, RunConfig)          *)

\* Initialize writes a first configuration, or takes the roots of the one there is.
NodePrepare(first) ==
    /\ node.pc = "off"
    /\ LET c == IF config = NoConfig THEN first ELSE config IN
       /\ config' = c
       /\ node' = [NodeOff EXCEPT !.pc = "prepare", !.cfg = c]
    /\ UNCHANGED <<pending, layout, content, marker, evidence, machine, binary, cli, issued, approved>>

MinimumControlLayoutVersion == 1

\* No state yet, or one within the range the program supports.
Supports(state) == state = 0 \/ state \in MinimumControlLayoutVersion .. binary

NodePrepareState ==
    /\ node.pc = "prepare"
    /\ LET d == node.cfg.data IN
       IF Supports(layout[d])
       THEN layout' = [layout EXCEPT ![d] = binary] /\ node' = [node EXCEPT !.pc = "load"]
       ELSE node' = NodeOff /\ UNCHANGED layout
    /\ UNCHANGED <<config, pending, content, marker, evidence, machine, binary, cli, issued, approved>>

NodeLoad ==
    /\ node.pc = "load"
    /\ node' = [node EXCEPT !.pc = "boot", !.cfg = config]
    /\ UNCHANGED <<deskFiles, machine, binary, cli, issued, approved>>

\* ValidateEnabledAuthorization; the receipt itself may have expired.
EnabledAuthorization(c) ==
    \E record \in ExecutionPreflight(c.data) : record.receipt = c.exec.receipt /\ StillHolds(record, c)

\* Bootstrap opens the database, then composes the runtime if execution is
\* enabled, for a project that is registered.
NodeBootstrap(registered) ==
    /\ node.pc = "boot"
    /\ content' = content \cup {node.cfg.data} \cup
                  (IF node.cfg.exec.enabled /\ EnabledAuthorization(node.cfg) /\ registered THEN {node.cfg.trees} ELSE {})
    /\ node' = IF ~node.cfg.exec.enabled THEN [node EXCEPT !.pc = "bind"]
               ELSE IF EnabledAuthorization(node.cfg) /\ registered
               THEN [node EXCEPT !.pc = "bind", !.exec = TRUE, !.exe = machine.exe, !.head = machine.head]
               ELSE NodeOff
    /\ UNCHANGED <<config, pending, layout, marker, evidence, machine, binary, cli, issued, approved>>

\* ConfigureLocalAPI binds the port.
NodeListen ==
    /\ node.pc = "bind"
    /\ node' = [node EXCEPT !.pc = "up"]
    /\ UNCHANGED <<deskFiles, machine, binary, cli, issued, approved>>

NodeEnds ==
    /\ node.pc # "off"
    /\ node' = NodeOff
    /\ UNCHANGED <<deskFiles, machine, binary, cli, issued, approved>>

-----------------------------------------------------------------------------
(* What happens to the machine meanwhile                                   *)

MachineChanges(change) ==
    /\ machine' = CASE change = "exe" -> [machine EXCEPT !.exe = @ + 1]
                    [] change = "head" -> [machine EXCEPT !.head = @ + 1]
                    [] change = "edit" -> [machine EXCEPT !.clean = ~@]
    /\ UNCHANGED <<deskFiles, binary, cli, node, issued, approved>>

InstallProgram(to) ==
    /\ binary # to /\ node.pc = "off" /\ cli.pc = "idle"
    /\ binary' = to
    /\ UNCHANGED <<deskFiles, machine, cli, node, issued, approved>>

SettingsStep == ApplyRelocate \/ WritePrevious \/ Activate \/ DropPending \/ CommandDies

NodeStep == NodePrepareState \/ NodeLoad \/ (\E registered \in BOOLEAN : NodeBootstrap(registered)) \/ NodeListen \/ NodeEnds
=============================================================================
