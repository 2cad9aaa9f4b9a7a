-------------------------- MODULE AdminCredential --------------------------
(***************************************************************************)
(* The local administration credential (internal/api/admin_credential.go,  *)
(* auth.go; ConfigureLocalAPI of internal/daemon/admin_api.go;             *)
(* newAdminClient of cmd/syncgate/main.go).                                *)
(*                                                                         *)
(* A starting daemon binds the API's port, then loads the credential or    *)
(* creates it; a client loads it at the same time.  In production the      *)
(* secret is in the operating system's vault and a marker file says that   *)
(* there is one; in development it is a plain file.  Every write can fail  *)
(* and every process can die between two of them.                          *)
(***************************************************************************)
EXTENDS Integers

CONSTANTS
    Daemons,        \* daemon processes on one data directory
    Clients,        \* commands that load the credential
    MaxSecrets      \* bound on the secrets ever generated

Loaders == Daemons \cup Clients

VARIABLES
    store,          \* "vault" or "file"
    secret,         \* what the store holds: 0 nothing, -1 a torn file, else a secret
    stamped,        \* the marker file is there
    port,           \* the process the API's port is bound to
    loader,         \* for each process where it is in loading or saving
    generated,      \* secrets generated so far
    firstServed,    \* the first secret a daemon served, 0 for none
    removed         \* the user took the secret out of the vault

credVars == <<store, secret, stamped, port, loader, generated, firstServed, removed>>

Away == [pc |-> "off", marked |-> FALSE, got |-> 0, before |-> 0]

CredInit(stores) ==
    /\ store \in stores
    /\ secret = 0 /\ stamped = FALSE
    /\ port = "free"
    /\ loader = [p \in Loaders |-> Away]
    /\ generated = 0 /\ firstServed = 0
    /\ removed = FALSE

\* What is left when a process fails or is killed; its listener is closed.
Gone(p) ==
    /\ loader' = [loader EXCEPT ![p] = Away]
    /\ port' = IF port = p THEN "free" ELSE port

Goto(p, pc) == loader' = [loader EXCEPT ![p].pc = pc] /\ UNCHANGED port

\* ConfigureLocalAPI binds first; a daemon that cannot bind ends.
BeginLoad(p) ==
    /\ p \in Daemons /\ loader[p] = Away
    /\ port = "free" /\ port' = p
    /\ loader' = [loader EXCEPT ![p].pc = "marker"]
    /\ UNCHANGED <<store, secret, stamped, generated, firstServed, removed>>

\* newAdminClient: a command only loads.
NewAdminClient(p) ==
    /\ p \in Clients /\ loader[p] = Away
    /\ Goto(p, "marker")
    /\ UNCHANGED <<store, secret, stamped, generated, firstServed, removed>>

ReadMarker(p) ==
    /\ loader[p].pc = "marker"
    /\ loader' = [loader EXCEPT ![p].pc = "read", ![p].marked = stamped]
    /\ UNCHANGED <<store, secret, stamped, port, generated, firstServed, removed>>

\* ErrAdminCredentialNotFound, not ErrAdminCredentialMissing
NeverInitialized(p) == store = "file" \/ ~loader[p].marked

Holds(p, s) == loader' = [loader EXCEPT ![p].pc = "ready", ![p].got = s] /\ UNCHANGED port

\* The development store's Load, and the vault's when there is a marker
Usable(p) == secret > 0 /\ (store = "file" \/ loader[p].marked)

\* Load's read of the store: missing, not found, invalid, or a secret
ReadSecret(p) ==
    /\ loader[p].pc = "read"
    /\ CASE secret = 0 /\ NeverInitialized(p) /\ p \in Daemons -> Goto(p, "generate")
         [] Usable(p) -> Holds(p, secret)
         [] secret > 0 /\ ~Usable(p) ->
              loader' = [loader EXCEPT ![p].pc = "restore", ![p].got = secret] /\ UNCHANGED port
         [] OTHER -> Gone(p)
    /\ UNCHANGED <<store, secret, stamped, generated, firstServed, removed>>

\* A secret without its marker gets one.
RestoreMarker(p) ==
    /\ loader[p].pc = "restore"
    /\ \/ stamped' = TRUE /\ Goto(p, "ready")
       \/ Gone(p) /\ UNCHANGED stamped
    /\ UNCHANGED <<store, secret, generated, firstServed, removed>>

\* LoadOrCreateAdminCredential draws a secret; Save reads what it would replace.
Generate(p) ==
    /\ loader[p].pc = "generate"
    /\ generated < MaxSecrets
    /\ generated' = generated + 1
    /\ loader' = [loader EXCEPT ![p].pc = "write", ![p].got = generated + 1, ![p].before = secret]
    /\ UNCHANGED <<store, secret, stamped, port, firstServed, removed>>

\* The vault's write is whole; the file is truncated first.
WriteSecret(p) ==
    /\ loader[p].pc = "write"
    /\ \/ /\ store = "vault"
          /\ secret' = loader[p].got /\ removed' = FALSE
          /\ Goto(p, "mark")
       \/ /\ store = "file"
          /\ secret' = -1 /\ UNCHANGED removed
          /\ Goto(p, "fill")
       \/ Gone(p) /\ UNCHANGED <<secret, removed>>
    /\ UNCHANGED <<store, stamped, generated, firstServed>>

FillFile(p) ==
    /\ loader[p].pc = "fill"
    /\ secret' = loader[p].got
    /\ Goto(p, "ready")
    /\ UNCHANGED <<store, stamped, generated, firstServed, removed>>

WriteMarker(p) ==
    /\ loader[p].pc = "mark"
    /\ \/ stamped' = TRUE /\ Goto(p, "ready")
       \/ Goto(p, "rollback") /\ UNCHANGED stamped
    /\ UNCHANGED <<store, secret, generated, firstServed, removed>>

\* rollback puts the previous secret back, or deletes.
UndoSave(p) ==
    /\ loader[p].pc = "rollback"
    /\ secret' = loader[p].before
    /\ Gone(p)
    /\ UNCHANGED <<store, stamped, generated, firstServed, removed>>

\* The daemon serves requests that present its secret.
Serve(p) ==
    /\ p \in Daemons /\ loader[p].pc = "ready" /\ port = p
    /\ Goto(p, "serving")
    /\ firstServed' = IF firstServed = 0 THEN loader[p].got ELSE firstServed
    /\ UNCHANGED <<store, secret, stamped, generated, removed>>

EndLoader(p) ==
    /\ loader[p] # Away
    /\ Gone(p)
    /\ UNCHANGED <<store, secret, stamped, generated, firstServed, removed>>

\* The user deletes the entry with the operating system's tools.
UserRemoves ==
    /\ store = "vault" /\ secret > 0
    /\ secret' = 0 /\ removed' = TRUE
    /\ UNCHANGED <<store, stamped, port, loader, generated, firstServed>>

CredentialStep(p) ==
    \/ BeginLoad(p) \/ NewAdminClient(p) \/ ReadMarker(p) \/ ReadSecret(p) \/ RestoreMarker(p) \/ Generate(p)
    \/ WriteSecret(p) \/ FillFile(p) \/ WriteMarker(p) \/ UndoSave(p) \/ Serve(p) \/ EndLoader(p)
=============================================================================
