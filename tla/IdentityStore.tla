---------------------------- MODULE IdentityStore ----------------------------
(***************************************************************************)
(* Where a node keeps its private key (internal/identity/store.go and      *)
(* credential_store.go, loadOrCreateIdentity and MigrateDevelopmentIdentity*)
(* of internal/daemon/daemon.go).  A development node keeps it in a file;  *)
(* a production node keeps it in the credential vault, beside a file of    *)
(* public metadata.  Every step is one read or write that may fail, and    *)
(* the process may crash between any two.  One process runs at a time.     *)
(***************************************************************************)
EXTENDS Integers, FiniteSets

CONSTANT IdentityKeys

VARIABLES
    mode,           \* the configured runtime mode
    vault,          \* the credential
    meta,           \* identity metadata file
    legacy,         \* the development file
    keeper,         \* the process: the operation and its next step
    lineage         \* the keys this node was given: its first, those it was rotated to,
                    \* and the key of a Save that was cut short

identityVars == <<mode, vault, meta, legacy, keeper, lineage>>

NoKeyStored == "none"
Torn == "torn"      \* a development file of which only a part was written
Resting == [pc |-> "idle", op |-> "", key |-> NoKeyStored, old |-> NoKeyStored, seen |-> NoKeyStored]

IdentityInit(configured) ==
    /\ mode = configured
    /\ vault = NoKeyStored
    /\ meta = NoKeyStored
    /\ legacy = NoKeyStored
    /\ keeper = Resting
    /\ lineage = {}

Used == ({vault, meta, legacy, keeper.key} \cup lineage) \ {NoKeyStored, Torn}
FreshKey(k) == k \in IdentityKeys \ Used

\* The node runs under k: its first key is the one it pairs with.
RunsUnder(k) ==
    /\ keeper' = [Resting EXCEPT !.pc = "running", !.key = k]
    /\ lineage' = IF lineage = {} THEN {k} ELSE lineage

Give(pc) == keeper' = [keeper EXCEPT !.pc = pc] /\ UNCHANGED lineage
GiveUp == keeper' = Resting /\ UNCHANGED lineage

-----------------------------------------------------------------------------
(* Starting an operation                                                   *)

\* loadOrCreateIdentity on the store identityStoreForConfig chose
Boot ==
    /\ keeper.pc = "idle"
    /\ keeper' = [Resting EXCEPT !.op = "boot", !.pc = IF mode = "production" THEN "load_meta" ELSE "dev_load"]
    /\ UNCHANGED <<mode, vault, meta, legacy, lineage>>

\* MigrateDevelopmentIdentity reads the development file first.
Migrate ==
    /\ keeper.pc = "idle"
    /\ mode = "production"
    /\ legacy \notin {NoKeyStored, Torn}
    /\ keeper' = [Resting EXCEPT !.op = "migrate", !.pc = "load_meta", !.key = legacy]
    /\ UNCHANGED <<mode, vault, meta, legacy, lineage>>

\* RotateIdentity: the key counts once Save has returned.
Rotate(k) ==
    /\ keeper.pc = "idle"
    /\ mode = "production"
    /\ lineage # {}
    /\ FreshKey(k)
    /\ keeper' = [Resting EXCEPT !.op = "rotate", !.pc = "save_read", !.key = k]
    /\ UNCHANGED <<mode, vault, meta, legacy, lineage>>

\* A Save that gets no further than the credential: the old one is gone for good.
CutShort == keeper' = Resting /\ lineage' = lineage \cup {keeper.key}

\* The process stops or crashes between two steps.
StopProcess ==
    /\ keeper.pc # "idle"
    /\ IF keeper.pc \in {"save_meta", "rollback"} THEN CutShort ELSE GiveUp
    /\ UNCHANGED <<mode, vault, meta, legacy>>

\* The configuration moves to production mode.
Configure ==
    /\ keeper.pc = "idle"
    /\ mode = "development"
    /\ mode' = "production"
    /\ UNCHANGED <<vault, meta, legacy, keeper, lineage>>

-----------------------------------------------------------------------------
(* The development file                                                    *)

DevLoad ==
    /\ keeper.pc = "dev_load"
    /\ CASE legacy = NoKeyStored -> \E k \in IdentityKeys : FreshKey(k) /\ keeper' = [keeper EXCEPT !.pc = "dev_save", !.key = k]
                                                          /\ UNCHANGED lineage
         [] legacy = Torn -> GiveUp
         [] OTHER -> RunsUnder(legacy)
    /\ UNCHANGED <<mode, vault, meta, legacy>>

\* os.WriteFile truncates, then writes: a crash leaves a part of the file.
DevSave(torn) ==
    /\ keeper.pc = "dev_save"
    /\ legacy' = IF torn THEN Torn ELSE keeper.key
    /\ IF torn THEN GiveUp ELSE RunsUnder(keeper.key)
    /\ UNCHANGED <<mode, vault, meta>>

-----------------------------------------------------------------------------
(* WindowsCredentialStore.Load, and what the operation does with its result*)

LoadMeta ==
    /\ keeper.pc = "load_meta"
    /\ keeper' = [keeper EXCEPT !.pc = "load_secret", !.seen = meta]
    /\ UNCHANGED <<mode, vault, meta, legacy, lineage>>

LoadResult ==
    IF vault = NoKeyStored
    THEN IF keeper.seen # NoKeyStored THEN "secret_missing"
         ELSE IF legacy # NoKeyStored THEN "migration_needed" ELSE "not_found"
    ELSE IF keeper.seen \in {NoKeyStored, vault} THEN "loaded" ELSE "mismatch"

\* The caller's switch on the result; `verify' is migration's second Load.
Continue(result) ==
    CASE keeper.op = "boot" /\ result = "loaded" -> RunsUnder(vault)
      [] keeper.op = "boot" /\ result = "not_found" ->
            \E k \in IdentityKeys : FreshKey(k) /\ keeper' = [keeper EXCEPT !.pc = "save_read", !.key = k] /\ UNCHANGED lineage
      [] keeper.op = "migrate" /\ result = "loaded" /\ vault = keeper.key -> Give("drop_redundant")
      [] keeper.op = "migrate" /\ result \in {"not_found", "migration_needed"} -> Give("save_read")
      [] keeper.op = "verify" /\ result = "loaded" /\ vault = keeper.key -> Give("drop_legacy")
      [] keeper.op = "verify" /\ ~(result = "loaded" /\ vault = keeper.key) -> Give("undo_secret")
      [] OTHER -> GiveUp

\* The credential is read; metadata that is missing is written again.
LoadSecret(works) ==
    /\ keeper.pc = "load_secret"
    /\ CASE ~works -> Continue("error") /\ UNCHANGED meta
         [] works /\ LoadResult = "loaded" /\ keeper.seen = NoKeyStored -> Give("restore_meta") /\ UNCHANGED meta
         [] OTHER -> Continue(LoadResult) /\ UNCHANGED meta
    /\ UNCHANGED <<mode, vault, legacy>>

RestoreMeta(works) ==
    /\ keeper.pc = "restore_meta"
    /\ meta' = IF works THEN vault ELSE meta
    /\ Continue(IF works THEN "loaded" ELSE "error")
    /\ UNCHANGED <<mode, vault, legacy>>

-----------------------------------------------------------------------------
(* WindowsCredentialStore.Save, Delete and the development file's removal  *)

SaveRead(works) ==
    /\ keeper.pc = "save_read"
    /\ IF works THEN keeper' = [keeper EXCEPT !.pc = "save_secret", !.old = vault] /\ UNCHANGED lineage ELSE GiveUp
    /\ UNCHANGED <<mode, vault, meta, legacy>>

SaveSecret(works) ==
    /\ keeper.pc = "save_secret"
    /\ vault' = IF works THEN keeper.key ELSE vault
    /\ IF works THEN Give("save_meta") ELSE GiveUp
    /\ UNCHANGED <<mode, meta, legacy>>

\* A rename: the old metadata or the new.  A failure restores the old credential.
SaveMeta(works) ==
    /\ keeper.pc = "save_meta"
    /\ meta' = IF works THEN keeper.key ELSE meta
    /\ CASE ~works -> Give("rollback")
         [] works /\ keeper.op = "migrate" ->
                keeper' = [keeper EXCEPT !.op = "verify", !.pc = "load_meta"] /\ UNCHANGED lineage
         [] works /\ keeper.op = "rotate" -> keeper' = Resting /\ lineage' = lineage \cup {keeper.key}
         [] OTHER -> RunsUnder(keeper.key)
    /\ UNCHANGED <<mode, vault, legacy>>

\* Mutant: nothing is rolled back.
RolledBackNowhere == vault

\* rollbackCredential
RolledBack == keeper.old

Rollback(works) ==
    /\ keeper.pc = "rollback"
    /\ vault' = IF works THEN RolledBack ELSE vault
    /\ IF works THEN GiveUp ELSE CutShort
    /\ UNCHANGED <<mode, meta, legacy>>

\* The verified migration removes the plaintext; when it cannot, it takes the credential back.
DropLegacy(works) ==
    /\ keeper.pc \in {"drop_legacy", "drop_redundant"}
    /\ legacy' = IF works THEN NoKeyStored ELSE legacy
    /\ IF ~works /\ keeper.pc = "drop_legacy" THEN Give("undo_secret") ELSE GiveUp
    /\ UNCHANGED <<mode, vault, meta>>

\* Delete: the credential, then the metadata
UndoSecret(works) ==
    /\ keeper.pc = "undo_secret"
    /\ vault' = IF works THEN NoKeyStored ELSE vault
    /\ IF works THEN Give("undo_meta") ELSE GiveUp
    /\ UNCHANGED <<mode, meta, legacy>>

UndoMeta(works) ==
    /\ keeper.pc = "undo_meta"
    /\ meta' = IF works THEN NoKeyStored ELSE meta
    /\ GiveUp
    /\ UNCHANGED <<mode, vault, legacy>>

IdentityStep ==
    \/ DevLoad
    \/ LoadMeta
    \/ \E flag \in BOOLEAN :
        \/ DevSave(flag)
        \/ LoadSecret(flag) \/ RestoreMeta(flag)
        \/ SaveRead(flag) \/ SaveSecret(flag) \/ SaveMeta(flag) \/ Rollback(flag)
        \/ DropLegacy(flag) \/ UndoSecret(flag) \/ UndoMeta(flag)

IdentityOp == Boot \/ Migrate \/ (\E k \in IdentityKeys : Rotate(k)) \/ StopProcess \/ Configure
=============================================================================
