----------------------------- MODULE Worktrees -----------------------------
(***************************************************************************)
(* The Git worktrees of attempts (internal/workspace/git_worktree.go and   *)
(* internal/workspace/workspace.go).  A worktree is a directory and a      *)
(* branch, made by one git command, and a record in the manager's          *)
(* registry, written after it.  The workspace ID, the branch and the       *)
(* directory all derive from the attempt.                                  *)
(***************************************************************************)
EXTENDS Naturals

VARIABLE tree       \* for each attempt: record, directory, branch

NoTree == [rec |-> "none", dir |-> FALSE, branch |-> FALSE]

TreesInit(attempts) == tree = [t \in attempts |-> NoTree]

\* readRecord: the registry has a record of the workspace.
Known(t) == tree[t].rec # "none"

\* Preflight: neither the branch nor the target exists yet.
PreflightOk(t) == ~tree[t].branch /\ ~tree[t].dir

\* git worktree add -b
AddWorktree(t) == [tree EXCEPT ![t] = [@ EXCEPT !.dir = TRUE, !.branch = TRUE]]

\* writeRecord, by a rename
WriteRecord(t, state) == [tree EXCEPT ![t].rec = state]

\* reconcileRecord: an allocated record whose directory is gone is quarantined.
ReconciledTree(t) ==
    IF tree[t].rec = "allocated" /\ ~tree[t].dir
    THEN WriteRecord(t, "quarantined") ELSE tree

\* ResolveLocalPath answers for an allocated record only.
Resolves(t) == ReconciledTree(t)[t].rec = "allocated"

\* Someone removed the directory of a worktree.
RemovedTree(t) == [tree EXCEPT ![t].dir = FALSE]
=============================================================================
