----------------------------- MODULE LocalNode -----------------------------
(***************************************************************************)
(* The compute-node leases of this machine (internal/desktop/local_node.go *)
(* and internal/computenode).  Everything is in memory.  A request carries *)
(* a key derived from the attempt; a key seen before is answered with the  *)
(* lease it was first given, whatever has become of that lease.            *)
(*                                                                         *)
(* A lease is the attempt it was acquired for.  Its generation grows with  *)
(* each renewal, in the provider and in the holder's copy together, and is *)
(* left out.                                                               *)
(***************************************************************************)
EXTENDS Naturals, FiniteSets

VARIABLES
    held,       \* leases that are neither released nor past their expiry
    acquired    \* the keys answered so far

NodeInit == held = {} /\ acquired = {}

\* Observe: the active leases a definition's limit is compared with.
ActiveLeases == Cardinality(held)

AcquireOk(t, max) == t \in acquired \/ ActiveLeases < max

AcquireLease(t) ==
    /\ held' = IF t \in acquired THEN held ELSE held \cup {t}
    /\ acquired' = acquired \cup {t}

RenewOk(t) == t \in held

\* Releasing a lease that is gone is an error every caller ignores.
ReleaseLease(t) == held' = held \ {t} /\ UNCHANGED acquired

\* expireLocked, for a lease whose time has come.
ExpireLease(t) == t \in held /\ held' = held \ {t} /\ UNCHANGED acquired
=============================================================================
