--------------------------- MODULE ExclusiveLock ---------------------------
(***************************************************************************)
(* What the repository lock promises its users: one owner at a time, a     *)
(* lock whose owner died stays taken ("stale") until it is explicitly      *)
(* cleared, and nobody but the owner gives a held lock back.  RepoLock     *)
(* implements this specification with a file; TransactionStore and the     *)
(* other users of the lock are written against it.                         *)
(***************************************************************************)
CONSTANTS Procs

VARIABLE owner

Free  == "free"
Stale == "stale"

ASSUME ProcsAssumption == Free \notin Procs /\ Stale \notin Procs

LockTypeOK == owner \in Procs \cup {Free, Stale}

LockInit == owner = Free

(* tryAcquire returns a handle. *)
Acquire(p) == owner = Free /\ owner' = p

(* LockHandle.release removes the lock file of its own nonce. *)
Release(p) == owner = p /\ owner' = Free

(* The owner dies, or fails while it writes its metadata. *)
Abandon(p) == owner = p /\ owner' = Stale

(* clearConfirmedStaleLock removes the lock of a dead owner. *)
Clear == owner = Stale /\ owner' = Free

LockNext == (\E p \in Procs : Acquire(p) \/ Release(p) \/ Abandon(p)) \/ Clear

LockSpec == LockInit /\ [][LockNext]_owner
=============================================================================
