------------------------------ MODULE RepoLock ------------------------------
(***************************************************************************)
(* The repository lock of state/repo-lock.ts: the file state.lock, created *)
(* with open(path, "wx"), filled with the owner's metadata through the     *)
(* open descriptor, and removed by whoever has read its nonce.             *)
(*                                                                         *)
(* Procs are host processes (one call of tryAcquire ... release at a       *)
(* time); Clearers are operators that call clearConfirmedStaleLock of      *)
(* state/recovery.ts.  Every await between two file operations is a point  *)
(* where other actors run.                                                 *)
(***************************************************************************)
EXTENDS Naturals

CONSTANTS
    Procs,      \* host processes
    Clearers,   \* concurrent callers of clearConfirmedStaleLock
    MaxRounds,  \* bound: acquisitions one process makes
    IoFaults    \* BOOLEAN: may the metadata write fail?

ASSUME RepoLockAssumption ==
    /\ MaxRounds \in Nat
    /\ IoFaults \in BOOLEAN
    /\ "free" \notin Procs /\ "stale" \notin Procs

VARIABLES
    lock,   \* the file state.lock
    pc,     \* where each process is in tryAcquire / release
    round,  \* round[p]: how many lock files p has created so far
    clr     \* each clearer's call: where it is and its expectedNonce

vars == <<lock, pc, round, clr>>

(* crypto.randomUUID: the nonce of p's k-th lock file. *)
Nonces == Procs \X Nat
Nonce(p) == <<p, round[p]>>

(* A lock file is identified by the acquisition that created it.  Until    *)
(* the metadata is written the file is empty and decodeMetadata throws     *)
(* malformed_lock.                                                         *)
NoFile == [kind |-> "none"]
File(n, w) == [kind |-> "file", nonce |-> n, written |-> w]
Files == {NoFile} \cup [kind : {"file"}, nonce : Nonces, written : BOOLEAN]

(* Slip: any well-formed lock passes for one's own. *)
ShowsAnyNonce(n) == lock # NoFile /\ lock.written

(* What readFile + decodeMetadata sees: the file holds this nonce. *)
Shows(n) == lock = File(n, TRUE)

PcValues == {"idle", "waiting", "opened", "held", "releasing", "dead"}
ClrValues == [pc : {"idle"}] \cup
             [pc : {"confirmed", "matched", "releasing"}, expectedNonce : Nonces]

TypeOK ==
    /\ lock \in Files
    /\ pc \in [Procs -> PcValues]
    /\ round \in [Procs -> Nat]
    /\ clr \in [Clearers -> ClrValues]

Init ==
    /\ lock = NoFile
    /\ pc = [p \in Procs |-> "idle"]
    /\ round = [p \in Procs |-> 0]
    /\ clr = [c \in Clearers |-> [pc |-> "idle"]]

Goto(p, l) == pc' = [pc EXCEPT ![p] = l]

-----------------------------------------------------------------------------
(* Host processes *)

(* tryAcquire is called. *)
Request(p) ==
    /\ pc[p] = "idle" /\ round[p] < MaxRounds
    /\ Goto(p, "waiting")
    /\ UNCHANGED <<lock, round, clr>>

(* Slip: open(path, "w"). *)
OpenNotExclusive(p) ==
    /\ pc[p] = "waiting"
    /\ round' = [round EXCEPT ![p] = @ + 1]
    /\ lock' = File(<<p, round[p] + 1>>, FALSE)
    /\ Goto(p, "opened")
    /\ UNCHANGED clr

(* open(path, "wx") succeeds: an empty lock file exists.  (EEXIST sleeps   *)
(* and retries: no change of state.)                                       *)
Open(p) ==
    /\ pc[p] = "waiting" /\ lock = NoFile
    /\ round' = [round EXCEPT ![p] = @ + 1]
    /\ lock' = File(<<p, round[p] + 1>>, FALSE)
    /\ Goto(p, "opened")
    /\ UNCHANGED clr

(* The deadline or maxWaitMs has passed: tryAcquire returns null. *)
GiveUp(p) ==
    /\ pc[p] = "waiting"
    /\ Goto(p, "idle")
    /\ UNCHANGED <<lock, round, clr>>

(* writeFile through the descriptor: it reaches the path only while the    *)
(* path still names the file this process created.                         *)
WriteMetadata(p) ==
    /\ pc[p] = "opened"
    /\ lock' = IF lock = File(Nonce(p), FALSE) THEN File(Nonce(p), TRUE) ELSE lock
    /\ Goto(p, "held")
    /\ UNCHANGED <<round, clr>>

(* writeFile or sync fails: tryAcquire throws and leaves the empty file. *)
WriteFails(p) ==
    /\ IoFaults /\ pc[p] = "opened"
    /\ Goto(p, "idle")
    /\ UNCHANGED <<lock, round, clr>>

(* release: read the file, compare the nonce; return false on a mismatch,  *)
(* a missing or a malformed file.                                          *)
ReleaseRead(p) ==
    /\ pc[p] = "held"
    /\ Goto(p, IF Shows(Nonce(p)) THEN "releasing" ELSE "idle")
    /\ UNCHANGED <<lock, round, clr>>

(* release: unlink(path), whatever file the path names by now. *)
ReleaseUnlink(p) ==
    /\ pc[p] = "releasing"
    /\ lock' = NoFile
    /\ Goto(p, "idle")
    /\ UNCHANGED <<round, clr>>

(* The process dies; the file it created stays. *)
Crash(p) ==
    /\ pc[p] \notin {"idle", "dead"}
    /\ Goto(p, "dead")
    /\ UNCHANGED <<lock, round, clr>>

-----------------------------------------------------------------------------
(* clearConfirmedStaleLock *)

(* Slip: ownerAlive is not looked at. *)
ClearConfirmAlive(c) ==
    /\ clr[c].pc = "idle"
    /\ \E p \in Procs :
          /\ pc[p] # "idle"
          /\ clr' = [clr EXCEPT ![c] = [pc |-> "confirmed", expectedNonce |-> Nonce(p)]]
    /\ UNCHANGED <<lock, pc, round>>

(* An operator confirms that the owner of expectedNonce is dead. *)
ClearConfirm(c) ==
    /\ clr[c].pc = "idle"
    /\ \E p \in Procs :
          /\ pc[p] = "dead"
          /\ clr' = [clr EXCEPT ![c] = [pc |-> "confirmed", expectedNonce |-> Nonce(p)]]
    /\ UNCHANGED <<lock, pc, round>>

(* readMetadata: lock_missing, malformed_lock and nonce_mismatch end the call. *)
ClearReadMetadata(c) ==
    /\ clr[c].pc = "confirmed"
    /\ clr' = [clr EXCEPT ![c] =
                 IF Shows(clr[c].expectedNonce) THEN [@ EXCEPT !.pc = "matched"]
                                                ELSE [pc |-> "idle"]]
    /\ UNCHANGED <<lock, pc, round>>

(* The same LockHandle.release: it reads again ... *)
ClearReleaseRead(c) ==
    /\ clr[c].pc = "matched"
    /\ clr' = [clr EXCEPT ![c] =
                 IF Shows(clr[c].expectedNonce) THEN [@ EXCEPT !.pc = "releasing"]
                                                ELSE [pc |-> "idle"]]
    /\ UNCHANGED <<lock, pc, round>>

(* ... and unlinks the path. *)
ClearUnlink(c) ==
    /\ clr[c].pc = "releasing"
    /\ lock' = NoFile
    /\ clr' = [clr EXCEPT ![c] = [pc |-> "idle"]]
    /\ UNCHANGED <<pc, round>>

-----------------------------------------------------------------------------
ProcStep(p) ==
    \/ Request(p) \/ Open(p) \/ GiveUp(p)
    \/ WriteMetadata(p) \/ WriteFails(p)
    \/ ReleaseRead(p) \/ ReleaseUnlink(p)
    \/ Crash(p)

ClearStep(c) ==
    \/ ClearConfirm(c) \/ ClearReadMetadata(c)
    \/ ClearReleaseRead(c) \/ ClearUnlink(c)

Next == (\E p \in Procs : ProcStep(p)) \/ (\E c \in Clearers : ClearStep(c))

Spec == Init /\ [][Next]_vars

-----------------------------------------------------------------------------
(* Properties *)

(* tryAcquire has returned a handle that release has not finished with:    *)
(* the process may be changing the state directory.                        *)
Inside(p) == pc[p] \in {"held", "releasing"}

(* No two processes hold a LockHandle at once: the critical sections of    *)
(* commit, repairState, migration and the ledgers never overlap.           *)
MutualExclusion == \A p, q \in Procs : Inside(p) /\ Inside(q) => p = q

(* "Only its nonce is removed": a step that removes the lock file of a     *)
(* live owner is that owner's own release.                                 *)
OnlyOwnNonceRemoved ==
    [][\A p \in Procs :
         (pc[p] \notin {"idle", "dead"} /\ lock # NoFile /\ lock.nonce = Nonce(p)
            /\ lock' = NoFile) => pc[p] = "releasing" /\ pc'[p] = "idle"]_vars

(* The lock as its users see it: owned by the process between its open and *)
(* its unlink; otherwise stale if a file is left over, else free.          *)
Claims(p) == pc[p] \in {"opened", "held", "releasing"}

OwnerView ==
    IF \E p \in Procs : Claims(p) THEN CHOOSE p \in Procs : Claims(p)
    ELSE IF lock = NoFile THEN "free" ELSE "stale"

Abstract == INSTANCE ExclusiveLock WITH owner <- OwnerView

(* The file protocol implements the exclusive lock its users rely on. *)
ImplementsExclusiveLock == Abstract!LockSpec
=============================================================================
