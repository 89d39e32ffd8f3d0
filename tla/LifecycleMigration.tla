------------------------- MODULE LifecycleMigration -------------------------
(***************************************************************************)
(* The journalled migration of the state directory from schema version 1   *)
(* to 2 (state/migration.ts), as every reader runs it: preflightLifecycle  *)
(* of state/transaction-store.ts before it looks at the index.             *)
(*                                                                         *)
(* migrate copies the files to a backup, stages their new contents,        *)
(* replaces them one by one (active.json last) and writes a marker; the    *)
(* journal says how far it came.  recover puts the backup back, unless     *)
(* every file already is what the marker says.  Any process may die, and   *)
(* any write fail or miss its deadline.                                    *)
(***************************************************************************)
EXTENDS ExclusiveLock, Sequences, FiniteSets, Integers

CONSTANTS
    Order,       \* the lifecycle paths in the order they are published
    Active,      \* the path active.json
    Run,         \* a run snapshot
    NewEvents    \* event paths later commits may create; bound: their number

Paths == {Order[i] : i \in DOMAIN Order}

ASSUME MigrationAssumption ==
    /\ Order \in Seq(Paths) /\ Active \in Paths /\ Run \in Paths \ {Active}
    /\ NewEvents \subseteq Paths \ {Active, Run}

VARIABLES
    file,      \* the lifecycle files
    journal,   \* migration/journal.json
    backup,    \* migration/backup
    staged,    \* migration/staged
    marker,    \* migration/staged/commit.json: the contents it vouches for
    local      \* where each process is

disk == <<file, journal, backup, staged, marker>>
migrationVars == <<owner, file, journal, backup, staged, marker, local>>

(* A file is known by its schema version and how often it was rewritten.   *)
Content(version, writes) == [version |-> version, writes |-> writes]
Absent == Content(0, 0)
Torn == Content(0, 1)      \* half of a copy
Contents == [version : 0 .. 2, writes : Nat]

(* migrateLifecycleRecord: a version 1 record becomes the version 2 record *)
(* of the same facts.                                                      *)
Migrated(c) == [c EXCEPT !.version = 2]

(* The journal holds the contents the migration started from (their hashes *)
(* stand for them); NoJournal: there is none.                              *)
JournalPhases == {"prepared", "backing_up", "backed_up", "staged", "publishing", "committed"}
NoJournal == [phase |-> "absent", source |-> <<>>]

(* Slip: whatever is not committed can be dropped. *)
UnpublishedUnlessCommitted == JournalPhases \ {"committed"}

(* Those in which no file has been replaced and the backup may be partial. *)
Unpublished == {"prepared", "backing_up"}

Idle == [at |-> "idle", stage |-> "none", left |-> {}, journal |-> NoJournal,
         awaited |-> TRUE, result |-> "none"]

MigrationInit ==
    /\ LockInit
    /\ file = [f \in Paths |-> IF f \in NewEvents THEN Absent ELSE Content(1, 0)]
    /\ journal = NoJournal
    /\ backup = [f \in Paths |-> Absent]
    /\ staged = [f \in Paths |-> Absent]
    /\ marker = <<>>
    /\ local = [p \in Procs |-> Idle]

At(p, l) == local[p].at = l
GoOn(p, l) == local' = [local EXCEPT ![p].at = l, ![p].left = DOMAIN local[p].journal.source]
Returns(p, result) == local' = [local EXCEPT ![p].at = "leaving", ![p].result = result]

-----------------------------------------------------------------------------
(* preflightLifecycle *)

Stage(p, at, stage) == local' = [local EXCEPT ![p] = [Idle EXCEPT !.at = at, !.stage = stage]]

(* active.json is read, without the lock. *)
ReadActive(p) ==
    /\ At(p, "idle")
    /\ IF file[Active].version = 2 THEN Stage(p, "current", "none")
                                   ELSE Stage(p, "migrate", "migrate1")
    /\ UNCHANGED <<owner, disk>>

(* Slip: any journal asks for recovery, a committed one too. *)
CheckJournalAny(p) ==
    /\ At(p, "current")
    /\ IF journal # NoJournal THEN Stage(p, "recover", "recover1") ELSE Stage(p, "ready", "none")
    /\ UNCHANGED <<owner, disk>>

(* lifecycleMigrationRequiresRecovery, without the lock too. *)
CheckJournal(p) ==
    /\ At(p, "current")
    /\ IF journal # NoJournal /\ journal.phase # "committed" THEN Stage(p, "recover", "recover1")
                                                             ELSE Stage(p, "ready", "none")
    /\ UNCHANGED <<owner, disk>>

(* What preflightLifecycle does next, given how a call ended. *)
Continue(p, stage, result) ==
    \/ stage = "recover1" /\ result = "ok" /\ Stage(p, "migrate", "migrate1")
    \/ stage = "migrate1" /\ result = "failed" /\ Stage(p, "recover", "recover2")
    \/ stage = "recover2" /\ result = "ok" /\ Stage(p, "migrate", "migrate2")
    \/ stage \in {"migrate1", "migrate2"} /\ result = "ok" /\ Stage(p, "ready", "none")
    \/ /\ \/ result = "thrown"
          \/ result = "failed" /\ stage # "migrate1"
       /\ Stage(p, "idle", "none")

EnterCall(p) ==
    /\ local[p].at \in {"recover", "migrate"}
    /\ Acquire(p)
    /\ GoOn(p, IF At(p, "recover") THEN "recovering" ELSE "migrating")
    /\ UNCHANGED disk

NoHandle(p) ==
    /\ local[p].at \in {"recover", "migrate"}
    /\ Continue(p, local[p].stage, "failed")
    /\ UNCHANGED <<owner, disk>>

(* Slip: released on success only, not in a finally. *)
LeaveCallIfOk(p) ==
    /\ At(p, "leaving")
    /\ IF owner = p /\ local[p].result = "ok" THEN Release(p) ELSE UNCHANGED owner
    /\ Continue(p, local[p].stage, local[p].result)
    /\ UNCHANGED disk

(* finally: handle.release().  A call that was returned without await may  *)
(* have released the lock before it has ended.                             *)
LeaveCall(p) ==
    /\ At(p, "leaving")
    /\ IF owner = p THEN Release(p) ELSE UNCHANGED owner
    /\ Continue(p, local[p].stage, local[p].result)
    /\ UNCHANGED disk

ReleaseUnawaited(p) ==
    /\ ~local[p].awaited
    /\ Release(p)
    /\ UNCHANGED <<disk, local>>

-----------------------------------------------------------------------------
(* recoverLifecycleMigration *)

Begin(p, l, j, awaited) ==
    local' = [local EXCEPT ![p].at = l, ![p].left = DOMAIN j.source, ![p].journal = j,
                             ![p].awaited = awaited]

RecoverRead(p) ==
    /\ At(p, "recovering")
    /\ \/ journal = NoJournal /\ Returns(p, "ok")
       \/ journal.phase \in Unpublished /\ Begin(p, "forget", journal, FALSE)
       \/ journal.phase = "committed" /\ Begin(p, "finalize", journal, FALSE)
       \/ journal.phase \in JournalPhases \ (Unpublished \cup {"committed"})
            /\ Begin(p, "finalize", journal, TRUE)
    /\ UNCHANGED <<owner, disk>>

(* finalize: the marker is whole and every file is what it says. *)
Complete(j) ==
    /\ DOMAIN marker = DOMAIN j.source
    /\ \A f \in DOMAIN j.source : /\ file[f] = Migrated(j.source[f])
                                  /\ marker[f] = Migrated(j.source[f])

Finalize(p) ==
    /\ At(p, "finalize")
    /\ GoOn(p, IF Complete(local[p].journal) THEN "finalized" ELSE "verify_backup")
    /\ UNCHANGED <<owner, disk>>

WriteFinal(p) ==
    /\ At(p, "finalized")
    /\ journal' = [local[p].journal EXCEPT !.phase = "committed"]
    /\ Returns(p, "ok")
    /\ UNCHANGED <<owner, file, backup, staged, marker>>

VerifyBackup(p) ==
    /\ At(p, "verify_backup")
    /\ IF \A f \in DOMAIN local[p].journal.source : backup[f] = local[p].journal.source[f]
       THEN GoOn(p, "restore") ELSE Returns(p, "failed")
    /\ UNCHANGED <<owner, disk>>

(* The loops over the files of the journal, in their order: the first of   *)
(* those that are left, and after the last one on to l.                    *)
First(left) ==
    CHOOSE f \in left :
       \E i \in DOMAIN Order : Order[i] = f /\ \A j \in 1 .. i - 1 : Order[j] \notin left

Item(p) == First(local[p].left)

Advance(p, again, l) ==
    IF local[p].left = {Item(p)} THEN GoOn(p, l)
    ELSE local' = [local EXCEPT ![p].at = again, ![p].left = @ \ {Item(p)}]

RestoreFile(p) ==
    /\ At(p, "restore")
    /\ file' = [file EXCEPT ![Item(p)] = backup[Item(p)]]
    /\ Advance(p, "restore", "forget")
    /\ UNCHANGED <<owner, journal, backup, staged, marker>>

(* The journal goes to the history and is removed; rm throws if somebody   *)
(* has removed it already.                                                 *)
Forget(p) ==
    /\ At(p, "forget")
    /\ journal' = NoJournal
    /\ Returns(p, IF journal # NoJournal THEN "ok"
                  ELSE IF local[p].stage \in {"recover1", "recover2"} THEN "thrown" ELSE "failed")
    /\ UNCHANGED <<owner, file, backup, staged, marker>>

-----------------------------------------------------------------------------
(* migrateLifecycleState *)

Present == {f \in Paths : file[f] # Absent}

MigrateRead(p) ==
    /\ At(p, "migrating")
    /\ \/ journal.phase = "committed" /\ Begin(p, "finalize", journal, TRUE)
       \/ journal # NoJournal /\ journal.phase # "committed" /\ Returns(p, "failed")
       \/ /\ journal = NoJournal
          /\ \/ /\ \A f \in Present : file[f].version = 2
                /\ Returns(p, "ok")
             \/ /\ \A f \in Present : file[f].version = 1
                /\ Begin(p, "prepared", [phase |-> "prepared",
                                         source |-> [f \in Present |-> file[f]]], TRUE)
             \/ /\ \E f \in Present : file[f].version # 1
                /\ \E f \in Present : file[f].version # 2
                /\ Returns(p, "failed")
    /\ UNCHANGED <<owner, disk>>

(* writeJournal with a new phase, and what comes after it. *)
NextLabel == [prepared |-> "backing_up", backing_up |-> "copy", backed_up |-> "stage",
              staged |-> "publishing", publishing |-> "publish"]

WritePhase(p) ==
    /\ local[p].at \in DOMAIN NextLabel
    /\ journal' = [local[p].journal EXCEPT !.phase = local[p].at]
    /\ GoOn(p, NextLabel[local[p].at])
    /\ UNCHANGED <<owner, file, backup, staged, marker>>

(* copyFile is not atomic: a copy is torn before it is whole. *)
CopyStart(p) ==
    /\ At(p, "copy")
    /\ backup' = [backup EXCEPT ![Item(p)] = Torn]
    /\ local' = [local EXCEPT ![p].at = "copying"]
    /\ UNCHANGED <<owner, file, journal, staged, marker>>

(* The copy is whole; it is verified against the source. *)
CopyEnd(p) ==
    /\ At(p, "copying")
    /\ backup' = [backup EXCEPT ![Item(p)] = file[Item(p)]]
    /\ IF file[Item(p)] # local[p].journal.source[Item(p)] THEN Returns(p, "failed")
       ELSE Advance(p, "copy", "backed_up")
    /\ UNCHANGED <<owner, file, journal, staged, marker>>

StageFile(p) ==
    /\ At(p, "stage")
    /\ staged' = [staged EXCEPT ![Item(p)] = Migrated(local[p].journal.source[Item(p)])]
    /\ Advance(p, "stage", "staged")
    /\ UNCHANGED <<owner, file, journal, backup, marker>>

(* The staged bytes are verified and replace the file ... *)
PublishFile(p) ==
    /\ At(p, "publish")
    /\ IF staged[Item(p)] = Migrated(local[p].journal.source[Item(p)])
       THEN /\ file' = [file EXCEPT ![Item(p)] = staged[Item(p)]]
            /\ local' = [local EXCEPT ![p].at = "note"]
       ELSE Returns(p, "failed") /\ UNCHANGED file
    /\ UNCHANGED <<owner, journal, backup, staged, marker>>

(* ... and the journal is written again with one more published path. *)
NotePublished(p) ==
    /\ At(p, "note")
    /\ journal' = [local[p].journal EXCEPT !.phase = "publishing"]
    /\ Advance(p, "publish", "mark")
    /\ UNCHANGED <<owner, file, backup, staged, marker>>

WriteMarker(p) ==
    /\ At(p, "mark")
    /\ marker' = [f \in DOMAIN local[p].journal.source |-> Migrated(local[p].journal.source[f])]
    /\ GoOn(p, "finalized")
    /\ UNCHANGED <<owner, file, journal, backup, staged>>

-----------------------------------------------------------------------------
(* Faults, and the work the migration is there for *)

Writing == DOMAIN NextLabel \cup
    {"finalized", "restore", "copy", "copying", "stage", "publish", "note", "mark"}

(* A write fails or misses its deadline: migrate catches it, recover does not. *)
WriteFails(p) ==
    /\ local[p].at \in Writing
    /\ Returns(p, IF local[p].stage \in {"recover1", "recover2"} THEN "thrown" ELSE "failed")
    /\ UNCHANGED <<owner, disk>>

ProcessDies(p) ==
    /\ ~At(p, "idle")
    /\ IF owner = p THEN Abandon(p) ELSE UNCHANGED owner
    /\ local' = [local EXCEPT ![p] = Idle]
    /\ UNCHANGED disk

ClearDeadLock == Clear /\ UNCHANGED <<disk, local>>

(* A commit (TransactionStore has its steps): a new event in the version   *)
(* of the index, the run and the index rewritten.  The log and the index   *)
(* must agree.                                                             *)
Commit(p) ==
    /\ At(p, "ready") /\ owner = Free
    /\ file[Active].writes = Cardinality(NewEvents \cap Present)
    /\ \E e \in NewEvents \ Present :
          file' = [file EXCEPT ![e] = Content(file[Active].version, 0),
                               ![Run] = Content(file[Active].version, @.writes + 1),
                               ![Active].writes = @ + 1]
    /\ local' = [local EXCEPT ![p] = Idle]
    /\ UNCHANGED <<owner, journal, backup, staged, marker>>

-----------------------------------------------------------------------------
PreflightStep(p) ==
    \/ CheckJournal(p) \/ EnterCall(p) \/ NoHandle(p) \/ LeaveCall(p) \/ ReleaseUnawaited(p)
    \/ RecoverRead(p) \/ Finalize(p) \/ WriteFinal(p)
    \/ VerifyBackup(p) \/ RestoreFile(p) \/ Forget(p)
    \/ MigrateRead(p) \/ WritePhase(p) \/ CopyStart(p) \/ CopyEnd(p) \/ StageFile(p)
    \/ PublishFile(p) \/ NotePublished(p) \/ WriteMarker(p)

MigrationNext ==
    \/ \E p \in Procs : ReadActive(p) \/ PreflightStep(p) \/ WriteFails(p) \/ ProcessDies(p) \/ Commit(p)
    \/ ClearDeadLock

MigrationSpec == MigrationInit /\ [][MigrationNext]_migrationVars

(* Nothing of version 1 is left, no migration is under way, and nobody is  *)
(* in a call, or on the way to one.                                        *)
Settled ==
    /\ file[Active].version = 2 /\ \A f \in Present : file[f].version = 2
    /\ journal = NoJournal \/ journal.phase = "committed"
    /\ \A p \in Procs : local[p].at \in {"idle", "current", "ready"}

(* The environment's share: until the store is settled, a process starts   *)
(* only when no other is at it.  The code does not see to that (the two    *)
(* reads before the lock let others in), and the properties below need it: *)
(* without it they fail.                                                   *)
StartInOrder(p) == ReadActive(p) /\ (Settled \/ \A q \in Procs : At(q, "idle"))

OrderlyNext ==
    \/ \E p \in Procs : StartInOrder(p) \/ PreflightStep(p) \/ WriteFails(p) \/ ProcessDies(p) \/ Commit(p)
    \/ ClearDeadLock

OrderlySpec == MigrationInit /\ [][OrderlyNext]_migrationVars

(* A live process goes on with the preflight it is in.  Nothing obliges    *)
(* anybody to start one, to commit or to clear a lock.                     *)
LiveOrderlySpec == OrderlySpec /\ \A p \in Procs : WF_migrationVars(PreflightStep(p))

-----------------------------------------------------------------------------
(* Properties *)

MigrationTypeOK ==
    /\ LockTypeOK
    /\ file \in [Paths -> Contents] /\ backup \in [Paths -> Contents]
    /\ staged \in [Paths -> Contents]
    /\ journal.phase \in JournalPhases \cup {"absent"} /\ DOMAIN journal.source \subseteq Paths
    /\ DOMAIN local = Procs /\ \A p \in Procs : local[p].left \subseteq Paths

(* "The store never leaves a partially migrated mix": whoever comes out of *)
(* preflightLifecycle finds version 2 everywhere.                          *)
OneVersion == \A p \in Procs : At(p, "ready") => \A f \in Present : file[f].version = 2

(* "No record downgrades or rolls back" once a lifecycle write has         *)
(* committed: no file loses a rewrite, in any migration or recovery.       *)
CommitsSurvive ==
    [][\A f \in Present : f \in Present' /\ file'[f].writes >= file[f].writes]_migrationVars

(* "A crash ... at any publication step restores the complete v1 set": at  *)
(* every moment at which a crash may leave them, the files are all of one  *)
(* version, or the journal names a backup that is whole.                   *)
Restorable ==
    \/ \A f, g \in Present : file[f].version = file[g].version
    \/ /\ journal.phase \in {"backed_up", "staged", "publishing"}
       /\ \A f \in DOMAIN journal.source : backup[f] = journal.source[f]
       /\ DOMAIN journal.source = Present

(* The journal "backs up the original v1 bytes first": whatever happens,   *)
(* the bytes a file had before the migration are in it or in its backup.   *)
OriginalsKept ==
    \A f \in Paths \ NewEvents : Content(1, 0) \in {file[f], backup[f]}

(* Whatever step a crash or a failed write meets: what is on disk can be   *)
(* made whole again, a reader is shown one version only, and the original  *)
(* bytes are kept.                                                         *)
Recoverable == Restorable /\ OneVersion /\ OriginalsKept

(* A preflight ends, and a reader is not left with the lock. *)
PreflightEnds ==
    \A p \in Procs : ~At(p, "idle") ~> (local[p].at \in {"idle", "ready"} /\ owner # p)
=============================================================================
