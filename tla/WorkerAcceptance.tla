-------------------------- MODULE WorkerAcceptance --------------------------
(***************************************************************************)
(* Accepting a worker's result: contracts/worker-result-acceptance.ts, and *)
(* the ledgers it writes, worker-acceptance-ledger.ts and                  *)
(* worker-acceptance-wal.ts, for one run.                                  *)
(*                                                                         *)
(* An acceptance is appended to the write-ahead log, then the snapshot is  *)
(* replaced; every reader lays the log over the snapshot.  The calls hold  *)
(* the repository lock from the first check to the last write; readers     *)
(* (the continuation) do not.  HEAD moves whenever it likes.               *)
(***************************************************************************)
EXTENDS ExclusiveLock, SequencesExt, FiniteSetsExt, Integers

CONSTANTS
    Readers,        \* concurrent readers of the ledger
    Agents,         \* workers, one task each
    Artifacts,      \* artifact hashes
    Heads,          \* commits the repository may be at
    Offers,         \* the results workers hand in
    MaxWalEntries,  \* MAX_WAL_ENTRIES (1000 in the code)
    MaxAttempt,     \* bound: progressRevision
    MaxGeneration   \* bound: task dispatches

(* What a worker hands in.  valid: its output, artifacts and receipts are  *)
(* as validateEvidenceBundle and receiptBindingError want them.  The run's *)
(* revision and owner epoch are compared the way attempt is; the parent's  *)
(* cancel_dispatch is answered the way retry_worker is.                    *)
Inputs == [agent : Agents, artifact : Artifacts, attempt : 1 .. MaxAttempt,
           generation : 1 .. MaxGeneration, commit : Heads, valid : BOOLEAN,
           decision : {"none", "retry_worker", "accept_after_review"}]

ASSUME AcceptanceAssumption ==
    /\ MaxWalEntries \in Nat /\ MaxAttempt \in Nat \ {0} /\ MaxGeneration \in Nat
    /\ Offers \subseteq Inputs

VARIABLES
    snap,         \* worker-acceptance/<run>.json: its entries
    wal,          \* worker-acceptance/<run>.wal.jsonl
    rejections,   \* worker-rejections/<run>.json: count by scope
    head,         \* git HEAD
    attempt,      \* the run's progressRevision
    generation,   \* its newest task dispatch
    call,         \* the accept call each process is in
    reader        \* the read each reader is in

ledgers == <<snap, wal, rejections>>
run == <<head, attempt, generation>>
vars == <<owner, snap, wal, rejections, head, attempt, generation, call, reader>>

RejectionLimit == 3

(* rejectionKey: the worker's task in one generation. *)
Scope(agent) == <<agent, generation>>
Scopes == Agents \X (1 .. MaxGeneration)

Key(input) == <<input.attempt, input.agent, input.artifact>>

Entry(input, sequence) ==
    [sequence |-> sequence, idempotencyKey |-> Key(input), agent |-> input.agent,
     attempt |-> input.attempt, taskGeneration |-> input.generation,
     captureCommit |-> input.commit, decision |-> input.decision]

(* #readAcceptance: the log over the snapshot, an entry already there      *)
(* passed over.                                                            *)
Merged(s, w) ==
    LET entries[n \in 0 .. Len(w)] ==
            IF n = 0 THEN s
            ELSE IF w[n].sequence \in DOMAIN entries[n - 1] THEN entries[n - 1]
            ELSE Append(entries[n - 1], w[n])
    IN  entries[Len(w)]

(* ... which fails on an entry the two disagree about, a gap, or a key     *)
(* used twice.                                                             *)
Decodes(s, w) ==
    LET entries == Merged(s, w)
    IN /\ \A i \in DOMAIN w : w[i].sequence \in DOMAIN entries
                              /\ entries[w[i].sequence] = w[i]
       /\ \A i \in DOMAIN entries : entries[i].sequence = i
       /\ \A i, j \in DOMAIN entries :
             entries[i].idempotencyKey = entries[j].idempotencyKey => i = j

Ledger == Merged(snap, wal)

Idle == [at |-> "idle", result |-> "none"]
NotReading == [at |-> "idle"]

Init ==
    /\ LockInit
    /\ snap = <<>> /\ wal = <<>>
    /\ rejections = [s \in Scopes |-> 0]
    /\ head \in Heads /\ attempt = 1 /\ generation = 0
    /\ call = [p \in Procs |-> Idle]
    /\ reader = [r \in Readers |-> NotReading]

At(p, l) == call[p].at = l
Goto(p, l) == call' = [call EXCEPT ![p].at = l]
Answer(p, result) == call' = [call EXCEPT ![p].at = "leaving", ![p].result = result]

(* Back to the caller, who remembers what was accepted. *)
Return(p) ==
    call' = [call EXCEPT ![p] =
               IF @.result \in {"accepted", "replayed"}
               THEN [at |-> "idle", result |-> @.result, input |-> @.input] ELSE Idle]

-----------------------------------------------------------------------------
(* WorkerResultAcceptance.accept *)

Call(p, input) ==
    /\ At(p, "idle")
    /\ call' = [call EXCEPT ![p] = [at |-> "waiting", result |-> "none", input |-> input,
                                    head |-> "none", entries |-> <<>>]]
    /\ UNCHANGED <<owner, ledgers, run, reader>>

NoLock(p) ==
    /\ At(p, "waiting")
    /\ call' = [call EXCEPT ![p] = Idle]
    /\ UNCHANGED <<owner, ledgers, run, reader>>

Enter(p) ==
    /\ At(p, "waiting")
    /\ Acquire(p)
    /\ Goto(p, "entered")
    /\ UNCHANGED <<ledgers, run, reader>>

(* The caller is elsewhere, not the parent, or the run is over; or the     *)
(* worker is none of this generation's.                                    *)
OutOfScope(p) ==
    /\ At(p, "entered")
    /\ Answer(p, "rejected")
    /\ UNCHANGED <<owner, ledgers, run, reader>>

Prior(p) == rejections[Scope(call[p].input.agent)]

(* Slip: a parent's decision is not asked for. *)
CheckScopeUncapped(p) ==
    /\ At(p, "entered")
    /\ IF generation = 0 THEN Answer(p, "rejected") ELSE Goto(p, "git")
    /\ UNCHANGED <<owner, ledgers, run, reader>>

(* Before the evidence is looked at: no dispatch, a parent who declines,   *)
(* and the cap of three rejections; nothing is written.                    *)
CheckScope(p) ==
    LET decision == call[p].input.decision
    IN /\ At(p, "entered")
       /\ IF generation = 0 THEN Answer(p, "rejected")
          ELSE IF Prior(p) = RejectionLimit /\ decision # "accept_after_review"
          THEN Answer(p, "needs_parent_decision")
          ELSE IF decision = "retry_worker" THEN Answer(p, "rejected")
          ELSE Goto(p, "git")
       /\ UNCHANGED <<owner, ledgers, run, reader>>

ReadGit(p) ==
    /\ At(p, "git")
    /\ call' = [call EXCEPT ![p].at = "evidence", ![p].head = head]
    /\ UNCHANGED <<owner, ledgers, run, reader>>

(* Slip: the receipt may be of an earlier attempt or dispatch. *)
BindsAnyAttempt(input, capture) == input.valid /\ input.commit = capture

(* receiptBindingError *)
Binds(input, capture) ==
    /\ input.valid
    /\ input.attempt = attempt
    /\ input.generation = generation
    /\ input.commit = capture

Validate(p) ==
    /\ At(p, "evidence")
    /\ Goto(p, IF Binds(call[p].input, call[p].head) THEN "final_git" ELSE "reject")
    /\ UNCHANGED <<owner, ledgers, run, reader>>

(* HEAD must not have moved while the evidence was read. *)
FinalGit(p) ==
    /\ At(p, "final_git")
    /\ Goto(p, IF head = call[p].head THEN "ledger" ELSE "reject")
    /\ UNCHANGED <<owner, ledgers, run, reader>>

(* The call is aborted, git fails or the worktree is dirty: a rejection    *)
(* like any other.                                                         *)
Interrupt(p) ==
    /\ call[p].at \in {"git", "final_git"}
    /\ Goto(p, "reject")
    /\ UNCHANGED <<owner, ledgers, run, reader>>

(* WorkerAcceptanceLedger.reject: three is the end of it. *)
Reject(p) ==
    LET count == Min({Prior(p) + 1, RejectionLimit})
    IN /\ At(p, "reject")
       /\ rejections' = [rejections EXCEPT ![Scope(call[p].input.agent)] = count]
       /\ Answer(p, IF count = RejectionLimit THEN "needs_parent_decision" ELSE "rejected")
       /\ UNCHANGED <<owner, snap, wal, run, reader>>

-----------------------------------------------------------------------------
(* WorkerAcceptanceLedger.accept *)

Candidate(p) == Entry(call[p].input, Len(call[p].entries) + 1)

(* An entry with the same key is a replay if it is the same in everything  *)
(* else, a duplicate receipt otherwise.                                    *)
Lookup(p) ==
    LET found == SelectInSeq(Ledger, LAMBDA e : e.idempotencyKey = Key(call[p].input))
    IN /\ At(p, "ledger")
       /\ \/ ~Decodes(snap, wal) /\ Answer(p, "thrown")
          \/ /\ Decodes(snap, wal) /\ found = 0
             /\ call' = [call EXCEPT ![p].at = "append", ![p].entries = Ledger]
          \/ /\ Decodes(snap, wal) /\ found # 0
             /\ Answer(p, IF Ledger[found] = Entry(call[p].input, found) THEN "replayed"
                          ELSE "duplicate_receipt")
       /\ UNCHANGED <<owner, ledgers, run, reader>>

(* appendAcceptanceWal; a full log refuses the entry for good. *)
AppendWal(p) ==
    /\ At(p, "append")
    /\ IF Len(wal) < MaxWalEntries
       THEN wal' = Append(wal, Candidate(p)) /\ Goto(p, "snapshot")
       ELSE Answer(p, "thrown") /\ UNCHANGED wal
    /\ UNCHANGED <<owner, snap, rejections, run, reader>>

(* Slip: the snapshot is rebuilt from the old snapshot, not the ledger. *)
WriteSnapshotAlone(p) ==
    /\ At(p, "snapshot")
    /\ snap' = Append(snap, Candidate(p))
    /\ Answer(p, "accepted")
    /\ UNCHANGED <<owner, wal, rejections, run, reader>>

WriteSnapshot(p) ==
    /\ At(p, "snapshot")
    /\ snap' = Append(call[p].entries, Candidate(p))
    /\ Answer(p, "accepted")
    /\ UNCHANGED <<owner, wal, rejections, run, reader>>

(* A write misses its deadline: the call throws. *)
WriteFails(p) ==
    /\ call[p].at \in {"reject", "append", "snapshot"}
    /\ Answer(p, "thrown")
    /\ UNCHANGED <<owner, ledgers, run, reader>>

(* Slip: released on a verdict only, not in a finally. *)
LeaveUnlessThrown(p) ==
    /\ At(p, "leaving")
    /\ IF call[p].result = "thrown" THEN UNCHANGED owner ELSE Release(p)
    /\ Return(p)
    /\ UNCHANGED <<ledgers, run, reader>>

Leave(p) ==
    /\ At(p, "leaving")
    /\ Release(p)
    /\ Return(p)
    /\ UNCHANGED <<ledgers, run, reader>>

Crash(p) ==
    /\ ~At(p, "idle")
    /\ IF owner = p THEN Abandon(p) ELSE UNCHANGED owner
    /\ call' = [call EXCEPT ![p] = Idle]
    /\ UNCHANGED <<ledgers, run, reader>>

ClearStaleLock == Clear /\ UNCHANGED <<ledgers, run, call, reader>>

-----------------------------------------------------------------------------
(* Readers and the run *)

(* known: history, what the ledger held when the read began. *)
ReadSnapshot(r) ==
    /\ reader[r].at = "idle"
    /\ reader' = [reader EXCEPT ![r] = [at |-> "half", snap |-> snap, known |-> Ledger]]
    /\ UNCHANGED <<owner, ledgers, run, call>>

ReadWal(r) ==
    /\ reader[r].at = "half"
    /\ reader' = [reader EXCEPT ![r] =
                    [at |-> "done", got |-> Merged(@.snap, wal), known |-> @.known,
                     decodes |-> Decodes(@.snap, wal)]]
    /\ UNCHANGED <<owner, ledgers, run, call>>

EndRead(r) ==
    /\ reader[r].at = "done"
    /\ reader' = [reader EXCEPT ![r] = NotReading]
    /\ UNCHANGED <<owner, ledgers, run, call>>

(* A commit or a task dispatch, under the lock. *)
Progress ==
    /\ owner = Free /\ attempt < MaxAttempt
    /\ attempt' = attempt + 1
    /\ UNCHANGED <<owner, ledgers, head, generation, call, reader>>

Dispatch ==
    /\ owner = Free /\ generation < MaxGeneration
    /\ generation' = generation + 1
    /\ UNCHANGED <<owner, ledgers, head, attempt, call, reader>>

MoveHead ==
    /\ head' \in Heads \ {head}
    /\ UNCHANGED <<owner, ledgers, attempt, generation, call, reader>>

-----------------------------------------------------------------------------
Step(p) ==
    \/ NoLock(p) \/ Enter(p) \/ OutOfScope(p) \/ CheckScope(p) \/ ReadGit(p) \/ Validate(p)
    \/ FinalGit(p) \/ Reject(p) \/ Lookup(p) \/ AppendWal(p) \/ WriteSnapshot(p) \/ Leave(p)

Next ==
    \/ \E p \in Procs : \/ Step(p) \/ Interrupt(p) \/ WriteFails(p) \/ Crash(p)
                        \/ \E input \in Offers : Call(p, input)
    \/ \E r \in Readers : ReadSnapshot(r) \/ ReadWal(r) \/ EndRead(r)
    \/ ClearStaleLock \/ Progress \/ Dispatch \/ MoveHead

Spec == Init /\ [][Next]_vars

(* A live process finishes the call it is in. *)
LiveSpec == Spec /\ \A p \in Procs : WF_vars(Step(p))

-----------------------------------------------------------------------------
(* Properties *)

TypeOK ==
    /\ LockTypeOK
    /\ rejections \in [Scopes -> 0 .. RejectionLimit]
    /\ \A i \in DOMAIN snap : snap[i].agent \in Agents
    /\ Len(wal) <= MaxWalEntries
    /\ attempt \in 1 .. MaxAttempt /\ generation \in 0 .. MaxGeneration /\ head \in Heads

(* Snapshot and log never contradict each other, whatever crash or failed  *)
(* write comes between the two: nobody meets wal_diverged or a ledger that *)
(* does not decode.                                                        *)
LedgerDecodes ==
    /\ Decodes(snap, wal)
    /\ \A r \in Readers : reader[r].at = "done" => reader[r].decodes

(* A reader that takes the snapshot and the log at different moments sees  *)
(* everything accepted before it began, and nothing the ledger does not    *)
(* have.                                                                   *)
ReaderSees ==
    \A r \in Readers :
       reader[r].at = "done" => /\ IsPrefix(reader[r].known, reader[r].got)
                                /\ IsPrefix(reader[r].got, Ledger)

(* A caller that was told "accepted" or "replayed" finds its result in the *)
(* ledger ever after.                                                      *)
AcceptedIsDurable ==
    \A p \in Procs :
       call[p].result \in {"accepted", "replayed"} =>
          \E i \in DOMAIN Ledger : Ledger[i] = Entry(call[p].input, i)

(* Whatever crash, failed write or reader comes between the write-ahead    *)
(* log and the snapshot, the two make one ledger: it decodes, readers miss *)
(* nothing of it, and it keeps what callers were told it has.              *)
LedgerIsSound == LedgerDecodes /\ ReaderSees /\ AcceptedIsDurable

(* After three rejections in a generation only a parent's review lets the  *)
(* worker's result in.                                                     *)
CapIsHeld ==
    [][Len(Ledger') > Len(Ledger) =>
         LET e == Last(Ledger')
         IN rejections[<<e.agent, e.taskGeneration>>] < RejectionLimit
            \/ e.decision = "accept_after_review"]_vars

(* Every call ends, and gives the lock back. *)
CallsEnd == \A p \in Procs : ~At(p, "idle") ~> (At(p, "idle") /\ owner # p)

AcceptanceView == INSTANCE AcceptanceLog WITH log <- Ledger

(* For its readers the ledger is a list that grows by current, distinct    *)
(* acceptances.                                                            *)
ImplementsAcceptanceLog == AcceptanceView!AcceptSpec
=============================================================================
