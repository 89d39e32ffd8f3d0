-------------------------- MODULE TransactionStore --------------------------
(***************************************************************************)
(* The event-first transaction store of state/transaction-store.ts with    *)
(* the recovery of state/recovery.ts.                                      *)
(*                                                                         *)
(* The durable state is three kinds of files under .omo/omp-lazy: the      *)
(* event log events/<sequence>-<id>.json, the snapshot runs/<id>/run.json, *)
(* and the index active.json.  commit, under the repository lock, appends  *)
(* the event, then replaces the snapshot, then the index; each write is    *)
(* atomic by itself (atomic-file.ts) and the deadline may expire, or the   *)
(* process die, between any two of them.  repairState redoes the tail.     *)
(*                                                                         *)
(* The lock is used through what it promises (ExclusiveLock, implemented   *)
(* by RepoLock).  What commit reads under the lock cannot change until it  *)
(* releases it, so its reads are one step (Decide).                        *)
(***************************************************************************)
EXTENDS RunLifecycle, ExclusiveLock

CONSTANTS
    Requests,      \* events clients may submit, stale and conflicting ones too
    MaxRevision,   \* bound: events in the log
    MaxReceipts    \* bound: receipt changes per run

ASSUME StoreAssumption ==
    /\ MaxRevision \in Nat /\ MaxReceipts \in Nat
    /\ \A e \in Requests : WellFormed(e)

VARIABLES
    events,     \* the event log, in sequence order
    runs,       \* run snapshots: a function on the runs that have one
    index,      \* the active index
    authority,  \* receipt authority of every run (worker and task ledgers)
    pc,         \* where each process is in commit or repairState
    req,        \* the event it commits
    prep,       \* the transition it has prepared
    outcome     \* result of the process's last commit or repair

storeVars == <<events, runs, index, authority>>
vars == <<owner, events, runs, index, authority, pc, req, prep, outcome>>

NoEvent == [eventId |-> <<>>]
NoPrep == [run |-> <<>>, index |-> <<>>]

PcValues == {"idle", "submitted", "locked", "prepared", "appended", "published",
             "repairing", "repair_locked", "releasing"}

Init ==
    /\ LockInit
    /\ events = <<>>
    /\ runs = <<>>
    /\ index = EmptyIndex
    /\ authority = [r \in RunIds |-> EmptyAuthority]
    /\ pc = [p \in Procs |-> "idle"]
    /\ req = [p \in Procs |-> NoEvent]
    /\ prep = [p \in Procs |-> NoPrep]
    /\ outcome = [p \in Procs |-> "none"]

Goto(p, l) == pc' = [pc EXCEPT ![p] = l]
Ends(p, code) == Goto(p, "releasing") /\ outcome' = [outcome EXCEPT ![p] = code]

-----------------------------------------------------------------------------
(* What a reader of the files sees *)

Snapshot(r) == IF r \in DOMAIN runs THEN {runs[r]} ELSE {}

(* decodeStateEvent wants at least one criterion in a steering event. *)
EventDecodes(e) == e.mutation.kind = "workflow_steered" => e.mutation.criteria # <<>>

(* readIndex, events.readAll and readRun all succeed. *)
Readable(r) ==
    /\ validateActiveIndex(index)
    /\ \A i \in DOMAIN events : EventDecodes(events[i])
    /\ \A run \in Snapshot(r) : RunDecodes(run)

Semantics(e) == <<e.runId, e.workflow, e.expected, e.mutation>>

Replays(e) == {i \in DOMAIN events : events[i].eventId = e.eventId}

(* Slip: only an index ahead of the log counts. *)
DivergedIfBehind == Len(events) < index.revision

Diverged == Len(events) # index.revision

-----------------------------------------------------------------------------
(* commit *)

(* Steering and checkpoint events have an id made from their idempotency   *)
(* key; every other event id is a fresh UUID and is submitted once.        *)
Keyed == {"workflow_steered", "criterion_settled"}

IdAvailable(p, e) ==
    \/ e.mutation.kind \in Keyed
    \/ /\ Replays(e) = {}
       /\ \A q \in Procs \ {p} : pc[q] = "idle" \/ req[q].eventId # e.eventId

Submit(p, e) ==
    /\ pc[p] = "idle" /\ index.revision < MaxRevision
    /\ IdAvailable(p, e)
    /\ req' = [req EXCEPT ![p] = e]
    /\ outcome' = [outcome EXCEPT ![p] = "none"]
    /\ Goto(p, "submitted")
    /\ UNCHANGED <<owner, storeVars, prep>>

(* tryAcquire returns null, or the deadline has expired before it. *)
NoLock(p) ==
    /\ pc[p] \in {"submitted", "repairing"}
    /\ Goto(p, "idle")
    /\ outcome' = [outcome EXCEPT ![p] = "lock_timeout"]
    /\ UNCHANGED <<owner, storeVars, req, prep>>

Enter(p) ==
    /\ pc[p] \in {"submitted", "repairing"}
    /\ Acquire(p)
    /\ Goto(p, IF pc[p] = "submitted" THEN "locked" ELSE "repair_locked")
    /\ UNCHANGED <<storeVars, req, prep, outcome>>

(* Everything commit reads and checks before it writes: the replay of a    *)
(* known event id answers from the current snapshot; otherwise the log and *)
(* the index must agree and the event must be an allowed next transition.  *)
(* (Of several reasons to refuse it, which one is reported does not matter *)
(* here: a refusal changes no file.)                                       *)
Decide(p) ==
    LET e == req[p]
    IN /\ pc[p] = "locked"
       /\ \/ /\ ~Readable(e.runId)
             /\ Ends(p, "unreadable") /\ UNCHANGED prep
          \/ /\ Readable(e.runId) /\ Replays(e) # {}
             /\ Ends(p, IF \E i \in Replays(e) : Semantics(events[i]) # Semantics(e)
                        THEN "idempotency_conflict"
                        ELSE IF Snapshot(e.runId) = {} THEN "state_diverged" ELSE "replayed")
             /\ UNCHANGED prep
          \/ /\ Readable(e.runId) /\ Replays(e) = {} /\ Diverged
             /\ Ends(p, "state_diverged") /\ UNCHANGED prep
          \/ /\ Readable(e.runId) /\ Replays(e) = {} /\ ~Diverged
             /\ ~Prepares(index, Snapshot(e.runId), e, authority[e.runId])
             /\ Ends(p, "conflict") /\ UNCHANGED prep
          \/ /\ Readable(e.runId) /\ Replays(e) = {} /\ ~Diverged
             /\ Prepares(index, Snapshot(e.runId), e, authority[e.runId])
             /\ prep' = [prep EXCEPT ![p] = Prepared(index, Snapshot(e.runId), e)]
             /\ Goto(p, "prepared") /\ UNCHANGED outcome
       /\ UNCHANGED <<owner, storeVars, req>>

AppendEvent(p) ==
    /\ pc[p] = "prepared"
    /\ events' = Append(events, req[p])
    /\ Goto(p, "appended")
    /\ UNCHANGED <<owner, runs, index, authority, req, prep, outcome>>

PublishRun(p) ==
    /\ pc[p] = "appended"
    /\ LET run == prep[p].run
       IN runs' = [r \in DOMAIN runs \cup {run.runId} |-> IF r = run.runId THEN run ELSE runs[r]]
    /\ Goto(p, "published")
    /\ UNCHANGED <<owner, events, index, authority, req, prep, outcome>>

PublishIndex(p) ==
    /\ pc[p] = "published"
    /\ index' = prep[p].index
    /\ Ends(p, "committed")
    /\ UNCHANGED <<owner, events, runs, authority, req, prep>>

(* Slip: the deadline of the last write is not reported. *)
ExpireUnreported(p) ==
    /\ pc[p] \in {"prepared", "appended", "published"}
    /\ Ends(p, IF pc[p] = "published" THEN "committed" ELSE "deadline_expired")
    /\ UNCHANGED <<owner, storeVars, req, prep>>

(* A deadline check fails, in commit itself or inside an atomic write. *)
Expire(p) ==
    /\ pc[p] \in {"prepared", "appended", "published"}
    /\ Ends(p, "deadline_expired")
    /\ UNCHANGED <<owner, storeVars, req, prep>>

(* Slip: release after a successful commit only, not in a finally. *)
LeaveIfCommitted(p) ==
    /\ pc[p] = "releasing" /\ outcome[p] = "committed"
    /\ Release(p)
    /\ Goto(p, "idle")
    /\ prep' = [prep EXCEPT ![p] = NoPrep]
    /\ UNCHANGED <<storeVars, req, outcome>>

(* finally: handle.release() *)
Leave(p) ==
    /\ pc[p] = "releasing"
    /\ Release(p)
    /\ Goto(p, "idle")
    /\ prep' = [prep EXCEPT ![p] = NoPrep]
    /\ UNCHANGED <<storeVars, req, outcome>>

(* The process dies and comes back as a new one; a lock it held is stale. *)
Crash(p) ==
    /\ pc[p] # "idle"
    /\ IF owner = p THEN Abandon(p) ELSE UNCHANGED owner
    /\ Goto(p, "idle")
    /\ req' = [req EXCEPT ![p] = NoEvent]
    /\ prep' = [prep EXCEPT ![p] = NoPrep]
    /\ outcome' = [outcome EXCEPT ![p] = "none"]
    /\ UNCHANGED storeVars

(* clearConfirmedStaleLock *)
ClearStaleLock ==
    /\ Clear
    /\ UNCHANGED <<storeVars, pc, req, prep, outcome>>

-----------------------------------------------------------------------------
(* repairState *)

Repair(p) ==
    /\ pc[p] = "idle"
    /\ Goto(p, "repairing")
    /\ req' = [req EXCEPT ![p] = NoEvent]
    /\ outcome' = [outcome EXCEPT ![p] = "none"]
    /\ UNCHANGED <<owner, storeVars, prep>>

Ahead == Last(events)                      \* the one event ahead of the index
RunPublished == \E run \in Snapshot(Ahead.runId) :
                   run.transactionRevision = Ahead.sequence

Repairable ==
    /\ Len(events) = index.revision + 1
    /\ Readable(Ahead.runId)
    /\ Ahead.expected.indexRevision = index.revision
    /\ \/ RunPublished /\ runs[Ahead.runId].runId = Ahead.runId
                       /\ runs[Ahead.runId].workflow = Ahead.workflow
       \/ ~RunPublished
          /\ Prepares(index, Snapshot(Ahead.runId), Ahead, authority[Ahead.runId])

(* The run already published by the crashed writer is taken as it is. *)
RepairDecide(p) ==
    /\ pc[p] = "repair_locked"
    /\ \/ /\ ~Repairable
          /\ Ends(p, "not_repairable") /\ UNCHANGED prep
       \/ /\ Repairable /\ RunPublished
          /\ prep' = [prep EXCEPT ![p] =
                        [run |-> runs[Ahead.runId],
                         index |-> deriveIndex(index, runs[Ahead.runId], Ahead.sequence)]]
          /\ Goto(p, "published") /\ UNCHANGED outcome
       \/ /\ Repairable /\ ~RunPublished
          /\ prep' = [prep EXCEPT ![p] = Prepared(index, Snapshot(Ahead.runId), Ahead)]
          /\ Goto(p, "appended") /\ UNCHANGED outcome
    /\ UNCHANGED <<owner, storeVars, req>>

-----------------------------------------------------------------------------
(* The ledgers that receipts live in: a task is dispatched or a worker     *)
(* result accepted, under the lock, for the run the owner's session        *)
(* resolves to.  Neither looks at the event log.                           *)

Receipts(r) == Len(authority[r].accepted) + Len(authority[r].dispatched)

TaskNames(run) == CriterionIds(run) \cup ToSet(run.taskIds)

ReceiptStep(r) ==
    /\ owner = Free
    /\ r \in DOMAIN runs /\ Receipts(r) < MaxReceipts
    /\ ResolvesTo(index, runs, runs[r].sessionId, runs[r])
    /\ \/ authority' = [authority EXCEPT ![r] = Dispatched(runs[r], @)]
       \/ /\ taskGeneration(runs[r], authority[r]) > 0
          /\ \E t \in TaskNames(runs[r]) :
                authority' = [authority EXCEPT ![r] = Accepted(runs[r], @, t, runs[r].expectedHead)]
    /\ UNCHANGED <<owner, events, runs, index, pc, req, prep, outcome>>

-----------------------------------------------------------------------------
Step(p) ==
    \/ NoLock(p) \/ Enter(p) \/ Decide(p)
    \/ AppendEvent(p) \/ PublishRun(p) \/ PublishIndex(p)
    \/ Expire(p) \/ Leave(p) \/ Crash(p)
    \/ Repair(p) \/ RepairDecide(p)

Next ==
    \/ \E p \in Procs : Step(p) \/ \E e \in Requests : Submit(p, e)
    \/ ClearStaleLock
    \/ \E r \in RunIds : ReceiptStep(r)

Spec == Init /\ [][Next]_vars

(* A live process finishes the call it is in: awaits return, waiting for   *)
(* the lock is bounded, the release is in a finally block.                 *)
Finishes(p) ==
    \/ NoLock(p) \/ Enter(p) \/ Decide(p)
    \/ AppendEvent(p) \/ PublishRun(p) \/ PublishIndex(p)
    \/ Leave(p) \/ RepairDecide(p)

LiveSpec == Spec /\ \A p \in Procs : WF_vars(Finishes(p))

-----------------------------------------------------------------------------
(* Properties *)

TypeOK ==
    /\ LockTypeOK
    /\ \A i \in DOMAIN events : events[i].sequence \in Nat /\ events[i].runId \in RunIds
    /\ DOMAIN runs \subseteq RunIds
    /\ \A r \in DOMAIN runs : runs[r] \in Runs
    /\ index.revision \in Nat
    /\ \A entry \in index.entries : entry.runId \in RunIds
    /\ pc \in [Procs -> PcValues]

(* The log is linear: sequences are consecutive, each event was written    *)
(* against the index it follows, no event id is in it twice, and the index *)
(* is at most one event behind, however commits, expired deadlines,        *)
(* crashes and repairs interleave.                                         *)
LogIsLinear ==
    /\ index.revision \in {Len(events), Len(events) - 1}
    /\ \A i \in DOMAIN events : /\ events[i].sequence = i
                                /\ events[i].expected.indexRevision = i - 1
    /\ \A i, j \in DOMAIN events : events[i].eventId = events[j].eventId => i = j

(* Snapshots and index describe the same runs: a snapshot the index has    *)
(* caught up with is listed exactly as it is (or is terminal and not       *)
(* listed); only the run of the one event ahead may differ.                *)
SnapshotsFollowIndex ==
    /\ \A entry \in index.entries : entry.runId \in DOMAIN runs
    /\ \A r \in DOMAIN runs :
          \/ /\ runs[r].transactionRevision = index.revision + 1
             /\ Diverged /\ Ahead.runId = r
          \/ /\ runs[r].transactionRevision <= index.revision
             /\ runs[r].status \notin Terminal =>
                  {entry \in index.entries : entry.runId = r} =
                     {EntryOf(runs[r], runs[r].transactionRevision)}
             /\ runs[r].status \in Terminal =>
                  \A entry \in index.entries : entry.runId # r

(* Snapshots only move forward: a run.json once written is never lost and  *)
(* is replaced only by a legal successor of what it holds, whichever       *)
(* process or repair writes it.                                            *)
RunsAdvance ==
    [][\A r \in DOMAIN runs :
          /\ r \in DOMAIN runs'
          /\ runs'[r] # runs[r] => Succeeds(runs[r], runs'[r])]_vars

(* "committed" is only ever reported for an event the index has applied. *)
CommittedIsDurable ==
    \A p \in Procs :
       outcome[p] = "committed" /\ req[p] # NoEvent =>
          \E i \in 1 .. index.revision : events[i] = req[p]

(* Whatever a crash or an expired deadline leaves behind can be repaired:  *)
(* "state is last-commit or converged" (state-crash-boundaries.test.ts).   *)
DivergedIsRepairable == Diverged /\ owner \in {Free, Stale} => Repairable

(* "Only the exact replay no-ops" (transaction-store.test.ts): a replay    *)
(* answers ok because the event has already taken effect.                  *)
ReplayedIsApplied ==
    \A p \in Procs :
       outcome[p] = "replayed" => \E i \in Replays(req[p]) : i <= index.revision

(* Progress is earned: every step of a run's progressRevision, also one    *)
(* that a repair redoes, rests on a worker result accepted for exactly     *)
(* that attempt; no result counts twice.                                   *)
ProgressIsEarned ==
    \A r \in DOMAIN runs :
       \A n \in 1 .. runs[r].progressRevision - 1 :
          \E i \in DOMAIN authority[r].accepted : authority[r].accepted[i].attempt = n

(* The reader accepts what the writer wrote: the store stays readable.     *)
(* Steering by "audit annotation" alone is permitted                       *)
(* (full-workflow.md), so its event must decode too.                       *)
StoreStaysReadable == \A r \in RunIds : Readable(r)

(* Every call ends with the lock released. *)
CallsEnd == \A p \in Procs : pc[p] # "idle" ~> (pc[p] = "idle" /\ owner # p)

AtomicLogView == INSTANCE AtomicLog
                   WITH log <- SubSeq(events, 1, index.revision), view <- index.entries

(* Readers of the index see the events take effect atomically and in       *)
(* order, although each is three separate file writes.                     *)
ImplementsAtomicLog == AtomicLogView!LogSpec
=============================================================================
