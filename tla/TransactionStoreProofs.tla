----------------------- MODULE TransactionStoreProofs -----------------------
(***************************************************************************)
(* The transaction store for any number of processes, runs and requests:   *)
(* its log is linear, its snapshots only advance and are those the index   *)
(* names, a reported commit is durable, no worker result advances a run    *)
(* twice, what a crash leaves can be repaired, and readers of the index    *)
(* see an atomic log.                                                      *)
(*                                                                         *)
(* The argument: whoever is past the lock owns it, so between Decide and   *)
(* the last write nobody else touches the files, and what was prepared     *)
(* still fits the log, the snapshot and the index it is written over.      *)
(*                                                                         *)
(* Then the migration that runs before it (LifecycleMigration), for any    *)
(* files and any number of crashes, failed writes and retries of one       *)
(* process: what the journal says is what is on disk.                      *)
(***************************************************************************)
EXTENDS TransactionStore, LifecycleMigration, RunLifecycleProofs

USE ProcsAssumption, StoreAssumption

-----------------------------------------------------------------------------
(* The inductive invariant *)

Types ==
    /\ owner \in Procs \cup {Free, Stale}
    /\ events \in Seq(Requests)
    /\ \A r \in DOMAIN runs : r \in RunIds /\ runs[r] \in Runs /\ runs[r].runId = r
    /\ index.revision \in Nat
    /\ \A entry \in index.entries : entry.runId \in RunIds
    /\ pc \in [Procs -> PcValues]
    /\ req \in [Procs -> Requests \cup {NoEvent}]
    /\ DOMAIN prep = Procs /\ DOMAIN outcome = Procs

Critical == {"locked", "prepared", "appended", "published", "repair_locked", "releasing"}

(* Whoever is past the lock owns it. *)
Held == \A p \in Procs : pc[p] \in Critical => owner = p

(* The transition p has prepared is that of event e over the files as they are. *)
PrepFor(p, e) ==
    /\ prep[p].run \in Runs
    /\ prep[p].run.runId = e.runId /\ prep[p].run.workflow = e.workflow
    /\ prep[p].run.transactionRevision = index.revision + 1
    /\ prep[p].index = deriveIndex(index, prep[p].run, index.revision + 1)

Forward(p) ==
    prep[p].run.runId \in DOMAIN runs => Succeeds(runs[prep[p].run.runId], prep[p].run)

(* The snapshot is the prepared run. *)
Written(p) ==
    prep[p].run.runId \in DOMAIN runs /\ runs[prep[p].run.runId] = prep[p].run

RequestInv ==
    \A p \in Procs : /\ pc[p] \in {"submitted", "locked"} => req[p] \in Requests
                     /\ pc[p] \in {"repairing", "repair_locked"} => req[p] = NoEvent

PreparedInv ==
    \A p \in Procs :
       pc[p] = "prepared" =>
          /\ req[p] \in Requests
          /\ EventFits(index, req[p]) /\ Len(events) = index.revision
          /\ Replays(req[p]) = {}
          /\ PrepFor(p, req[p]) /\ Forward(p)

AheadInv ==
    \A p \in Procs :
       pc[p] \in {"appended", "published"} =>
          /\ Len(events) = index.revision + 1
          /\ req[p] # NoEvent => req[p] = events[Len(events)]
          /\ PrepFor(p, events[Len(events)])
          /\ pc[p] = "appended" => Forward(p)
          /\ pc[p] = "published" => Written(p)

Phases == Held /\ RequestInv /\ PreparedInv /\ AheadInv

IInv == Types /\ Phases /\ LogIsLinear /\ CommittedIsDurable

(* It holds of empty files. *)
LEMMA InitIInv == Init => IInv
  <1> SUFFICES ASSUME Init PROVE IInv
    OBVIOUS
  <1> USE DEF Init
  <1>1. Types
    BY DEF Types, LockInit, EmptyIndex, PcValues
  <1>2. Phases
    BY DEF Phases, Held, Critical, RequestInv, PreparedInv, AheadInv
  <1>3. LogIsLinear
    BY DEF LogIsLinear, EmptyIndex
  <1>4. CommittedIsDurable
    BY DEF CommittedIsDurable
  <1> QED BY <1>1, <1>2, <1>3, <1>4 DEF IInv

(* What prepareTransition returns, for an event that Prepares. *)
LEMMA PreparedFits ==
  ASSUME Types, NEW e \in Requests, Readable(e.runId),
         Prepares(index, Snapshot(e.runId), e, authority[e.runId])
  PROVE  LET P == Prepared(index, Snapshot(e.runId), e)
         IN /\ EventFits(index, e)
            /\ P.run \in Runs /\ P.run.runId = e.runId /\ P.run.workflow = e.workflow
            /\ P.run.transactionRevision = index.revision + 1
            /\ P.index = deriveIndex(index, P.run, index.revision + 1)
            /\ e.runId \in DOMAIN runs => Succeeds(runs[e.runId], P.run)
  <1> DEFINE current == Snapshot(e.runId)
             next == NextRun(current, e)
  <1>0. /\ WellFormed(e) /\ EventFits(index, e)
        /\ next.runId = e.runId /\ next.workflow = e.workflow
    BY DEF Prepares
  <1>1. e.sequence = index.revision + 1 /\ e.sequence \in Nat
    BY <1>0 DEF EventFits, WellFormed
  <1>2. next \in Runs /\ (e.runId \in DOMAIN runs => Succeeds(runs[e.runId], next))
    <2>1. CASE e.mutation.kind = "run_created"
      <3>1. next \in Runs
        BY <1>0, <2>1 DEF NextRun, WellFormed
      <3>2. current = {}
        BY <2>1 DEF Prepares, CreateFits
      <3>3. e.runId \notin DOMAIN runs
        BY <3>2 DEF Snapshot
      <3> QED BY <3>1, <3>3
    <2>2. CASE e.mutation.kind # "run_created"
      <3>1. PICK run \in current : MutationFits(run, e, authority[e.runId])
        BY <2>2 DEF Prepares
      <3>2. e.runId \in DOMAIN runs /\ run = runs[e.runId] /\ current = {run}
        BY <3>1 DEF Snapshot
      <3>3. run \in Runs
        BY <3>2 DEF Types
      <3>4. RunDecodes(run)
        BY <3>1 DEF Readable
      <3>5. controlAllowed(run, e, authority[e.runId])
        BY <3>1 DEF MutationFits
      <3>6. (CHOOSE r \in current : TRUE) = run
        BY <3>2
      <3>7. next = controlRun(run, e.mutation)
        BY <2>2, <3>6 DEF NextRun
      <3>8. controlRun(run, e.mutation) \in Runs
        BY <1>0, <3>3, <3>4, <3>5, ControlRunTyped
      <3>9. Succeeds(run, controlRun(run, e.mutation))
        BY <1>0, <3>3, <3>5, ControlRunSucceeds
      <3> QED BY <3>2, <3>7, <3>8, <3>9
    <2> QED BY <2>1, <2>2
  <1> DEFINE published == [next EXCEPT !.transactionRevision = e.sequence]
  <1>3. Prepared(index, current, e) =
          [run |-> published, index |-> deriveIndex(index, published, e.sequence)]
    BY DEF Prepared
  <1> HIDE DEF next
  <1>4. /\ published \in Runs /\ published.runId = next.runId
        /\ published.workflow = next.workflow /\ published.transactionRevision = e.sequence
    BY <1>1, <1>2 DEF Runs
  <1>5. e.runId \in DOMAIN runs => Succeeds(runs[e.runId], published)
    BY <1>2, <1>4 DEF Succeeds, Runs
  <1> HIDE DEF published, current
  <1> QED BY <1>0, <1>1, <1>3, <1>4, <1>5 DEF current

-----------------------------------------------------------------------------
(* Types *)

(* Every step keeps the types. *)
LEMMA TypesStep ==
  ASSUME Types, Phases, [Next]_vars
  PROVE  Types'
  <1> USE DEF Types, Goto, Ends, PcValues
  <1>1. ASSUME NEW p \in Procs, Step(p) PROVE Types'
    <2>1. CASE NoLock(p) BY <2>1 DEF NoLock, storeVars
    <2>2. CASE Enter(p) BY <2>2 DEF Enter, storeVars, Acquire
    <2>3. CASE Decide(p) BY <2>3 DEF Decide, storeVars
    <2>4. CASE AppendEvent(p)
      BY <2>4 DEF AppendEvent, Phases, PreparedInv
    <2>5. CASE PublishRun(p)
      <3> DEFINE run == prep[p].run
      <3>1. run \in Runs
        BY <2>5 DEF PublishRun, Phases, AheadInv, PrepFor
      <3>2. run.runId \in RunIds
        BY <3>1 DEF Runs
      <3>3. runs' = [r \in DOMAIN runs \cup {run.runId} |->
                        IF r = run.runId THEN run ELSE runs[r]]
        BY <2>5 DEF PublishRun
      <3> HIDE DEF run
      <3>4. \A r \in DOMAIN runs' : r \in RunIds /\ runs'[r] \in Runs /\ runs'[r].runId = r
        BY <3>1, <3>2, <3>3
      <3> QED BY <2>5, <3>4 DEF PublishRun
    <2>6. CASE PublishIndex(p)
      <3>1. index' = deriveIndex(index, prep[p].run, index.revision + 1)
        BY <2>6 DEF PublishIndex, Phases, AheadInv, PrepFor
      <3>2. index'.revision = index.revision + 1
        BY <3>1 DEF deriveIndex
      <3>3. prep[p].run.runId \in RunIds
        BY <2>6 DEF PublishIndex, Phases, AheadInv, PrepFor, Runs
      <3>4. \A entry \in index'.entries : entry.runId \in RunIds
        BY <3>1, <3>3 DEF deriveIndex, EntryOf
      <3> QED BY <2>6, <3>2, <3>4 DEF PublishIndex
    <2>7. CASE Expire(p) BY <2>7 DEF Expire, storeVars
    <2>8. CASE Leave(p) BY <2>8 DEF Leave, storeVars, Release
    <2>9. CASE Crash(p) BY <2>9 DEF Crash, storeVars, Abandon
    <2>10. CASE Repair(p) BY <2>10 DEF Repair, storeVars
    <2>11. CASE RepairDecide(p) BY <2>11 DEF RepairDecide, storeVars
    <2> QED BY <1>1, <2>1, <2>2, <2>3, <2>4, <2>5, <2>6, <2>7, <2>8, <2>9, <2>10, <2>11
           DEF Step
  <1>2. ASSUME NEW p \in Procs, NEW e \in Requests, Submit(p, e) PROVE Types'
    BY <1>2 DEF Submit, storeVars
  <1>3. CASE ClearStaleLock BY <1>3 DEF ClearStaleLock, Clear, storeVars
  <1>4. CASE \E r \in RunIds : ReceiptStep(r) BY <1>4 DEF ReceiptStep
  <1>5. CASE UNCHANGED vars BY <1>5 DEF vars
  <1> QED BY <1>1, <1>2, <1>3, <1>4, <1>5 DEF Next

-----------------------------------------------------------------------------
(* Phases *)

(* Steps that leave the files alone, and of other processes nothing: only  *)
(* the phase of p itself has to be looked at.                              *)
PhaseOf(p) ==
    /\ pc[p] \in Critical => owner = p
    /\ pc[p] \in {"submitted", "locked"} => req[p] \in Requests
    /\ pc[p] \in {"repairing", "repair_locked"} => req[p] = NoEvent
    /\ pc[p] = "prepared" =>
          /\ req[p] \in Requests
          /\ EventFits(index, req[p]) /\ Len(events) = index.revision
          /\ Replays(req[p]) = {}
          /\ PrepFor(p, req[p]) /\ Forward(p)
    /\ pc[p] \in {"appended", "published"} =>
          /\ Len(events) = index.revision + 1
          /\ req[p] # NoEvent => req[p] = events[Len(events)]
          /\ PrepFor(p, events[Len(events)])
          /\ pc[p] = "appended" => Forward(p)
          /\ pc[p] = "published" => Written(p)

(* The phases speak of one process at a time. *)
LEMMA PhasesAreLocal == Phases <=> \A p \in Procs : PhaseOf(p)
  BY DEF Phases, PhaseOf, Held, RequestInv, PreparedInv, AheadInv

(* A process that is not past the lock is not affected by the files. *)
LEMMA OtherPhase ==
  ASSUME Types, Phases, NEW p \in Procs, NEW q \in Procs, q # p,
         pc'[q] = pc[q], req'[q] = req[q], prep'[q] = prep[q],
         \/ owner = p /\ owner' \in {p, Free, Stale}
         \/ UNCHANGED <<events, runs, index>> /\ (pc[q] \in Critical => owner' = owner)
  PROVE  PhaseOf(q)'
  <1>0. PhaseOf(q)
    BY PhasesAreLocal
  <1>1. CASE pc[q] \notin Critical
    BY <1>0, <1>1 DEF PhaseOf, Critical
  <1>2. CASE pc[q] \in Critical
    <2>1. owner = q
      BY <1>2 DEF Phases, Held
    <2>2. UNCHANGED <<events, runs, index, owner>>
      BY <1>2, <2>1
    <2> QED BY <1>0, <2>2 DEF PhaseOf, EventFits, Replays, PrepFor, Forward, Written
  <1> QED BY <1>1, <1>2

(* A process that writes holds the lock, so no other phase is disturbed. *)
LEMMA PhasesStep ==
  ASSUME Types, Phases, LogIsLinear, [Next]_vars
  PROVE  Phases'
  <1> SUFFICES \A q \in Procs : PhaseOf(q)'
    BY DEF Phases, PhaseOf, Held, RequestInv, PreparedInv, AheadInv
  <1> USE DEF Goto, Ends, Critical
  <1>0. \A p \in Procs : PhaseOf(p)
    BY PhasesAreLocal
  <1>1. ASSUME NEW p \in Procs, Step(p) PROVE \A q \in Procs : PhaseOf(q)'
    <2>a. /\ pc \in [Procs -> PcValues] /\ DOMAIN prep = Procs /\ DOMAIN req = Procs
          /\ owner \in Procs \cup {Free, Stale}
      BY DEF Types
    <2>b. \A q \in Procs \ {p} :
             pc'[q] = pc[q] /\ req'[q] = req[q] /\ prep'[q] = prep[q]
      BY <1>1, <2>a DEF Step, NoLock, Enter, Decide, AppendEvent, PublishRun, PublishIndex,
                        Expire, Leave, Crash, Repair, RepairDecide
    <2>c. ASSUME \/ owner = p /\ owner' \in {p, Free, Stale}
                 \/ /\ UNCHANGED <<events, runs, index>>
                    /\ \A q \in Procs \ {p} : pc[q] \in Critical => owner' = owner,
                 PhaseOf(p)'
          PROVE  \A q \in Procs : PhaseOf(q)'
      BY <2>b, <2>c, OtherPhase
    <2>d. PhaseOf(p)
      BY <1>0
    <2>1. CASE NoLock(p)
      BY <2>1, <2>a, <2>c DEF NoLock, storeVars, PhaseOf
    <2>2. CASE Enter(p)
      <3>1. PhaseOf(p)'
        BY <2>2, <2>a, <2>d DEF Enter, storeVars, PhaseOf, Acquire
      <3>2. \A q \in Procs : pc[q] \notin Critical
        BY <2>2 DEF Enter, Acquire, Phases, Held
      <3> QED BY <2>2, <2>c, <3>1, <3>2 DEF Enter, storeVars
    <2>3. CASE Decide(p)
      <3>1. owner = p /\ owner' = p /\ req' = req /\ req[p] \in Requests
        BY <2>3, <2>d DEF Decide, PhaseOf
      <3>2. CASE pc'[p] = "releasing"
        BY <2>a, <2>3, <3>1, <3>2, <2>c DEF PhaseOf
      <3>3. CASE pc'[p] # "releasing"
        <4> DEFINE e == req[p]
        <4>1. /\ Readable(e.runId) /\ Replays(e) = {} /\ ~Diverged
              /\ Prepares(index, Snapshot(e.runId), e, authority[e.runId])
              /\ prep'[p] = Prepared(index, Snapshot(e.runId), e)
              /\ pc'[p] = "prepared"
          BY <2>a, <2>3, <3>3 DEF Decide
        <4>2. UNCHANGED <<events, runs, index>>
          BY <2>3 DEF Decide, storeVars
        <4>3. PrepFor(p, e)' /\ Forward(p)' /\ EventFits(index, e)
          BY <3>1, <4>1, <4>2, PreparedFits DEF PrepFor, Forward
        <4>4. PhaseOf(p)'
          BY <3>1, <4>1, <4>2, <4>3 DEF PhaseOf, Diverged, EventFits, Replays
        <4> QED BY <2>c, <3>1, <4>4
      <3> QED BY <3>2, <3>3
    <2>4. CASE AppendEvent(p)
      <3>1. PhaseOf(p)'
        <4>1. /\ req[p] \in Requests /\ Len(events) = index.revision
              /\ PrepFor(p, req[p]) /\ Forward(p) /\ owner = p
          BY <2>4, <2>d DEF AppendEvent, PhaseOf
        <4>2. /\ events' = Append(events, req[p]) /\ pc'[p] = "appended"
              /\ UNCHANGED <<runs, index, req, prep, owner>>
          BY <2>4, <2>a DEF AppendEvent
        <4>3. Len(events') = index.revision + 1 /\ events'[Len(events')] = req[p]
          BY <4>1, <4>2 DEF Types
        <4>4. PrepFor(p, events[Len(events)])' /\ Forward(p)'
          BY <4>1, <4>2, <4>3 DEF PrepFor, Forward
        <4> QED BY <4>1, <4>2, <4>3, <4>4 DEF PhaseOf
      <3>2. owner = p /\ owner' = p
        BY <2>4, <2>d DEF AppendEvent, PhaseOf
      <3> QED BY <2>c, <3>1, <3>2
    <2>5. CASE PublishRun(p)
      <3>1. PhaseOf(p)'
        <4>1. /\ Len(events) = index.revision + 1 /\ owner = p
              /\ req[p] # NoEvent => req[p] = events[Len(events)]
              /\ PrepFor(p, events[Len(events)])
          BY <2>5, <2>d DEF PublishRun, PhaseOf
        <4>2. pc'[p] = "published" /\ UNCHANGED <<owner, events, index, req, prep>>
          BY <2>5, <2>a DEF PublishRun
        <4>3. PrepFor(p, events[Len(events)])' /\ Written(p)'
          BY <2>5, <4>1, <4>2 DEF PublishRun, PrepFor, Written
        <4> QED BY <4>1, <4>2, <4>3 DEF PhaseOf
      <3>2. owner = p /\ owner' = p
        BY <2>5, <2>d DEF PublishRun, PhaseOf
      <3> QED BY <2>c, <3>1, <3>2
    <2>6. CASE PublishIndex(p)
      <3>1. PhaseOf(p)'
        BY <2>6, <2>a, <2>d DEF PublishIndex, PhaseOf
      <3>2. owner = p /\ owner' = p
        BY <2>6, <2>d DEF PublishIndex, PhaseOf
      <3> QED BY <2>c, <3>1, <3>2
    <2>7. CASE Expire(p)
      BY <2>7, <2>a, <2>c, <2>d DEF Expire, storeVars, PhaseOf
    <2>8. CASE Leave(p)
      <3>1. PhaseOf(p)'
        BY <2>8, <2>a DEF Leave, PhaseOf
      <3>2. owner = p /\ owner' = Free
        BY <2>8 DEF Leave, Release
      <3> QED BY <2>c, <3>1, <3>2
    <2>9. CASE Crash(p)
      <3>1. PhaseOf(p)'
        BY <2>9, <2>a DEF Crash, PhaseOf
      <3>2. \/ owner = p /\ owner' = Stale
            \/ UNCHANGED <<events, runs, index, owner>>
        BY <2>9 DEF Crash, Abandon, storeVars
      <3> QED BY <2>c, <3>1, <3>2
    <2>10. CASE Repair(p)
      BY <2>10, <2>a, <2>c DEF Repair, storeVars, PhaseOf, Types
    <2>11. CASE RepairDecide(p)
      <3>1. /\ owner = p /\ owner' = p /\ req'[p] = NoEvent
            /\ UNCHANGED <<events, runs, index>>
        BY <2>11, <2>d DEF RepairDecide, storeVars, PhaseOf
      <3>2. CASE pc'[p] = "releasing"
        BY <3>1, <3>2, <2>c DEF PhaseOf
      <3>3. CASE pc'[p] # "releasing"
        <4> DEFINE e == events[Len(events)]
        <4>1. Repairable /\ pc'[p] \in {"appended", "published"}
          BY <2>a, <2>11, <3>3 DEF RepairDecide
        <4>2. /\ Len(events) = index.revision + 1 /\ e \in Requests /\ Ahead = e
              /\ Readable(e.runId) /\ e.sequence = index.revision + 1
          BY <4>1 DEF Repairable, Ahead, Last, Types, LogIsLinear
        <4>3. CASE RunPublished
          <5>1. /\ prep'[p] = [run |-> runs[e.runId],
                               index |-> deriveIndex(index, runs[e.runId], e.sequence)]
                /\ pc'[p] = "published"
            BY <2>a, <2>11, <4>1, <4>2, <4>3 DEF RepairDecide
          <5>2. e.runId \in DOMAIN runs
            BY <4>2, <4>3 DEF RunPublished, Snapshot
          <5>3. /\ runs[e.runId].transactionRevision = index.revision + 1
                /\ runs[e.runId].workflow = e.workflow
            BY <4>1, <4>2, <4>3 DEF RunPublished, Snapshot, Repairable
          <5>4. PrepFor(p, e)' /\ Written(p)'
            BY <3>1, <4>2, <5>1, <5>2, <5>3 DEF PrepFor, Written, Types
          <5> QED BY <2>c, <3>1, <4>2, <5>1, <5>4 DEF PhaseOf
        <4>4. CASE ~RunPublished
          <5>1. /\ prep'[p] = Prepared(index, Snapshot(e.runId), e)
                /\ pc'[p] = "appended"
                /\ Prepares(index, Snapshot(e.runId), e, authority[e.runId])
            BY <2>a, <2>11, <4>1, <4>2, <4>4 DEF RepairDecide, Repairable
          <5>2. PrepFor(p, e)' /\ Forward(p)'
            BY <3>1, <4>2, <5>1, PreparedFits DEF PrepFor, Forward
          <5> QED BY <2>c, <3>1, <4>2, <5>1, <5>2 DEF PhaseOf
        <4> QED BY <4>3, <4>4
      <3> QED BY <3>2, <3>3
    <2> QED BY <1>1, <2>1, <2>2, <2>3, <2>4, <2>5, <2>6, <2>7, <2>8, <2>9, <2>10, <2>11
           DEF Step
  <1>2. ASSUME NEW p \in Procs, NEW e \in Requests, Submit(p, e)
        PROVE  \A q \in Procs : PhaseOf(q)'
    <2>1. PhaseOf(p)'
      BY <1>2 DEF Submit, PhaseOf, Types
    <2>2. \A q \in Procs \ {p} : PhaseOf(q)'
      BY <1>2, OtherPhase DEF Submit, storeVars, Types
    <2> QED BY <2>1, <2>2
  <1>3. CASE ClearStaleLock
    <2>1. \A q \in Procs : pc[q] \notin Critical
      BY <1>3 DEF ClearStaleLock, Clear, Phases, Held
    <2> QED BY <1>0, <1>3, <2>1 DEF ClearStaleLock, Clear, PhaseOf
  <1>4. CASE (\E r \in RunIds : ReceiptStep(r)) \/ UNCHANGED vars
    <2>1. UNCHANGED <<owner, events, runs, index, pc, req, prep>>
      BY <1>4 DEF ReceiptStep, vars
    <2> QED BY <1>0, <2>1 DEF PhaseOf, EventFits, Replays, PrepFor, Forward, Written
  <1> QED BY <1>1, <1>2, <1>3, <1>4 DEF Next

-----------------------------------------------------------------------------
(* The files change in three ways only: an append, a snapshot, an index. *)
LEMMA FileSteps ==
  ASSUME Types, Phases, [Next]_vars
  PROVE  \/ /\ UNCHANGED <<events, runs, index>>
         \/ /\ \E p \in Procs : AppendEvent(p)
            /\ UNCHANGED <<runs, index>>
         \/ /\ \E p \in Procs : PublishRun(p)
            /\ UNCHANGED <<events, index>>
         \/ /\ \E p \in Procs : PublishIndex(p)
            /\ UNCHANGED <<events, runs>>
  BY DEF Next, Step, Submit, NoLock, Enter, Decide, AppendEvent, PublishRun, PublishIndex,
         Expire, Leave, Crash, ClearStaleLock, Repair, RepairDecide, ReceiptStep,
         storeVars, vars

(* The log stays linear. *)
LEMMA LogStep ==
  ASSUME Types, Phases, LogIsLinear, [Next]_vars
  PROVE  LogIsLinear'
  <1>1. CASE UNCHANGED <<events, index>>
    BY <1>1 DEF LogIsLinear
  <1>2. ASSUME NEW p \in Procs, AppendEvent(p), UNCHANGED index PROVE LogIsLinear'
    <2> DEFINE e == req[p]
               n == Len(events)
    <2>1. /\ e \in Requests /\ EventFits(index, e) /\ n = index.revision
          /\ Replays(e) = {}
      BY <1>2 DEF AppendEvent, Phases, PreparedInv
    <2>2. /\ Len(events') = n + 1 /\ n \in Nat
          /\ events'[n + 1] = e
          /\ \A i \in 1 .. n : events'[i] = events[i]
          /\ DOMAIN events = 1 .. n /\ DOMAIN events' = 1 .. n + 1
      BY <1>2, <2>1 DEF AppendEvent, Types
    <2>3. \A i \in DOMAIN events' :
             events'[i].sequence = i /\ events'[i].expected.indexRevision = i - 1
      BY <2>1, <2>2 DEF LogIsLinear, EventFits
    <2>4. \A i \in 1 .. n : events[i].eventId # e.eventId
      BY <2>1, <2>2 DEF Replays
    <2>5. \A i, j \in DOMAIN events' : events'[i].eventId = events'[j].eventId => i = j
      BY <2>2, <2>4 DEF LogIsLinear
    <2> HIDE DEF n
    <2>6. index'.revision \in {Len(events'), Len(events') - 1}
      BY <1>2, <2>1, <2>2
    <2> QED BY <2>3, <2>5, <2>6 DEF LogIsLinear
  <1>3. ASSUME NEW p \in Procs, PublishIndex(p), UNCHANGED events PROVE LogIsLinear'
    <2>1. /\ Len(events) = index.revision + 1
          /\ index' = deriveIndex(index, prep[p].run, index.revision + 1)
      BY <1>3 DEF PublishIndex, Phases, AheadInv, PrepFor
    <2>2. index'.revision = Len(events)
      BY <2>1 DEF deriveIndex
    <2> QED BY <1>3, <2>2 DEF LogIsLinear
  <1> QED BY <1>1, <1>2, <1>3, FileSteps

(* An index entry exists exactly for the runs that are not over. *)
LEMMA HintIsNone ==
  ASSUME NEW run \in Runs
  PROVE  statusHint(run) = None <=> run.status \in Terminal
  <1>1. run.status \in Statuses BY DEF Runs
  <1> QED BY <1>1 DEF statusHint, Statuses, Adoptable, Terminal, None

(* Snapshots and index part only over the run of the event ahead, and the  *)
(* write of the index brings them together again.                          *)
LEMMA FollowStep ==
  ASSUME Types, Phases, LogIsLinear, SnapshotsFollowIndex, [Next]_vars
  PROVE  SnapshotsFollowIndex'
  <1> USE DEF SnapshotsFollowIndex
  <1>0. index.revision \in Nat /\ Len(events) \in Nat
    BY DEF Types
  <1>1. CASE UNCHANGED <<events, runs, index>>
    BY <1>1 DEF Diverged, Ahead
  <1>2. ASSUME NEW p \in Procs, AppendEvent(p), UNCHANGED <<runs, index>>
        PROVE  SnapshotsFollowIndex'
    <2>1. ~Diverged
      BY <1>2 DEF AppendEvent, Phases, PreparedInv, Diverged
    <2> QED BY <1>2, <2>1
  <1>3. ASSUME NEW p \in Procs, PublishRun(p), UNCHANGED <<events, index>>
        PROVE  SnapshotsFollowIndex'
    <2> DEFINE run == prep[p].run
    <2>1. /\ Len(events) = index.revision + 1 /\ run.runId = events[Len(events)].runId
          /\ run.transactionRevision = index.revision + 1
      BY <1>3 DEF PublishRun, Phases, AheadInv, PrepFor
    <2>2. runs' = [r \in DOMAIN runs \cup {run.runId} |->
                      IF r = run.runId THEN run ELSE runs[r]]
      BY <1>3 DEF PublishRun
    <2>3. /\ Ahead.runId = run.runId /\ Ahead' = Ahead
          /\ Diverged /\ Diverged'
      BY <1>0, <1>3, <2>1 DEF Ahead, Last, Diverged
    <2> HIDE DEF run
    <2> QED BY <1>3, <2>1, <2>2, <2>3
  <1>4. ASSUME NEW p \in Procs, PublishIndex(p), UNCHANGED <<events, runs>>
        PROVE  SnapshotsFollowIndex'
    <2> DEFINE run == prep[p].run
               new == index.revision + 1
    <2>1. /\ Len(events) = new /\ run.runId = events[Len(events)].runId
          /\ run \in Runs /\ run.transactionRevision = new
          /\ index' = deriveIndex(index, run, new)
          /\ run.runId \in DOMAIN runs /\ runs[run.runId] = run
      BY <1>4 DEF PublishIndex, Phases, AheadInv, PrepFor, Written
    <2>2. Ahead.runId = run.runId
      BY <2>1 DEF Ahead, Last
    <2>3. EntryOf(run, new).runId = run.runId
      BY DEF EntryOf
    <2>4. statusHint(run) = None <=> run.status \in Terminal
      BY <2>1, HintIsNone
    <2> DEFINE own == EntryOf(run, new)
               terminal == run.status \in Terminal
    <2>5. /\ index'.revision = new
          /\ index'.entries = {entry \in index.entries : entry.runId # run.runId}
                                \cup (IF terminal THEN {} ELSE {own})
      BY <2>1, <2>4 DEF deriveIndex
    <2> HIDE DEF own, run
    <2>6. \A entry \in index'.entries : entry.runId \in DOMAIN runs
      BY <2>1, <2>3, <2>5 DEF own
    <2>7. \A r \in DOMAIN runs : r # run.runId =>
             /\ runs[r].transactionRevision <= index.revision
             /\ {entry \in index'.entries : entry.runId = r} =
                  {entry \in index.entries : entry.runId = r}
      BY <2>2, <2>3, <2>5 DEF own
    <2>8. /\ terminal => \A entry \in index'.entries : entry.runId # run.runId
          /\ ~terminal => {entry \in index'.entries : entry.runId = run.runId} = {own}
      BY <2>3, <2>5 DEF own
    <2>9. \A r \in DOMAIN runs : r # run.runId =>
             /\ runs[r].transactionRevision <= index'.revision
             /\ runs[r].status \notin Terminal =>
                  {entry \in index'.entries : entry.runId = r} =
                     {EntryOf(runs[r], runs[r].transactionRevision)}
             /\ runs[r].status \in Terminal =>
                  \A entry \in index'.entries : entry.runId # r
      <3> TAKE r \in DOMAIN runs
      <3> HAVE r # run.runId
      <3>1. runs[r].transactionRevision \in Nat BY DEF Types, Runs
      <3>2. runs[r].transactionRevision <= index'.revision
        BY <1>0, <2>5, <2>7, <3>1
      <3>3. \A entry \in index'.entries : entry.runId = r => entry \in index.entries
        BY <2>3, <2>5 DEF own
      <3>4. /\ runs[r].status \notin Terminal =>
                  {entry \in index.entries : entry.runId = r} =
                     {EntryOf(runs[r], runs[r].transactionRevision)}
            /\ runs[r].status \in Terminal =>
                  \A entry \in index.entries : entry.runId # r
        BY <2>2
      <3> QED BY <2>7, <3>2, <3>3, <3>4
    <2>10. /\ run.transactionRevision <= index'.revision
           /\ run.status \notin Terminal =>
                {entry \in index'.entries : entry.runId = run.runId} =
                   {EntryOf(run, run.transactionRevision)}
      BY <1>0, <2>1, <2>5, <2>8 DEF own
    <2> QED BY <1>4, <2>1, <2>6, <2>8, <2>9, <2>10
  <1> QED BY <1>1, <1>2, <1>3, <1>4, FileSteps

(* What was committed stays below the revision of the index. *)
LEMMA DurableStep ==
  ASSUME Types, Phases, LogIsLinear, CommittedIsDurable, [Next]_vars
  PROVE  CommittedIsDurable'
  <1> SUFFICES ASSUME NEW q \in Procs, outcome'[q] = "committed", req'[q] # NoEvent
               PROVE  \E i \in 1 .. index'.revision : events'[i] = req'[q]
    BY DEF CommittedIsDurable
  <1>a. ASSUME NEW p \in Procs, PublishIndex(p)
        PROVE  index'.revision = index.revision + 1
    <2>1. index' = deriveIndex(index, prep[p].run, index.revision + 1)
      BY <1>a DEF PublishIndex, Phases, AheadInv, PrepFor
    <2> QED BY <2>1 DEF deriveIndex
  <1>1. CASE outcome[q] = "committed" /\ req[q] = req'[q]
    <2>1. PICK i \in 1 .. index.revision : events[i] = req[q]
      BY <1>1 DEF CommittedIsDurable
    <2>2. index'.revision \in Nat /\ index'.revision >= index.revision
      BY <1>a, FileSteps DEF Types
    <2>3. i \in 1 .. Len(events) /\ i \in 1 .. index'.revision
      BY <2>1, <2>2 DEF LogIsLinear, Types
    <2>4. events'[i] = events[i]
      <3>1. ASSUME NEW p \in Procs, AppendEvent(p) PROVE events'[i] = events[i]
        <4>1. req[p] \in Requests
          BY <3>1 DEF AppendEvent, Phases, PreparedInv
        <4> QED BY <2>3, <3>1, <4>1 DEF AppendEvent, Types
      <3> QED BY <3>1, FileSteps
    <2> QED BY <1>1, <2>1, <2>3, <2>4
  <1>2. CASE ~(outcome[q] = "committed" /\ req[q] = req'[q])
    <2>0. DOMAIN outcome = Procs /\ DOMAIN req = Procs
      BY DEF Types
    <2>1. PublishIndex(q)
      BY <1>2, <2>0 DEF Next, Step, Submit, NoLock, Enter, Decide, AppendEvent, PublishRun,
                  PublishIndex, Expire, Leave, Crash, ClearStaleLock, Repair, RepairDecide,
                  ReceiptStep, Goto, Ends, vars
    <2>2. /\ Len(events) = index.revision + 1 /\ req' = req /\ events' = events
          /\ req[q] = events[Len(events)]
      BY <2>1 DEF PublishIndex, Phases, AheadInv
    <2>3. index'.revision = Len(events) /\ index'.revision \in Nat \ {0}
      BY <1>a, <2>1, <2>2 DEF Types
    <2> QED BY <2>2, <2>3
  <1> QED BY <1>1, <1>2

-----------------------------------------------------------------------------
(* Progress *)

(* createStartWork and createUlwRun: a run begins with its first attempt. *)
CreatesFirstAttempt ==
    \A e \in Requests : e.mutation.kind = "run_created" => e.mutation.run.progressRevision = 1

(* Every attempt before the run's present one has an acceptance. *)
Earned(run, receipts) ==
    \A n \in 1 .. run.progressRevision - 1 :
       \E i \in DOMAIN receipts.accepted : receipts.accepted[i].attempt = n

(* The runs that are written and the runs that are about to be have earned *)
(* their progress.                                                         *)
EarnedInv ==
    /\ authority \in [RunIds -> Authorities]
    /\ \A r \in DOMAIN runs : Earned(runs[r], authority[r])
    /\ \A p \in Procs : pc[p] \in {"prepared", "appended"} =>
          Earned(prep[p].run, authority[prep[p].run.runId])

(* Receipts are only ever added. *)
LEMMA ReceiptsGrow ==
  ASSUME Types, authority \in [RunIds -> Authorities], NEW r \in RunIds, ReceiptStep(r)
  PROVE  /\ authority' \in [RunIds -> Authorities]
         /\ \A run \in Runs, s \in RunIds : Earned(run, authority[s]) => Earned(run, authority'[s])
  <1> DEFINE run == runs[r]
             old == authority[r]
  <1>0. run \in Runs /\ old \in Authorities
    BY DEF ReceiptStep, Types
  <1>1. CASE authority' = [authority EXCEPT ![r] = Dispatched(run, @)]
    <2>1. run.epoch \in Nat BY <1>0 DEF Runs
    <2>2. Append(old.dispatched, run.epoch) \in Seq(Nat)
      BY <1>0, <2>1 DEF Authorities
    <2>3. Dispatched(run, old) \in Authorities /\ Dispatched(run, old).accepted = old.accepted
      BY <1>0, <2>2 DEF Dispatched, Authorities
    <2> HIDE DEF run, old
    <2>4. authority' = [authority EXCEPT ![r] = Dispatched(run, old)] BY <1>1 DEF old
    <2> QED BY <2>3, <2>4 DEF Earned, old
  <1>2. ASSUME NEW t \in TaskNames(run),
               authority' = [authority EXCEPT ![r] = Accepted(run, @, t, run.expectedHead)]
        PROVE  /\ authority' \in [RunIds -> Authorities]
               /\ \A other \in Runs, s \in RunIds :
                     Earned(other, authority[s]) => Earned(other, authority'[s])
    <2> DEFINE entry == [idempotencyKey |-> <<t, Len(old.accepted) + 1>>, taskId |-> t,
                         ownerSessionId |-> run.sessionId, ownerEpoch |-> run.epoch,
                         captureCommit |-> run.expectedHead,
                         taskGeneration |-> taskGeneration(run, old),
                         attempt |-> run.progressRevision, runRevision |-> run.revision]
               new == Append(old.accepted, entry)
    <2>1. t \in STRING
      <3>1. run.criteria \in Seq(Criteria) /\ run.taskIds \in Seq(STRING) BY <1>0 DEF Runs
      <3>2. CriterionIds(run) \subseteq STRING
        <4>1. \A i \in DOMAIN run.criteria : run.criteria[i] \in Criteria BY <3>1
        <4>2. \A c \in Criteria : c.id \in STRING BY DEF Criteria
        <4> QED BY <4>1, <4>2 DEF CriterionIds
      <3>3. ToSet(run.taskIds) \subseteq STRING BY <3>1 DEF ToSet
      <3> QED BY <1>2, <3>2, <3>3 DEF TaskNames
    <2>2. old.accepted \in Seq(Acceptances) BY <1>0 DEF Authorities
    <2>3. entry \in Acceptances
      <3>1. taskGeneration(run, old) \in Nat BY <1>0, GenerationTyped
      <3>2. Len(old.accepted) + 1 \in Nat BY <2>2
      <3>3. /\ run.sessionId \in STRING /\ run.epoch \in Nat /\ run.expectedHead \in STRING
            /\ run.progressRevision \in Nat /\ run.revision \in Nat
        BY <1>0 DEF Runs
      <3> HIDE DEF run, old
      <3> QED BY <2>1, <3>1, <3>2, <3>3 DEF Acceptances
    <2> HIDE DEF entry
    <2>4. /\ new \in Seq(Acceptances)
          /\ \A i \in DOMAIN old.accepted : i \in DOMAIN new /\ new[i] = old.accepted[i]
      BY <2>2, <2>3
    <2>5. Accepted(run, old, t, run.expectedHead) = [old EXCEPT !.accepted = new]
      BY DEF Accepted, entry
    <2> HIDE DEF new, run
    <2>6. /\ [old EXCEPT !.accepted = new] \in Authorities
          /\ [old EXCEPT !.accepted = new].accepted = new
      BY <1>0, <2>4 DEF Authorities
    <2> DEFINE updated == [old EXCEPT !.accepted = new]
    <2>7. authority' = [authority EXCEPT ![r] = updated]
      BY <1>2, <2>5
    <2> HIDE DEF updated
    <2>8. updated \in Authorities /\ updated.accepted = new
      BY <2>6 DEF updated
    <2>9. authority' \in [RunIds -> Authorities] BY <2>7, <2>8
    <2>10. \A other \in Runs : Earned(other, old) => Earned(other, updated)
      BY <2>4, <2>8 DEF Earned
    <2> QED BY <2>7, <2>9, <2>10
  <1> QED BY <1>1, <1>2 DEF ReceiptStep

(* What prepareTransition returns has earned its progress too. *)
LEMMA PreparedEarned ==
  ASSUME CreatesFirstAttempt, Types, EarnedInv, NEW e \in Requests, Readable(e.runId),
         Prepares(index, Snapshot(e.runId), e, authority[e.runId])
  PROVE  Earned(Prepared(index, Snapshot(e.runId), e).run, authority[e.runId])
  <1> DEFINE current == Snapshot(e.runId)
             next == NextRun(current, e)
             receipts == authority[e.runId]
  <1>0. WellFormed(e) /\ e.runId \in RunIds /\ receipts \in Authorities
    BY DEF WellFormed, EarnedInv
  <1>1. next \in Runs /\ Earned(next, receipts)
    <2>1. CASE e.mutation.kind = "run_created"
      <3>1. next \in Runs /\ next.progressRevision = 1
        BY <1>0, <2>1 DEF NextRun, WellFormed, CreatesFirstAttempt
      <3> HIDE DEF next
      <3> QED BY <3>1 DEF Earned
    <2>2. CASE e.mutation.kind # "run_created"
      <3>1. PICK run \in current : MutationFits(run, e, receipts)
        BY <2>2 DEF Prepares
      <3>2. e.runId \in DOMAIN runs /\ run = runs[e.runId] /\ current = {run}
        BY <3>1 DEF Snapshot
      <3>3. run \in Runs /\ Earned(run, receipts)
        BY <3>2 DEF Types, EarnedInv
      <3>4. RunDecodes(run) BY <3>1 DEF Readable
      <3>5. controlAllowed(run, e, receipts) BY <3>1 DEF MutationFits
      <3>6. next = controlRun(run, e.mutation)
        <4>1. (CHOOSE r \in current : TRUE) = run BY <3>2
        <4> QED BY <2>2, <4>1 DEF NextRun
      <3>7. next \in Runs BY <1>0, <3>3, <3>4, <3>5, <3>6, ControlRunTyped
      <3>8. next.progressRevision \in {run.progressRevision, run.progressRevision + 1}
        BY <1>0, <3>3, <3>5, <3>6, ControlRunSucceeds DEF Succeeds
      <3>9. CASE next.progressRevision = run.progressRevision
        BY <3>3, <3>7, <3>9 DEF Earned
      <3>10. CASE next.progressRevision # run.progressRevision
        <4>1. \E i \in DOMAIN receipts.accepted :
                 receipts.accepted[i].attempt = run.progressRevision
          BY <1>0, <3>3, <3>5, <3>6, <3>10, ProgressNeedsAcceptance
        <4>2. run.progressRevision \in Nat BY <3>3 DEF Runs
        <4>3. next.progressRevision - 1 = run.progressRevision
          BY <3>8, <3>10, <4>2
        <4>4. \A n \in 1 .. run.progressRevision :
                 n \in 1 .. run.progressRevision - 1 \/ n = run.progressRevision
          BY <4>2
        <4> HIDE DEF next, receipts
        <4> QED BY <3>3, <3>7, <4>1, <4>3, <4>4 DEF Earned
      <3> QED BY <3>9, <3>10
    <2> QED BY <2>1, <2>2
  <1> DEFINE published == [next EXCEPT !.transactionRevision = e.sequence]
  <1>2. Prepared(index, current, e).run = published
    BY DEF Prepared
  <1> HIDE DEF next
  <1>3. published.progressRevision = next.progressRevision
    BY <1>1 DEF Runs
  <1> HIDE DEF published, current, receipts
  <1>4. Earned(published, receipts)
    BY <1>1, <1>3 DEF Earned
  <1> QED BY <1>2, <1>4 DEF current, receipts

(* A receipt that advanced a run is spent in whatever is prepared next. *)
LEMMA EarnedStep ==
  ASSUME CreatesFirstAttempt, IInv, EarnedInv, [Next]_vars
  PROVE  EarnedInv'
  <1> USE DEF IInv, Goto, Ends
  <1>0. /\ pc \in [Procs -> PcValues] /\ DOMAIN prep = Procs
    BY DEF Types
  <1>1. ASSUME NEW r \in RunIds, ReceiptStep(r) PROVE EarnedInv'
    <2>1. UNCHANGED <<runs, pc, prep>> BY <1>1 DEF ReceiptStep
    <2>2. \A s \in DOMAIN runs : s \in RunIds /\ runs[s] \in Runs BY DEF Types
    <2>3. \A p \in Procs : pc[p] \in {"prepared", "appended"} =>
             prep[p].run \in Runs /\ prep[p].run.runId \in RunIds
      BY DEF Phases, PreparedInv, AheadInv, PrepFor, Runs
    <2>4. /\ authority' \in [RunIds -> Authorities]
          /\ \A run \in Runs, s \in RunIds : Earned(run, authority[s]) => Earned(run, authority'[s])
      BY <1>1, ReceiptsGrow DEF EarnedInv
    <2>5. \A s \in DOMAIN runs : Earned(runs[s], authority'[s])
      BY <2>2, <2>4 DEF EarnedInv
    <2>6. \A p \in Procs : pc[p] \in {"prepared", "appended"} =>
             Earned(prep[p].run, authority'[prep[p].run.runId])
      BY <2>3, <2>4 DEF EarnedInv
    <2> QED BY <2>1, <2>4, <2>5, <2>6 DEF EarnedInv
  <1>2. ASSUME NEW p \in Procs, PublishRun(p) PROVE EarnedInv'
    <2> DEFINE run == prep[p].run
    <2>1. Earned(run, authority[run.runId])
      BY <1>2 DEF PublishRun, EarnedInv
    <2>2. runs' = [r \in DOMAIN runs \cup {run.runId} |->
                      IF r = run.runId THEN run ELSE runs[r]]
      BY <1>2 DEF PublishRun
    <2>3. UNCHANGED <<authority, prep>> /\ \A q \in Procs : pc'[q] \in {pc[q], "published"}
      BY <1>0, <1>2 DEF PublishRun
    <2> HIDE DEF run
    <2>4. \A r \in DOMAIN runs' : Earned(runs'[r], authority[r])
      BY <2>1, <2>2 DEF EarnedInv
    <2> QED BY <2>3, <2>4 DEF EarnedInv
  <1>3. ASSUME NEW p \in Procs, Decide(p) \/ RepairDecide(p) PROVE EarnedInv'
    <2>1. UNCHANGED <<authority, runs, events, index>>
      BY <1>3 DEF Decide, RepairDecide, storeVars
    <2>2. \A q \in Procs \ {p} : pc'[q] = pc[q] /\ prep'[q] = prep[q]
      BY <1>0, <1>3 DEF Decide, RepairDecide
    <2>3. ASSUME pc'[p] \in {"prepared", "appended"}
          PROVE  \E e \in Requests : /\ Readable(e.runId)
                                     /\ Prepares(index, Snapshot(e.runId), e, authority[e.runId])
                                     /\ prep'[p] = Prepared(index, Snapshot(e.runId), e)
      <3>1. CASE Decide(p)
        BY <1>0, <2>3, <3>1 DEF Decide, Phases, RequestInv
      <3>2. CASE RepairDecide(p)
        <4>1. /\ Repairable /\ ~RunPublished
              /\ prep'[p] = Prepared(index, Snapshot(Ahead.runId), Ahead)
          BY <1>0, <2>3, <3>2 DEF RepairDecide
        <4>2. Ahead \in Requests
          BY <4>1 DEF Repairable, Ahead, Last, Types
        <4> QED BY <4>1, <4>2 DEF Repairable
      <3> QED BY <1>3, <3>1, <3>2
    <2>4. ASSUME pc'[p] \in {"prepared", "appended"}
          PROVE  Earned(prep'[p].run, authority[prep'[p].run.runId])
      <3>1. PICK e \in Requests : /\ Readable(e.runId)
                                 /\ Prepares(index, Snapshot(e.runId), e, authority[e.runId])
                                 /\ prep'[p] = Prepared(index, Snapshot(e.runId), e)
        BY <2>3, <2>4
      <3>2. prep'[p].run.runId = e.runId BY <3>1, PreparedFits
      <3> QED BY <3>1, <3>2, PreparedEarned
    <2> QED BY <2>1, <2>2, <2>4 DEF EarnedInv
  <1>4. CASE /\ UNCHANGED <<authority, runs>>
             /\ \A q \in Procs :
                   pc'[q] \in {"prepared", "appended"} =>
                      pc[q] \in {"prepared", "appended"} /\ prep'[q] = prep[q]
    BY <1>4 DEF EarnedInv
  <1>5. ASSUME NEW p \in Procs, \/ \E e \in Requests : Submit(p, e)
                               \/ NoLock(p) \/ Enter(p) \/ AppendEvent(p) \/ PublishIndex(p)
                               \/ Expire(p) \/ Leave(p) \/ Crash(p) \/ Repair(p)
        PROVE  /\ UNCHANGED <<authority, runs>>
               /\ \A q \in Procs :
                     pc'[q] \in {"prepared", "appended"} =>
                        pc[q] \in {"prepared", "appended"} /\ prep'[q] = prep[q]
    BY <1>0, <1>5 DEF Submit, NoLock, Enter, AppendEvent, PublishIndex, Expire, Leave, Crash,
                      Repair, storeVars
  <1>6. CASE ClearStaleLock \/ UNCHANGED vars
    BY <1>6 DEF ClearStaleLock, storeVars, vars, EarnedInv
  <1> QED BY <1>1, <1>2, <1>3, <1>4, <1>5, <1>6 DEF Next, Step

-----------------------------------------------------------------------------
(* Repair *)

(* The event ahead of the index is allowed by a receipt. *)
AheadNeedsReceipt == Diverged /\ Ahead.mutation.kind \in ReceiptBound

Fits(e) == Prepares(index, Snapshot(e.runId), e, authority[e.runId])

(* What is being committed is still allowed, and so is the event that was  *)
(* left ahead, unless its run is already published.                        *)
RedoInv ==
    /\ \A p \in Procs : pc[p] = "prepared" => Fits(req[p])
    /\ Diverged /\ ~AheadNeedsReceipt =>
         /\ RunPublished => runs[Ahead.runId].workflow = Ahead.workflow
         /\ ~RunPublished => Fits(Ahead)

(* Only the receipt-bound mutations look at the receipts. *)
LEMMA ReceiptFree ==
  ASSUME NEW i, NEW current, NEW e, NEW before, NEW after,
         e.mutation.kind \notin ReceiptBound, Prepares(i, current, e, before)
  PROVE  Prepares(i, current, e, after)
  BY DEF Prepares, MutationFits, controlAllowed, ReceiptBound

(* The event ahead of the index can be prepared again. *)
LEMMA RedoStep ==
  ASSUME IInv, SnapshotsFollowIndex, RedoInv, [Next]_vars
  PROVE  RedoInv'
  <1> USE DEF IInv, Goto, Ends
  <1>0. /\ pc \in [Procs -> PcValues] /\ DOMAIN req = Procs /\ index.revision \in Nat
        /\ events \in Seq(Requests)
    BY DEF Types
  <1>a. ASSUME UNCHANGED <<events, runs, index, authority>>,
               \A q \in Procs : pc'[q] = "prepared" => Fits(req'[q])
        PROVE  RedoInv'
    BY <1>a DEF RedoInv, Diverged, AheadNeedsReceipt, Ahead, RunPublished, Snapshot, Fits
  <1>1. ASSUME NEW r \in RunIds, ReceiptStep(r) PROVE RedoInv'
    <2>1. UNCHANGED <<events, runs, index, pc, req>> /\ \A q \in Procs : pc[q] # "prepared"
      BY <1>1 DEF ReceiptStep, Phases, Held, Critical, Free
    <2>2. ~AheadNeedsReceipt /\ Fits(Ahead) /\ Diverged => Fits(Ahead)'
      BY <2>1, ReceiptFree DEF Fits, AheadNeedsReceipt, Ahead, Snapshot
    <2> QED BY <2>1, <2>2 DEF RedoInv, Diverged, AheadNeedsReceipt, Ahead, RunPublished, Snapshot
  <1>2. ASSUME NEW p \in Procs, AppendEvent(p) PROVE RedoInv'
    <2> DEFINE e == req[p]
    <2>1. /\ e \in Requests /\ Len(events) = index.revision /\ owner = p
          /\ e.sequence = index.revision + 1 /\ Fits(e)
      BY <1>2 DEF AppendEvent, Phases, Held, Critical, PreparedInv, EventFits, RedoInv
    <2>2. /\ events' = Append(events, e) /\ pc' = [pc EXCEPT ![p] = "appended"]
          /\ UNCHANGED <<runs, index, authority, req>>
      BY <1>2 DEF AppendEvent
    <2>3. Ahead' = e
      BY <1>0, <2>1, <2>2 DEF Ahead, Last
    <2>4. ~RunPublished'
      <3>1. ~Diverged BY <2>1 DEF Diverged
      <3>2. \A r \in DOMAIN runs : /\ runs[r].transactionRevision <= index.revision
                                  /\ runs[r].transactionRevision \in Nat
        BY <3>1 DEF SnapshotsFollowIndex, Types, Runs
      <3> QED BY <1>0, <2>1, <2>2, <2>3, <3>2 DEF RunPublished, Snapshot
    <2>5. \A q \in Procs : pc'[q] # "prepared"
      BY <1>0, <2>1, <2>2 DEF Phases, Held, Critical
    <2>6. Fits(Ahead)'
      BY <2>1, <2>2, <2>3 DEF Fits, Snapshot
    <2> QED BY <2>4, <2>5, <2>6 DEF RedoInv
  <1>3. ASSUME NEW p \in Procs, PublishRun(p) PROVE RedoInv'
    <2> DEFINE run == prep[p].run
               e == events[Len(events)]
    <2>1. /\ Len(events) = index.revision + 1 /\ owner = p
          /\ run.runId = e.runId /\ run.workflow = e.workflow
          /\ run.transactionRevision = index.revision + 1
      BY <1>3 DEF PublishRun, Phases, Held, Critical, AheadInv, PrepFor
    <2>2. /\ runs' = [r \in DOMAIN runs \cup {run.runId} |->
                        IF r = run.runId THEN run ELSE runs[r]]
          /\ pc' = [pc EXCEPT ![p] = "published"]
          /\ UNCHANGED <<events, index, req>>
      BY <1>3 DEF PublishRun
    <2>3. Ahead' = e /\ e.sequence = index.revision + 1
      BY <1>0, <2>1, <2>2 DEF Ahead, Last, LogIsLinear
    <2> HIDE DEF run, e
    <2>4. e.runId \in DOMAIN runs' /\ runs'[e.runId] = run
      BY <2>1, <2>2
    <2>5. RunPublished' /\ runs'[Ahead'.runId].workflow = Ahead'.workflow
      BY <2>1, <2>3, <2>4 DEF RunPublished, Snapshot
    <2>6. \A q \in Procs : pc'[q] # "prepared"
      BY <1>0, <2>1, <2>2 DEF Phases, Held, Critical
    <2> QED BY <2>5, <2>6 DEF RedoInv
  <1>4. ASSUME NEW p \in Procs, PublishIndex(p) PROVE RedoInv'
    <2>1. Len(events) = index.revision + 1 /\ owner = p
          /\ index' = deriveIndex(index, prep[p].run, index.revision + 1)
      BY <1>4 DEF PublishIndex, Phases, Held, Critical, AheadInv, PrepFor
    <2>2. ~Diverged'
      BY <1>4, <2>1 DEF PublishIndex, Diverged, deriveIndex
    <2>3. \A q \in Procs : pc'[q] # "prepared"
      BY <1>0, <1>4, <2>1 DEF PublishIndex, Phases, Held, Critical
    <2> QED BY <2>2, <2>3 DEF RedoInv
  <1>5. ASSUME NEW p \in Procs, Decide(p) PROVE RedoInv'
    <2>1. UNCHANGED <<events, runs, index, authority, req>>
      BY <1>5 DEF Decide, storeVars
    <2>2. pc'[p] = "prepared" => Fits(req[p])
      BY <1>0, <1>5 DEF Decide, Fits
    <2>3. \A q \in Procs \ {p} : pc'[q] = pc[q]
      BY <1>0, <1>5 DEF Decide
    <2> QED BY <1>a, <2>1, <2>2, <2>3 DEF RedoInv
  <1>6. ASSUME NEW p \in Procs, \/ \E e \in Requests : Submit(p, e)
                               \/ NoLock(p) \/ Enter(p) \/ Expire(p) \/ Leave(p)
                               \/ Crash(p) \/ Repair(p) \/ RepairDecide(p)
        PROVE  /\ UNCHANGED <<events, runs, index, authority>>
               /\ \A q \in Procs : pc'[q] = "prepared" => pc[q] = "prepared" /\ req'[q] = req[q]
    BY <1>0, <1>6 DEF Submit, NoLock, Enter, Expire, Leave, Crash, Repair, RepairDecide, storeVars
  <1>7. CASE ClearStaleLock \/ UNCHANGED vars
    <2>1. UNCHANGED <<events, runs, index, authority, pc, req>>
      BY <1>7 DEF ClearStaleLock, storeVars, vars
    <2> QED BY <1>a, <2>1 DEF RedoInv
  <1>8. ASSUME UNCHANGED <<events, runs, index, authority>>,
               \A q \in Procs : pc'[q] = "prepared" => pc[q] = "prepared" /\ req'[q] = req[q]
        PROVE  RedoInv'
    BY <1>a, <1>8 DEF RedoInv
  <1> QED BY <1>1, <1>2, <1>3, <1>4, <1>5, <1>6, <1>7, <1>8 DEF Next, Step

-----------------------------------------------------------------------------
(* The theorems *)

(* The invariant of every behaviour. *)
LEMMA Inductive == Spec => []IInv
  <1>1. IInv /\ [Next]_vars => IInv'
    BY TypesStep, PhasesStep, LogStep, DurableStep DEF IInv
  <1> QED BY InitIInv, <1>1, PTL DEF Spec

(* Whatever is submitted, the files hold well-formed runs: every status is *)
(* known, no criterion counts more than three identical failures and no    *)
(* goal more than five cycles.                                             *)
THEOREM StoreTypeOK == Spec => []TypeOK
  <1>1. Types => TypeOK
    <2> SUFFICES ASSUME Types PROVE TypeOK
      OBVIOUS
    <2>1. \A i \in DOMAIN events : WellFormed(events[i])
      BY DEF Types
    <2>2. \A i \in DOMAIN events : events[i].sequence \in Nat /\ events[i].runId \in RunIds
      BY <2>1 DEF WellFormed
    <2> QED BY <2>2 DEF Types, TypeOK, LockTypeOK
  <1> QED BY <1>1, Inductive, PTL DEF IInv

(* No event is in the log twice, none is missing from it, and the index is *)
(* at most one event behind, for any number of processes that commit,      *)
(* expire, crash and repair.                                               *)
THEOREM LogIsLinearHolds == Spec => []LogIsLinear
  BY Inductive, PTL DEF IInv

(* commit reports an event as committed only when the index has applied it. *)
THEOREM CommittedIsDurableHolds == Spec => []CommittedIsDurable
  BY Inductive, PTL DEF IInv

(* However far a crash or an expired deadline let a commit come, run.json  *)
(* and active.json disagree at most about the run of the one event the     *)
(* index has not applied: every other run is listed exactly as its         *)
(* snapshot has it, and only while it is not over.                         *)
THEOREM SnapshotsFollowIndexHolds == Spec => []SnapshotsFollowIndex
  <1>1. Init => SnapshotsFollowIndex
    BY DEF Init, SnapshotsFollowIndex, EmptyIndex
  <1>2. IInv /\ SnapshotsFollowIndex /\ [Next]_vars => SnapshotsFollowIndex'
    BY FollowStep DEF IInv
  <1> QED BY <1>1, <1>2, Inductive, PTL DEF Spec

(* "State is last-commit or converged": what a crash or an expired         *)
(* deadline left behind can be repaired while the files can be read,       *)
(* except where the event ahead rests on receipts, which a later dispatch  *)
(* may have outdated (the counterexample of MCStoreReceipts.cfg).          *)
THEOREM DivergedIsRepairableHolds ==
  Spec => [](StoreStaysReadable /\ ~AheadNeedsReceipt => DivergedIsRepairable)
  <1>1. Init => RedoInv
    BY DEF Init, RedoInv, Diverged, EmptyIndex
  <1>2. IInv /\ SnapshotsFollowIndex /\ RedoInv /\ [Next]_vars => RedoInv'
    BY RedoStep
  <1>3. ASSUME IInv, RedoInv, StoreStaysReadable, ~AheadNeedsReceipt PROVE DivergedIsRepairable
    <2> SUFFICES ASSUME Diverged PROVE Repairable
      BY DEF DivergedIsRepairable
    <2> DEFINE n == Len(events)
    <2>1. n = index.revision + 1 /\ n \in DOMAIN events /\ events \in Seq(Requests)
      BY <1>3 DEF IInv, Types, LogIsLinear, Diverged
    <2>2. Ahead = events[n] /\ Ahead \in Requests
      BY <2>1 DEF Ahead, Last
    <2>3. Ahead.runId \in RunIds /\ Ahead.expected.indexRevision = index.revision
      BY <1>3, <2>1, <2>2 DEF WellFormed, IInv, LogIsLinear, Types
    <2>4. Readable(Ahead.runId)
      BY <1>3, <2>3 DEF StoreStaysReadable
    <2>5. RunPublished => runs[Ahead.runId].runId = Ahead.runId
      BY <1>3 DEF RunPublished, Snapshot, IInv, Types
    <2> QED BY <1>3, <2>1, <2>3, <2>4, <2>5 DEF RedoInv, Repairable, Fits
  <1>4. Spec => []SnapshotsFollowIndex
    BY SnapshotsFollowIndexHolds
  <1> QED BY <1>1, <1>2, <1>3, <1>4, Inductive, PTL DEF Spec

(* Every step of a run's progressRevision, a repaired one included, rests  *)
(* on a worker result accepted for exactly that attempt, whatever events   *)
(* are submitted, if runs are created as the commands create them.         *)
THEOREM ProgressIsEarnedHolds ==
  ASSUME CreatesFirstAttempt PROVE Spec => []ProgressIsEarned
  <1>1. Init => EarnedInv
    <2>1. EmptyAuthority \in Authorities BY DEF EmptyAuthority, Authorities
    <2> QED BY <2>1 DEF Init, EarnedInv
  <1>2. IInv /\ EarnedInv /\ [Next]_vars => EarnedInv'
    BY EarnedStep
  <1>3. EarnedInv => ProgressIsEarned
    BY DEF EarnedInv, Earned, ProgressIsEarned
  <1> QED BY <1>1, <1>2, <1>3, Inductive, PTL DEF Spec

(* A run.json is replaced only by a legal successor of what it holds. *)
THEOREM RunsAdvanceHolds == Spec => RunsAdvance
  <1> DEFINE A == \A r \in DOMAIN runs :
                     /\ r \in DOMAIN runs'
                     /\ runs'[r] # runs[r] => Succeeds(runs[r], runs'[r])
  <1>1. ASSUME IInv, [Next]_vars PROVE A
    <2>1. ASSUME NEW p \in Procs, PublishRun(p) PROVE A
      <3> DEFINE run == prep[p].run
      <3>1. run.runId \in DOMAIN runs => Succeeds(runs[run.runId], run)
        BY <1>1, <2>1 DEF IInv, PublishRun, Phases, AheadInv, Forward
      <3>2. runs' = [r \in DOMAIN runs \cup {run.runId} |->
                        IF r = run.runId THEN run ELSE runs[r]]
        BY <2>1 DEF PublishRun
      <3> HIDE DEF run
      <3> QED BY <3>1, <3>2
    <2> QED BY <1>1, <2>1, FileSteps DEF IInv
  <1>2. IInv /\ [Next]_vars => [A]_vars
    BY <1>1
  <1> QED BY <1>2, Inductive, PTL DEF Spec, RunsAdvance

(* The index write is the step of AtomicLog; all others are stutters. *)
LEMMA RefineStep ==
  ASSUME IInv, [Next]_vars
  PROVE  [AtomicLogView!TakeEffect]_<<SubSeq(events, 1, index.revision), index.entries>>
  <1> DEFINE n == index.revision
             log == SubSeq(events, 1, index.revision)
  <1>0. /\ n \in Nat /\ n <= Len(events) /\ events \in Seq(Requests)
    BY DEF IInv, Types, LogIsLinear
  <1>1. CASE UNCHANGED <<events, index>>
    BY <1>1
  <1>2. ASSUME NEW p \in Procs, AppendEvent(p), UNCHANGED index PROVE log' = log
    <2>1. req[p] \in Requests /\ events' = Append(events, req[p])
      BY <1>2 DEF AppendEvent, IInv, Phases, PreparedInv
    <2>2. \A i \in 1 .. n : events'[i] = events[i]
      BY <1>0, <2>1
    <2> QED BY <1>0, <1>2, <2>1, <2>2
  <1>3. ASSUME NEW p \in Procs, PublishIndex(p), UNCHANGED events
        PROVE  AtomicLogView!TakeEffect
    <2> DEFINE e == events[Len(events)]
    <2>1. /\ Len(events) = n + 1
          /\ prep[p].run.runId = e.runId
          /\ index' = deriveIndex(index, prep[p].run, n + 1)
      BY <1>3 DEF PublishIndex, IInv, Phases, AheadInv, PrepFor
    <2>2. index'.revision = n + 1
      BY <2>1 DEF deriveIndex
    <2>3. /\ Len(log) = n /\ Len(log') = n + 1
          /\ \A i \in 1 .. n : log[i] = events[i] /\ log'[i] = events[i]
          /\ log'[n + 1] = e
      BY <1>0, <1>3, <2>1, <2>2
    <2>4. e.expected.indexRevision = n
      BY <1>0, <2>1 DEF IInv, LogIsLinear
    <2>5. ASSUME NEW i \in 1 .. n PROVE events[i].eventId # e.eventId
      <3>1. i \in DOMAIN events /\ Len(events) \in DOMAIN events /\ i # Len(events)
        BY <1>0, <2>1
      <3> QED BY <3>1 DEF IInv, LogIsLinear
    <2>6. AtomicLogView!Others(index'.entries, e.runId)
            = AtomicLogView!Others(index.entries, e.runId)
      <3> DEFINE run == prep[p].run
                 own == EntryOf(run, n + 1)
      <3>1. own.runId = e.runId
        BY <2>1 DEF EntryOf
      <3>2. index'.entries = {entry \in index.entries : entry.runId # e.runId}
                             \cup (IF statusHint(run) = None THEN {} ELSE {own})
        BY <2>1 DEF deriveIndex
      <3> HIDE DEF own, run, e
      <3> QED BY <3>1, <3>2 DEF AtomicLogView!Others
    <2> HIDE DEF n, log, e
    <2> QED BY <1>0, <2>3, <2>4, <2>5, <2>6 DEF AtomicLogView!TakeEffect, log, n, e
  <1> QED BY <1>1, <1>2, <1>3, FileSteps DEF IInv

(* commit writes three files, and crashes and deadlines cut it short in    *)
(* between; readers of the index still see events take effect one by one,  *)
(* at most once, each changing its own run's entry only.                   *)
THEOREM StoreRefinesAtomicLog == Spec => ImplementsAtomicLog
  <1>1. Init => AtomicLogView!LogInit
    BY DEF Init, EmptyIndex, AtomicLogView!LogInit
  <1>2. IInv /\ [Next]_vars =>
          [AtomicLogView!TakeEffect]_<<SubSeq(events, 1, index.revision), index.entries>>
    BY RefineStep
  <1> QED BY <1>1, <1>2, Inductive, PTL
         DEF Spec, ImplementsAtomicLog, AtomicLogView!LogSpec

-----------------------------------------------------------------------------
(* The migration                                                           *)

Originals == Paths \ NewEvents
Source == [f \in Originals |-> Content(1, 0)]
SourceJournals == [phase : JournalPhases, source : {Source}]
Works == {"finalized", "verify_backup", "restore", "prepared", "backing_up", "copy", "copying",
          "backed_up", "stage", "staged", "publishing", "publish", "note", "mark"}
Loops == {"restore", "copy", "copying", "stage", "publish", "note"}
Labels == Works \cup {"idle", "current", "ready", "migrate", "recover", "migrating",
                      "recovering", "finalize", "forget", "leaving"}
Locals == [at : Labels, stage : {"none", "recover1", "recover2", "migrate1", "migrate2"},
           left : SUBSET Paths, journal : {NoJournal} \cup SourceJournals,
           awaited : BOOLEAN, result : {"none", "ok", "failed", "thrown"}]

(* All, some or none of the files have been replaced; nothing was committed. *)
Replaced(set) == \A f \in set : file[f] = Content(2, 0)
Original(set) == \A f \in set : file[f] = Content(1, 0)
Between == /\ \A f \in NewEvents : file[f] = Absent
           /\ \A f \in Originals : file[f] \in {Content(1, 0), Content(2, 0)}
BackedUp(set) == \A f \in set : backup[f] = Content(1, 0)
Current == /\ \A f \in Paths : file[f] = Absent \/ file[f].version = 2
           /\ \A f \in Originals : file[f].version = 2
MarkerSays == /\ DOMAIN marker = Originals
              /\ \A f \in Originals : marker[f] = Content(2, 0)

Untouched == {"absent"} \cup Unpublished

(* What the journal stands for, at any moment.                             *)
DiskInv ==
    /\ file \in [Paths -> Contents] /\ backup \in [Paths -> Contents]
    /\ journal \in {NoJournal} \cup SourceJournals
    /\ journal.phase # "committed" => Between
    /\ journal.phase \in Untouched => Original(Originals)
    /\ journal.phase \notin Untouched => BackedUp(Originals)
    /\ journal.phase = "committed" => Current

(* What the process may rely on at the point it has reached. *)
Where(p) ==
    LET l == local[p] IN
    /\ journal.phase = "committed" /\ l.at \notin {"idle", "current", "ready"} =>
          Between /\ Replaced(Originals) /\ MarkerSays
    /\ l.at = "current" => file[Active].version = 2
    /\ l.at = "ready" => journal.phase = "committed"
    /\ l.at \in {"migrate", "migrating"} => l.stage \in {"migrate1", "migrate2"}
    /\ l.at \in {"recover", "recovering", "verify_backup", "restore", "forget"} =>
          l.stage \in {"recover1", "recover2"}
    /\ l.at = "leaving" /\ l.result = "ok" /\ l.stage \in {"migrate1", "migrate2"} =>
          journal.phase = "committed"
    /\ l.at = "finalize" =>
          /\ l.journal = journal /\ journal.phase \notin Untouched
          /\ l.stage # "none" /\ (l.stage \in {"migrate1", "migrate2"} => journal.phase = "committed")
    /\ l.at \in Works => l.journal \in SourceJournals
    /\ l.at \in Loops => l.left # {} /\ l.left \subseteq Originals
    /\ l.at = "finalized" =>
          Between /\ Replaced(Originals) /\ MarkerSays /\ journal.phase \notin Untouched
    /\ l.at \in {"verify_backup", "restore"} => journal.phase \in {"backed_up", "staged", "publishing"}
    /\ l.at = "restore" => Original(Originals \ l.left)
    /\ l.at = "forget" => Between /\ Original(Originals)
    /\ l.at = "prepared" => journal = NoJournal
    /\ l.at = "backing_up" => journal.phase = "prepared"
    /\ l.at \in {"copy", "copying", "backed_up"} => journal.phase = "backing_up"
    /\ l.at \in {"copy", "copying"} => BackedUp(Originals \ l.left)
    /\ l.at = "backed_up" => BackedUp(Originals)
    /\ l.at \in {"stage", "staged"} => journal.phase = "backed_up"
    /\ l.at = "publishing" => journal.phase = "staged"
    /\ l.at \in {"publish", "note", "mark"} => journal.phase = "publishing"
    /\ l.at = "publish" => Replaced(Originals \ l.left)
    /\ l.at = "note" => Replaced((Originals \ l.left) \cup {Item(p)})
    /\ l.at = "mark" => Replaced(Originals)

MigrationInv ==
    /\ DiskInv
    /\ local \in [Procs -> Locals]
    /\ \A p \in Procs : Where(p)

(* What the others are while p is at it: not even on the way. *)
Alone(p) == \A q \in Procs \ {p} : At(q, "idle")

OneAtATime == \A p, q \in Procs : p # q => At(p, "idle") \/ At(q, "idle")

OrderlyInv == MigrationInv /\ (Settled \/ OneAtATime)

(* A loop takes one of the files that are left. *)
LEMMA FirstIsLeft ==
    ASSUME NEW left, left \subseteq Paths, left # {}
    PROVE  First(left) \in left
<1> DEFINE positions == {i \in DOMAIN Order : Order[i] \in left}
           R == {ss \in Nat \X Nat : ss[1] < ss[2]}
<1>1. positions \in SUBSET Nat /\ positions # {} /\ DOMAIN Order = 1 .. Len(Order) /\ Len(Order) \in Nat
    BY MigrationAssumption DEF Paths
<1>2. IsWellFoundedOn(R, Nat)
    <2>1. R = OpToRel(<, Nat) BY Zenon DEF OpToRel
    <2> QED BY <2>1, NatLessThanWellFounded
<1> HIDE DEF R, positions
<1>3. PICK i \in positions : \A j \in positions : ~(<<j, i>> \in R)
    BY <1>1, <1>2, WFMin
<1>4. i \in DOMAIN Order /\ Order[i] \in left
    BY DEF positions
<1>5. \A j \in 1 .. i - 1 : Order[j] \notin left
    <2> SUFFICES ASSUME NEW j \in 1 .. i - 1, Order[j] \in left PROVE FALSE
        OBVIOUS
    <2>1. j \in positions BY <1>1, <1>4 DEF positions
    <2>2. <<j, i>> \in R BY <1>1, <1>4 DEF R
    <2> QED BY <1>3, <2>1, <2>2
<1> QED BY <1>4, <1>5 DEF First

(* The contents a migration deals with differ. *)
LEMMA ContentsDiffer ==
    /\ \A v \in 0 .. 2, n \in Nat : Content(v, n) \in Contents
    /\ \A v, w, n, m : Content(v, n) = Content(w, m) => v = w /\ n = m
    /\ \A v, n : Content(v, n).version = v /\ Content(v, n).writes = n
    /\ \A n : Migrated(Content(1, n)) = Content(2, n)
<1>1. \A v, n : Content(v, n).version = v /\ Content(v, n).writes = n
    BY DEF Content
<1>2. \A v \in 0 .. 2, n \in Nat : Content(v, n) \in Contents
    BY DEF Content, Contents
<1>3. \A n : Migrated(Content(1, n)) = Content(2, n)
    BY DEF Content, Migrated
<1>4. \A v, w, n, m : Content(v, n) = Content(w, m) => v = w /\ n = m
    BY <1>1
<1> QED BY <1>1, <1>2, <1>3, <1>4

(* What the steps do to the place a process is at. *)
LEMMA GoOnFacts ==
    ASSUME local \in [Procs -> Locals], NEW p \in Procs, NEW at \in Labels, GoOn(p, at)
    PROVE  /\ local' \in [Procs -> Locals]
           /\ local'[p].at = at /\ local'[p].stage = local[p].stage
           /\ local'[p].journal = local[p].journal /\ local'[p].result = local[p].result
           /\ local[p].journal \in SourceJournals => local'[p].left = Originals
<1>1. DOMAIN local[p].journal.source \in SUBSET Paths
    <2>1. CASE local[p].journal = NoJournal
        <3>1. DOMAIN NoJournal.source = {} BY DEF NoJournal
        <3> QED BY <2>1, <3>1
    <2>2. CASE local[p].journal # NoJournal
        BY <2>2 DEF Locals, SourceJournals, Source, Originals
    <2> QED BY <2>1, <2>2
<1>2. local'[p] = [local[p] EXCEPT !.at = at, !.left = DOMAIN local[p].journal.source]
    BY DEF GoOn
<1>3. local' \in [Procs -> Locals]
    <2> DEFINE l == [local[p] EXCEPT !.at = at, !.left = DOMAIN local[p].journal.source]
    <2>1. l \in Locals BY <1>1 DEF Locals
    <2>2. local' = [local EXCEPT ![p] = l] BY DEF GoOn
    <2> HIDE DEF l
    <2> QED BY <2>1, <2>2
<1>4. local[p].journal \in SourceJournals => local'[p].left = Originals
    BY <1>2 DEF SourceJournals, Source, Locals
<1>5. local[p] \in Locals
    OBVIOUS
<1>6. /\ local'[p].at = at /\ local'[p].stage = local[p].stage
      /\ local'[p].journal = local[p].journal /\ local'[p].result = local[p].result
    BY <1>2, <1>5 DEF Locals
<1> QED BY <1>3, <1>4, <1>6

(* A return. *)
LEMMA ReturnsFacts ==
    ASSUME local \in [Procs -> Locals], NEW p \in Procs, NEW result \in {"ok", "failed", "thrown"},
           Returns(p, result)
    PROVE  /\ local' \in [Procs -> Locals]
           /\ local'[p].at = "leaving" /\ local'[p].result = result
           /\ local'[p].stage = local[p].stage
<1> DEFINE l == [local[p] EXCEPT !.at = "leaving", !.result = result]
<1> local[p] \in Locals OBVIOUS
<1>1. l \in Locals /\ l.at = "leaving" /\ l.result = result /\ l.stage = local[p].stage
    BY DEF Locals, Labels
<1>2. local' = [local EXCEPT ![p] = l] BY DEF Returns
<1>3. local' \in [Procs -> Locals] /\ local'[p] = l
    <2> HIDE DEF l
    <2> QED BY <1>1, <1>2
<1> HIDE DEF l
<1> QED BY <1>1, <1>3

(* The next call. *)
LEMMA StageFacts ==
    ASSUME local \in [Procs -> Locals], NEW p \in Procs, NEW at \in Labels,
           NEW stage \in {"none", "recover1", "recover2", "migrate1", "migrate2"},
           Stage(p, at, stage)
    PROVE  /\ local' \in [Procs -> Locals]
           /\ local'[p].at = at /\ local'[p].stage = stage
    BY DEF Stage, Locals, Labels, Idle

(* The start of a recovery or a migration from a journal. *)
LEMMA BeginFacts ==
    ASSUME local \in [Procs -> Locals], NEW p \in Procs, NEW at \in Labels,
           NEW j \in SourceJournals, NEW awaited \in BOOLEAN, Begin(p, at, j, awaited)
    PROVE  /\ local' \in [Procs -> Locals]
           /\ local'[p].at = at /\ local'[p].stage = local[p].stage
           /\ local'[p].journal = j /\ local'[p].left = Originals
<1>1. DOMAIN j.source = Originals /\ Originals \subseteq Paths BY DEF SourceJournals, Source, Originals
<1> DEFINE l == [local[p] EXCEPT !.at = at, !.left = DOMAIN j.source, !.journal = j,
                                 !.awaited = awaited]
<1>2. local[p] \in Locals OBVIOUS
<1>3. l \in Locals /\ l.at = at /\ l.stage = local[p].stage /\ l.journal = j /\ l.left = Originals
    BY <1>1, <1>2 DEF Locals
<1>4. local' = [local EXCEPT ![p] = l] BY DEF Begin
<1>5. local' \in [Procs -> Locals] /\ local'[p] = l
    <2> HIDE DEF l
    <2> QED BY <1>3, <1>4
<1> HIDE DEF l
<1> QED BY <1>3, <1>5

(* A turn of a loop. *)
LEMMA AdvanceFacts ==
    ASSUME local \in [Procs -> Locals], NEW p \in Procs, local[p].journal \in SourceJournals,
           NEW again \in Labels, NEW at \in Labels, Advance(p, again, at)
    PROVE  /\ local' \in [Procs -> Locals]
           /\ local'[p].stage = local[p].stage /\ local'[p].journal = local[p].journal
           /\ \/ /\ local[p].left = {Item(p)}
                 /\ local'[p].at = at /\ local'[p].left = Originals
              \/ /\ local[p].left # {Item(p)}
                 /\ local'[p].at = again /\ local'[p].left = local[p].left \ {Item(p)}
<1>1. CASE local[p].left = {Item(p)}
    <2>1. GoOn(p, at) BY <1>1 DEF Advance
    <2>2. local[p] \in Locals OBVIOUS
    <2> QED BY <1>1, <2>1, <2>2, GoOnFacts DEF Locals
<1>2. CASE local[p].left # {Item(p)}
    <2> DEFINE l == [local[p] EXCEPT !.at = again, !.left = @ \ {Item(p)}]
    <2>1. local[p] \in Locals OBVIOUS
    <2>2. /\ l \in Locals /\ l.at = again /\ l.stage = local[p].stage
          /\ l.journal = local[p].journal /\ l.left = local[p].left \ {Item(p)}
        BY <2>1 DEF Locals
    <2>3. local' = [local EXCEPT ![p] = l] BY <1>2 DEF Advance
    <2>4. local' \in [Procs -> Locals] /\ local'[p] = l
        <3> HIDE DEF l
        <3> QED BY <2>2, <2>3
    <2> HIDE DEF l
    <2> QED BY <1>2, <2>2, <2>4
<1> QED BY <1>1, <1>2

(* A step that leaves the disk alone. *)
LEMMA DiskStays == DiskInv /\ UNCHANGED disk => DiskInv'
    BY DEF DiskInv, disk, Between, Original, BackedUp, Current

(* An idle process relies on nothing: the invariant is about the place of  *)
(* the one that is not.                                                    *)
LEMMA OneWhere ==
    ASSUME NEW p \in Procs, Alone(p)', DiskInv', local' \in [Procs -> Locals], Where(p)'
    PROVE  MigrationInv'
<1> SUFFICES ASSUME NEW q \in Procs, q # p PROVE Where(q)'
    BY DEF MigrationInv
<1>1. local'[q].at = "idle"
    BY DEF Alone, At
<1> QED BY <1>1 DEF Where, Works, Loops

(* The preflight. *)
LEMMA PreflightWhere ==
    ASSUME MigrationInv, NEW p \in Procs, Alone(p)',
           ReadActive(p) \/ CheckJournal(p) \/ NoHandle(p) \/ LeaveCall(p)
    PROVE  MigrationInv'
<1> USE DEF MigrationInv
<1>1. DiskInv' /\ UNCHANGED disk
    BY DiskStays DEF ReadActive, CheckJournal, NoHandle, LeaveCall
<1>2. Where(p) /\ local[p] \in Locals
    OBVIOUS
<1>3. Active \in Originals
    BY MigrationAssumption DEF Originals
<1>4. file[Active].version = 2 => journal.phase \notin Untouched
    BY <1>3, ContentsDiffer DEF DiskInv, Original
<1>5. journal.phase = "committed" => file[Active].version = 2
    BY <1>3 DEF DiskInv, Current
<1> HIDE DEF MigrationInv
<1>6. ASSUME NEW at \in Labels,
             NEW stage \in {"none", "recover1", "recover2", "migrate1", "migrate2"},
             Stage(p, at, stage),
             \/ at = "idle"
             \/ at = "current" /\ file[Active].version = 2
             \/ at = "ready" /\ journal.phase = "committed"
             \/ /\ \/ at = "migrate" /\ stage \in {"migrate1", "migrate2"}
                   \/ at = "recover" /\ stage \in {"recover1", "recover2"}
                /\ journal.phase = "committed" => Between /\ Replaced(Originals) /\ MarkerSays
      PROVE  MigrationInv'
    <2>1. local' \in [Procs -> Locals] /\ local'[p].at = at /\ local'[p].stage = stage
        BY <1>6, StageFacts DEF MigrationInv
    <2>2. Where(p)'
        BY <1>1, <1>6, <2>1 DEF Where, Works, Loops, disk, Between, Replaced, MarkerSays
    <2> QED BY <1>1, <2>1, <2>2, OneWhere
<1>7. ASSUME NEW result, Continue(p, local[p].stage, result),
             local[p].at \in {"recover", "migrate", "leaving"},
             result = "ok" => local[p].at = "leaving" /\ local[p].result = "ok"
      PROVE  MigrationInv'
    <2>1. journal.phase = "committed" => Between /\ Replaced(Originals) /\ MarkerSays
        BY <1>2, <1>7 DEF Where
    <2>2. CASE Stage(p, "migrate", "migrate1")
        BY <1>6, <2>1, <2>2 DEF Labels
    <2>3. CASE Stage(p, "recover", "recover2")
        BY <1>6, <2>1, <2>3 DEF Labels
    <2>4. CASE Stage(p, "migrate", "migrate2")
        BY <1>6, <2>1, <2>4 DEF Labels
    <2>5. CASE /\ local[p].stage \in {"migrate1", "migrate2"} /\ result = "ok"
               /\ Stage(p, "ready", "none")
        <3>1. journal.phase = "committed" BY <1>2, <1>7, <2>5 DEF Where
        <3> QED BY <1>6, <2>5, <3>1 DEF Labels
    <2>6. CASE Stage(p, "idle", "none")
        BY <1>6, <2>6 DEF Labels
    <2> QED BY <1>7, <2>2, <2>3, <2>4, <2>5, <2>6 DEF Continue
<1>8. CASE ReadActive(p)
    <2>1. CASE file[Active].version = 2
        BY <1>6, <1>8, <2>1 DEF ReadActive, Labels
    <2>2. CASE file[Active].version # 2
        BY <1>5, <1>6, <1>8, <2>2 DEF ReadActive, Labels
    <2> QED BY <2>1, <2>2
<1>9. CASE CheckJournal(p)
    <2>1. CASE journal # NoJournal /\ journal.phase # "committed"
        BY <1>6, <1>9, <2>1 DEF CheckJournal, Labels
    <2>2. CASE ~(journal # NoJournal /\ journal.phase # "committed")
        <3>1. file[Active].version = 2 BY <1>2, <1>9 DEF CheckJournal, At, Where
        <3>2. journal.phase = "committed"
            BY <1>4, <2>2, <3>1 DEF NoJournal, Untouched
        <3> QED BY <1>6, <1>9, <2>2, <3>2 DEF CheckJournal, Labels
    <2> QED BY <2>1, <2>2
<1>10. CASE NoHandle(p)
    BY <1>7, <1>10 DEF NoHandle
<1>11. CASE LeaveCall(p)
    BY <1>7, <1>11 DEF LeaveCall, At
<1> QED BY <1>8, <1>9, <1>10, <1>11

(* The start of a call, its failures and its death leave the disk alone.   *)
LEMMA QuietWhere ==
    ASSUME MigrationInv, NEW p \in Procs, Alone(p)',
           EnterCall(p) \/ ReleaseUnawaited(p) \/ WriteFails(p) \/ ProcessDies(p)
    PROVE  MigrationInv'
<1>1. DiskInv' /\ UNCHANGED disk
    BY DiskStays DEF EnterCall, ReleaseUnawaited, WriteFails, ProcessDies, MigrationInv
<1>2. Where(p) /\ local[p] \in Locals /\ local \in [Procs -> Locals]
    BY DEF MigrationInv
<1> USE DEF Between, Replaced, MarkerSays, disk
<1>3. CASE EnterCall(p)
    <2>1. PICK at \in {"recovering", "migrating"} :
             /\ GoOn(p, at)
             /\ at = "recovering" => local[p].at = "recover"
             /\ at = "migrating" => local[p].at = "migrate"
        BY <1>3 DEF EnterCall, At
    <2>2. at \in Labels BY DEF Labels
    <2>3. local' \in [Procs -> Locals] /\ local'[p].at = at /\ local'[p].stage = local[p].stage
        BY <1>2, <2>1, <2>2, GoOnFacts
    <2>4. local[p].at \in {"recover", "migrate"} BY <1>3 DEF EnterCall
    <2>5. Where(p)'
        BY <1>1, <1>2, <2>1, <2>3, <2>4 DEF Where, Works, Loops
    <2> QED BY <1>1, <2>3, <2>5, OneWhere
<1>4. CASE ReleaseUnawaited(p)
    BY <1>1, <1>2, <1>4, OneWhere DEF ReleaseUnawaited, Where, Item, Original, BackedUp
<1>5. CASE WriteFails(p)
    <2>1. PICK result \in {"thrown", "failed"} : Returns(p, result)
        BY <1>5 DEF WriteFails
    <2>2. local' \in [Procs -> Locals] /\ local'[p].at = "leaving" /\ local'[p].result = result
        BY <1>2, <2>1, ReturnsFacts
    <2>3. local[p].at \notin {"idle", "current", "ready"}
        BY <1>5 DEF WriteFails, Writing, NextLabel
    <2>4. Where(p)'
        BY <1>1, <1>2, <2>2, <2>3 DEF Where, Works, Loops
    <2> QED BY <1>1, <2>2, <2>4, OneWhere
<1>6. CASE ProcessDies(p)
    <2>1. Idle \in Locals BY DEF Idle, Locals, Labels
    <2>2. local' \in [Procs -> Locals] /\ local'[p].at = "idle"
        BY <1>2, <1>6, <2>1 DEF ProcessDies, Idle
    <2>3. Where(p)'
        BY <2>2 DEF Where, Works, Loops
    <2> QED BY <1>1, <2>2, <2>3, OneWhere
<1> QED BY <1>3, <1>4, <1>5, <1>6

(* A journal that is there is of the originals. *)
LEMMA JournalFacts ==
    ASSUME DiskInv
    PROVE  /\ journal # NoJournal => journal \in SourceJournals
           /\ journal.phase \in JournalPhases \cup {"absent"}
           /\ journal = NoJournal <=> journal.phase = "absent"
    BY DEF DiskInv, SourceJournals, NoJournal, JournalPhases

(* Recovery, until it writes. *)
LEMMA RecoverWhere ==
    ASSUME MigrationInv, NEW p \in Procs, Alone(p)',
           RecoverRead(p) \/ Finalize(p) \/ VerifyBackup(p)
    PROVE  MigrationInv'
<1>1. DiskInv' /\ UNCHANGED disk
    BY DiskStays DEF RecoverRead, Finalize, VerifyBackup, MigrationInv
<1>2. Where(p) /\ local[p] \in Locals /\ local \in [Procs -> Locals] /\ DiskInv
    BY DEF MigrationInv
<1> USE DEF Between, Replaced, Original, MarkerSays, disk
<1>3. CASE RecoverRead(p)
    <2>1. /\ local[p].stage \in {"recover1", "recover2"}
          /\ journal.phase = "committed" => Between /\ Replaced(Originals) /\ MarkerSays
        BY <1>2, <1>3 DEF RecoverRead, At, Where
    <2>2. CASE Returns(p, "ok")
        <3>1. local' \in [Procs -> Locals] /\ local'[p].at = "leaving" /\ local'[p].stage = local[p].stage
            BY <1>2, <2>2, ReturnsFacts
        <3>2. Where(p)'
            BY <1>1, <2>1, <3>1 DEF Where, Works, Loops
        <3> QED BY <1>1, <3>1, <3>2, OneWhere
    <2>3. CASE journal.phase \in Unpublished /\ Begin(p, "forget", journal, FALSE)
        <3>1. journal \in SourceJournals /\ journal.phase # "committed"
            BY <1>2, <2>3, JournalFacts DEF Unpublished, NoJournal
        <3>2. local' \in [Procs -> Locals] /\ local'[p].at = "forget" /\ local'[p].stage = local[p].stage
            <4>1. "forget" \in Labels BY DEF Labels
            <4> QED BY <1>2, <2>3, <3>1, <4>1, BeginFacts
        <3>3. Between /\ Original(Originals)
            BY <1>2, <2>3, <3>1 DEF DiskInv, Untouched
        <3>4. Where(p)'
            BY <1>1, <2>1, <3>1, <3>2, <3>3 DEF Where, Works, Loops
        <3> QED BY <1>1, <3>2, <3>4, OneWhere
    <2>4. ASSUME NEW awaited \in BOOLEAN, Begin(p, "finalize", journal, awaited),
                 journal.phase \in JournalPhases \ Unpublished
          PROVE  MigrationInv'
        <3>1. journal \in SourceJournals /\ journal.phase \notin Untouched
            BY <1>2, <2>4, JournalFacts DEF Untouched, NoJournal, JournalPhases
        <3>2. /\ local' \in [Procs -> Locals] /\ local'[p].at = "finalize"
              /\ local'[p].stage = local[p].stage /\ local'[p].journal = journal
            <4>1. "finalize" \in Labels BY DEF Labels
            <4> QED BY <1>2, <2>4, <3>1, <4>1, BeginFacts
        <3>3. Where(p)'
            BY <1>1, <2>1, <3>1, <3>2 DEF Where, Works, Loops
        <3> QED BY <1>1, <3>2, <3>3, OneWhere
    <2>5. "committed" \in JournalPhases \ Unpublished
        BY DEF JournalPhases, Unpublished
    <2> QED BY <1>3, <2>2, <2>3, <2>4, <2>5 DEF RecoverRead
<1>4. CASE Finalize(p)
    <2>1. /\ local[p].journal = journal /\ journal.phase \notin Untouched
          /\ journal \in SourceJournals
          /\ local[p].stage \in {"migrate1", "migrate2"} => journal.phase = "committed"
          /\ journal.phase = "committed" => Between /\ Replaced(Originals) /\ MarkerSays
        BY <1>2, <1>4, JournalFacts DEF Finalize, At, Where, Untouched, NoJournal
    <2>2. Complete(journal) <=> Replaced(Originals) /\ MarkerSays
        BY <2>1, ContentsDiffer DEF Complete, SourceJournals, Source
    <2>3. CASE Complete(journal)
        <3>1. /\ local' \in [Procs -> Locals] /\ local'[p].at = "finalized"
              /\ local'[p].stage = local[p].stage /\ local'[p].journal = journal
            <4>1. "finalized" \in Labels BY DEF Labels, Works
            <4> QED BY <1>2, <1>4, <2>1, <2>3, <4>1, GoOnFacts DEF Finalize
        <3>2. Between BY <1>2, <2>1 DEF DiskInv
        <3>3. Where(p)'
            BY <1>1, <2>1, <2>2, <2>3, <3>1, <3>2 DEF Where, Works, Loops
        <3> QED BY <1>1, <3>1, <3>3, OneWhere
    <2>4. CASE ~Complete(journal)
        <3>1. /\ local' \in [Procs -> Locals] /\ local'[p].at = "verify_backup"
              /\ local'[p].stage = local[p].stage /\ local'[p].journal = journal
            <4>1. "verify_backup" \in Labels BY DEF Labels, Works
            <4> QED BY <1>2, <1>4, <2>1, <2>4, <4>1, GoOnFacts DEF Finalize
        <3>2. journal.phase \in {"backed_up", "staged", "publishing"}
            BY <1>2, <2>1, <2>2, <2>4, JournalFacts DEF Untouched, Unpublished, JournalPhases
        <3>3. local[p].stage \in {"recover1", "recover2"}
            <4>1. local[p].stage \notin {"migrate1", "migrate2"} BY <2>1, <3>2
            <4>2. local[p].stage # "none" BY <1>2, <1>4 DEF Finalize, At, Where
            <4>3. local[p].stage \in {"none", "recover1", "recover2", "migrate1", "migrate2"}
                BY <1>2 DEF Locals
            <4> QED BY <4>1, <4>2, <4>3
        <3>4. Where(p)'
            BY <1>1, <2>1, <3>1, <3>2, <3>3 DEF Where, Works, Loops
        <3> QED BY <1>1, <3>1, <3>4, OneWhere
    <2> QED BY <2>3, <2>4
<1>5. CASE VerifyBackup(p)
    <2>1. /\ local[p].journal \in SourceJournals
          /\ local[p].stage \in {"recover1", "recover2"}
          /\ journal.phase \in {"backed_up", "staged", "publishing"}
        BY <1>2, <1>5 DEF VerifyBackup, At, Where, Works
    <2>2. CASE GoOn(p, "restore")
        <3>1. /\ local' \in [Procs -> Locals] /\ local'[p].at = "restore"
              /\ local'[p].stage = local[p].stage /\ local'[p].journal = local[p].journal
              /\ local'[p].left = Originals
            <4>1. "restore" \in Labels BY DEF Labels, Works
            <4> QED BY <1>2, <2>1, <2>2, <4>1, GoOnFacts
        <3>2. Originals # {} BY MigrationAssumption DEF Originals
        <3>3. Where(p)'
            BY <1>1, <2>1, <3>1, <3>2 DEF Where, Works, Loops
        <3> QED BY <1>1, <3>1, <3>3, OneWhere
    <2>3. CASE Returns(p, "failed")
        <3>1. local' \in [Procs -> Locals] /\ local'[p].at = "leaving" /\ local'[p].result = "failed"
            BY <1>2, <2>3, ReturnsFacts
        <3>2. Where(p)'
            BY <1>1, <2>1, <3>1 DEF Where, Works, Loops
        <3> QED BY <1>1, <3>1, <3>2, OneWhere
    <2> QED BY <1>5, <2>2, <2>3 DEF VerifyBackup
<1> QED BY <1>3, <1>4, <1>5

(* What no write of a file may undo. *)
Kept == \A f \in Present : f \in Present' /\ file'[f].writes >= file[f].writes

(* Replacing one file of the originals, before any commit. *)
LEMMA WriteKeeps ==
    ASSUME DiskInv, Between, NEW f \in Originals, NEW v \in {1, 2},
           file' = [file EXCEPT ![f] = Content(v, 0)]
    PROVE  /\ file' \in [Paths -> Contents] /\ Between' /\ file'[f] = Content(v, 0) /\ Kept
           /\ \A g \in Paths \ {f} : file'[g] = file[g]
<1>1. f \in Paths /\ file \in [Paths -> Contents] /\ v \in 0 .. 2
    BY DEF Originals, DiskInv
<1>2. file' \in [Paths -> Contents] /\ file'[f] = Content(v, 0)
      /\ \A g \in Paths \ {f} : file'[g] = file[g]
    BY <1>1, ContentsDiffer
<1>3. Between'
    <2>1. v = 1 \/ v = 2 OBVIOUS
    <2>2. \A g \in NewEvents : g \in Paths \ {f} BY MigrationAssumption DEF Originals
    <2> QED BY <1>2, <2>1, <2>2 DEF Between, Originals
<1>4. Kept
    <2> SUFFICES ASSUME NEW g \in Present PROVE g \in Present' /\ file'[g].writes >= file[g].writes
        BY DEF Kept
    <2>1. g \in Paths /\ file[g] # Absent BY DEF Present
    <2>2. CASE g = f
        <3>1. file[f].writes = 0 BY ContentsDiffer DEF Between
        <3>2. Content(v, 0) # Absent /\ Content(v, 0).writes = 0 BY ContentsDiffer DEF Absent
        <3> QED BY <1>2, <2>1, <2>2, <3>1, <3>2 DEF Present
    <2>3. CASE g # f
        <3>1. file[g].writes \in Nat BY <1>1, <2>1 DEF Contents
        <3> QED BY <1>2, <2>1, <2>3, <3>1 DEF Present
    <2> QED BY <2>2, <2>3
<1> QED BY <1>2, <1>3, <1>4

(* The writes of a recovery. *)
LEMMA RecoverWrites ==
    ASSUME MigrationInv, NEW p \in Procs, Alone(p)', WriteFinal(p) \/ RestoreFile(p) \/ Forget(p)
    PROVE  MigrationInv' /\ Kept
<1>2. Where(p) /\ local[p] \in Locals /\ local \in [Procs -> Locals] /\ DiskInv
    BY DEF MigrationInv
<1>3. file' = file => Kept
    <2>1. \A f \in Paths : file[f].writes \in Nat BY <1>2 DEF DiskInv, Contents
    <2> QED BY <2>1 DEF Kept, Present
<1>4. CASE WriteFinal(p)
    <2>1. /\ local[p].journal \in SourceJournals
          /\ Between /\ Replaced(Originals) /\ MarkerSays /\ journal.phase \notin Untouched
        BY <1>2, <1>4 DEF WriteFinal, At, Where, Works
    <2>2. /\ local' \in [Procs -> Locals] /\ local'[p].at = "leaving"
        BY <1>2, <1>4, ReturnsFacts DEF WriteFinal
    <2>3. journal' \in SourceJournals /\ journal'.phase = "committed"
        BY <1>4, <2>1 DEF WriteFinal, SourceJournals, JournalPhases
    <2>4. UNCHANGED <<file, backup, marker>> BY <1>4 DEF WriteFinal
    <2>5. Current
        BY <2>1, ContentsDiffer, MigrationAssumption DEF Current, Between, Replaced, Originals
    <2>6. DiskInv'
        BY <1>2, <2>1, <2>3, <2>4, <2>5 DEF DiskInv, Untouched, Unpublished, BackedUp, Current
    <2>7. Where(p)'
        BY <2>1, <2>2, <2>3, <2>4 DEF Where, Works, Loops, Between, Replaced, MarkerSays
    <2> QED BY <1>3, <2>2, <2>4, <2>6, <2>7, OneWhere
<1>5. CASE RestoreFile(p)
    <2> DEFINE f == Item(p)
    <2>1. /\ local[p].journal \in SourceJournals /\ local[p].left # {} /\ local[p].left \subseteq Originals
          /\ journal.phase \in {"backed_up", "staged", "publishing"}
          /\ Original(Originals \ local[p].left) /\ local[p].stage \in {"recover1", "recover2"}
        BY <1>2, <1>5 DEF RestoreFile, At, Where, Works, Loops
    <2>2. f \in local[p].left /\ f \in Originals
        BY <2>1, FirstIsLeft DEF Originals, Item
    <2>3. Between /\ BackedUp(Originals)
        BY <1>2, <2>1 DEF DiskInv, Untouched, Unpublished
    <2>4. file' = [file EXCEPT ![f] = Content(1, 0)]
        BY <1>5, <2>2, <2>3 DEF RestoreFile, BackedUp
    <2>5. UNCHANGED <<journal, backup, marker>> BY <1>5 DEF RestoreFile
    <2> HIDE DEF f
    <2>6. /\ file' \in [Paths -> Contents] /\ Between' /\ file'[f] = Content(1, 0) /\ Kept
          /\ \A g \in Paths \ {f} : file'[g] = file[g]
        <3>1. 1 \in {1, 2} OBVIOUS
        <3> QED BY <1>2, <2>2, <2>3, <2>4, <3>1, WriteKeeps
    <2>7. \A g \in (Originals \ local[p].left) \cup {f} : file'[g] = Content(1, 0)
        BY <2>1, <2>6 DEF Original, Originals
    <2>8. DiskInv'
        BY <1>2, <2>1, <2>3, <2>5, <2>6 DEF DiskInv, Untouched, Unpublished, BackedUp
    <2>9. /\ local' \in [Procs -> Locals] /\ local'[p].stage = local[p].stage
          /\ local'[p].journal = local[p].journal
          /\ \/ local[p].left = {f} /\ local'[p].at = "forget"
             \/ local[p].left # {f} /\ local'[p].at = "restore" /\ local'[p].left = local[p].left \ {f}
        <3>1. "restore" \in Labels /\ "forget" \in Labels BY DEF Labels, Works
        <3> QED BY <1>2, <1>5, <2>1, <3>1, AdvanceFacts DEF RestoreFile, f
    <2>10. CASE local'[p].at = "forget"
        <3>1. Original(Originals)' BY <2>7, <2>9, <2>10 DEF Original
        <3>2. Where(p)'
            BY <2>1, <2>5, <2>6, <2>9, <2>10, <3>1 DEF Where, Works, Loops
        <3> QED BY <2>6, <2>8, <2>9, <3>2, OneWhere
    <2>11. CASE local'[p].at = "restore"
        <3>1. local'[p].left = local[p].left \ {f}
            BY <2>9, <2>11
        <3>2. (Original(Originals \ local[p].left))'
            BY <2>7, <3>1 DEF Original
        <3>3. local'[p].left # {} /\ local'[p].left \subseteq Originals
            BY <2>1, <2>2, <2>9, <2>11
        <3>4. Where(p)'
            BY <2>1, <2>5, <2>6, <2>9, <2>11, <3>2, <3>3 DEF Where, Works, Loops
        <3> QED BY <2>6, <2>8, <2>9, <3>4, OneWhere
    <2> QED BY <2>9, <2>10, <2>11
<1>6. CASE Forget(p)
    <2>1. Between /\ Original(Originals) /\ local[p].stage \in {"recover1", "recover2"}
        BY <1>2, <1>6 DEF Forget, At, Where
    <2>2. PICK result \in {"ok", "thrown", "failed"} : Returns(p, result)
        BY <1>6 DEF Forget
    <2>3. /\ local' \in [Procs -> Locals] /\ local'[p].at = "leaving" /\ local'[p].stage = local[p].stage
        BY <1>2, <2>2, ReturnsFacts
    <2>4. journal' = NoJournal /\ journal'.phase = "absent" /\ UNCHANGED <<file, backup, marker>>
        BY <1>6 DEF Forget, NoJournal
    <2>5. DiskInv'
        BY <1>2, <2>1, <2>4 DEF DiskInv, Untouched, Between, Original
    <2>6. Where(p)'
        BY <2>1, <2>3, <2>4 DEF Where, Works, Loops
    <2> QED BY <1>3, <2>3, <2>4, <2>5, <2>6, OneWhere
<1> QED BY <1>4, <1>5, <1>6

(* The migration, until it writes. *)
LEMMA MigrateReadWhere ==
    ASSUME MigrationInv, NEW p \in Procs, Alone(p)', MigrateRead(p)
    PROVE  MigrationInv'
<1>1. DiskInv' /\ UNCHANGED disk
    BY DiskStays DEF MigrateRead, MigrationInv
<1>2. Where(p) /\ local[p] \in Locals /\ local \in [Procs -> Locals] /\ DiskInv
    BY DEF MigrationInv
<1>3. /\ local[p].stage \in {"migrate1", "migrate2"}
      /\ journal.phase = "committed" => Between /\ Replaced(Originals) /\ MarkerSays
    BY <1>2 DEF MigrateRead, At, Where
<1>4. journal = NoJournal => Between /\ Original(Originals) /\ Present = Originals
    <2>1. journal = NoJournal => Between /\ Original(Originals)
        BY <1>2 DEF DiskInv, NoJournal, Untouched
    <2>2. Between /\ Original(Originals) => Present = Originals
        BY ContentsDiffer, MigrationAssumption DEF Between, Original, Present, Originals, Absent
    <2> QED BY <2>1, <2>2
<1> USE DEF Between, Replaced, Original, MarkerSays, disk
<1>5. CASE journal.phase = "committed" /\ Begin(p, "finalize", journal, TRUE)
    <2>1. journal \in SourceJournals /\ journal.phase \notin Untouched
        BY <1>2, <1>5, JournalFacts DEF NoJournal, Untouched, Unpublished
    <2>2. /\ local' \in [Procs -> Locals] /\ local'[p].at = "finalize"
          /\ local'[p].stage = local[p].stage /\ local'[p].journal = journal
        <3>1. "finalize" \in Labels BY DEF Labels
        <3> QED BY <1>2, <1>5, <2>1, <3>1, BeginFacts
    <2>3. Where(p)'
        BY <1>1, <1>3, <1>5, <2>1, <2>2 DEF Where, Works, Loops
    <2> QED BY <1>1, <2>2, <2>3, OneWhere
<1>6. CASE Returns(p, "failed")
    <2>1. local' \in [Procs -> Locals] /\ local'[p].at = "leaving" /\ local'[p].result = "failed"
        BY <1>2, <1>6, ReturnsFacts
    <2>2. Where(p)'
        BY <1>1, <1>3, <2>1 DEF Where, Works, Loops
    <2> QED BY <1>1, <2>1, <2>2, OneWhere
<1>7. CASE journal = NoJournal /\ \A f \in Present : file[f].version = 2
    <2>1. Active \in Present /\ file[Active] = Content(1, 0)
        BY <1>4, <1>7, MigrationAssumption DEF Originals
    <2> QED BY <1>7, <2>1, ContentsDiffer
<1>8. CASE /\ journal = NoJournal
           /\ Begin(p, "prepared", [phase |-> "prepared", source |-> [f \in Present |-> file[f]]], TRUE)
    <2> DEFINE j == [phase |-> "prepared", source |-> [f \in Present |-> file[f]]]
    <2>1. [f \in Present |-> file[f]] = Source
        BY <1>4, <1>8 DEF Source
    <2>2. j \in SourceJournals
        BY <2>1 DEF SourceJournals, JournalPhases
    <2> HIDE DEF j
    <2>3. /\ local' \in [Procs -> Locals] /\ local'[p].at = "prepared" /\ local'[p].journal = j
        <3>1. "prepared" \in Labels /\ Begin(p, "prepared", j, TRUE) BY <1>8 DEF Labels, Works, j
        <3> QED BY <1>2, <2>2, <3>1, BeginFacts
    <2>4. journal.phase = "absent" BY <1>8 DEF NoJournal
    <2>5. Where(p)'
        BY <1>1, <1>8, <2>2, <2>3, <2>4 DEF Where, Works, Loops
    <2> QED BY <1>1, <2>3, <2>5, OneWhere
<1> QED BY <1>5, <1>6, <1>7, <1>8 DEF MigrateRead

(* A write of the journal goes with the next phase. *)
LEMMA PhaseWhere ==
    ASSUME MigrationInv, NEW p \in Procs, Alone(p)', WritePhase(p)
    PROVE  MigrationInv'
<1>2. Where(p) /\ local[p] \in Locals /\ local \in [Procs -> Locals] /\ DiskInv
    BY DEF MigrationInv
<1>3. UNCHANGED <<file, backup, marker>>
    BY DEF WritePhase
<1>4. local[p].at \in {"prepared", "backing_up", "backed_up", "staged", "publishing"}
    BY DEF WritePhase, NextLabel
<1>5. local[p].journal \in SourceJournals
    BY <1>2, <1>4 DEF Where, Works
<1>6. journal' \in SourceJournals /\ journal'.phase = local[p].at
    BY <1>4, <1>5 DEF WritePhase, SourceJournals, JournalPhases
<1>7. NextLabel[local[p].at] \in Labels
    BY <1>4 DEF NextLabel, Labels, Works
<1>8. /\ local' \in [Procs -> Locals] /\ local'[p].at = NextLabel[local[p].at]
      /\ local'[p].stage = local[p].stage /\ local'[p].journal = local[p].journal
      /\ local'[p].left = Originals
    BY <1>2, <1>5, <1>7, GoOnFacts DEF WritePhase
<1>9. Between
    BY <1>2, <1>4 DEF Where, DiskInv, NoJournal
<1>10. local[p].at \in {"prepared", "backing_up"} => Original(Originals)
    BY <1>2 DEF Where, DiskInv, NoJournal, Untouched, Unpublished
<1>11. local[p].at \in {"backed_up", "staged", "publishing"} => BackedUp(Originals)
    BY <1>2 DEF Where, DiskInv, Untouched, Unpublished
<1>12. DiskInv'
    BY <1>2, <1>3, <1>4, <1>6, <1>9, <1>10, <1>11
       DEF DiskInv, Untouched, Unpublished, BackedUp, Original, Between
<1>13. Originals # {} BY MigrationAssumption DEF Originals
<1>14. Where(p)'
    BY <1>3, <1>4, <1>5, <1>6, <1>8, <1>13 DEF NextLabel, Where, Works, Loops, Replaced, BackedUp
<1> QED BY <1>8, <1>12, <1>14, OneWhere

(* The backup: no file is replaced yet, and none is torn once it is noted. *)
LEMMA BackupWhere ==
    ASSUME MigrationInv, NEW p \in Procs, Alone(p)', CopyStart(p) \/ CopyEnd(p)
    PROVE  MigrationInv'
<1> DEFINE f == Item(p)
<1>2. Where(p) /\ local[p] \in Locals /\ local \in [Procs -> Locals] /\ DiskInv
    BY DEF MigrationInv
<1>3. UNCHANGED <<file, journal, marker>>
    BY DEF CopyStart, CopyEnd
<1>4. /\ local[p].journal \in SourceJournals /\ local[p].left # {} /\ local[p].left \subseteq Originals
      /\ journal.phase = "backing_up" /\ BackedUp(Originals \ local[p].left)
    BY <1>2 DEF CopyStart, CopyEnd, At, Where, Works, Loops
<1>5. f \in local[p].left /\ f \in Originals /\ f \in Paths
    BY <1>4, FirstIsLeft DEF Originals, Item
<1>6. file[f] = Content(1, 0) /\ Original(Originals) /\ Between
    BY <1>2, <1>4, <1>5 DEF DiskInv, Original, Untouched, Unpublished
<1> HIDE DEF f
<1>7. ASSUME NEW c \in Contents, backup' = [backup EXCEPT ![f] = c]
      PROVE  /\ DiskInv' /\ backup'[f] = c /\ \A g \in Originals \ {f} : backup'[g] = backup[g]
    <2>1. backup' \in [Paths -> Contents] BY <1>2, <1>5, <1>7 DEF DiskInv
    <2>2. backup'[f] = c /\ \A g \in Originals \ {f} : backup'[g] = backup[g]
        BY <1>2, <1>5, <1>7 DEF DiskInv, Originals
    <2>3. DiskInv'
        BY <1>2, <1>3, <1>4, <1>6, <2>1 DEF DiskInv, Untouched, Unpublished, Between, Original
    <2> QED BY <2>2, <2>3
<1>8. CASE CopyStart(p)
    <2>1. Torn \in Contents BY ContentsDiffer DEF Torn
    <2>2. backup' = [backup EXCEPT ![f] = Torn] BY <1>8 DEF CopyStart, f
    <2>3. DiskInv' /\ \A g \in Originals \ {f} : backup'[g] = backup[g]
        BY <1>7, <2>1, <2>2
    <2> DEFINE l == [local[p] EXCEPT !.at = "copying"]
    <2>4. l \in Locals /\ l.at = "copying" /\ l.stage = local[p].stage
          /\ l.journal = local[p].journal /\ l.left = local[p].left
        BY <1>2 DEF Locals, Labels, Works
    <2>5. local' = [local EXCEPT ![p] = l] BY <1>8 DEF CopyStart
    <2> HIDE DEF l
    <2>6. local' \in [Procs -> Locals] /\ local'[p] = l BY <1>2, <2>4, <2>5
    <2>7. (BackedUp(Originals \ local[p].left))'
        BY <1>4, <1>5, <2>3, <2>4, <2>6 DEF BackedUp
    <2>8. Where(p)'
        BY <1>3, <1>4, <2>4, <2>6, <2>7 DEF Where, Works, Loops
    <2> QED BY <2>3, <2>6, <2>8, OneWhere
<1>9. CASE CopyEnd(p)
    <2>1. Content(1, 0) \in Contents BY ContentsDiffer
    <2>2. backup' = [backup EXCEPT ![f] = Content(1, 0)] BY <1>6, <1>9 DEF CopyEnd, f
    <2>3. /\ DiskInv' /\ backup'[f] = Content(1, 0)
          /\ \A g \in Originals \ {f} : backup'[g] = backup[g]
        BY <1>7, <2>1, <2>2
    <2>4. \A g \in (Originals \ local[p].left) \cup {f} : backup'[g] = Content(1, 0)
        BY <1>4, <2>3 DEF BackedUp
    <2>5. CASE Returns(p, "failed")
        <3>1. local' \in [Procs -> Locals] /\ local'[p].at = "leaving" /\ local'[p].result = "failed"
            BY <1>2, <2>5, ReturnsFacts
        <3>2. Where(p)'
            BY <1>3, <1>4, <3>1 DEF Where, Works, Loops
        <3> QED BY <2>3, <3>1, <3>2, OneWhere
    <2>6. CASE Advance(p, "copy", "backed_up")
        <3>1. /\ local' \in [Procs -> Locals] /\ local'[p].journal = local[p].journal
              /\ \/ local[p].left = {f} /\ local'[p].at = "backed_up"
                 \/ local[p].left # {f} /\ local'[p].at = "copy" /\ local'[p].left = local[p].left \ {f}
            <4>1. "copy" \in Labels /\ "backed_up" \in Labels BY DEF Labels, Works
            <4> QED BY <1>2, <1>4, <2>6, <4>1, AdvanceFacts DEF f
        <3>2. CASE local'[p].at = "backed_up"
            <4>1. BackedUp(Originals)' BY <2>4, <3>1, <3>2 DEF BackedUp
            <4>2. Where(p)'
                BY <1>3, <1>4, <3>1, <3>2, <4>1 DEF Where, Works, Loops
            <4> QED BY <2>3, <3>1, <4>2, OneWhere
        <3>3. CASE local'[p].at = "copy"
            <4>1. local'[p].left = local[p].left \ {f} /\ local'[p].left # {}
                  /\ local'[p].left \subseteq Originals
                BY <1>4, <1>5, <3>1, <3>3
            <4>2. (BackedUp(Originals \ local[p].left))' BY <2>4, <4>1 DEF BackedUp
            <4>3. Where(p)'
                BY <1>3, <1>4, <3>1, <3>3, <4>1, <4>2 DEF Where, Works, Loops
            <4> QED BY <2>3, <3>1, <4>3, OneWhere
        <3> QED BY <3>1, <3>2, <3>3
    <2> QED BY <1>9, <2>5, <2>6 DEF CopyEnd
<1> QED BY <1>8, <1>9

(* The staging of the new contents, and the marker at the end. *)
LEMMA StagingWhere ==
    ASSUME MigrationInv, NEW p \in Procs, Alone(p)', StageFile(p) \/ WriteMarker(p)
    PROVE  MigrationInv'
<1>2. Where(p) /\ local[p] \in Locals /\ local \in [Procs -> Locals] /\ DiskInv
    BY DEF MigrationInv
<1>3. UNCHANGED <<file, journal, backup>>
    BY DEF StageFile, WriteMarker
<1>4. DiskInv'
    BY <1>2, <1>3 DEF DiskInv, Between, Original, BackedUp, Current
<1>5. local[p].journal \in SourceJournals
    BY <1>2 DEF StageFile, WriteMarker, At, Where, Works
<1>6. CASE StageFile(p)
    <2>1. /\ local[p].left # {} /\ local[p].left \subseteq Originals /\ journal.phase = "backed_up"
        BY <1>2, <1>6 DEF StageFile, At, Where, Loops
    <2>2. /\ local' \in [Procs -> Locals] /\ local'[p].journal = local[p].journal
          /\ \/ local'[p].at = "staged"
             \/ /\ local[p].left # {Item(p)} /\ local'[p].at = "stage"
                /\ local'[p].left = local[p].left \ {Item(p)}
        <3>1. "stage" \in Labels /\ "staged" \in Labels BY DEF Labels, Works
        <3> QED BY <1>2, <1>5, <1>6, <3>1, AdvanceFacts DEF StageFile
    <2>3. local'[p].at = "stage" => local'[p].left # {} /\ local'[p].left \subseteq Originals
        BY <2>1, <2>2
    <2>4. local'[p].at \in {"stage", "staged"} BY <2>2
    <2>5. Where(p)'
        BY <1>3, <1>5, <2>1, <2>2, <2>3, <2>4 DEF Where, Works, Loops
    <2> QED BY <1>4, <2>2, <2>5, OneWhere
<1>7. CASE WriteMarker(p)
    <2>1. Replaced(Originals) /\ journal.phase = "publishing"
        BY <1>2, <1>7 DEF WriteMarker, At, Where
    <2>2. MarkerSays'
        BY <1>5, <1>7, ContentsDiffer DEF WriteMarker, MarkerSays, SourceJournals, Source
    <2>3. Between BY <1>2, <2>1 DEF DiskInv
    <2>4. /\ local' \in [Procs -> Locals] /\ local'[p].at = "finalized"
          /\ local'[p].journal = local[p].journal
        <3>1. "finalized" \in Labels BY DEF Labels, Works
        <3> QED BY <1>2, <1>7, <3>1, GoOnFacts DEF WriteMarker
    <2>5. Where(p)'
        BY <1>3, <1>5, <2>1, <2>2, <2>3, <2>4
           DEF Where, Works, Loops, Untouched, Unpublished, Between, Replaced
    <2> QED BY <1>4, <2>4, <2>5, OneWhere
<1> QED BY <1>6, <1>7

(* The publication: the files are replaced one by one. *)
LEMMA PublishWhere ==
    ASSUME MigrationInv, NEW p \in Procs, Alone(p)', PublishFile(p) \/ NotePublished(p)
    PROVE  MigrationInv' /\ Kept
<1> DEFINE f == Item(p)
<1>2. Where(p) /\ local[p] \in Locals /\ local \in [Procs -> Locals] /\ DiskInv
    BY DEF MigrationInv
<1>3. file' = file => Kept
    <2>1. \A g \in Paths : file[g].writes \in Nat BY <1>2 DEF DiskInv, Contents
    <2> QED BY <2>1 DEF Kept, Present
<1>4. /\ local[p].journal \in SourceJournals /\ local[p].left # {} /\ local[p].left \subseteq Originals
      /\ journal.phase = "publishing" /\ Between
    BY <1>2 DEF PublishFile, NotePublished, At, Where, Works, Loops, DiskInv
<1>5. f \in local[p].left /\ f \in Originals /\ f \in Paths
    BY <1>4, FirstIsLeft DEF Originals, Item
<1>6. UNCHANGED <<backup, marker>>
    BY DEF PublishFile, NotePublished
<1>7. Migrated(local[p].journal.source[f]) = Content(2, 0)
    BY <1>4, <1>5, ContentsDiffer DEF SourceJournals, Source
<1> HIDE DEF f
<1>8. CASE PublishFile(p)
    <2>1. Replaced(Originals \ local[p].left) /\ journal' = journal
        BY <1>2, <1>8 DEF PublishFile, At, Where
    <2>2. CASE Returns(p, "failed") /\ UNCHANGED file
        <3>1. local' \in [Procs -> Locals] /\ local'[p].at = "leaving" /\ local'[p].result = "failed"
            BY <1>2, <2>2, ReturnsFacts
        <3>2. DiskInv'
            BY <1>2, <1>6, <2>1, <2>2 DEF DiskInv, Between, Original, BackedUp, Current
        <3>3. Where(p)'
            BY <1>4, <2>1, <3>1 DEF Where, Works, Loops
        <3> QED BY <1>3, <2>2, <3>1, <3>2, <3>3, OneWhere
    <2>3. CASE /\ file' = [file EXCEPT ![f] = Content(2, 0)]
               /\ local' = [local EXCEPT ![p].at = "note"]
        <3>1. /\ file' \in [Paths -> Contents] /\ Between' /\ file'[f] = Content(2, 0) /\ Kept
              /\ \A g \in Paths \ {f} : file'[g] = file[g]
            <4>1. 2 \in {1, 2} OBVIOUS
            <4> QED BY <1>2, <1>4, <1>5, <2>3, <4>1, WriteKeeps
        <3> DEFINE l == [local[p] EXCEPT !.at = "note"]
        <3>2. /\ l \in Locals /\ l.at = "note" /\ l.stage = local[p].stage
              /\ l.journal = local[p].journal /\ l.left = local[p].left
            BY <1>2 DEF Locals, Labels, Works
        <3>3. local' = [local EXCEPT ![p] = l] BY <2>3
        <3> HIDE DEF l
        <3>4. local' \in [Procs -> Locals] /\ local'[p] = l BY <1>2, <3>2, <3>3
        <3>5. Item(p)' = f BY <3>2, <3>4 DEF Item, f
        <3>6. \A g \in (Originals \ local[p].left) \cup {f} : file'[g] = Content(2, 0)
            BY <2>1, <3>1 DEF Replaced, Originals
        <3>7. (Replaced((Originals \ local[p].left) \cup {Item(p)}))'
            BY <3>2, <3>4, <3>5, <3>6 DEF Replaced
        <3>8. DiskInv'
            BY <1>2, <1>4, <1>6, <2>1, <3>1 DEF DiskInv, Untouched, Unpublished, BackedUp
        <3>9. Where(p)'
            BY <1>4, <2>1, <3>2, <3>4, <3>7 DEF Where, Works, Loops
        <3> QED BY <3>1, <3>4, <3>8, <3>9, OneWhere
    <2>4. staged[f] = Migrated(local[p].journal.source[f]) => staged[f] = Content(2, 0)
        BY <1>7
    <2> QED BY <1>8, <2>2, <2>3, <2>4 DEF PublishFile, f
<1>9. CASE NotePublished(p)
    <2>1. Replaced((Originals \ local[p].left) \cup {f}) /\ file' = file
        BY <1>2, <1>9 DEF NotePublished, At, Where, f
    <2>2. journal' \in SourceJournals /\ journal'.phase = "publishing"
        BY <1>4, <1>9 DEF NotePublished, SourceJournals, JournalPhases
    <2>3. DiskInv'
        BY <1>2, <1>4, <1>6, <2>1, <2>2 DEF DiskInv, Untouched, Unpublished, BackedUp, Between
    <2>4. /\ local' \in [Procs -> Locals] /\ local'[p].journal = local[p].journal
          /\ \/ local[p].left = {f} /\ local'[p].at = "mark"
             \/ local[p].left # {f} /\ local'[p].at = "publish" /\ local'[p].left = local[p].left \ {f}
        <3>1. "publish" \in Labels /\ "mark" \in Labels BY DEF Labels, Works
        <3> QED BY <1>2, <1>4, <1>9, <3>1, AdvanceFacts DEF NotePublished, f
    <2>5. CASE local'[p].at = "mark"
        <3>1. Replaced(Originals)' BY <2>1, <2>4, <2>5 DEF Replaced
        <3>2. Where(p)'
            BY <1>4, <2>2, <2>4, <2>5, <3>1 DEF Where, Works, Loops
        <3> QED BY <1>3, <2>1, <2>3, <2>4, <3>2, OneWhere
    <2>6. CASE local'[p].at = "publish"
        <3>1. local'[p].left = local[p].left \ {f} /\ local'[p].left # {}
              /\ local'[p].left \subseteq Originals
            BY <1>4, <1>5, <2>4, <2>6
        <3>2. (Replaced(Originals \ local[p].left))' BY <2>1, <3>1 DEF Replaced
        <3>3. Where(p)'
            BY <1>4, <2>2, <2>4, <2>6, <3>1, <3>2 DEF Where, Works, Loops
        <3> QED BY <1>3, <2>1, <2>3, <2>4, <3>3, OneWhere
    <2> QED BY <2>4, <2>5, <2>6
<1> QED BY <1>8, <1>9

(* A commit writes a new event, the run and the index, in version 2. *)
LEMMA CommitKeeps ==
    ASSUME file \in [Paths -> Contents], file[Active].version = 2, NEW p \in Procs, Commit(p)
    PROVE  /\ file' \in [Paths -> Contents] /\ Kept
           /\ \A f \in Paths : file'[f] = file[f] \/ file'[f].version = 2
<1>1. /\ Active \in Originals /\ Run \in Originals /\ Run # Active /\ Originals \subseteq Paths
      /\ NewEvents \subseteq Paths \ Originals
    BY MigrationAssumption DEF Originals
<1>2. PICK e \in NewEvents \ Present :
         file' = [file EXCEPT ![e] = Content(file[Active].version, 0),
                              ![Run] = Content(file[Active].version, @.writes + 1),
                              ![Active].writes = @ + 1]
    BY DEF Commit
<1>3. \A g \in Paths : file[g].writes \in Nat /\ file[g].version \in 0 .. 2
    BY DEF Contents
<1>4. e \in Paths /\ e # Run /\ e # Active /\ file[e] = Absent
    BY <1>1, <1>2 DEF Present
<1>5. \A g \in Paths \ {e, Run, Active} : file'[g] = file[g]
    BY <1>2
<1>6. file'[e] = Content(2, 0)
    BY <1>2, <1>4
<1>7. file'[Run] = Content(2, file[Run].writes + 1)
    BY <1>1, <1>2, <1>4
<1>8. file'[Active] = [file[Active] EXCEPT !.writes = @ + 1]
    BY <1>1, <1>2, <1>4
<1>9. /\ file'[Active] \in Contents /\ file'[Active].version = 2
      /\ file'[Active].writes \in Nat /\ file'[Active].writes >= file[Active].writes
    BY <1>1, <1>3, <1>8 DEF Contents
<1>10. /\ file'[e] \in Contents /\ file'[e].version = 2
       /\ file'[Run] \in Contents /\ file'[Run].version = 2
       /\ file'[Run].writes >= file[Run].writes
    <2>1. file[Run].writes + 1 \in Nat BY <1>1, <1>3
    <2>2. 2 \in 0 .. 2 /\ 0 \in Nat OBVIOUS
    <2>3. Content(2, 0) \in Contents /\ Content(2, 0).version = 2
        BY <2>2, ContentsDiffer
    <2>4. /\ Content(2, file[Run].writes + 1) \in Contents
          /\ Content(2, file[Run].writes + 1).version = 2
          /\ Content(2, file[Run].writes + 1).writes = file[Run].writes + 1
        BY <2>1, <2>2, ContentsDiffer
    <2> QED BY <1>1, <1>3, <1>6, <1>7, <2>3, <2>4
<1>11. file' \in [Paths -> Contents]
    <2>1. \A g \in Paths : file'[g] \in Contents BY <1>5, <1>9, <1>10
    <2>2. file' = [g \in Paths |-> file'[g]] BY <1>2
    <2> QED BY <2>1, <2>2
<1>12. Kept
    <2> SUFFICES ASSUME NEW g \in Present PROVE g \in Present' /\ file'[g].writes >= file[g].writes
        BY DEF Kept
    <2>1. g \in Paths /\ file[g] # Absent /\ g # e BY <1>2 DEF Present
    <2>2. CASE g \in {Run, Active}
        <3>1. file'[g].version = 2 /\ file'[g].writes >= file[g].writes
            BY <1>9, <1>10, <2>2
        <3>2. file'[g] # Absent BY <3>1, ContentsDiffer DEF Absent
        <3> QED BY <2>1, <3>1, <3>2 DEF Present
    <2>3. CASE g \notin {Run, Active}
        BY <1>3, <1>5, <2>1, <2>3 DEF Present
    <2> QED BY <2>2, <2>3
<1>13. \A f \in Paths : file'[f] = file[f] \/ file'[f].version = 2
    BY <1>5, <1>9, <1>10
<1> QED BY <1>11, <1>12, <1>13

(* A commit writes files of the present version only. *)
LEMMA CommitWhere ==
    ASSUME MigrationInv, NEW p \in Procs, Alone(p)', Commit(p)
    PROVE  MigrationInv' /\ Kept
<1>2. Where(p) /\ local \in [Procs -> Locals] /\ DiskInv
    BY DEF MigrationInv
<1>3. journal.phase = "committed" /\ Current /\ UNCHANGED <<journal, backup, marker>>
    BY <1>2 DEF Commit, At, Where, DiskInv
<1>4. Active \in Originals /\ Originals \subseteq Paths
    BY MigrationAssumption DEF Originals
<1>5. /\ file' \in [Paths -> Contents] /\ Kept
      /\ \A f \in Paths : file'[f] = file[f] \/ file'[f].version = 2
    BY <1>2, <1>3, <1>4, CommitKeeps DEF DiskInv, Current
<1>6. Current'
    BY <1>3, <1>4, <1>5 DEF Current
<1>7. DiskInv'
    BY <1>2, <1>3, <1>5, <1>6 DEF DiskInv, Untouched, Unpublished, BackedUp
<1>8. local' \in [Procs -> Locals] /\ local'[p].at = "idle"
    <2>1. Idle \in Locals /\ Idle.at = "idle" BY DEF Idle, Locals, Labels
    <2> QED BY <1>2, <2>1 DEF Commit
<1>9. Where(p)'
    BY <1>8 DEF Where, Works, Loops
<1> QED BY <1>5, <1>7, <1>8, <1>9, OneWhere

(* A step of the one that is not idle. *)
LEMMA StepWhere ==
    ASSUME MigrationInv, NEW p \in Procs, Alone(p)',
           ReadActive(p) \/ PreflightStep(p) \/ WriteFails(p) \/ ProcessDies(p) \/ Commit(p)
    PROVE  MigrationInv' /\ Kept
<1>1. file' = file => Kept
    <2>1. \A f \in Paths : file[f].writes \in Nat BY DEF MigrationInv, DiskInv, Contents
    <2> QED BY <2>1 DEF Kept, Present
<1>3. CASE PreflightStep(p)
    <2>1. CASE CheckJournal(p) \/ NoHandle(p) \/ LeaveCall(p)
        BY <1>1, <2>1, PreflightWhere DEF CheckJournal, NoHandle, LeaveCall, disk
    <2>2. CASE EnterCall(p) \/ ReleaseUnawaited(p)
        BY <1>1, <2>2, QuietWhere DEF EnterCall, ReleaseUnawaited, disk
    <2>3. CASE RecoverRead(p) \/ Finalize(p) \/ VerifyBackup(p)
        BY <1>1, <2>3, RecoverWhere DEF RecoverRead, Finalize, VerifyBackup, disk
    <2>4. CASE WriteFinal(p) \/ RestoreFile(p) \/ Forget(p)
        BY <2>4, RecoverWrites
    <2>5. CASE MigrateRead(p)
        BY <1>1, <2>5, MigrateReadWhere DEF MigrateRead, disk
    <2>6. CASE WritePhase(p)
        BY <1>1, <2>6, PhaseWhere DEF WritePhase
    <2>7. CASE CopyStart(p) \/ CopyEnd(p)
        BY <1>1, <2>7, BackupWhere DEF CopyStart, CopyEnd
    <2>8. CASE StageFile(p) \/ WriteMarker(p)
        BY <1>1, <2>8, StagingWhere DEF StageFile, WriteMarker
    <2>9. CASE PublishFile(p) \/ NotePublished(p)
        BY <2>9, PublishWhere
    <2> QED BY <1>3, <2>1, <2>2, <2>3, <2>4, <2>5, <2>6, <2>7, <2>8, <2>9 DEF PreflightStep
<1>4. CASE ReadActive(p)
    BY <1>1, <1>4, PreflightWhere DEF ReadActive, disk
<1>5. CASE WriteFails(p) \/ ProcessDies(p)
    BY <1>1, <1>5, QuietWhere DEF WriteFails, ProcessDies, disk
<1>6. CASE Commit(p)
    BY <1>6, CommitWhere
<1> QED BY <1>3, <1>4, <1>5, <1>6

(* A process moves no other, and an idle one does nothing but start. *)
LEMMA OthersStay ==
    ASSUME local \in [Procs -> Locals], NEW p \in Procs,
           ReadActive(p) \/ PreflightStep(p) \/ WriteFails(p) \/ ProcessDies(p) \/ Commit(p)
    PROVE  \A q \in Procs \ {p} : local'[q] = local[q]
<1>1. UNCHANGED local \/ \E l : local' = [local EXCEPT ![p] = l]
    <2>1. /\ \A at, stage : Stage(p, at, stage) => \E l : local' = [local EXCEPT ![p] = l]
          /\ \A at : GoOn(p, at) => \E l : local' = [local EXCEPT ![p] = l]
          /\ \A result : Returns(p, result) => \E l : local' = [local EXCEPT ![p] = l]
          /\ \A at, j, awaited : Begin(p, at, j, awaited) => \E l : local' = [local EXCEPT ![p] = l]
        BY DEF Stage, GoOn, Returns, Begin
    <2>2. \A again, at : Advance(p, again, at) => \E l : local' = [local EXCEPT ![p] = l]
        BY <2>1 DEF Advance
    <2>3. \A stage, result : Continue(p, stage, result) => \E l : local' = [local EXCEPT ![p] = l]
        BY <2>1 DEF Continue
    <2>4. CASE ReadActive(p) \/ WriteFails(p) \/ ProcessDies(p) \/ Commit(p)
        BY <2>1, <2>4 DEF ReadActive, WriteFails, ProcessDies, Commit
    <2>5. CASE CheckJournal(p) \/ EnterCall(p) \/ NoHandle(p) \/ LeaveCall(p) \/ ReleaseUnawaited(p)
        BY <2>1, <2>3, <2>5 DEF CheckJournal, EnterCall, NoHandle, LeaveCall, ReleaseUnawaited
    <2>6. CASE RecoverRead(p) \/ Finalize(p) \/ WriteFinal(p) \/ VerifyBackup(p)
        BY <2>1, <2>6 DEF RecoverRead, Finalize, WriteFinal, VerifyBackup
    <2>7. CASE RestoreFile(p) \/ Forget(p) \/ MigrateRead(p) \/ WritePhase(p)
        BY <2>1, <2>2, <2>7 DEF RestoreFile, Forget, MigrateRead, WritePhase
    <2>8. CASE CopyStart(p) \/ CopyEnd(p) \/ StageFile(p)
        BY <2>1, <2>2, <2>8 DEF CopyStart, CopyEnd, StageFile
    <2>9. CASE PublishFile(p) \/ NotePublished(p) \/ WriteMarker(p)
        BY <2>1, <2>2, <2>9 DEF PublishFile, NotePublished, WriteMarker
    <2> QED BY <2>4, <2>5, <2>6, <2>7, <2>8, <2>9 DEF PreflightStep
<1> QED BY <1>1

(* A process that is idle can only start, or end a release it left. *)
LEMMA StepsAreNotIdle ==
    ASSUME NEW p \in Procs, At(p, "idle"),
           PreflightStep(p) \/ WriteFails(p) \/ ProcessDies(p) \/ Commit(p)
    PROVE  ReleaseUnawaited(p)
<1>1. local[p].at = "idle"
    BY DEF At
<1>2. ~EnterCall(p) /\ ~NoHandle(p) /\ ~LeaveCall(p) /\ ~CheckJournal(p)
    BY <1>1 DEF EnterCall, NoHandle, LeaveCall, CheckJournal, At
<1>3. ~RecoverRead(p) /\ ~Finalize(p) /\ ~WriteFinal(p) /\ ~VerifyBackup(p)
    BY <1>1 DEF RecoverRead, Finalize, WriteFinal, VerifyBackup, At
<1>4. ~RestoreFile(p) /\ ~Forget(p) /\ ~MigrateRead(p) /\ ~CopyStart(p) /\ ~CopyEnd(p)
    BY <1>1 DEF RestoreFile, Forget, MigrateRead, CopyStart, CopyEnd, At
<1>5. ~StageFile(p) /\ ~PublishFile(p) /\ ~NotePublished(p) /\ ~WriteMarker(p)
    BY <1>1 DEF StageFile, PublishFile, NotePublished, WriteMarker, At
<1>6. ~WritePhase(p) /\ ~WriteFails(p) /\ ~ProcessDies(p) /\ ~Commit(p)
    BY <1>1 DEF WritePhase, WriteFails, Writing, NextLabel, ProcessDies, Commit, At
<1> QED BY <1>2, <1>3, <1>4, <1>5, <1>6 DEF PreflightStep

(* In a settled store the only step of a preflight is the look at the      *)
(* journal.                                                                *)
LEMMA QuietWhenSettled ==
    ASSUME Settled, NEW p \in Procs
    PROVE  /\ PreflightStep(p) => CheckJournal(p) \/ ReleaseUnawaited(p)
           /\ ~WriteFails(p)
<1>1. local[p].at \in {"idle", "current", "ready"}
    BY DEF Settled
<1>2. ~EnterCall(p) /\ ~NoHandle(p) /\ ~LeaveCall(p)
    BY <1>1 DEF EnterCall, NoHandle, LeaveCall, At
<1>3. ~RecoverRead(p) /\ ~Finalize(p) /\ ~WriteFinal(p) /\ ~VerifyBackup(p)
    BY <1>1 DEF RecoverRead, Finalize, WriteFinal, VerifyBackup, At
<1>4. ~RestoreFile(p) /\ ~Forget(p) /\ ~MigrateRead(p) /\ ~CopyStart(p) /\ ~CopyEnd(p)
    BY <1>1 DEF RestoreFile, Forget, MigrateRead, CopyStart, CopyEnd, At
<1>5. ~StageFile(p) /\ ~PublishFile(p) /\ ~NotePublished(p) /\ ~WriteMarker(p)
    BY <1>1 DEF StageFile, PublishFile, NotePublished, WriteMarker, At
<1>6. ~WritePhase(p) /\ ~WriteFails(p)
    BY <1>1 DEF WritePhase, WriteFails, Writing, NextLabel
<1> QED BY <1>2, <1>3, <1>4, <1>5, <1>6 DEF PreflightStep

(* The places of a process in a settled store. *)
Places ==
    {Idle} \cup {[Idle EXCEPT !.at = l, !.stage = "none"] : l \in {"current", "ready"}}

(* A process that starts, ends or dies there is at one of them. *)
LEMMA PlacesFacts ==
    \A l \in Places : l \in Locals /\ l.at \in {"idle", "current", "ready"}
<1>1. Idle \in Locals /\ Idle.at = "idle"
    BY DEF Idle, Locals, Labels
<1>2. ASSUME NEW l \in {"current", "ready"}
      PROVE  /\ [Idle EXCEPT !.at = l, !.stage = "none"] \in Locals
             /\ [Idle EXCEPT !.at = l, !.stage = "none"].at = l
    BY <1>1, <1>2 DEF Locals, Labels
<1> QED BY <1>1, <1>2 DEF Places

(* What is settled stays so: whatever reads and commits overlap, nobody    *)
(* recovers or migrates again.                                             *)
LEMMA SettledStep ==
    ASSUME file \in [Paths -> Contents], DOMAIN local = Procs, Settled, [MigrationNext]_migrationVars
    PROVE  /\ file' \in [Paths -> Contents] /\ DOMAIN local' = Procs /\ UNCHANGED <<journal, backup>>
           /\ \A f \in Paths : file'[f] = file[f] \/ file'[f].version = 2
           /\ \A q \in Procs : local'[q] = local[q] \/ local'[q] \in Places
           /\ local \in [Procs -> Locals] => local' \in [Procs -> Locals]
           /\ Settled' /\ Kept
<1> DEFINE Moved == /\ DOMAIN local' = Procs
                    /\ \A q \in Procs : local'[q] = local[q] \/ local'[q] \in Places
                    /\ local \in [Procs -> Locals] => local' \in [Procs -> Locals]
           Grown == /\ file' \in [Paths -> Contents] /\ Kept
                    /\ \A f \in Paths : file'[f] = file[f] \/ file'[f].version = 2
<1>1. file' = file => Grown
    <2>1. \A f \in Paths : file[f].writes \in Nat BY DEF Contents
    <2> QED BY <2>1 DEF Kept, Present
<1>2. local' = local => Moved
    OBVIOUS
<1>3. ASSUME NEW p \in Procs, NEW l \in Places, local' = [local EXCEPT ![p] = l] PROVE Moved
    <2>1. l \in Locals BY PlacesFacts
    <2> QED BY <1>3, <2>1
<1>4. Idle \in Places
    BY DEF Places
<1>5. Active \in Paths
    BY MigrationAssumption
<1>6. ASSUME Moved, Grown, UNCHANGED <<journal, backup>>
      PROVE  Settled'
    <2>1. file'[Active].version = 2 /\ \A f \in Present' : file'[f].version = 2
        BY <1>5, <1>6 DEF Settled, Present
    <2>2. (journal = NoJournal \/ journal.phase = "committed")'
        BY <1>6 DEF Settled
    <2>3. \A l \in Places : l.at \in {"idle", "current", "ready"}
        BY PlacesFacts
    <2>4. \A q \in Procs : local'[q].at \in {"idle", "current", "ready"}
        BY <1>6, <2>3 DEF Settled
    <2> QED BY <2>1, <2>2, <2>4 DEF Settled
<1>7. Moved /\ Grown /\ UNCHANGED <<journal, backup>>
    <2>1. CASE UNCHANGED <<disk, local>>
        BY <1>1, <1>2, <2>1 DEF disk
    <2>2. ASSUME NEW p \in Procs, ReadActive(p) \/ CheckJournal(p)
          PROVE  Moved /\ Grown /\ UNCHANGED <<journal, backup>>
        <3>1. UNCHANGED disk BY <2>2 DEF ReadActive, CheckJournal
        <3>2. \E l \in {"current", "ready"} : Stage(p, l, "none")
            BY <2>2 DEF ReadActive, CheckJournal, Settled
        <3>3. \E l \in Places : local' = [local EXCEPT ![p] = l]
            BY <3>2 DEF Stage, Places
        <3> HIDE DEF Moved, Grown
        <3> QED BY <1>1, <1>3, <3>1, <3>3 DEF disk
    <2>3. ASSUME NEW p \in Procs, ProcessDies(p)
          PROVE  Moved /\ Grown /\ UNCHANGED <<journal, backup>>
        <3>1. UNCHANGED disk /\ local' = [local EXCEPT ![p] = Idle] BY <2>3 DEF ProcessDies
        <3> HIDE DEF Moved, Grown
        <3> QED BY <1>1, <1>3, <1>4, <3>1 DEF disk
    <2>4. ASSUME NEW p \in Procs, Commit(p)
          PROVE  Moved /\ Grown /\ UNCHANGED <<journal, backup>>
        <3>1. local' = [local EXCEPT ![p] = Idle] /\ UNCHANGED <<journal, backup>>
            BY <2>4 DEF Commit
        <3>2. Grown
            BY <2>4, CommitKeeps DEF Settled
        <3> HIDE DEF Moved, Grown
        <3> QED BY <1>3, <1>4, <3>1, <3>2
    <2>5. CASE ClearDeadLock \/ UNCHANGED migrationVars \/ \E p \in Procs : ReleaseUnawaited(p)
        BY <2>1, <2>5 DEF ClearDeadLock, ReleaseUnawaited, migrationVars, disk
    <2> HIDE DEF Moved, Grown
    <2> QED BY <2>2, <2>3, <2>4, <2>5, QuietWhenSettled DEF MigrationNext
<1> QED BY <1>6, <1>7

(* A step in a settled store keeps the invariant. *)
LEMMA SettledWhere ==
    ASSUME MigrationInv, Settled, [MigrationNext]_migrationVars
    PROVE  MigrationInv' /\ Settled' /\ Kept
<1>1. file \in [Paths -> Contents] /\ DOMAIN local = Procs /\ DiskInv /\ local \in [Procs -> Locals]
    BY DEF MigrationInv, DiskInv
<1>2. /\ file' \in [Paths -> Contents] /\ DOMAIN local' = Procs /\ UNCHANGED <<journal, backup>>
      /\ \A f \in Paths : file'[f] = file[f] \/ file'[f].version = 2
      /\ \A q \in Procs : local'[q] = local[q] \/ local'[q] \in Places
      /\ local \in [Procs -> Locals] => local' \in [Procs -> Locals]
      /\ Settled' /\ Kept
    BY <1>1, SettledStep
<1>3. Active \in Originals /\ Originals \subseteq Paths
    BY MigrationAssumption DEF Originals
<1>4. journal.phase = "committed"
    <2>1. file[Active] # Content(1, 0) BY ContentsDiffer DEF Settled
    <2>2. journal.phase \notin Untouched BY <1>1, <1>3, <2>1 DEF DiskInv, Original
    <2> QED BY <2>2 DEF Settled, NoJournal, Untouched
<1>5. DiskInv'
    <2>1. Current' BY <1>1, <1>2, <1>3, <1>4 DEF DiskInv, Current
    <2> QED BY <1>1, <1>2, <1>4, <2>1 DEF DiskInv, Untouched, Unpublished, BackedUp
<1>6. local' \in [Procs -> Locals]
    BY <1>1, <1>2
<1>7. ASSUME NEW q \in Procs PROVE Where(q)'
    <2>1. local'[q].at \in {"idle", "current", "ready"} /\ file'[Active].version = 2
        BY <1>2 DEF Settled
    <2> QED BY <1>2, <1>4, <2>1 DEF Where, Works, Loops
<1> QED BY <1>2, <1>5, <1>6, <1>7 DEF MigrationInv

(* A step of the orderly migration. *)
LEMMA OrderlyStep ==
    ASSUME OrderlyInv, [OrderlyNext]_migrationVars
    PROVE  OrderlyInv' /\ Kept
<1>1. MigrationInv /\ local \in [Procs -> Locals] /\ DiskInv
    BY DEF OrderlyInv, MigrationInv
<1>2. CASE Settled
    <2>1. [MigrationNext]_migrationVars
        BY DEF OrderlyNext, MigrationNext, StartInOrder
    <2> QED BY <1>1, <1>2, <2>1, SettledWhere DEF OrderlyInv
<1>3. CASE ~Settled
    <2>1. OneAtATime
        BY <1>3 DEF OrderlyInv
    <2>2. CASE UNCHANGED <<disk, local>>
        <3>1. MigrationInv'
            BY <1>1, <2>2, DiskStays
               DEF MigrationInv, Where, Item, disk, Between, Replaced, Original, BackedUp, MarkerSays
        <3>2. Kept
            <4>1. \A f \in Paths : file[f].writes \in Nat BY <1>1 DEF DiskInv, Contents
            <4> QED BY <2>2, <4>1 DEF Kept, Present, disk
        <3>3. OneAtATime' BY <2>1, <2>2 DEF OneAtATime, At
        <3> QED BY <3>1, <3>2, <3>3 DEF OrderlyInv
    <2>3. ASSUME NEW p \in Procs, Alone(p),
                 ReadActive(p) \/ PreflightStep(p) \/ WriteFails(p) \/ ProcessDies(p) \/ Commit(p)
          PROVE  OrderlyInv' /\ Kept
        <3>1. Alone(p)' BY <1>1, <2>3, OthersStay DEF Alone, At
        <3>2. MigrationInv' /\ Kept BY <1>1, <2>3, <3>1, StepWhere
        <3>3. OneAtATime' BY <3>1 DEF Alone, OneAtATime
        <3> QED BY <3>2, <3>3 DEF OrderlyInv
    <2>4. ASSUME NEW p \in Procs, StartInOrder(p) PROVE OrderlyInv' /\ Kept
        BY <1>3, <2>3, <2>4 DEF StartInOrder, Alone
    <2>5. ASSUME NEW p \in Procs, ~At(p, "idle") PROVE Alone(p)
        BY <2>1, <2>5 DEF OneAtATime, Alone
    <2>6. ASSUME NEW p \in Procs, PreflightStep(p) \/ WriteFails(p) \/ ProcessDies(p) \/ Commit(p)
          PROVE  OrderlyInv' /\ Kept
        <3>1. CASE ReleaseUnawaited(p)
            BY <2>2, <3>1 DEF ReleaseUnawaited
        <3>2. CASE ~ReleaseUnawaited(p)
            <4>1. ~At(p, "idle") BY <2>6, <3>2, StepsAreNotIdle
            <4> QED BY <2>3, <2>5, <2>6, <4>1
        <3> QED BY <3>1, <3>2
    <2>7. CASE ClearDeadLock \/ UNCHANGED migrationVars
        BY <2>2, <2>7 DEF ClearDeadLock, migrationVars, disk
    <2> QED BY <2>4, <2>6, <2>7 DEF OrderlyNext
<1> QED BY <1>2, <1>3

(* The journal stands for what is on disk, whatever a crash, a failed write *)
(* or a retry leaves, and whatever overlaps once the store is settled.     *)
THEOREM MigrationInvariant == OrderlySpec => []OrderlyInv
<1>1. MigrationInit => OrderlyInv
    <2> SUFFICES ASSUME MigrationInit PROVE OrderlyInv
        OBVIOUS
    <2>1. file \in [Paths -> Contents] /\ Between /\ Original(Originals)
        BY ContentsDiffer, MigrationAssumption DEF MigrationInit, Absent, Between, Original, Originals
    <2>2. backup \in [Paths -> Contents] BY ContentsDiffer DEF MigrationInit, Absent
    <2>3. journal = NoJournal /\ journal.phase = "absent" BY DEF MigrationInit, NoJournal
    <2>4. DiskInv BY <2>1, <2>2, <2>3 DEF DiskInv, Untouched
    <2>5. Idle \in Locals /\ Idle.at = "idle" BY DEF Idle, Locals, Labels
    <2>6. local \in [Procs -> Locals] /\ \A p \in Procs : local[p].at = "idle"
        BY <2>5 DEF MigrationInit
    <2>7. \A p \in Procs : Where(p) BY <2>6 DEF Where, Works, Loops
    <2>8. OneAtATime BY <2>6 DEF OneAtATime, At
    <2> QED BY <2>4, <2>6, <2>7, <2>8 DEF OrderlyInv, MigrationInv
<1>2. OrderlyInv /\ [OrderlyNext]_migrationVars => OrderlyInv'
    BY OrderlyStep
<1> QED BY <1>1, <1>2, PTL DEF OrderlySpec

(* At every moment the files are of one version or a whole backup is named, *)
(* a reader is shown one version, and the original bytes are kept.         *)
THEOREM RecoverableHolds == OrderlySpec => []Recoverable
<1>1. MigrationInv => Recoverable
    <2> SUFFICES ASSUME MigrationInv PROVE Recoverable
        OBVIOUS
    <2> USE DEF MigrationInv
    <2>1. OriginalsKept
        BY DEF OriginalsKept, DiskInv, Original, BackedUp, Originals
    <2>2. OneVersion
        BY DEF OneVersion, Where, At, DiskInv, Current, Present
    <2>3. Restorable
        <3>1. CASE journal.phase = "committed"
            BY <3>1 DEF Restorable, DiskInv, Current, Present
        <3>2. CASE journal.phase # "committed"
            <4>1. Between /\ Present = Originals
                <5>1. Between BY <3>2 DEF DiskInv
                <5> QED BY <5>1, ContentsDiffer, MigrationAssumption
                        DEF Between, Present, Originals, Absent
            <4>2. CASE journal.phase \in Untouched
                BY <4>1, <4>2 DEF Restorable, DiskInv, Original
            <4>3. CASE journal.phase \notin Untouched
                <5>1. journal \in SourceJournals /\ journal.phase \in {"backed_up", "staged", "publishing"}
                    BY <3>2, <4>3, JournalFacts DEF Untouched, Unpublished, JournalPhases, NoJournal
                <5> QED BY <4>1, <4>3, <5>1 DEF Restorable, DiskInv, BackedUp, SourceJournals, Source
            <4> QED BY <4>2, <4>3
        <3> QED BY <3>1, <3>2
    <2> QED BY <2>1, <2>2, <2>3 DEF Recoverable
<1>2. OrderlyInv => MigrationInv
    BY DEF OrderlyInv
<1> QED BY <1>1, <1>2, MigrationInvariant, PTL

(* What a commit wrote is not taken back by a later migration or recovery, *)
(* from a store of version 1 on, in whatever order crashes, recoveries and *)
(* commits come, as long as processes start in order.                      *)
THEOREM OrderlyCommitsSurvive == OrderlySpec => CommitsSurvive
<1>1. OrderlyInv /\ [OrderlyNext]_migrationVars
         => [\A f \in Present : f \in Present' /\ file'[f].writes >= file[f].writes]_migrationVars
    BY OrderlyStep DEF Kept
<1> QED BY <1>1, MigrationInvariant, PTL DEF OrderlySpec, CommitsSurvive

(* From a settled store on, a migrated one or one that was created in      *)
(* version 2, no order is needed: whatever preflights, commits, deaths and *)
(* cleared locks of any processes overlap, no preflight takes the journal  *)
(* of the migration for unfinished work, and no commit is taken back.      *)
THEOREM CommitsSurviveHolds ==
    MigrationTypeOK /\ Settled /\ [][MigrationNext]_migrationVars => []Settled /\ CommitsSurvive
<1> DEFINE Known == file \in [Paths -> Contents] /\ DOMAIN local = Procs /\ Settled
<1>1. MigrationTypeOK /\ Settled => Known
    BY DEF MigrationTypeOK
<1>2. Known /\ [MigrationNext]_migrationVars => Known'
    BY SettledStep
<1>3. Known /\ [MigrationNext]_migrationVars
         => [\A f \in Present : f \in Present' /\ file'[f].writes >= file[f].writes]_migrationVars
    BY SettledStep DEF Kept
<1>4. Known => Settled
    OBVIOUS
<1> HIDE DEF Known
<1> QED BY <1>1, <1>2, <1>3, <1>4, PTL DEF CommitsSurvive

=============================================================================
