----------------------- MODULE WorkflowSessionsProofs -----------------------
(***************************************************************************)
(* Proofs about WorkflowSessions, for any number of sessions, runs and     *)
(* tasks: a run is written by its owner or its adopter only, what has      *)
(* ended stays so, continuations without progress are bounded, and a       *)
(* completed run has a receipt for everything in it.                       *)
(*                                                                         *)
(* The argument: commands and stops act on copies, and the reducers do not *)
(* ask again what the copy was looked at for.  But every commit makes a    *)
(* new revision, so a copy whose revision is the snapshot's is the         *)
(* snapshot, and what was true of it when the event was made is true when  *)
(* the event is applied.                                                   *)
(***************************************************************************)
EXTENDS WorkflowSessions, RunLifecycleProofs

USE SessionsAssumption

-----------------------------------------------------------------------------
(* The invariant                                                           *)

(* An acceptance at the run's HEAD, under its epoch for a plan. *)
Backed(run, a, t) ==
    \E i \in DOMAIN a.accepted :
        /\ a.accepted[i].taskId = t /\ a.accepted[i].captureCommit = run.expectedHead
        /\ run.workflow = "start_work" => a.accepted[i].ownerEpoch = run.epoch

Proven(run, a) ==
    /\ run.workflow = "start_work" => run.criteria = <<>>
    /\ run.workflow = "ulw_loop" => run.taskIds = <<>>
    /\ \A k \in DOMAIN run.criteria :
          run.criteria[k].status = "pass" => Backed(run, a, run.criteria[k].id)
    /\ run.status = "completed" =>
          /\ \A k \in DOMAIN run.criteria : run.criteria[k].status = "pass"
          /\ run.workflow = "start_work" \/ ~HasActiveGoal(run)
          /\ \A k \in DOMAIN run.taskIds : Backed(run, a, run.taskIds[k])

(* What is accepted was accepted at a revision of the run, before it ended. *)
Dated(run, a) ==
    \A i \in DOMAIN a.accepted :
        /\ a.accepted[i].runRevision \in Nat /\ a.accepted[i].runRevision <= run.revision
        /\ a.accepted[i].runRevision = run.revision => run.status \notin Terminal

Ledger(a) ==
    /\ {"dispatched", "accepted", "rejected"} \subseteq DOMAIN a
    /\ \E S : a.accepted \in Seq(S)

(* n continuations were granted since the run progressed. *)
Counted(run, n) ==
    /\ n \in Nat /\ n <= NoProgressLimit
    /\ run.seen = run.progressRevision => n <= run.attempts
    /\ run.seen # run.progressRevision => n = 0

IndexOK(rs, idx) ==
    /\ idx.revision \in Nat
    /\ \A entry \in idx.entries : entry.runId \in DOMAIN rs /\ entry.statusHint # None

(* A run that was read, now or earlier. *)
Copy(rs, run) ==
    /\ run \in Runs /\ run.runId \in DOMAIN rs
    /\ run.revision <= rs[run.runId].revision
    /\ run.revision = rs[run.runId].revision => run = rs[run.runId]

(* What the maker of an event knew of the run, if it has not changed. *)
Fresh(run, m) ==
    /\ m.kind \in {"criterion_settled", "workflow_terminal", "continuation_stuck"} =>
          run.status \notin Terminal
    /\ m.kind = "continuation_attempted" =>
          run.status = "active" /\ ~hasReachedNoProgressBound(run)

Made == {"workflow_controlled", "owner_adopted", "plan_reconciled", "workflow_steered",
         "criterion_settled", "task_evidence_accepted", "workflow_terminal",
         "continuation_attempted", "continuation_stuck"}

EventOK(rs, s, e) ==
    /\ WellFormed(e)
    /\ \/ /\ e.mutation.kind = "run_created"
          /\ \E id, w, h, ids : e.mutation.run = NewRun(id, w, s, h, ids)
                                 /\ w \in Workflows /\ (w = "ulw_loop" => ids = <<>>)
       \/ /\ e.mutation.kind \in Made
          /\ e.runId \in DOMAIN rs
          /\ e.expected.runRevision \in Nat /\ e.expected.runRevision <= rs[e.runId].revision
          /\ e.mutation.kind = "workflow_controlled" => e.mutation.control \in Controls
          /\ \/ e.expected.ownerSessionId = s
             \/ e.mutation.kind = "owner_adopted" /\ e.mutation.sessionId = s
          /\ e.expected.runRevision = rs[e.runId].revision => Fresh(rs[e.runId], e.mutation)

Sound(rs, s, c) ==
    /\ c.pc = "entry" => c.op \in Controls /\ c.runId \in DOMAIN rs
    /\ c.pc = "found" => /\ Copy(rs, c.run)
                         /\ c.op \in Targeted \ {"adopt"} => c.run.sessionId = s
    /\ c.pc = "absent" => c.workflow \in Workflows
    /\ c.pc = "stopping" => IndexOK(rs, c.index) /\ c.leafId \in STRING
    /\ c.pc = "ready" => EventOK(rs, s, c.event)

RunsInv ==
    /\ runs = [r \in DOMAIN runs |-> runs[r]]
    /\ \A r \in DOMAIN runs : /\ r \in RunIds /\ runs[r] \in Runs /\ runs[r].runId = r
                              /\ Proven(runs[r], authority[r]) /\ Dated(runs[r], authority[r])
    /\ authority = [r \in RunIds |-> authority[r]]
    /\ \A r \in RunIds : Ledger(authority[r]) /\ (r \notin DOMAIN runs => authority[r] = EmptyAuthority)
    /\ IndexOK(runs, index) /\ head \in Heads

CountInv ==
    /\ emitted \in [RunIds -> Nat] /\ \A r \in RunIds : emitted[r] <= NoProgressLimit
    /\ \A r \in RunIds \ DOMAIN runs : emitted[r] = 0
    /\ \A r \in DOMAIN runs :
          (\A p \in pending : p.event.runId # r) => Counted(runs[r], emitted[r])

PendingInv ==
    \/ pending = {}
    \/ \E p : /\ pending = {p} /\ p.event.runId \in DOMAIN runs /\ IndexOK(runs, p.index)
              /\ Counted(runs[p.event.runId], Emitted(p.event.mutation, emitted[p.event.runId]))
              /\ p.event.mutation.kind = "continuation_attempted" =>
                    runs[p.event.runId].status = "active"

CmdInv ==
    /\ cmd = [s \in Sessions |-> cmd[s]]
    /\ \A s \in Sessions : Sound(runs, s, cmd[s])

Inv == RunsInv /\ CountInv /\ PendingInv /\ CmdInv

-----------------------------------------------------------------------------
(* Runs only move on, and what is known of them stays known                *)

Grows(rs, later) ==
    \A r \in DOMAIN rs :
        /\ r \in DOMAIN later /\ rs[r].revision \in Nat /\ later[r].revision \in Nat
        /\ later[r] = rs[r] \/ later[r].revision > rs[r].revision

(* What a session knows stays true. *)
LEMMA SoundStays ==
    ASSUME NEW rs, NEW later, Grows(rs, later), NEW s, NEW c, Sound(rs, s, c)
    PROVE  Sound(later, s, c)
<1>1. \A run : Copy(rs, run) => Copy(later, run)
    <2> SUFFICES ASSUME NEW run, Copy(rs, run) PROVE Copy(later, run)
        OBVIOUS
    <2>1. run \in Runs /\ run.revision \in Nat /\ run.runId \in DOMAIN rs
        BY RunFields DEF Copy
    <2> QED BY <2>1 DEF Copy, Grows
<1>2. \A idx : IndexOK(rs, idx) => IndexOK(later, idx)
    BY DEF IndexOK, Grows
<1>3. \A e : EventOK(rs, s, e) => EventOK(later, s, e)
    <2> SUFFICES ASSUME NEW e, EventOK(rs, s, e) PROVE EventOK(later, s, e)
        OBVIOUS
    <2>1. CASE e.mutation.kind \in Made
        <3>1. /\ e.runId \in DOMAIN rs
              /\ e.expected.runRevision \in Nat /\ e.expected.runRevision <= rs[e.runId].revision
              /\ e.mutation.kind = "workflow_controlled" => e.mutation.control \in Controls
              /\ \/ e.expected.ownerSessionId = s
                 \/ e.mutation.kind = "owner_adopted" /\ e.mutation.sessionId = s
              /\ e.expected.runRevision = rs[e.runId].revision => Fresh(rs[e.runId], e.mutation)
            BY <2>1 DEF EventOK, Made
        <3>2. /\ e.runId \in DOMAIN later /\ e.expected.runRevision <= later[e.runId].revision
              /\ e.expected.runRevision = later[e.runId].revision => later[e.runId] = rs[e.runId]
            BY <3>1 DEF Grows
        <3>3. e.expected.runRevision = later[e.runId].revision => Fresh(later[e.runId], e.mutation)
            BY <3>1, <3>2
        <3> QED BY <2>1, <3>1, <3>2, <3>3 DEF EventOK
    <2>2. CASE e.mutation.kind \notin Made
        BY <2>2 DEF EventOK
    <2> QED BY <2>1, <2>2
<1>4. \A r \in DOMAIN rs : r \in DOMAIN later
    BY DEF Grows
<1> QED BY <1>1, <1>2, <1>3, <1>4 DEF Sound

(* A session that moves, while runs move on. *)
LEMMA GoesSound ==
    ASSUME CmdInv, NEW s \in Sessions, NEW c, Goes(s, c), Grows(runs, runs'), Sound(runs', s, c)
    PROVE  CmdInv'
<1>1. cmd' = [t \in Sessions |-> IF t = s THEN c ELSE cmd[t]]
    BY DEF Goes, CmdInv
<1>2. \A t \in Sessions : Sound(runs', t, cmd[t])
    BY SoundStays DEF CmdInv
<1> QED BY <1>1, <1>2 DEF CmdInv

(* Nothing has moved. *)
LEMMA GrowsSame ==
    ASSUME RunsInv, runs' = runs
    PROVE  Grows(runs, runs')
<1>1. \A r \in DOMAIN runs : runs[r].revision \in Nat
    BY RunFields DEF RunsInv
<1> QED BY <1>1 DEF Grows

(* A session moves on and no file is written. *)
LEMMA OnlyGoes ==
    ASSUME Inv, UNCHANGED files, NEW s \in Sessions, NEW c, Goes(s, c), Sound(runs, s, c)
    PROVE  Inv'
<1>1. CmdInv'
    BY GoesSound, GrowsSame DEF Inv, files
<1> QED BY <1>1 DEF Inv, files, RunsInv, CountInv, PendingInv

-----------------------------------------------------------------------------
(* Lookups                                                                 *)

(* What is read now is a copy. *)
LEMMA ReadIsCopy ==
    ASSUME RunsInv, NEW r \in DOMAIN runs
    PROVE  Copy(runs, runs[r]) /\ runs[r].revision \in Nat
<1>1. runs[r] \in Runs /\ runs[r].runId = r
    BY DEF RunsInv
<1>2. runs[r].revision \in Nat
    BY <1>1, RunFields
<1> QED BY <1>1, <1>2 DEF Copy

(* With a run id, another session's run is found for an adoption only. *)
LEMMA LookupTargetStep ==
    ASSUME Inv, NEW s \in Sessions, NEW op \in Controls \cup Targeted, NEW r \in DOMAIN runs,
           LookupTarget(s, op, r)
    PROVE  Inv'
<1> DEFINE c == Found(op, runs[r])
<1>1. c.pc = "found" /\ c.op = op /\ c.run = runs[r]
    BY DEF Found
<1> HIDE DEF c
<1>2. op \in Targeted \ {"adopt"} => runs[r].sessionId = s
    BY DEF LookupTarget
<1>3. Copy(runs, runs[r])
    BY ReadIsCopy DEF Inv
<1>4. Sound(runs, s, c)
    BY <1>1, <1>2, <1>3 DEF Sound
<1>5. Goes(s, c) /\ UNCHANGED files
    BY DEF LookupTarget, c
<1> QED BY <1>4, <1>5, OnlyGoes

(* The index names runs that are there. *)
LEMMA LookupEntryStep ==
    ASSUME Inv, NEW s \in Sessions, NEW op \in Controls, NEW w, LookupEntry(s, op, w)
    PROVE  Inv'
<1>1. PICK entry \in index.entries : Goes(s, [pc |-> "entry", op |-> op, runId |-> entry.runId])
    BY DEF LookupEntry, EntriesOf
<1>2. entry.runId \in DOMAIN runs
    BY DEF Inv, RunsInv, IndexOK
<1>3. Sound(runs, s, [pc |-> "entry", op |-> op, runId |-> entry.runId])
    BY <1>2 DEF Sound
<1>4. UNCHANGED files
    BY DEF LookupEntry
<1> QED BY <1>1, <1>3, <1>4, OnlyGoes

(* ... and a run, once there, stays. *)
LEMMA ReadRunStep ==
    ASSUME Inv, NEW s \in Sessions, ReadRun(s)
    PROVE  Inv'
<1> DEFINE op == cmd[s].op
           r == cmd[s].runId
           c == Found(op, runs[r])
<1>1. op \in Controls /\ r \in DOMAIN runs
    BY DEF ReadRun, Inv, CmdInv, Sound
<1>2. c.pc = "found" /\ c.op = op /\ c.run = runs[r]
    BY DEF Found
<1>3. Goes(s, c) /\ UNCHANGED files
    BY DEF ReadRun
<1> HIDE DEF c, op, r
<1>4. Copy(runs, runs[r])
    BY <1>1, ReadIsCopy DEF Inv
<1>5. Sound(runs, s, c)
    BY <1>1, <1>2, <1>4 DEF Sound, Controls, Targeted
<1> QED BY <1>3, <1>5, OnlyGoes

(* There is none. *)
LEMMA LookupNoneStep ==
    ASSUME Inv, NEW s \in Sessions, NEW w \in Workflows, LookupNone(s, w)
    PROVE  Inv'
<1>1. Sound(runs, s, [pc |-> "absent", workflow |-> w])
    BY DEF Sound
<1>2. Goes(s, [pc |-> "absent", workflow |-> w]) /\ UNCHANGED files
    BY DEF LookupNone
<1> QED BY <1>1, <1>2, OnlyGoes

(* A command that gives up. *)
LEMMA GiveUpStep ==
    ASSUME Inv, NEW s \in Sessions, GiveUp(s)
    PROVE  Inv'
<1>1. Sound(runs, s, Idle)
    BY DEF Sound, Idle
<1>2. Goes(s, Idle) /\ UNCHANGED files
    BY DEF GiveUp
<1> QED BY <1>1, <1>2, OnlyGoes

(* A stop has read the index. *)
LEMMA StopReadIndexStep ==
    ASSUME Inv, NEW s \in Sessions, NEW leafId \in Leaves, StopReadIndex(s, leafId)
    PROVE  Inv'
<1>1. leafId \in STRING
    BY LiteralsAssumption DEF Leaves
<1>2. Sound(runs, s, [pc |-> "stopping", leafId |-> leafId, index |-> index])
    BY <1>1 DEF Sound, Inv, RunsInv
<1>3. Goes(s, [pc |-> "stopping", leafId |-> leafId, index |-> index]) /\ UNCHANGED files
    BY DEF StopReadIndex
<1> QED BY <1>2, <1>3, OnlyGoes

-----------------------------------------------------------------------------
(* Events                                                                  *)

(* An event that was made for the run of a copy. *)
LEMMA EventFacts ==
    ASSUME NEW run, NEW revision, NEW expectedHead, NEW generation, NEW m
    PROVE  LET e == mutationEvent(run, revision, expectedHead, generation, m)
           IN  /\ e.runId = run.runId /\ e.mutation = m /\ e.sequence = revision + 1
               /\ e.expected.runRevision = run.revision /\ e.expected.ownerSessionId = run.sessionId
BY DEF mutationEvent, EventOf

(* A mutation of one of the kinds that are made, as far as types go. *)
Typed(m) ==
    /\ m.kind \in Made
    /\ m.kind = "workflow_controlled" => m.control \in Controls
    /\ m.kind = "owner_adopted" => m.sessionId \in STRING
    /\ m.kind = "plan_reconciled" => m.taskIds \in Seq(STRING)
    /\ m.kind = "workflow_steered" => m.criteria \in Seq(STRING)
    /\ m.kind \in {"continuation_attempted", "continuation_stuck"} => m.leafId \in STRING

(* Such an event is what a session may have ready. *)
LEMMA EventIsOK ==
    ASSUME RunsInv, NEW s, NEW run, Copy(runs, run), NEW revision \in Nat,
           NEW expectedHead, NEW generation, NEW m, Typed(m),
           run.sessionId = s \/ (m.kind = "owner_adopted" /\ m.sessionId = s),
           run = runs[run.runId] => Fresh(run, m)
    PROVE  EventOK(runs, s, mutationEvent(run, revision, expectedHead, generation, m))
<1> DEFINE e == mutationEvent(run, revision, expectedHead, generation, m)
<1>1. /\ e.runId = run.runId /\ e.mutation = m /\ e.sequence = revision + 1
      /\ e.expected.runRevision = run.revision /\ e.expected.ownerSessionId = run.sessionId
    BY EventFacts
<1> HIDE DEF e
<1>2. run \in Runs /\ run.revision \in Nat /\ run.runId \in DOMAIN runs /\ run.runId \in RunIds
    BY RunFields DEF Copy, RunsInv
<1>3. WellFormed(e)
    BY <1>1, <1>2 DEF WellFormed, Typed, Made, Kinds
<1>4. e.expected.runRevision = runs[e.runId].revision => Fresh(runs[e.runId], e.mutation)
    BY <1>1 DEF Copy
<1>5. e.expected.runRevision <= runs[e.runId].revision
    BY <1>1 DEF Copy
<1>6. EventOK(runs, s, e)
    BY <1>1, <1>2, <1>3, <1>4, <1>5 DEF EventOK, Typed
<1> QED BY <1>6 DEF e

(* A session that has its event ready. *)
LEMMA ReadyStep ==
    ASSUME Inv, UNCHANGED files, NEW s \in Sessions, NEW op, NEW e, EventOK(runs, s, e),
           Goes(s, Ready(op, e))
    PROVE  Inv'
<1>1. Ready(op, e).pc = "ready" /\ Ready(op, e).event = e
    BY DEF Ready
<1>2. Sound(runs, s, Ready(op, e))
    BY <1>1 DEF Sound
<1> QED BY <1>2, OnlyGoes

(* What a command builds on the copy it has found. *)
LEMMA BuildsStep ==
    ASSUME Inv, NEW s \in Sessions, NEW m, NEW expectedHead, NEW generation,
           cmd[s].pc = "found", Builds(s, m, expectedHead, generation), Typed(m),
           cmd[s].run.sessionId = s \/ (m.kind = "owner_adopted" /\ m.sessionId = s),
           cmd[s].run = runs[cmd[s].run.runId] => Fresh(cmd[s].run, m)
    PROVE  Inv'
<1> DEFINE run == cmd[s].run
<1>1. Copy(runs, run)
    BY DEF Inv, CmdInv, Sound
<1>2. index.revision \in Nat /\ RunsInv
    BY DEF Inv, RunsInv, IndexOK
<1>3. /\ Goes(s, Ready(cmd[s].op, mutationEvent(run, index.revision, expectedHead, generation, m)))
      /\ UNCHANGED files
    BY DEF Builds
<1> HIDE DEF run
<1>4. EventOK(runs, s, mutationEvent(run, index.revision, expectedHead, generation, m))
    BY <1>1, <1>2, EventIsOK DEF run
<1> QED BY <1>3, <1>4, ReadyStep

(* Only adopt acts on another session's run. *)
LEMMA ControlStep ==
    ASSUME Inv, NEW s \in Sessions, Control(s)
    PROVE  Inv'
<1>1. cmd[s].pc = "found" /\ Precheck(s, cmd[s].op, cmd[s].run)
    BY DEF Control
<1>2. CASE cmd[s].op = "adopt"
    <2> DEFINE m == [kind |-> "owner_adopted", sessionId |-> s]
    <2>1. Builds(s, m, None, NoGeneration)
        BY <1>2 DEF Control
    <2>2. m.kind = "owner_adopted" /\ m.sessionId = s
        OBVIOUS
    <2> HIDE DEF m
    <2>3. Typed(m) /\ Fresh(cmd[s].run, m)
        BY <2>2 DEF Typed, Made, Fresh
    <2> QED BY <1>1, <2>1, <2>2, <2>3, BuildsStep
<1>3. CASE cmd[s].op # "adopt"
    <2> DEFINE m == [kind |-> "workflow_controlled", control |-> cmd[s].op]
    <2>1. Builds(s, m, None, NoGeneration)
        BY <1>3 DEF Control
    <2>2. m.kind = "workflow_controlled" /\ m.control \in Controls
        BY <1>3 DEF Control
    <2> HIDE DEF m
    <2>3. Typed(m) /\ Fresh(cmd[s].run, m)
        BY <2>2 DEF Typed, Made, Fresh
    <2>4. cmd[s].run.sessionId = s
        BY <1>1, <1>3 DEF Precheck
    <2> QED BY <1>1, <2>1, <2>3, <2>4, BuildsStep
<1> QED BY <1>2, <1>3

(* One of S, in a list. *)
LEMMA SingleIsSeq ==
    ASSUME NEW S, NEW x \in S
    PROVE  <<x>> \in Seq(S)
OBVIOUS

(* Reconciling and steering. *)
LEMMA ReconcileSteerStep ==
    ASSUME Inv, NEW s \in Sessions, Reconcile(s) \/ Steer(s)
    PROVE  Inv'
<1>1. cmd[s].pc = "found" /\ cmd[s].run.sessionId = s
    BY DEF Reconcile, Steer, Inv, CmdInv, Sound, Targeted
<1>2. CASE Reconcile(s)
    <2> DEFINE m == [kind |-> "plan_reconciled", taskIds |-> PlanTasks]
    <2>1. Builds(s, m, head, cmd[s].run.progressRevision)
        BY <1>2 DEF Reconcile
    <2>2. m.kind = "plan_reconciled" /\ m.taskIds = PlanTasks
        OBVIOUS
    <2> HIDE DEF m
    <2>3. Typed(m) /\ Fresh(cmd[s].run, m)
        BY <2>2 DEF Typed, Made, Fresh
    <2> QED BY <1>1, <2>1, <2>3, BuildsStep
<1>3. CASE Steer(s)
    <2> DEFINE m == [kind |-> "workflow_steered", criteria |-> <<"criterion-2">>]
    <2>1. Builds(s, m, head, cmd[s].run.progressRevision)
        BY <1>3 DEF Steer
    <2>2. m.kind = "workflow_steered" /\ m.criteria = <<"criterion-2">>
        OBVIOUS
    <2>3. <<"criterion-2">> \in Seq(STRING)
        BY LiteralsAssumption, SingleIsSeq
    <2> HIDE DEF m
    <2>4. Typed(m) /\ Fresh(cmd[s].run, m)
        BY <2>2, <2>3 DEF Typed, Made, Fresh
    <2> QED BY <1>1, <2>1, <2>4, BuildsStep
<1> QED BY <1>2, <1>3

(* A checkpoint rests on a receipt of the revision it is about, so that    *)
(* revision has not ended.                                                 *)
LEMMA CheckpointStep ==
    ASSUME Inv, NEW s \in Sessions, Checkpoint(s)
    PROVE  Inv'
<1> DEFINE run == cmd[s].run
           a == authority[run.runId]
           m(i) == [kind |-> "criterion_settled", criterionId |-> a.accepted[i].taskId,
                    acceptanceId |-> a.accepted[i].idempotencyKey,
                    captureRevision |-> a.accepted[i].runRevision,
                    captureCommit |-> a.accepted[i].captureCommit]
<1>1. PICK i \in DOMAIN a.accepted :
          /\ a.accepted[i].runRevision = run.revision
          /\ Builds(s, m(i), head, a.accepted[i].taskGeneration)
    BY DEF Checkpoint
<1>2. cmd[s].pc = "found" /\ run.sessionId = s /\ Copy(runs, run)
    BY DEF Checkpoint, Inv, CmdInv, Sound, Targeted
<1>3. m(i).kind = "criterion_settled"
    OBVIOUS
<1> HIDE DEF m, run
<1>4. ASSUME run = runs[run.runId] PROVE run.status \notin Terminal
    <2>1. run.runId \in DOMAIN runs
        BY <1>2 DEF Copy
    <2>2. Dated(runs[run.runId], a)
        BY <2>1 DEF Inv, RunsInv
    <2> QED BY <1>1, <1>4, <2>2 DEF Dated
<1>5. Typed(m(i)) /\ (run = runs[run.runId] => Fresh(run, m(i)))
    BY <1>3, <1>4 DEF Typed, Made, Fresh
<1> QED BY <1>1, <1>2, <1>5, BuildsStep DEF run

(* A run is created at its first attempt, for an id that is free. *)
LEMMA CreateStep ==
    ASSUME Inv, NEW s \in Sessions, Create(s)
    PROVE  Inv'
<1> DEFINE id == CHOOSE r \in FreshRunIds : TRUE
           w == cmd[s].workflow
           ids == IF w = "start_work" THEN PlanTasks ELSE <<>>
           run == NewRun(id, w, s, head, ids)
           e == createEvent(index.revision, run)
<1>1. FreshRunIds # {} /\ Goes(s, Ready("create", e)) /\ UNCHANGED files /\ cmd[s].pc = "absent"
    BY DEF Create
<1>2. id \in RunIds /\ w \in Workflows /\ index.revision \in Nat /\ head \in STRING
    BY <1>1 DEF FreshRunIds, Inv, CmdInv, Sound, RunsInv, IndexOK
<1>3. ids \in Seq(STRING) /\ (w = "ulw_loop" => ids = <<>>)
    <2>1. <<>> \in Seq(STRING) /\ PlanTasks \in Seq(STRING)
        OBVIOUS
    <2> HIDE DEF w
    <2> QED BY <2>1
<1> HIDE DEF ids, id, w
<1>4. run \in Runs /\ run.runId = id
    <2>1. <<NewCriterion("criterion-1")>> \in Seq(Criteria)
        <3>1. NewCriterion("criterion-1") \in Criteria
            <4>1. 0 \in 0 .. FailureLimit
                BY DEF FailureLimit
            <4>2. None \in STRING \cup {None} /\ "criterion-1" \in STRING
                BY LiteralsAssumption
            <4> QED BY <4>1, <4>2 DEF NewCriterion, Criteria
        <3> HIDE DEF NewCriterion
        <3> QED BY <3>1
    <2>2. "active" \in Statuses
        BY DEF Statuses
    <2> DEFINE criteria == IF w = "ulw_loop" THEN <<NewCriterion("criterion-1")>> ELSE <<>>
    <2>3. criteria \in Seq(Criteria)
        BY <2>1
    <2>4. s \in STRING
        OBVIOUS
    <2> HIDE DEF criteria
    <2> QED BY <1>2, <1>3, <2>2, <2>3, <2>4 DEF NewRun, Runs, None, CycleLimit, criteria
<1>5. \E i2, w2, h2, ids2 : run = NewRun(i2, w2, s, h2, ids2)
                             /\ w2 \in Workflows /\ (w2 = "ulw_loop" => ids2 = <<>>)
    BY <1>2, <1>3
<1> HIDE DEF run
<1>6. e.runId = id /\ e.mutation.kind = "run_created" /\ e.mutation.run = run /\ e.sequence = index.revision + 1
    BY <1>4 DEF createEvent, EventOf
<1> HIDE DEF e
<1>7. WellFormed(e)
    BY <1>2, <1>4, <1>6 DEF WellFormed, Kinds
<1>8. EventOK(runs, s, e)
    BY <1>5, <1>6, <1>7 DEF EventOK
<1> QED BY <1>1, <1>8, ReadyStep

-----------------------------------------------------------------------------
(* Receipts                                                                *)

(* The acceptance that speaks for a task now is in the ledger. *)
LEMMA CurrentBacks ==
    ASSUME NEW run, NEW a, Ledger(a), NEW t, currentAcceptance(run, a, t) # 0
    PROVE  Backed(run, a, t)
<1> DEFINE accepted == a.accepted
           I == {i \in 1 .. Len(accepted) :
                   /\ matchesRun(run, accepted[i])
                   /\ accepted[i].taskId = t
                   /\ accepted[i].taskGeneration = taskGeneration(run, a)
                   /\ accepted[i].attempt = run.progressRevision}
<1>1. currentAcceptance(run, a, t) \in {0, IF I # {} THEN Max(I) ELSE 0}
    BY DEF currentAcceptance, SelectLastInSeq
<1>2. I # {}
    BY <1>1
<1>3. DOMAIN accepted = 1 .. Len(accepted)
    BY DEF Ledger
<1> QED BY <1>2, <1>3 DEF Backed, matchesRun

(* So is the newest one that matches the run. *)
LEMMA AcceptanceBacks ==
    ASSUME NEW run, NEW a, Ledger(a), NEW t, acceptanceOf(run, a, t) # 0
    PROVE  Backed(run, a, t)
<1> DEFINE accepted == a.accepted
           I == {i \in 1 .. Len(accepted) : matchesRun(run, accepted[i]) /\ accepted[i].taskId = t}
<1>1. acceptanceOf(run, a, t) = IF I # {} THEN Max(I) ELSE 0
    BY DEF acceptanceOf, SelectLastInSeq
<1>2. I # {}
    BY <1>1
<1>3. DOMAIN accepted = 1 .. Len(accepted)
    BY DEF Ledger
<1> QED BY <1>2, <1>3 DEF Backed, matchesRun

-----------------------------------------------------------------------------
(* What the reducers keep                                                  *)

(* An event's mutation that may be applied to the run its maker knew. *)
Applies(run, e, a) ==
    /\ run \in Runs /\ WellFormed(e) /\ e.mutation.kind \in Made
    /\ e.mutation.kind = "workflow_controlled" => e.mutation.control \in Controls
    /\ controlAllowed(run, e, a) /\ Fresh(run, e.mutation)

(* What has ended stays so, a run that is continued stays as it is, and an *)
(* adoption makes the adopter the owner.                                   *)
LEMMA EndsStay ==
    ASSUME NEW run, NEW e, NEW a, Applies(run, e, a)
    PROVE  LET next == controlRun(run, e.mutation)
           IN  /\ run.status \in Terminal => next.status = run.status
               /\ e.mutation.kind = "continuation_attempted" => next.status = "active"
               /\ e.mutation.kind = "owner_adopted" => next.sessionId = e.mutation.sessionId
<1> DEFINE m == e.mutation
           next == controlRun(run, m)
<1>1. run \in Runs /\ m.kind \in Made /\ controlAllowed(run, e, a) /\ Fresh(run, m)
    BY DEF Applies
<1>2. Bumped(run) \in Runs /\ Bumped(run).status = run.status /\ Resumed(run) \in Runs
    BY <1>1, BumpedTyped, ResumedTyped DEF Bumped, Runs
<1>3. CASE m.kind \in {"workflow_controlled", "plan_reconciled"}
    BY <1>1, <1>3 DEF controlAllowed, ControlAllowed, Terminal, Adoptable
<1>4. CASE m.kind = "owner_adopted"
    <2>1. run.status \notin Terminal
        BY <1>1, <1>4 DEF controlAllowed, ControlAllowed, Terminal, Adoptable
    <2>2. next.sessionId = m.sessionId
        BY <1>2, <1>4 DEF controlRun, Adopted, Runs
    <2> QED BY <1>4, <2>1, <2>2
<1>5. CASE m.kind = "workflow_steered"
    BY <1>2, <1>5 DEF controlRun, Steered, Runs
<1>6. CASE m.kind \in {"criterion_settled", "workflow_terminal", "continuation_stuck"}
    BY <1>1, <1>6 DEF Fresh
<1>7. CASE m.kind = "task_evidence_accepted"
    BY <1>2, <1>7 DEF controlRun, Progressed, Runs
<1>8. CASE m.kind = "continuation_attempted"
    <2>1. run.status = "active" /\ run.status \notin Terminal
        BY <1>1, <1>8 DEF Fresh, Terminal
    <2>2. next.status = run.status
        BY <1>2, <1>8 DEF controlRun, attemptContinuation, Runs
    <2> QED BY <1>8, <2>1, <2>2
<1> QED BY <1>1, <1>3, <1>4, <1>5, <1>6, <1>7, <1>8 DEF Made

(* The run's own count is never below what it was granted, and nobody is   *)
(* granted a continuation at the limit.                                    *)
LEMMA CountStays ==
    ASSUME NEW run, NEW e, NEW a, Applies(run, e, a), NEW n, Counted(run, n)
    PROVE  Counted(controlRun(run, e.mutation), Emitted(e.mutation, n))
<1> DEFINE m == e.mutation
           next == controlRun(run, m)
<1>1. run \in Runs /\ m.kind \in Made /\ controlAllowed(run, e, a) /\ Fresh(run, m)
    BY DEF Applies
<1>2. Bumped(run) \in Runs /\ Resumed(run) \in Runs /\ n \in Nat /\ n <= NoProgressLimit
    BY <1>1, BumpedTyped, ResumedTyped DEF Counted
<1>3. /\ run.attempts \in Nat /\ run.seen \in Nat /\ run.progressRevision \in Nat
      /\ Bumped(run).attempts = run.attempts /\ Bumped(run).seen = run.seen
      /\ Bumped(run).progressRevision = run.progressRevision
    BY <1>1, RunFields DEF Bumped, Runs
<1>4. ASSUME next.seen = run.seen, next.progressRevision = run.progressRevision,
             next.attempts = run.attempts, Emitted(m, n) = n
      PROVE  Counted(next, Emitted(m, n))
    BY <1>4 DEF Counted
<1>5. ASSUME Emitted(m, n) = 0, next.attempts \in Nat
      PROVE  Counted(next, Emitted(m, n))
    BY <1>5 DEF Counted, NoProgressLimit
<1>6. next \in Runs /\ next.attempts \in Nat
    <2>1. e.mutation.kind # "criterion_failure_recorded"
        BY <1>1 DEF Made
    <2> QED BY <1>1, <2>1, ControlRunTyped, RunFields DEF Applies
<1>7. CASE m.kind = "workflow_controlled"
    <2>1. m.control \in Controls
        BY <1>7 DEF Applies
    <2>2. CASE m.control = "resume"
        <3>1. Emitted(m, n) = 0
            BY <1>7, <2>2 DEF Emitted, ReceiptBound
        <3> QED BY <3>1, <1>5, <1>6
    <2>3. CASE m.control # "resume"
        <3>1. Emitted(m, n) = n
            BY <1>7, <2>3 DEF Emitted, ReceiptBound
        <3>2. next \in {Paused(run), Cancelled(run)}
            BY <1>7, <2>1, <2>3 DEF controlRun, Controls
        <3>3. /\ next.seen = run.seen /\ next.progressRevision = run.progressRevision
              /\ next.attempts = run.attempts
            <4> HIDE DEF next
            <4> QED BY <1>2, <1>3, <3>2 DEF Paused, Cancelled, Runs
        <3> QED BY <3>1, <3>3, <1>4
    <2> QED BY <2>2, <2>3
<1>8. CASE m.kind \in ReceiptBound \cup {"owner_adopted"}
    <2>1. Emitted(m, n) = 0
        BY <1>8 DEF Emitted, ReceiptBound
    <2> QED BY <2>1, <1>5, <1>6
<1>9. CASE m.kind \in {"plan_reconciled", "workflow_steered", "continuation_stuck"}
    <2>1. Emitted(m, n) = n
        BY <1>9 DEF Emitted, ReceiptBound
    <2>2. /\ next.seen = run.seen /\ next.progressRevision = run.progressRevision
          /\ next.attempts = run.attempts
        <3>1. CASE m.kind = "plan_reconciled"
            BY <1>2, <1>3, <3>1 DEF controlRun, Reconciled, Runs
        <3>2. CASE m.kind = "workflow_steered"
            BY <1>2, <1>3, <3>2 DEF controlRun, Steered, Runs
        <3>3. CASE m.kind = "continuation_stuck"
            BY <1>2, <1>3, <3>3 DEF controlRun, stopContinuation, Runs
        <3> QED BY <1>9, <3>1, <3>2, <3>3
    <2> QED BY <2>1, <2>2, <1>4
<1>10. CASE m.kind = "continuation_attempted"
    <2>1. Emitted(m, n) = n + 1
        BY <1>2, <1>10 DEF Emitted, ReceiptBound
    <2>2. ~(run.seen = run.progressRevision /\ run.attempts >= NoProgressLimit)
        BY <1>1, <1>10 DEF Fresh, hasReachedNoProgressBound
    <2>3. /\ next.seen = run.progressRevision /\ next.progressRevision = run.progressRevision
          /\ next.attempts = IF run.seen # run.progressRevision THEN 1 ELSE run.attempts + 1
        BY <1>2, <1>3, <1>10 DEF controlRun, attemptContinuation, Runs
    <2> HIDE DEF next, m
    <2>4. Counted(next, Emitted(m, n))
        BY <1>2, <1>3, <2>1, <2>2, <2>3 DEF Counted, NoProgressLimit
    <2> QED BY <2>4 DEF next, m
<1> QED BY <1>1, <1>7, <1>8, <1>9, <1>10 DEF Made, ReceiptBound

(* What was proved stays proved while a run has not completed ... *)
LEMMA OpenStaysProven ==
    ASSUME NEW run, NEW next, NEW a, Proven(run, a),
           next.workflow = run.workflow, next.expectedHead = run.expectedHead,
           next.criteria = run.criteria, next.taskIds = run.taskIds, next.status # "completed"
    PROVE  Proven(next, a)
BY DEF Proven, Backed

(* ... and while its epoch, its goal and its status stay. *)
LEMMA SameStaysProven ==
    ASSUME NEW run, NEW next, NEW a, Proven(run, a),
           next.workflow = run.workflow, next.expectedHead = run.expectedHead,
           next.criteria = run.criteria, next.taskIds = run.taskIds, next.status = run.status,
           next.goalStatus = run.goalStatus, next.epoch = run.epoch
    PROVE  Proven(next, a)
BY DEF Proven, Backed, HasActiveGoal

(* Steering adds criteria that nothing speaks for yet, to a goal that is   *)
(* still open.                                                             *)
LEMMA SteeredStaysProven ==
    ASSUME NEW run \in Runs, NEW a, Proven(run, a), NEW ids \in Seq(STRING),
           SteerAllowed(run, ids)
    PROVE  Proven(Steered(run, ids), a)
<1> DEFINE next == Steered(run, ids)
           added == [i \in DOMAIN ids |-> NewCriterion(ids[i])]
<1>1. Bumped(run) \in Runs /\ Bumped(run).criteria = run.criteria
    BY BumpedTyped, BumpedCriteria
<1>2. /\ next.workflow = run.workflow /\ next.expectedHead = run.expectedHead
      /\ next.taskIds = run.taskIds /\ next.status = run.status /\ next.epoch = run.epoch
      /\ next.goalStatus = run.goalStatus
    BY <1>1 DEF Steered, Bumped, Runs
<1>3. next.criteria = run.criteria \o added
    BY <1>1 DEF Steered, Runs
<1>4. run.workflow = "ulw_loop" /\ HasActiveGoal(run) /\ run.status # "completed"
    BY DEF SteerAllowed, Proven
<1>5. /\ run.criteria \in Seq(Criteria) /\ DOMAIN added = 1 .. Len(ids) /\ Len(ids) \in Nat
      /\ \A i \in DOMAIN added : added[i].status = "pending"
    BY DEF Runs, NewCriterion
<1>6. added \in Seq({NewCriterion(ids[i]) : i \in DOMAIN ids})
    BY <1>5
<1> HIDE DEF added, next
<1>7. ASSUME NEW k \in DOMAIN next.criteria, next.criteria[k].status = "pass"
      PROVE  k \in DOMAIN run.criteria /\ next.criteria[k] = run.criteria[k]
    <2>1. k \in 1 .. Len(run.criteria) + Len(added) /\ DOMAIN added = 1 .. Len(added)
        BY <1>3, <1>5, <1>6
    <2>2. CASE k > Len(run.criteria)
        <3>1. next.criteria[k] = added[k - Len(run.criteria)]
            BY <1>3, <1>5, <1>6, <2>1, <2>2
        <3>2. k - Len(run.criteria) \in DOMAIN added
            BY <1>5, <2>1, <2>2
        <3> QED BY <1>5, <1>7, <3>1, <3>2
    <2>3. CASE k <= Len(run.criteria)
        BY <1>3, <1>5, <1>6, <2>1, <2>3
    <2> QED BY <1>5, <2>1, <2>2, <2>3
<1>8. Proven(next, a)
    BY <1>2, <1>4, <1>7 DEF Proven, Backed
<1> QED BY <1>8 DEF next

(* A criterion passes on an acceptance; with the last one the run is done. *)
LEMMA SettledStaysProven ==
    ASSUME NEW run \in Runs, NEW a, Ledger(a), Proven(run, a), NEW id,
           run.workflow = "ulw_loop", run.status \notin Terminal,
           currentAcceptance(run, a, id) # 0
    PROVE  Proven(settleCriterion(run, id), a)
<1> DEFINE next == settleCriterion(run, id)
           F == [k \in DOMAIN run.criteria |->
                   IF run.criteria[k].id = id THEN [run.criteria[k] EXCEPT !.status = "pass"]
                                              ELSE run.criteria[k]]
           completed == \A k \in DOMAIN F : F[k].status = "pass"
<1>1. Progressed(run) \in Runs /\ Bumped(run) \in Runs
    BY ProgressedTyped, BumpedTyped
<1>2. /\ Progressed(run).workflow = run.workflow /\ Progressed(run).expectedHead = run.expectedHead
      /\ Progressed(run).taskIds = run.taskIds /\ Progressed(run).status = run.status
      /\ Progressed(run).goalStatus = run.goalStatus
    BY <1>1 DEF Progressed, Bumped, Runs
<1>3. /\ next.workflow = run.workflow /\ next.expectedHead = run.expectedHead
      /\ next.taskIds = run.taskIds /\ next.criteria = F
      /\ next.status = IF completed THEN "completed" ELSE run.status
      /\ next.goalStatus = IF completed THEN "complete" ELSE run.goalStatus
    BY <1>1, <1>2 DEF settleCriterion, Runs
<1>4. Backed(run, a, id)
    BY CurrentBacks
<1>5. \A k \in DOMAIN run.criteria : run.criteria[k] \in Criteria
    BY DEF Runs
<1>6. \A k \in DOMAIN F : /\ k \in DOMAIN run.criteria /\ F[k].id = run.criteria[k].id
                          /\ run.criteria[k].id # id => F[k].status = run.criteria[k].status
    BY <1>5 DEF Criteria
<1> HIDE DEF F, next
<1>7. \A k \in DOMAIN F : F[k].status = "pass" => Backed(run, a, F[k].id)
    BY <1>4, <1>6 DEF Proven
<1>8. \A t : Backed(run, a, t) => Backed(next, a, t)
    BY <1>3 DEF Backed
<1>9. run.status # "completed" /\ run.taskIds = <<>>
    BY DEF Terminal, Proven
<1>10. next.status = "completed" => completed
    BY <1>3, <1>9
<1>11. completed => ~HasActiveGoal(next)
    BY <1>3 DEF HasActiveGoal
<1>12. Proven(next, a)
    BY <1>3, <1>7, <1>8, <1>9, <1>10, <1>11 DEF Proven
<1> QED BY <1>12 DEF next

(* A plan completes when each task has an acceptance that matches the run. *)
LEMMA CompletedStaysProven ==
    ASSUME NEW run \in Runs, NEW a, Ledger(a), Proven(run, a),
           run.workflow = "start_work", CompletionReady(run, a)
    PROVE  Proven([Progressed(run) EXCEPT !.status = "completed"], a)
<1> DEFINE next == [Progressed(run) EXCEPT !.status = "completed"]
<1>1. Progressed(run) \in Runs /\ Bumped(run) \in Runs
    BY ProgressedTyped, BumpedTyped
<1>2. /\ next.workflow = run.workflow /\ next.expectedHead = run.expectedHead
      /\ next.taskIds = run.taskIds /\ next.criteria = run.criteria /\ next.epoch = run.epoch
    BY <1>1 DEF Progressed, Bumped, Runs
<1> HIDE DEF next
<1>3. \A k \in DOMAIN run.taskIds : Backed(run, a, run.taskIds[k])
    BY AcceptanceBacks DEF CompletionReady
<1>4. \A t : Backed(run, a, t) => Backed(next, a, t)
    BY <1>2 DEF Backed
<1>5. Proven(next, a)
    BY <1>2, <1>3, <1>4 DEF Proven
<1> QED BY <1>5 DEF next

(* Whatever is applied to a run. *)
LEMMA ProvenStays ==
    ASSUME NEW run, NEW e, NEW a, Ledger(a), Applies(run, e, a), Proven(run, a)
    PROVE  Proven(controlRun(run, e.mutation), a)
<1> DEFINE m == e.mutation
           next == controlRun(run, m)
<1>1. /\ run \in Runs /\ m.kind \in Made /\ WellFormed(e) /\ controlAllowed(run, e, a)
      /\ Fresh(run, m)
    BY DEF Applies
<1>2. Bumped(run) \in Runs /\ Progressed(run) \in Runs /\ Resumed(run) \in Runs
    BY <1>1, BumpedTyped, ProgressedTyped, ResumedTyped
<1>3. Succeeds(run, next)
    BY <1>1, ControlRunSucceeds
<1>4. next.workflow = run.workflow /\ next.expectedHead = run.expectedHead
    BY <1>3 DEF Succeeds
<1>5. ASSUME NEW r \in {Bumped(run), Progressed(run), Resumed(run)}
      PROVE  r \in Runs /\ r.criteria = run.criteria /\ r.taskIds = run.taskIds
    BY <1>1, <1>2 DEF Bumped, Progressed, Resumed, resetContinuation, Runs
<1>6. CASE m.kind = "workflow_controlled"
    <2>1. next \in {Paused(run), Cancelled(run), Resumed(run)}
        BY <1>6 DEF controlRun
    <2>2. next.criteria = run.criteria /\ next.taskIds = run.taskIds /\ next.status # "completed"
        <3> HIDE DEF next
        <3>1. /\ Paused(run).criteria = run.criteria /\ Paused(run).taskIds = run.taskIds
              /\ Paused(run).status = "paused"
            BY <1>5 DEF Paused, Runs
        <3>2. /\ Cancelled(run).criteria = run.criteria /\ Cancelled(run).taskIds = run.taskIds
              /\ Cancelled(run).status = "cancelled"
            BY <1>5 DEF Cancelled, Runs
        <3>3. Resumed(run).status = "active"
            BY <1>2 DEF Resumed, resetContinuation, Runs
        <3> QED BY <2>1, <3>1, <3>2, <3>3, <1>5
    <2> QED BY <1>4, <2>2, OpenStaysProven
<1>7. CASE m.kind = "owner_adopted"
    <2>1. Resumed(run).status = "active"
        BY <1>2 DEF Resumed, resetContinuation, Runs
    <2>2. next.criteria = run.criteria /\ next.taskIds = run.taskIds /\ next.status # "completed"
        BY <1>5, <1>7, <2>1 DEF controlRun, Adopted, Runs
    <2> QED BY <1>4, <2>2, OpenStaysProven
<1>8. CASE m.kind = "plan_reconciled"
    <2>1. run.workflow = "start_work"
        BY <1>1, <1>8 DEF controlAllowed, ControlAllowed
    <2>2. next.criteria = run.criteria /\ next.status # "completed"
        BY <1>5, <1>8 DEF controlRun, Reconciled, Runs
    <2>3. run.criteria = <<>>
        BY <2>1 DEF Proven
    <2>4. Proven(next, a)
        <3> HIDE DEF next
        <3> QED BY <1>4, <2>1, <2>2, <2>3 DEF Proven
    <2> QED BY <2>4
<1>9. CASE m.kind = "workflow_steered"
    <2>1. SteerAllowed(run, m.criteria) /\ m.criteria \in Seq(STRING)
        BY <1>1, <1>9 DEF controlAllowed, WellFormed
    <2>2. next = Steered(run, m.criteria)
        BY <1>9 DEF controlRun
    <2> QED BY <1>1, <2>1, <2>2, SteeredStaysProven
<1>10. CASE m.kind = "criterion_settled"
    <2>1. /\ run.workflow = "ulw_loop" /\ currentAcceptance(run, a, m.criterionId) # 0
          /\ run.status \notin Terminal
        BY <1>1, <1>10 DEF controlAllowed, settleAllowed, IsCurrent, Fresh
    <2>2. next = settleCriterion(run, m.criterionId)
        BY <1>10 DEF controlRun
    <2> QED BY <1>1, <2>1, <2>2, SettledStaysProven
<1>11. CASE m.kind = "task_evidence_accepted"
    <2>1. next = Progressed(run)
        BY <1>11 DEF controlRun
    <2>2. /\ next.criteria = run.criteria /\ next.taskIds = run.taskIds /\ next.epoch = run.epoch
          /\ next.status = run.status /\ next.goalStatus = run.goalStatus
        <3> HIDE DEF next
        <3> QED BY <1>1, <1>2, <2>1 DEF Progressed, Bumped, Runs
    <2> QED BY <1>4, <2>2, SameStaysProven
<1>12. CASE m.kind = "workflow_terminal"
    <2>1. CASE m.status = "failed"
        <3>1. next.criteria = run.criteria /\ next.taskIds = run.taskIds /\ next.status # "completed"
            BY <1>5, <1>12, <2>1 DEF controlRun, terminalRun, Runs
        <3> QED BY <1>4, <3>1, OpenStaysProven
    <2>2. CASE m.status # "failed"
        <3>1. run.workflow = "start_work" /\ CompletionReady(run, a)
            BY <1>1, <1>12, <2>2 DEF controlAllowed, terminalAllowed
        <3>2. next = [Progressed(run) EXCEPT !.status = "completed"]
            BY <1>12, <2>2 DEF controlRun, terminalRun
        <3> QED BY <1>1, <3>1, <3>2, CompletedStaysProven
    <2> QED BY <2>1, <2>2
<1>13. CASE m.kind = "continuation_attempted"
    <2>1. /\ Bumped(run).epoch = run.epoch /\ Bumped(run).status = run.status
          /\ Bumped(run).goalStatus = run.goalStatus
        BY <1>1 DEF Bumped, Runs
    <2>2. /\ next.criteria = run.criteria /\ next.taskIds = run.taskIds /\ next.epoch = run.epoch
          /\ next.status = run.status /\ next.goalStatus = run.goalStatus
        BY <1>5, <1>13, <2>1 DEF controlRun, attemptContinuation, Runs
    <2> QED BY <1>4, <2>2, SameStaysProven
<1>14. CASE m.kind = "continuation_stuck"
    <2>1. next.criteria = run.criteria /\ next.taskIds = run.taskIds /\ next.status # "completed"
        BY <1>5, <1>14 DEF controlRun, stopContinuation, Runs
    <2> QED BY <1>4, <2>1, OpenStaysProven
<1> HIDE DEF next
<1> QED BY <1>1, <1>6, <1>7, <1>8, <1>9, <1>10, <1>11, <1>12, <1>13, <1>14 DEF Made, next

-----------------------------------------------------------------------------
(* commit                                                                  *)

(* What is true of the run an event makes, whatever the event. *)
Good(next, r, m, a, n) ==
    /\ next \in Runs /\ next.runId = r
    /\ Proven(next, a) /\ Dated(next, a) /\ Counted(next, Emitted(m, n))
    /\ m.kind = "continuation_attempted" => next.status = "active"

(* ... and how it comes from the run it replaces, at the hands of s. *)
Entitled(run, next, s) ==
    /\ next.revision > run.revision
    /\ run.status \in Terminal => next.status = run.status
    /\ s \in {run.sessionId, next.sessionId}

(* A new run. *)
LEMMA CreatedGood ==
    ASSUME Inv, NEW s \in Sessions, CommitRun(s), cmd[s].event.mutation.kind = "run_created"
    PROVE  LET e == cmd[s].event
               r == e.runId
           IN  r \notin DOMAIN runs
                 /\ Good(NextRun(Current(r), e), r, e.mutation, authority[r], emitted[r])
<1> DEFINE e == cmd[s].event
           r == e.runId
           m == e.mutation
           next == m.run
<1>1. EventOK(runs, s, e) /\ Prepares(index, Current(r), e, authority[r])
    BY DEF CommitRun, Inv, CmdInv, Sound
<1>2. NextRun(Current(r), e) = next
    BY DEF NextRun
<1>3. r \in RunIds /\ next \in Runs
    BY <1>1 DEF EventOK, WellFormed
<1>4. r \notin DOMAIN runs /\ next.runId = r
    BY <1>1, <1>2 DEF Prepares, CreateFits, Current
<1>5. PICK id, w, h, ids : /\ next = NewRun(id, w, s, h, ids) /\ w \in Workflows
                           /\ w = "ulw_loop" => ids = <<>>
    BY <1>1 DEF EventOK, Made
<1>6. authority[r] = EmptyAuthority /\ emitted[r] = 0
    BY <1>3, <1>4 DEF Inv, RunsInv, CountInv
<1>7. Emitted(m, 0) = 0
    BY DEF Emitted, ReceiptBound
<1>8. /\ next.workflow = w /\ next.status = "active" /\ next.taskIds = ids
      /\ next.criteria = IF w = "ulw_loop" THEN <<NewCriterion("criterion-1")>> ELSE <<>>
      /\ next.attempts = 0 /\ next.seen = 1 /\ next.progressRevision = 1
    BY <1>5 DEF NewRun
<1> HIDE DEF e, r, m, next
<1>9. \A k \in DOMAIN next.criteria : next.criteria[k].status = "pending"
    BY <1>8 DEF NewCriterion
<1>10. Proven(next, authority[r])
    BY <1>5, <1>8, <1>9 DEF Proven, Workflows
<1>11. Dated(next, authority[r])
    BY <1>6 DEF Dated, EmptyAuthority
<1>12. Counted(next, Emitted(m, emitted[r]))
    BY <1>6, <1>7, <1>8 DEF Counted, NoProgressLimit
<1>13. Good(next, r, m, authority[r], emitted[r])
    BY <1>3, <1>4, <1>8, <1>10, <1>11, <1>12 DEF Good
<1> QED BY <1>2, <1>4, <1>13 DEF e, r, m

(* A run that changes: the event's compare-and-swap makes the run its      *)
(* maker knew the run it is applied to.                                    *)
LEMMA ChangedGood ==
    ASSUME Inv, NEW s \in Sessions, CommitRun(s), cmd[s].event.mutation.kind # "run_created"
    PROVE  LET e == cmd[s].event
               r == e.runId
           IN  /\ r \in DOMAIN runs
               /\ Good(NextRun(Current(r), e), r, e.mutation, authority[r], emitted[r])
               /\ Entitled(runs[r], NextRun(Current(r), e), s)
<1> DEFINE e == cmd[s].event
           r == e.runId
           m == e.mutation
           a == authority[r]
           run == runs[r]
           next == controlRun(run, m)
<1>1. EventOK(runs, s, e) /\ Prepares(index, Current(r), e, a) /\ pending = {}
    BY DEF CommitRun, Inv, CmdInv, Sound
<1>2. PICK x \in Current(r) : MutationFits(x, e, a)
    BY <1>1 DEF Prepares
<1>3. r \in DOMAIN runs /\ Current(r) = {run} /\ MutationFits(run, e, a)
    BY <1>2 DEF Current
<1>4. NextRun(Current(r), e) = next
    BY <1>3 DEF NextRun
<1> HIDE DEF e, r, m, a, run, next
<1>5. /\ WellFormed(e) /\ m.kind \in Made
      /\ m.kind = "workflow_controlled" => m.control \in Controls
      /\ e.expected.ownerSessionId = s \/ (m.kind = "owner_adopted" /\ m.sessionId = s)
      /\ e.expected.runRevision = run.revision => Fresh(run, m)
    BY <1>1 DEF EventOK, e, r, m, run
<1>6. /\ run.revision = e.expected.runRevision /\ run.sessionId = e.expected.ownerSessionId
      /\ controlAllowed(run, e, a)
    BY <1>3 DEF MutationFits
<1>7. run \in Runs /\ run.runId = r /\ Proven(run, a) /\ Dated(run, a) /\ r \in RunIds /\ Ledger(a)
    BY <1>3 DEF Inv, RunsInv, run, a
<1>8. Counted(run, emitted[r])
    BY <1>1, <1>3 DEF Inv, CountInv, run
<1>9. Applies(run, e, a)
    BY <1>5, <1>6, <1>7 DEF Applies, m
<1>10. next \in Runs
    <2>1. m.kind # "criterion_failure_recorded"
        BY <1>5 DEF Made
    <2> QED BY <1>5, <1>6, <1>7, <2>1, ControlRunTyped DEF next, m
<1>11. next.runId = r /\ next.revision = run.revision + 1 /\ run.revision \in Nat
    <2>1. Succeeds(run, next)
        BY <1>5, <1>6, <1>7, ControlRunSucceeds DEF next, m
    <2> QED BY <1>7, <2>1, RunFields DEF Succeeds
<1>12. Proven(next, a)
    BY <1>7, <1>9, ProvenStays DEF next, m
<1>13. Dated(next, a)
    BY <1>7, <1>11 DEF Dated
<1>14. Counted(next, Emitted(m, emitted[r]))
    BY <1>8, <1>9, CountStays DEF next, m
<1>15. /\ run.status \in Terminal => next.status = run.status
       /\ m.kind = "continuation_attempted" => next.status = "active"
       /\ m.kind = "owner_adopted" => next.sessionId = m.sessionId
    BY <1>9, EndsStay DEF next, m
<1>16. Good(next, r, m, a, emitted[r])
    BY <1>10, <1>11, <1>12, <1>13, <1>14, <1>15 DEF Good
<1>17. Entitled(run, next, s)
    BY <1>5, <1>6, <1>11, <1>15 DEF Entitled
<1> QED BY <1>3, <1>4, <1>16, <1>17 DEF e, r, m, a, run

(* Publishing a run stamps it, and nothing else. *)
LEMMA StampedGood ==
    ASSUME NEW next, NEW r, NEW m, NEW a, NEW n, NEW k \in Nat, Good(next, r, m, a, n)
    PROVE  LET published == [next EXCEPT !.transactionRevision = k]
           IN  /\ Good(published, r, m, a, n)
               /\ published.revision = next.revision /\ published.status = next.status
               /\ published.sessionId = next.sessionId
<1> DEFINE published == [next EXCEPT !.transactionRevision = k]
<1>1. next \in Runs
    BY DEF Good
<1>2. published \in Runs
    BY <1>1 DEF Runs
<1>3. /\ published.runId = next.runId /\ published.workflow = next.workflow
      /\ published.expectedHead = next.expectedHead /\ published.epoch = next.epoch
      /\ published.criteria = next.criteria /\ published.taskIds = next.taskIds
      /\ published.status = next.status /\ published.goalStatus = next.goalStatus
      /\ published.seen = next.seen /\ published.attempts = next.attempts
      /\ published.progressRevision = next.progressRevision
      /\ published.revision = next.revision /\ published.sessionId = next.sessionId
    BY <1>1 DEF Runs
<1> HIDE DEF published
<1>4. Proven(published, a)
    BY <1>3, SameStaysProven DEF Good
<1>5. Dated(published, a)
    BY <1>3 DEF Good, Dated
<1>6. Counted(published, Emitted(m, n))
    BY <1>3 DEF Good, Counted
<1>7. Good(published, r, m, a, n)
    BY <1>2, <1>3, <1>4, <1>5, <1>6 DEF Good
<1> QED BY <1>3, <1>7 DEF published

(* The run a commit writes. *)
LEMMA WrittenRun ==
    ASSUME Inv, NEW s \in Sessions, CommitRun(s)
    PROVE  LET e == cmd[s].event
               r == e.runId
               published == Prepared(index, Current(r), e).run
           IN  /\ Good(published, r, e.mutation, authority[r], emitted[r])
               /\ r \in DOMAIN runs => Entitled(runs[r], published, s)
<1> DEFINE e == cmd[s].event
           r == e.runId
           next == NextRun(Current(r), e)
           published == [next EXCEPT !.transactionRevision = e.sequence]
<1>1. Prepared(index, Current(r), e).run = published
    BY DEF Prepared
<1>2. e.sequence \in Nat
    BY DEF CommitRun, Inv, CmdInv, Sound, EventOK, WellFormed
<1>3. /\ Good(next, r, e.mutation, authority[r], emitted[r])
      /\ r \in DOMAIN runs => Entitled(runs[r], next, s)
    BY CreatedGood, ChangedGood
<1> HIDE DEF next
<1>4. /\ Good(published, r, e.mutation, authority[r], emitted[r])
      /\ published.revision = next.revision /\ published.status = next.status
      /\ published.sessionId = next.sessionId
    BY <1>2, <1>3, StampedGood
<1> HIDE DEF published
<1>5. r \in DOMAIN runs => Entitled(runs[r], published, s)
    BY <1>3, <1>4 DEF Entitled
<1> QED BY <1>1, <1>4, <1>5

(* The snapshot is replaced; the index that goes with it is pending. *)
LEMMA CommitRunStep ==
    ASSUME Inv, NEW s \in Sessions, CommitRun(s)
    PROVE  Inv'
<1> DEFINE e == cmd[s].event
           r == e.runId
           m == e.mutation
           p == Prepared(index, Current(r), e)
           run == p.run
<1>1. /\ runs' = [x \in DOMAIN runs \cup {r} |-> IF x = r THEN run ELSE runs[x]]
      /\ pending = {} /\ pending' = {[index |-> p.index, event |-> e]}
      /\ Goes(s, [pc |-> "committing"])
      /\ UNCHANGED <<index, authority, head, checked, emitted>>
    BY DEF CommitRun
<1>2. /\ Good(run, r, m, authority[r], emitted[r])
      /\ r \in DOMAIN runs => Entitled(runs[r], run, s)
    BY WrittenRun
<1>3. e.sequence \in Nat /\ r \in RunIds
    BY DEF CommitRun, Inv, CmdInv, Sound, EventOK, WellFormed
<1>4. p.index = deriveIndex(index, run, e.sequence)
    BY DEF Prepared
<1> HIDE DEF e, r, m, p, run
<1>5. run \in Runs /\ run.runId = r /\ run.revision \in Nat
    BY <1>2, RunFields DEF Good
<1>6. RunsInv /\ CountInv /\ CmdInv
    BY DEF Inv
<1>7. DOMAIN runs' = DOMAIN runs \cup {r} /\ runs'[r] = run /\ \A x \in DOMAIN runs : x # r => runs'[x] = runs[x]
    BY <1>1
<1>8. Grows(runs, runs')
    <2>1. \A x \in DOMAIN runs : runs[x].revision \in Nat
        BY <1>6, RunFields DEF RunsInv
    <2> QED BY <1>2, <1>5, <1>7, <2>1 DEF Grows, Entitled
<1>9. IndexOK(runs', index) /\ IndexOK(runs', p.index)
    <2>1. IndexOK(runs, index)
        BY <1>6 DEF RunsInv
    <2>2. IndexOK(runs', index)
        BY <1>7, <2>1 DEF IndexOK
    <2>3. ASSUME NEW entry \in p.index.entries
          PROVE  entry.runId \in DOMAIN runs' /\ entry.statusHint # None
        <3>1. entry \in index.entries \/ (statusHint(run) # None /\ entry = EntryOf(run, e.sequence))
            BY <1>4 DEF deriveIndex
        <3>2. CASE entry \in index.entries
            BY <2>2, <3>2 DEF IndexOK
        <3>3. CASE statusHint(run) # None /\ entry = EntryOf(run, e.sequence)
            BY <1>5, <1>7, <3>3 DEF EntryOf
        <3> QED BY <3>1, <3>2, <3>3
    <2>4. p.index.revision \in Nat
        BY <1>3, <1>4 DEF deriveIndex
    <2> QED BY <2>2, <2>3, <2>4 DEF IndexOK
<1>10. RunsInv'
    <2>1. runs' = [x \in DOMAIN runs' |-> runs'[x]]
        BY <1>1
    <2>2. ASSUME NEW x \in DOMAIN runs'
          PROVE  /\ x \in RunIds /\ runs'[x] \in Runs /\ runs'[x].runId = x
                 /\ Proven(runs'[x], authority[x]) /\ Dated(runs'[x], authority[x])
        BY <1>2, <1>3, <1>6, <1>7 DEF RunsInv, Good
    <2> QED BY <1>1, <1>6, <1>7, <1>9, <2>1, <2>2 DEF RunsInv
<1>11. CountInv'
    <2>1. \A q \in pending' : q.event.runId = r
        BY <1>1 DEF r
    <2>2. \A x \in DOMAIN runs : Counted(runs[x], emitted[x])
        BY <1>1, <1>6 DEF CountInv
    <2>3. ASSUME NEW x \in DOMAIN runs', \A q \in pending' : q.event.runId # x
          PROVE  Counted(runs'[x], emitted'[x])
        <3>1. pending' # {}
            BY <1>1
        <3>2. x # r
            BY <2>1, <2>3, <3>1
        <3> QED BY <1>1, <1>7, <2>2, <3>2
    <2> QED BY <1>1, <1>6, <1>7, <2>3 DEF CountInv
<1>12. PendingInv'
    <2> DEFINE q == [index |-> p.index, event |-> e]
    <2>1. pending' = {q} /\ q.index = p.index /\ q.event.runId = r /\ q.event.mutation = m
        BY <1>1 DEF r, m
    <2> HIDE DEF q
    <2>2. Counted(runs'[r], Emitted(m, emitted'[r]))
        BY <1>1, <1>2, <1>7 DEF Good
    <2>3. m.kind = "continuation_attempted" => runs'[r].status = "active"
        BY <1>2, <1>7 DEF Good
    <2> QED BY <1>7, <1>9, <2>1, <2>2, <2>3 DEF PendingInv
<1>13. CmdInv'
    <2>1. Sound(runs', s, [pc |-> "committing"])
        BY DEF Sound
    <2> QED BY <1>1, <1>6, <1>8, <2>1, GoesSound
<1> QED BY <1>10, <1>11, <1>12, <1>13 DEF Inv

(* The index is written; only now is a continuation granted. *)
LEMMA CommitIndexStep ==
    ASSUME Inv, CommitIndex
    PROVE  /\ Inv'
           /\ \A r \in DOMAIN runs : emitted'[r] > emitted[r] => runs[r].status = "active"
<1>1. PICK p : /\ pending = {p} /\ p.event.runId \in DOMAIN runs /\ IndexOK(runs, p.index)
               /\ Counted(runs[p.event.runId], Emitted(p.event.mutation, emitted[p.event.runId]))
               /\ p.event.mutation.kind = "continuation_attempted" =>
                     runs[p.event.runId].status = "active"
    BY DEF CommitIndex, Inv, PendingInv
<1> DEFINE r == p.event.runId
           m == p.event.mutation
           n == Emitted(m, emitted[r])
<1>2. /\ index' = p.index /\ pending' = {}
      /\ cmd' = [s \in Sessions |-> IF cmd[s].pc = "committing" THEN Idle ELSE cmd[s]]
      /\ emitted' = [emitted EXCEPT ![r] = n]
      /\ UNCHANGED <<runs, authority, head, checked>>
    BY <1>1 DEF CommitIndex
<1>3. r \in DOMAIN runs /\ Counted(runs[r], n) /\ \A q \in pending : q.event.runId = r
    BY <1>1
<1>4. m.kind = "continuation_attempted" => runs[r].status = "active"
    BY <1>1
<1>5. m.kind # "continuation_attempted" => n \in {0, emitted[r]}
    BY DEF Emitted, ReceiptBound
<1> HIDE DEF n, m, r
<1>6. RunsInv /\ CountInv /\ CmdInv
    BY DEF Inv
<1>7. n \in Nat /\ n <= NoProgressLimit /\ r \in RunIds
    BY <1>3, <1>6 DEF Counted, RunsInv
<1>8. RunsInv'
    BY <1>1, <1>2, <1>6 DEF RunsInv
<1>9. /\ emitted' \in [RunIds -> Nat] /\ emitted'[r] = n
      /\ \A x \in RunIds : x # r => emitted'[x] = emitted[x]
    BY <1>2, <1>6, <1>7 DEF CountInv
<1>10. CountInv'
    <2>1. \A x \in RunIds : emitted'[x] <= NoProgressLimit
        BY <1>6, <1>7, <1>9 DEF CountInv
    <2>2. \A x \in RunIds \ DOMAIN runs : emitted'[x] = 0
        BY <1>3, <1>6, <1>9 DEF CountInv
    <2>3. ASSUME NEW x \in DOMAIN runs PROVE Counted(runs[x], emitted'[x])
        <3>1. CASE x = r
            BY <1>3, <1>9, <3>1
        <3>2. CASE x # r
            <4>1. \A q \in pending : q.event.runId # x
                BY <1>3, <3>2
            <4> QED BY <1>6, <1>9, <3>2, <4>1 DEF CountInv, RunsInv
        <3> QED BY <3>1, <3>2
    <2> QED BY <1>2, <1>9, <2>1, <2>2, <2>3 DEF CountInv
<1>11. CmdInv'
    <2>1. \A s \in Sessions : Sound(runs, s, Idle)
        BY DEF Sound, Idle
    <2> QED BY <1>2, <1>6, <2>1 DEF CmdInv
<1>12. ASSUME NEW x \in DOMAIN runs, emitted'[x] > emitted[x]
       PROVE  runs[x].status = "active"
    <2>1. x \in RunIds /\ emitted[x] \in Nat
        BY <1>6 DEF RunsInv, CountInv
    <2>2. x = r
        BY <1>9, <1>12, <2>1
    <2> QED BY <1>4, <1>5, <1>9, <1>12, <2>1, <2>2
<1> QED BY <1>2, <1>8, <1>10, <1>11, <1>12 DEF Inv, PendingInv

-----------------------------------------------------------------------------
(* Receipts are added                                                      *)

(* An entry of the index is of a run that has not ended. *)
LEMMA HintIsOpen ==
    ASSUME NEW run, statusHint(run) # None
    PROVE  run.status \notin Terminal
BY DEF statusHint, Terminal, None

(* A ledger grows at its end. *)
LEMMA MoreIsProven ==
    ASSUME NEW a, NEW b, Ledger(a), NEW entry, b.accepted = Append(a.accepted, entry)
    PROVE  /\ \A run : Proven(run, a) => Proven(run, b)
           /\ \E S : b.accepted \in Seq(S)
           /\ \A i \in DOMAIN b.accepted :
                 b.accepted[i] = entry
                   \/ (i \in DOMAIN a.accepted /\ b.accepted[i] = a.accepted[i])
<1>1. PICK S : a.accepted \in Seq(S)
    BY DEF Ledger
<1>2. a.accepted \in Seq(S \cup {entry})
    BY <1>1
<1>3. b.accepted \in Seq(S \cup {entry})
    BY <1>2
<1>4. /\ Len(a.accepted) \in Nat /\ DOMAIN a.accepted = 1 .. Len(a.accepted)
      /\ DOMAIN b.accepted = 1 .. Len(a.accepted) + 1
      /\ \A i \in 1 .. Len(a.accepted) : b.accepted[i] = a.accepted[i]
      /\ b.accepted[Len(a.accepted) + 1] = entry
    BY <1>2
<1>5. \A run, t : Backed(run, a, t) => Backed(run, b, t)
    <2> SUFFICES ASSUME NEW run, NEW t, Backed(run, a, t) PROVE Backed(run, b, t)
        OBVIOUS
    <2>1. PICK i \in DOMAIN a.accepted :
             /\ a.accepted[i].taskId = t /\ a.accepted[i].captureCommit = run.expectedHead
             /\ run.workflow = "start_work" => a.accepted[i].ownerEpoch = run.epoch
        BY DEF Backed
    <2>2. i \in DOMAIN b.accepted /\ b.accepted[i] = a.accepted[i]
        BY <1>4
    <2> QED BY <2>1, <2>2 DEF Backed
<1>6. \A run : Proven(run, a) => Proven(run, b)
    BY <1>5 DEF Proven
<1>7. \A i \in DOMAIN b.accepted :
         b.accepted[i] = entry \/ (i \in DOMAIN a.accepted /\ b.accepted[i] = a.accepted[i])
    BY <1>4
<1> QED BY <1>3, <1>6, <1>7

(* A dispatch, an acceptance or a rejection, for a run that has not ended. *)
LEMMA ReceiptsStep ==
    ASSUME Inv, NEW s \in Sessions, NEW r \in DOMAIN runs, ReceiptStep(s, r)
    PROVE  Inv'
<1> DEFINE a == authority[r]
           b == authority'[r]
<1>1. RunsInv /\ Ledger(a) /\ r \in RunIds /\ runs[r] \in Runs /\ runs[r].revision \in Nat
    BY RunFields DEF Inv, RunsInv
<1>2. runs[r].status \notin Terminal
    <2>1. EntryOf(runs[r], runs[r].transactionRevision) \in index.entries
        BY DEF ReceiptStep, ResolvesTo
    <2>2. EntryOf(runs[r], runs[r].transactionRevision).statusHint # None
        BY <1>1, <2>1 DEF RunsInv, IndexOK
    <2>3. statusHint(runs[r]) # None
        BY <2>2 DEF EntryOf
    <2> QED BY <2>3, HintIsOpen
<1>3. UNCHANGED <<runs, index, pending, head, checked, cmd, emitted>>
    BY DEF ReceiptStep
<1>4. PICK new : /\ authority' = [authority EXCEPT ![r] = new]
                 /\ \/ new = Dispatched(runs[r], a)
                    \/ \E t : new = Accepted(runs[r], a, t, head) \/ new = Rejected(runs[r], a, t)
    BY DEF ReceiptStep
<1>5. b = new /\ authority' = [x \in RunIds |-> authority'[x]]
        /\ \A x \in RunIds : x # r => authority'[x] = authority[x]
    BY <1>1, <1>4 DEF RunsInv
<1>6. Ledger(new) /\ Proven(runs[r], new) /\ Dated(runs[r], new)
    <2>0. Proven(runs[r], a) /\ Dated(runs[r], a)
        BY <1>1 DEF RunsInv
    <2>1. ASSUME new.accepted = a.accepted, DOMAIN new = DOMAIN a
          PROVE  Ledger(new) /\ Proven(runs[r], new) /\ Dated(runs[r], new)
        BY <1>1, <2>0, <2>1 DEF Ledger, Proven, Backed, Dated
    <2>2. CASE new = Dispatched(runs[r], a)
        <3>1. new.accepted = a.accepted /\ DOMAIN new = DOMAIN a
            BY <1>1, <2>2 DEF Dispatched, Ledger
        <3> QED BY <2>1, <3>1
    <2>3. ASSUME NEW t, new = Rejected(runs[r], a, t)
          PROVE  Ledger(new) /\ Proven(runs[r], new) /\ Dated(runs[r], new)
        <3>1. new.accepted = a.accepted /\ DOMAIN new = DOMAIN a
            BY <1>1, <2>3 DEF Rejected, Ledger
        <3> QED BY <2>1, <3>1
    <2>4. ASSUME NEW t, new = Accepted(runs[r], a, t, head)
          PROVE  Ledger(new) /\ Proven(runs[r], new) /\ Dated(runs[r], new)
        <3>1. PICK entry : /\ new.accepted = Append(a.accepted, entry) /\ DOMAIN new = DOMAIN a
                           /\ entry.runRevision = runs[r].revision
            BY <1>1, <2>4 DEF Accepted, Ledger
        <3>2. /\ \A run : Proven(run, a) => Proven(run, new)
              /\ \E S : new.accepted \in Seq(S)
              /\ \A i \in DOMAIN new.accepted :
                    new.accepted[i] = entry
                      \/ (i \in DOMAIN a.accepted /\ new.accepted[i] = a.accepted[i])
            <4> HIDE DEF a
            <4>1. Ledger(a)
                BY <1>1
            <4>2. new.accepted = Append(a.accepted, entry)
                BY <3>1
            <4>3. \A run : Proven(run, a) => Proven(run, new)
                BY <4>1, <4>2, MoreIsProven
            <4>4. \E S : new.accepted \in Seq(S)
                BY <4>1, <4>2, MoreIsProven
            <4>5. \A i \in DOMAIN new.accepted :
                    new.accepted[i] = entry
                      \/ (i \in DOMAIN a.accepted /\ new.accepted[i] = a.accepted[i])
                BY <4>1, <4>2, MoreIsProven
            <4> QED BY <4>3, <4>4, <4>5
        <3>3. Ledger(new)
            BY <1>1, <3>1, <3>2 DEF Ledger
        <3>4. Dated(runs[r], new)
            BY <1>1, <1>2, <2>0, <3>1, <3>2 DEF Dated
        <3> QED BY <2>0, <3>2, <3>3, <3>4
    <2> QED BY <1>4, <2>2, <2>3, <2>4
<1> HIDE DEF a, b
<1>7. RunsInv'
    <2>1. \A x \in DOMAIN runs : Proven(runs[x], authority'[x]) /\ Dated(runs[x], authority'[x])
        BY <1>1, <1>5, <1>6 DEF RunsInv, b
    <2>2. \A x \in RunIds : /\ Ledger(authority'[x])
                            /\ x \notin DOMAIN runs => authority'[x] = EmptyAuthority
        BY <1>1, <1>5, <1>6 DEF RunsInv, b
    <2> QED BY <1>1, <1>3, <1>5, <2>1, <2>2 DEF RunsInv
<1> QED BY <1>3, <1>7 DEF Inv, CountInv, PendingInv, CmdInv

-----------------------------------------------------------------------------
(* Natural stops                                                           *)

(* What a stop decides for a run: nothing is attempted for a run that is   *)
(* not active, or at its limit.                                            *)
StopMakes(run, m) ==
    /\ Typed(m)
    /\ m.kind \in {"workflow_terminal", "task_evidence_accepted", "criterion_settled",
                   "continuation_attempted", "continuation_stuck"}
    /\ m.kind = "continuation_attempted" =>
          run.status = "active" /\ ~hasReachedNoProgressBound(run)

(* An attempt, or the stop at the limit. *)
LEMMA AttemptIsMade ==
    ASSUME NEW run, run.status = "active", NEW leafId \in STRING
    PROVE  StopMakes(run, Attempt(run, leafId))
<1>1. CASE hasReachedNoProgressBound(run)
    <2>1. Attempt(run, leafId).kind = "continuation_stuck" /\ Attempt(run, leafId).leafId = leafId
        BY <1>1 DEF Attempt
    <2> QED BY <2>1 DEF StopMakes, Typed, Made
<1>2. CASE ~hasReachedNoProgressBound(run)
    <2>1. Attempt(run, leafId).kind = "continuation_attempted" /\ Attempt(run, leafId).leafId = leafId
        BY <1>2 DEF Attempt
    <2> QED BY <1>2, <2>1 DEF StopMakes, Typed, Made
<1> QED BY <1>1, <1>2

(* A mutation of a kind that needs nothing more. *)
LEMMA ReceiptIsMade ==
    ASSUME NEW run, NEW m, m.kind \in ReceiptBound
    PROVE  StopMakes(run, m)
BY DEF StopMakes, Typed, Made, ReceiptBound

(* The start_work half. *)
LEMMA StartIsMade ==
    ASSUME NEW run, NEW leafId \in STRING, NEW m \in decideStart(run, leafId)
    PROVE  StopMakes(run, m)
<1>1. m.kind \in ReceiptBound \/ (run.status = "active" /\ m = Attempt(run, leafId))
    BY DEF decideStart, FailedFor, ReceiptBound
<1> QED BY <1>1, AttemptIsMade, ReceiptIsMade

(* The ulw_loop half. *)
LEMMA LoopIsMade ==
    ASSUME NEW run, NEW leafId \in STRING, NEW m \in decideLoop(run, leafId)
    PROVE  StopMakes(run, m)
<1>1. m.kind \in ReceiptBound \/ (run.status = "active" /\ m = Attempt(run, leafId))
    BY DEF decideLoop, FailedFor, ReceiptBound, evaluateUlwContinuation
<1> QED BY <1>1, AttemptIsMade, ReceiptIsMade

(* A stop acts for a run of its own that has not ended: the entry it read  *)
(* first agrees with the snapshot it read after it.                        *)
LEMMA DecidedIsMade ==
    ASSUME RunsInv, NEW s, NEW idx, IndexOK(runs, idx), NEW leafId \in STRING,
           NEW d \in decideContinuation(s, idx, leafId)
    PROVE  /\ d.run.runId \in DOMAIN runs /\ d.run = runs[d.run.runId]
           /\ d.run.sessionId = s /\ d.run.status \notin Terminal
           /\ StopMakes(d.run, d.mutation)
<1>1. ~Conflict(idx, "start_work", s) /\ ~Conflict(idx, "ulw_loop", s)
    BY DEF decideContinuation
<1>2. PICK w \in Workflows :
         \E run \in Loaded(idx, w, s) : \E m \in decideStart(run, leafId) \cup decideLoop(run, leafId) :
            d = [run |-> run, mutation |-> m]
    <2> DEFINE started == UNION {{[run |-> run, mutation |-> m] : m \in decideStart(run, leafId)}
                                   : run \in Loaded(idx, "start_work", s)}
               looped == UNION {{[run |-> run, mutation |-> m] : m \in decideLoop(run, leafId)}
                                   : run \in {l \in Loaded(idx, "ulw_loop", s) : l.leaf # leafId}}
    <2>1. d \in started \/ d \in looped
        BY DEF decideContinuation
    <2>2. ASSUME d \in started
          PROVE  \E run \in Loaded(idx, "start_work", s) : \E m \in decideStart(run, leafId) :
                    d = [run |-> run, mutation |-> m]
        BY <2>2
    <2>3. ASSUME d \in looped
          PROVE  \E run \in Loaded(idx, "ulw_loop", s) : \E m \in decideLoop(run, leafId) :
                    d = [run |-> run, mutation |-> m]
        BY <2>3
    <2> HIDE DEF started, looped
    <2> QED BY <2>1, <2>2, <2>3 DEF Workflows
<1>a. PICK run \in Loaded(idx, w, s) : \E m \in decideStart(run, leafId) \cup decideLoop(run, leafId) :
         d = [run |-> run, mutation |-> m]
    BY <1>2
<1>3. PICK m \in decideStart(run, leafId) \cup decideLoop(run, leafId) :
         d = [run |-> run, mutation |-> m]
    BY <1>a
<1>4. PICK entry \in EntriesOf(idx, w, s) : run = runs[entry.runId]
    BY DEF Loaded
<1>5. entry.runId \in DOMAIN runs /\ entry.statusHint # None /\ entry.sessionId = s
    BY DEF IndexOK, EntriesOf
<1>6. run.runId = entry.runId
    BY <1>4, <1>5 DEF RunsInv
<1>7. entry = EntryOf(run, run.transactionRevision)
    BY <1>1, <1>4 DEF Conflict, Workflows
<1>8. run.sessionId = s /\ statusHint(run) # None
    BY <1>5, <1>7 DEF EntryOf
<1>9. run.status \notin Terminal
    BY <1>8, HintIsOpen
<1>10. StopMakes(run, m)
    BY StartIsMade, LoopIsMade
<1>11. d.run = run /\ d.mutation = m
    BY <1>3
<1> QED BY <1>4, <1>5, <1>6, <1>8, <1>9, <1>10, <1>11

(* The decision becomes an event. *)
LEMMA StopDecideStep ==
    ASSUME Inv, NEW s \in Sessions, StopDecide(s)
    PROVE  Inv'
<1> DEFINE idx == cmd[s].index
           leafId == cmd[s].leafId
<1>1. IndexOK(runs, idx) /\ leafId \in STRING /\ RunsInv
    BY DEF StopDecide, Inv, CmdInv, Sound
<1>2. PICK d \in decideContinuation(s, idx, leafId) :
         \E h, g : Goes(s, Ready("stop", mutationEvent(d.run, idx.revision, h, g, d.mutation)))
    BY DEF StopDecide
<1>3. PICK h, g : Goes(s, Ready("stop", mutationEvent(d.run, idx.revision, h, g, d.mutation)))
    BY <1>2
<1>4. UNCHANGED files
    BY DEF StopDecide
<1> HIDE DEF idx, leafId
<1>5. /\ d.run.runId \in DOMAIN runs /\ d.run = runs[d.run.runId]
      /\ d.run.sessionId = s /\ d.run.status \notin Terminal
      /\ StopMakes(d.run, d.mutation)
    BY <1>1, <1>2, DecidedIsMade
<1>6. Copy(runs, d.run)
    BY <1>1, <1>5, ReadIsCopy
<1>7. Typed(d.mutation) /\ Fresh(d.run, d.mutation)
    BY <1>5 DEF StopMakes, Fresh
<1>8. idx.revision \in Nat
    BY <1>1 DEF IndexOK
<1>9. EventOK(runs, s, mutationEvent(d.run, idx.revision, h, g, d.mutation))
    BY <1>1, <1>5, <1>6, <1>7, <1>8, EventIsOK
<1> QED BY <1>3, <1>4, <1>9, ReadyStep

-----------------------------------------------------------------------------
(* Every step                                                              *)

(* No runs, no receipts, nothing counted. *)
LEMMA InitInv == ASSUME Init PROVE Inv
<1>1. DOMAIN runs = {} /\ pending = {} /\ index.entries = {} /\ index.revision = 0
    BY DEF Init, EmptyIndex
<1>2. Ledger(EmptyAuthority)
    <2>1. EmptyAuthority.accepted = <<>> /\ DOMAIN EmptyAuthority = {"dispatched", "accepted", "rejected"}
        BY DEF EmptyAuthority
    <2>2. <<>> \in Seq({})
        OBVIOUS
    <2> QED BY <2>1, <2>2 DEF Ledger
<1>3. IndexOK(runs, index)
    BY <1>1 DEF IndexOK
<1>4. runs = [r \in DOMAIN runs |-> runs[r]]
    BY DEF Init
<1>5. RunsInv
    BY <1>1, <1>2, <1>3, <1>4 DEF Init, RunsInv
<1>6. CountInv
    BY <1>1 DEF Init, CountInv, NoProgressLimit
<1>7. CmdInv
    BY DEF Init, CmdInv, Sound, Idle
<1> QED BY <1>1, <1>5, <1>6, <1>7 DEF Inv, PendingInv

(* The plan and HEAD move by themselves, or nothing does. *)
LEMMA OutsideStep ==
    ASSUME Inv, TickTask \/ MoveHead \/ UNCHANGED vars
    PROVE  Inv' /\ runs' = runs /\ emitted' = emitted
<1>1. UNCHANGED <<runs, index, authority, pending, cmd, emitted>>
    BY DEF TickTask, MoveHead, vars
<1>2. head' \in Heads
    BY DEF TickTask, MoveHead, vars, Inv, RunsInv
<1>3. RunsInv'
    BY <1>1, <1>2 DEF Inv, RunsInv
<1> QED BY <1>1, <1>3 DEF Inv, CountInv, PendingInv, CmdInv

(* Whatever a session does. *)
LEMMA SessionInv ==
    ASSUME Inv, NEW s \in Sessions, SessionStep(s)
    PROVE  Inv' /\ (CommitRun(s) \/ runs' = runs) /\ emitted' = emitted
<1>1. CASE \E op \in Ops[s] \cap (Controls \cup Targeted), r \in DOMAIN runs : LookupTarget(s, op, r)
    BY <1>1, LookupTargetStep DEF LookupTarget, files
<1>2. CASE \E op \in Ops[s] \cap Controls, w \in Workflows : LookupEntry(s, op, w)
    BY <1>2, LookupEntryStep DEF LookupEntry, files
<1>3. CASE ReadRun(s)
    BY <1>3, ReadRunStep DEF ReadRun, files
<1>4. CASE \E w \in Ops[s] \cap Workflows : LookupNone(s, w)
    BY <1>4, LookupNoneStep DEF LookupNone, files
<1>5. CASE Create(s)
    BY <1>5, CreateStep DEF Create, files
<1>6. CASE Control(s)
    BY <1>6, ControlStep DEF Control, Builds, files
<1>7. CASE Reconcile(s) \/ Steer(s)
    BY <1>7, ReconcileSteerStep DEF Reconcile, Steer, Builds, files
<1>8. CASE Checkpoint(s)
    BY <1>8, CheckpointStep DEF Checkpoint, Builds, files
<1>9. CASE \E leafId \in Leaves : StopReadIndex(s, leafId)
    BY <1>9, StopReadIndexStep DEF StopReadIndex, files
<1>10. CASE StopDecide(s)
    BY <1>10, StopDecideStep DEF StopDecide, files
<1>11. CASE CommitRun(s)
    BY <1>11, CommitRunStep DEF CommitRun
<1>12. CASE GiveUp(s)
    BY <1>12, GiveUpStep DEF GiveUp, files
<1>13. CASE \E r \in DOMAIN runs : ReceiptStep(s, r)
    BY <1>13, ReceiptsStep DEF ReceiptStep
<1> QED BY <1>1, <1>2, <1>3, <1>4, <1>5, <1>6, <1>7, <1>8, <1>9, <1>10, <1>11, <1>12, <1>13
        DEF SessionStep

(* Sessions, commits, receipts, the plan and git, in any order. *)
LEMMA NextInv == ASSUME Inv, [Next]_vars PROVE Inv'
BY SessionInv, CommitIndexStep, OutsideStep DEF Next

(* The invariant holds of every reachable state: what is written is well-  *)
(* formed, proved and counted, and what a session has ready was true of    *)
(* the run it names unless that run has moved on.                          *)
THEOREM SessionsInvariant == Spec => []Inv
<1>1. Init => Inv
    BY InitInv
<1>2. Inv /\ [Next]_vars => Inv'
    BY NextInv
<1> QED BY <1>1, <1>2, PTL DEF Spec

(* Whatever any number of sessions pause, resume, adopt, steer, reconcile  *)
(* and settle in between, a run is granted at most two continuations while *)
(* it makes no progress.                                                   *)
THEOREM NoProgressBoundHolds == Spec => []NoProgressBound
<1>1. Inv => NoProgressBound
    BY DEF Inv, CountInv, NoProgressBound
<1> QED BY <1>1, SessionsInvariant, PTL

(* A completed run has, for each of its tasks and criteria, a receipt      *)
(* accepted at the run's HEAD, and for a plan under its last epoch.        *)
THEOREM CompletedIsAcceptedHolds == Spec => []CompletedIsAccepted
<1>1. ASSUME Inv PROVE CompletedIsAccepted
    <2> SUFFICES ASSUME NEW r \in DOMAIN runs, runs[r].status = "completed",
                        NEW t \in TaskNames(runs[r])
                 PROVE  Backed(runs[r], authority[r], t)
        BY DEF CompletedIsAccepted, Backed
    <2>1. Proven(runs[r], authority[r]) /\ runs[r] \in Runs
        BY <1>1 DEF Inv, RunsInv
    <2>2. CASE t \in CriterionIds(runs[r])
        BY <2>1, <2>2 DEF Proven, CriterionIds
    <2>3. CASE t \in ToSet(runs[r].taskIds)
        BY <2>1, <2>3 DEF Proven, ToSet
    <2> QED BY <2>2, <2>3 DEF TaskNames
<1> QED BY <1>1, SessionsInvariant, PTL

(* A run is written by the session that owns it or takes it over and by    *)
(* nobody else, its status never changes once it has ended, and a          *)
(* continuation is granted to an active run only.                          *)
THEOREM OnlyEntitledWriteHolds == Spec => OnlyEntitledWrite
<1> DEFINE Step == \A r \in DOMAIN runs :
          /\ runs'[r] # runs[r] =>
                \E s \in Sessions : /\ cmd[s].pc = "ready" /\ cmd'[s].pc = "committing"
                                    /\ s \in {runs[r].sessionId, runs'[r].sessionId}
          /\ runs[r].status \in Terminal => runs'[r].status = runs[r].status
          /\ emitted'[r] > emitted[r] => runs[r].status = "active"
<1>1. ASSUME Inv, [Next]_vars PROVE Step
    <2>1. \A r \in DOMAIN runs : emitted[r] \in Nat
        BY <1>1 DEF Inv, RunsInv, CountInv
    <2>2. ASSUME runs' = runs, emitted' = emitted PROVE Step
        BY <2>1, <2>2
    <2>3. CASE CommitIndex
        <3>1. runs' = runs
            BY <2>3 DEF CommitIndex
        <3> QED BY <1>1, <2>3, <3>1, CommitIndexStep
    <2>4. ASSUME NEW s \in Sessions, CommitRun(s) PROVE Step
        <3> DEFINE e == cmd[s].event
                   x == e.runId
                   run == Prepared(index, Current(x), e).run
        <3>1. x \in DOMAIN runs => Entitled(runs[x], run, s)
            BY <1>1, <2>4, WrittenRun
        <3>2. /\ runs' = [r \in DOMAIN runs \cup {x} |-> IF r = x THEN run ELSE runs[r]]
              /\ cmd[s].pc = "ready" /\ Goes(s, [pc |-> "committing"]) /\ emitted' = emitted
            BY <2>4 DEF CommitRun
        <3> HIDE DEF e, x, run
        <3>3. cmd'[s].pc = "committing"
            BY <1>1, <3>2 DEF Goes, Inv, CmdInv
        <3>4. ASSUME NEW r \in DOMAIN runs
              PROVE  /\ runs'[r] # runs[r] => s \in {runs[r].sessionId, runs'[r].sessionId}
                     /\ runs[r].status \in Terminal => runs'[r].status = runs[r].status
            BY <3>1, <3>2 DEF Entitled
        <3> QED BY <2>1, <3>2, <3>3, <3>4
    <2>5. ASSUME NEW s \in Sessions, SessionStep(s) PROVE Step
        BY <1>1, <2>2, <2>4, <2>5, SessionInv
    <2>6. CASE TickTask \/ MoveHead \/ UNCHANGED vars
        BY <1>1, <2>2, <2>6, OutsideStep
    <2> QED BY <1>1, <2>3, <2>5, <2>6 DEF Next
<1>2. Inv /\ [Next]_vars => [Step]_vars
    BY <1>1
<1>3. Spec => [][Step]_vars
    BY <1>2, SessionsInvariant, PTL DEF Spec
<1> QED BY <1>3 DEF OnlyEntitledWrite
=============================================================================
