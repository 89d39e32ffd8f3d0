-------------------------- MODULE WorkflowSessions --------------------------
(***************************************************************************)
(* The sessions that share one repository's state: the slash commands of   *)
(* commands/workflow-command-{runtime,start,ulw}.ts and the continuation   *)
(* of continuation/durable-continuation.ts.                                *)
(*                                                                         *)
(* A command looks a run up, decides on the copy it has read, reads the    *)
(* index again for the event's compare-and-swap and commits: three reads   *)
(* outside the lock, with every other session free to act in between.  A   *)
(* natural stop reads the index first and the runs after it.               *)
(*                                                                         *)
(* commit is used through what TransactionStore shows of it: the event is  *)
(* checked and the snapshot replaced, then the index; nobody commits in    *)
(* between.  A command that is refused changes nothing and is left out.    *)
(***************************************************************************)
EXTENDS RunLifecycle

CONSTANTS
    Sessions,      \* session ids (strings)
    Heads,         \* commits the repository may be at
    PlanTasks,     \* the task ids of the approved plan, in order
    Ops,           \* Ops[s]: the commands session s uses
    MaxRevision,   \* bound: committed events
    MaxReceipts    \* bound: dispatches, acceptances and rejections per run

ASSUME SessionsAssumption ==
    /\ Sessions \subseteq STRING /\ Heads \subseteq STRING /\ PlanTasks \in Seq(STRING)
    /\ MaxRevision \in Nat /\ MaxReceipts \in Nat

(* The names this module and RunLifecycle spell out are strings: a fact of *)
(* TLA+ that TLC knows and the provers have to be told.                    *)
ASSUME LiteralsAssumption ==
    {"leaf-1", "leaf-2", "criterion-1", "criterion-2"} \subseteq STRING

VARIABLES
    runs, index, authority,   \* the files, as in TransactionStore
    pending,    \* the commit between its snapshot and its index: a set of at most one
    head,       \* git HEAD
    checked,    \* how many tasks of the plan file are ticked
    cmd,        \* the command or stop each session is in
    emitted     \* history: continuations a run was granted since it last progressed

vars == <<runs, index, authority, pending, head, checked, cmd, emitted>>
files == <<runs, index, authority, pending, head, checked, emitted>>

Idle == [pc |-> "idle"]

Leaves == {"leaf-1", "leaf-2"}   \* a stop's leaf: the last processed one, or another

Init ==
    /\ runs = <<>>
    /\ index = EmptyIndex
    /\ authority = [r \in RunIds |-> EmptyAuthority]
    /\ pending = {}
    /\ head \in Heads
    /\ checked = 0
    /\ cmd = [s \in Sessions |-> Idle]
    /\ emitted = [r \in RunIds |-> 0]

Goes(s, c) == cmd' = [cmd EXCEPT ![s] = c]

EntriesOf(idx, workflow, s) ==
    {entry \in idx.entries : entry.workflow = workflow /\ entry.sessionId = s}

(* Nothing can be read through an index that does not decode. *)
IndexReads == validateActiveIndex(index)

-----------------------------------------------------------------------------
(* Commands: lookupRun *)

Controls == {"pause", "resume", "cancel"}
Targeted == {"adopt", "reconcile", "steer", "checkpoint"}

Found(op, run) == [pc |-> "found", op |-> op, run |-> run]

(* With a run id the snapshot is read directly. *)
LookupTarget(s, op, r) ==
    /\ cmd[s] = Idle
    /\ op = "adopt" \/ runs[r].sessionId = s
    /\ Goes(s, Found(op, runs[r]))
    /\ UNCHANGED files

(* Without one, the index says which run it is ... *)
LookupEntry(s, op, workflow) ==
    /\ cmd[s] = Idle /\ IndexReads
    /\ \E entry \in EntriesOf(index, workflow, s) :
          Goes(s, [pc |-> "entry", op |-> op, runId |-> entry.runId])
    /\ UNCHANGED files

(* ... and the snapshot is read next: by then it may be someone else's. *)
ReadRun(s) ==
    /\ cmd[s].pc = "entry"
    /\ Goes(s, Found(cmd[s].op, runs[cmd[s].runId]))
    /\ UNCHANGED files

(* A create goes on when the session has no run of the workflow. *)
LookupNone(s, workflow) ==
    /\ cmd[s] = Idle /\ IndexReads
    /\ EntriesOf(index, workflow, s) = {}
    /\ Goes(s, [pc |-> "absent", workflow |-> workflow])
    /\ UNCHANGED files

-----------------------------------------------------------------------------
(* Commands: the event, with the index revision read again *)

EventOf(run, runRevision, sessionId, epoch, revision, expectedHead, generation, mutation) ==
    [sequence |-> revision + 1, runId |-> run.runId, workflow |-> run.workflow,
     expected |-> [indexRevision |-> revision, runRevision |-> runRevision,
                   ownerSessionId |-> sessionId, ownerEpoch |-> epoch,
                   expectedHead |-> expectedHead, taskGeneration |-> generation],
     mutation |-> mutation]

createEvent(revision, run) ==
    EventOf(run, NoRevision, None, 0, revision, None, NoGeneration,
            [kind |-> "run_created", run |-> run])

mutationEvent(run, revision, expectedHead, generation, mutation) ==
    EventOf(run, run.revision, run.sessionId, run.epoch, revision, expectedHead, generation,
            mutation)

Ready(op, event) == [pc |-> "ready", op |-> op, event |-> event]

(* newRunId: any id no run or event has; the first will do. *)
FreshRunIds == RunIds \ (DOMAIN runs \cup
    {cmd[s].event.runId : s \in {t \in Sessions : cmd[t].pc = "ready"}})

Create(s) ==
    /\ cmd[s].pc = "absent" /\ IndexReads /\ index.revision < MaxRevision
    /\ FreshRunIds # {}
    /\ LET id == CHOOSE r \in FreshRunIds : TRUE
           run == NewRun(id, cmd[s].workflow, s, head,
                         IF cmd[s].workflow = "start_work" THEN PlanTasks ELSE <<>>)
       IN Goes(s, Ready("create", createEvent(index.revision, run)))
    /\ UNCHANGED files

(* Slip: reduceWorkflowControl without its precheck. *)
PrecheckNone(s, op, run) == TRUE

(* Only adopt may touch another session's run. *)
Precheck(s, op, run) == op = "adopt" \/ run.sessionId = s

Builds(s, mutation, expectedHead, generation) ==
    /\ IndexReads /\ index.revision < MaxRevision
    /\ Goes(s, Ready(cmd[s].op,
               mutationEvent(cmd[s].run, index.revision, expectedHead, generation, mutation)))
    /\ UNCHANGED files

Control(s) ==
    /\ cmd[s].pc = "found" /\ cmd[s].op \in Controls \cup {"adopt"}
    /\ Precheck(s, cmd[s].op, cmd[s].run)
    /\ ControlAllowed(cmd[s].run, cmd[s].op)
    /\ Builds(s, IF cmd[s].op = "adopt" THEN [kind |-> "owner_adopted", sessionId |-> s]
                 ELSE [kind |-> "workflow_controlled", control |-> cmd[s].op],
              None, NoGeneration)

(* The plan must be the run's own; the reducer is only applied in commit. *)
Reconcile(s) ==
    /\ cmd[s].pc = "found" /\ cmd[s].op = "reconcile" /\ cmd[s].run.workflow = "start_work"
    /\ Builds(s, [kind |-> "plan_reconciled", taskIds |-> PlanTasks],
              head, cmd[s].run.progressRevision)

(* A steering document adds a criterion; it names the revision and HEAD it *)
(* was written for.  The replay of a known document is TransactionStore's. *)
Steer(s) ==
    /\ cmd[s].pc = "found" /\ cmd[s].op = "steer" /\ cmd[s].run.workflow = "ulw_loop"
    /\ Builds(s, [kind |-> "workflow_steered", criteria |-> <<"criterion-2">>],
              head, cmd[s].run.progressRevision)

(* A checkpoint names a criterion and the receipt accepted for it at the   *)
(* revision the run is at.                                                 *)
Checkpoint(s) ==
    LET run == cmd[s].run
    IN /\ cmd[s].pc = "found" /\ cmd[s].op = "checkpoint" /\ run.workflow = "ulw_loop"
       /\ \E i \in DOMAIN authority[run.runId].accepted :
             LET entry == authority[run.runId].accepted[i]
             IN /\ entry.taskId \in CriterionIds(run)
                /\ entry.ownerSessionId = s /\ entry.ownerEpoch = run.epoch
                /\ entry.runRevision = run.revision
                /\ entry.captureCommit = head
                /\ Builds(s, [kind |-> "criterion_settled", criterionId |-> entry.taskId,
                              acceptanceId |-> entry.idempotencyKey,
                              captureRevision |-> entry.runRevision,
                              captureCommit |-> entry.captureCommit],
                          head, entry.taskGeneration)

(* The command stops short: the reducer, the plan, the document, HEAD or   *)
(* the index refuses, or the host goes away.                               *)
GiveUp(s) ==
    /\ cmd[s].pc \in {"entry", "absent", "found", "stopping", "ready"}
    /\ Goes(s, Idle)
    /\ UNCHANGED files

-----------------------------------------------------------------------------
(* Natural stops: DurableContinuationCoordinator.handle *)

StopReadIndex(s, leafId) ==
    /\ cmd[s] = Idle /\ IndexReads
    /\ Goes(s, [pc |-> "stopping", leafId |-> leafId, index |-> index])
    /\ UNCHANGED files

(* resolveWorkflow: the entry and the snapshot read after it must agree. *)
Loaded(idx, workflow, s) == {runs[entry.runId] : entry \in EntriesOf(idx, workflow, s)}

Conflict(idx, workflow, s) ==
    \E entry \in EntriesOf(idx, workflow, s) :
       entry # EntryOf(runs[entry.runId], runs[entry.runId].transactionRevision)

(* Slip: one attempt too many. *)
hasReachedNoProgressBoundLate(run) ==
    run.seen = run.progressRevision /\ run.attempts > NoProgressLimit

hasReachedNoProgressBound(run) ==
    run.seen = run.progressRevision /\ run.attempts >= NoProgressLimit

Attempt(run, leafId) ==
    IF hasReachedNoProgressBound(run)
    THEN [kind |-> "continuation_stuck", leafId |-> leafId]
    ELSE [kind |-> "continuation_attempted", leafId |-> leafId,
          progressRevision |-> run.progressRevision]

FailedFor(taskId) == [kind |-> "workflow_terminal", status |-> "failed", taskId |-> taskId]

remainingTaskIds == SubSeq(PlanTasks, checked + 1, Len(PlanTasks))

(* The start_work half of decideContinuation, and evaluateStartWorkContinuation; *)
(* an empty set: this run has nothing to say.                              *)
decideStart(run, leafId) ==
    LET a == authority[run.runId]
        active == run.status = "active"
        nextTaskId == Head(remainingTaskIds)
    IN IF active /\ remainingTaskIds = <<>> /\ CompletionReady(run, a)
       THEN {[kind |-> "workflow_terminal", status |-> "completed",
              acceptanceIds |-> startCompletionAcceptanceIds(run, a)]}
       ELSE IF exhaustedTaskId(run, a) # None THEN {FailedFor(exhaustedTaskId(run, a))}
       ELSE IF ~active \/ remainingTaskIds = <<>> THEN {}
       ELSE IF currentAcceptance(run, a, nextTaskId) # 0
       THEN {[kind |-> "task_evidence_accepted", taskId |-> nextTaskId,
              acceptanceId |-> a.accepted[currentAcceptance(run, a, nextTaskId)].idempotencyKey]}
       ELSE {Attempt(run, leafId)}

evaluateUlwContinuation(run) ==
    /\ run.status = "active" /\ HasActiveGoal(run)
    /\ run.cycleCount < CycleLimit
    /\ \A i \in DOMAIN run.criteria : run.criteria[i].failures < FailureLimit

(* The first criterion that has not passed; 0: none. *)
openCriterion(run) == SelectInSeq(run.criteria, LAMBDA c : c.status # "pass")

(* The ulw_loop half. *)
decideLoop(run, leafId) ==
    LET a == authority[run.runId]
        open == openCriterion(run)
        i == IF open = 0 THEN 0 ELSE currentAcceptance(run, a, run.criteria[open].id)
    IN IF exhaustedTaskId(run, a) # None THEN {FailedFor(exhaustedTaskId(run, a))}
       ELSE IF ~evaluateUlwContinuation(run) THEN {}
       ELSE IF i # 0
       THEN {[kind |-> "criterion_settled", criterionId |-> run.criteria[open].id,
              acceptanceId |-> a.accepted[i].idempotencyKey,
              captureRevision |-> a.accepted[i].runRevision,
              captureCommit |-> a.accepted[i].captureCommit]}
       ELSE {Attempt(run, leafId)}

(* The start_work run comes first; a leaf it has already seen ends it all. *)
decideContinuation(s, idx, leafId) ==
    LET start == Loaded(idx, "start_work", s)
        loop == Loaded(idx, "ulw_loop", s)
        started == UNION {{[run |-> run, mutation |-> m] : m \in decideStart(run, leafId)}
                            : run \in start}
        looped == UNION {{[run |-> run, mutation |-> m] : m \in decideLoop(run, leafId)}
                            : run \in {l \in loop : l.leaf # leafId}}
    IN IF \/ Conflict(idx, "start_work", s) \/ Conflict(idx, "ulw_loop", s)
          \/ \E run \in start : run.leaf = leafId
       THEN {}
       ELSE IF started # {} THEN started ELSE looped

(* The runs, receipts and plan are read and the decision made; the event   *)
(* carries the index revision read at first.                               *)
StopDecide(s) ==
    /\ cmd[s].pc = "stopping" /\ cmd[s].index.revision < MaxRevision
    /\ \E d \in decideContinuation(s, cmd[s].index, cmd[s].leafId) :
          LET settled == d.mutation.kind \in ReceiptBound
          IN Goes(s, Ready("stop",
               mutationEvent(d.run, cmd[s].index.revision,
                             IF settled THEN d.run.expectedHead ELSE None,
                             IF settled THEN taskGeneration(d.run, authority[d.run.runId])
                                        ELSE NoGeneration,
                             d.mutation)))
    /\ UNCHANGED files

-----------------------------------------------------------------------------
(* commit *)

Current(r) == IF r \in DOMAIN runs THEN {runs[r]} ELSE {}

CommitRun(s) ==
    LET e == cmd[s].event
        p == Prepared(index, Current(e.runId), e)
    IN /\ cmd[s].pc = "ready" /\ pending = {} /\ IndexReads
       /\ Prepares(index, Current(e.runId), e, authority[e.runId])
       /\ runs' = [r \in DOMAIN runs \cup {e.runId} |-> IF r = e.runId THEN p.run ELSE runs[r]]
       /\ pending' = {[index |-> p.index, event |-> e]}
       /\ Goes(s, [pc |-> "committing"])
       /\ UNCHANGED <<index, authority, head, checked, emitted>>

(* emitted counts the continuations granted since the run progressed or    *)
(* was resumed or adopted.                                                 *)
Emitted(m, n) ==
    CASE m.kind = "continuation_attempted" -> n + 1
      [] m.kind \in ReceiptBound \cup {"owner_adopted"} -> 0
      [] m.kind = "workflow_controlled" -> IF m.control = "resume" THEN 0 ELSE n
      [] OTHER -> n

(* The index is written, by the committing process or by a later repair. *)
CommitIndex ==
    \E p \in pending :
       /\ index' = p.index
       /\ pending' = {}
       /\ cmd' = [s \in Sessions |-> IF cmd[s].pc = "committing" THEN Idle ELSE cmd[s]]
       /\ emitted' = [emitted EXCEPT ![p.event.runId] = Emitted(p.event.mutation, @)]
       /\ UNCHANGED <<runs, authority, head, checked>>

-----------------------------------------------------------------------------
(* The agent's work, seen through the ledgers, the plan and git (external  *)
(* to this module)                                                         *)

Receipts(r) == Len(authority[r].dispatched) + Len(authority[r].accepted)
               + Len(authority[r].rejected)

TaskNames(run) == CriterionIds(run) \cup ToSet(run.taskIds)

(* Receipts are written under the lock, so never while a commit is pending. *)
ReceiptStep(s, r) ==
    /\ pending = {} /\ IndexReads /\ Receipts(r) < MaxReceipts
    /\ ResolvesTo(index, runs, s, runs[r])
    /\ \/ authority' = [authority EXCEPT ![r] = Dispatched(runs[r], @)]
       \/ /\ taskGeneration(runs[r], authority[r]) > 0
          /\ \E t \in TaskNames(runs[r]) :
                \/ authority' = [authority EXCEPT ![r] = Accepted(runs[r], @, t, head)]
                \/ authority' = [authority EXCEPT ![r] = Rejected(runs[r], @, t)]
    /\ UNCHANGED <<runs, index, pending, head, checked, cmd, emitted>>

TickTask ==
    /\ checked < Len(PlanTasks)
    /\ checked' = checked + 1
    /\ UNCHANGED <<runs, index, authority, pending, head, cmd, emitted>>

MoveHead ==
    /\ head' \in Heads \ {head}
    /\ UNCHANGED <<runs, index, authority, pending, checked, cmd, emitted>>

-----------------------------------------------------------------------------
SessionStep(s) ==
    \/ \E op \in Ops[s] \cap (Controls \cup Targeted), r \in DOMAIN runs : LookupTarget(s, op, r)
    \/ \E op \in Ops[s] \cap Controls, w \in Workflows : LookupEntry(s, op, w)
    \/ ReadRun(s)
    \/ \E w \in Ops[s] \cap Workflows : LookupNone(s, w)
    \/ Create(s) \/ Control(s) \/ Reconcile(s) \/ Steer(s) \/ Checkpoint(s)
    \/ "stop" \in Ops[s] /\ \E leafId \in Leaves : StopReadIndex(s, leafId)
    \/ StopDecide(s)
    \/ CommitRun(s) \/ GiveUp(s)
    \/ \E r \in DOMAIN runs : ReceiptStep(s, r)

Next == (\E s \in Sessions : SessionStep(s)) \/ CommitIndex \/ TickTask \/ MoveHead

Spec == Init /\ [][Next]_vars

-----------------------------------------------------------------------------
(* Properties *)

TypeOK ==
    /\ \A r \in DOMAIN runs : r \in RunIds /\ runs[r] \in Runs /\ runs[r].runId = r
    /\ \A entry \in index.entries : entry.runId \in DOMAIN runs
    /\ \A s \in Sessions : cmd[s].pc = "ready" => WellFormed(cmd[s].event)
    /\ head \in Heads /\ checked \in 0 .. Len(PlanTasks)

(* Adoption "invalidates old-owner CAS": a run changes only at the hands   *)
(* of the session that owns it, or that takes it over.  "Completed,        *)
(* cancelled, and failed runs ... never resume or adopt": the status of a  *)
(* run that has ended stays, although settling, steering and continuing do *)
(* not look at the status in their reducers and a command acts on a copy   *)
(* read earlier.  Pausing "never auto-continues": a stop that saw the run  *)
(* active loses to the pause or the adoption committed before it.          *)
OnlyEntitledWrite ==
    [][\A r \in DOMAIN runs :
          /\ runs'[r] # runs[r] =>
                \E s \in Sessions : /\ cmd[s].pc = "ready" /\ cmd'[s].pc = "committing"
                                    /\ s \in {runs[r].sessionId, runs'[r].sessionId}
          /\ runs[r].status \in Terminal => runs'[r].status = runs[r].status
          /\ emitted'[r] > emitted[r] => runs[r].status = "active"]_vars

(* "Two distinct unchanged-progress continuation emissions are allowed":   *)
(* whatever is paused, steered or reconciled in between.                   *)
NoProgressBound == \A r \in RunIds : emitted[r] <= NoProgressLimit

(* "Pending, failed, blocked, stale, prior-run, or prior-HEAD evidence     *)
(* never completes": behind every task or criterion of a completed run is  *)
(* a receipt accepted at the run's HEAD, and under its last owner's epoch  *)
(* for a plan.                                                             *)
CompletedIsAccepted ==
    \A r \in DOMAIN runs :
       runs[r].status = "completed" =>
          \A t \in TaskNames(runs[r]) :
             \E i \in DOMAIN authority[r].accepted :
                LET entry == authority[r].accepted[i]
                IN /\ entry.taskId = t /\ entry.captureCommit = runs[r].expectedHead
                   /\ runs[r].workflow = "start_work" => entry.ownerEpoch = runs[r].epoch

(* A session has at most one run of each workflow in the index, or the     *)
(* index decodes no more (validateActiveIndex: duplicate_key).             *)
UniqueActiveKey == validateActiveIndex(index)
=============================================================================
