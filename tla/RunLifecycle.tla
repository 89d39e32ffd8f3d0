---------------------------- MODULE RunLifecycle ----------------------------
(***************************************************************************)
(* The pure part of the workflow state: what a run is, which mutation a    *)
(* run accepts, what the mutation makes of it, and which index the new run *)
(* is published under.  state/state-transition.ts and the reducers it      *)
(* calls (workflow-control.ts, ulw-loop-contract.ts,                       *)
(* runtime-progress-transition.ts, receipt-authority.ts).                  *)
(*                                                                         *)
(* All runs, events and indexes are schemaVersion 2 and legacyHeadUnbound  *)
(* is FALSE: what every command and the continuation write.  A ULW run has *)
(* the single goal goal-1, the only goal any mutation ever gives it.       *)
(* Texts (objective, scenario, annotation, timestamps) are left out.       *)
(***************************************************************************)
EXTENDS SequencesExt, Integers

CONSTANT RunIds

None == "none"          \* a null id: leaf, session, head, fingerprint
NoGeneration == 0       \* expected.taskGeneration = null (a real one is positive)
NoRevision == 0         \* expected.runRevision = null (a real one is positive)

Workflows == {"start_work", "ulw_loop"}

Terminal == {"completed", "cancelled", "failed", "abandoned"}
Adoptable == {"paused", "stuck", "blocked", "needs_user_decision", "review_blocked"}
Statuses == {"active"} \cup Adoptable \cup Terminal

FailureLimit == 3
CycleLimit == 5
NoProgressLimit == 2

Criteria == [id : STRING, status : {"pending", "pass", "fail", "blocked"},
             fingerprint : STRING \cup {None}, failures : 0 .. FailureLimit]

Runs == [runId : RunIds, workflow : Workflows, revision : Nat, transactionRevision : Nat,
         sessionId : STRING, epoch : Nat, expectedHead : STRING,
         progressRevision : Nat, leaf : STRING \cup {None}, seen : Nat, attempts : Nat, stuck : BOOLEAN,
         status : Statuses, taskIds : Seq(STRING), goalStatus : {None, "in_progress", "complete"},
         cycleCount : 0 .. CycleLimit, criteria : Seq(Criteria)]

NewCriterion(id) ==
    [id |-> id, status |-> "pending", fingerprint |-> None, failures |-> 0]

(* createStartWork and createUlwRun: the run a session creates.  head is   *)
(* the repository HEAD it is bound to for its whole life; the transaction  *)
(* revision is set when the run is published.                              *)
NewRun(runId, workflow, sessionId, head, taskIds) ==
    [runId |-> runId, workflow |-> workflow,
     revision |-> 1, transactionRevision |-> 0,
     sessionId |-> sessionId, epoch |-> 1, expectedHead |-> head,
     progressRevision |-> 1,
     leaf |-> None, seen |-> 1, attempts |-> 0, stuck |-> FALSE,
     status |-> "active",
     taskIds |-> taskIds,
     goalStatus |-> IF workflow = "ulw_loop" THEN "in_progress" ELSE None,
     cycleCount |-> 0,
     criteria |-> IF workflow = "ulw_loop" THEN <<NewCriterion("criterion-1")>> ELSE <<>>]

(* activeGoalId is goal-1 until the goal completes, then null. *)
HasActiveGoal(run) == run.goalStatus = "in_progress"

Bumped(run) == [run EXCEPT !.revision = @ + 1]

CriterionIds(run) == {run.criteria[i].id : i \in DOMAIN run.criteria}

(* decodeRun refuses a run with two criteria of one id. *)
RunDecodes(run) ==
    \A i, j \in DOMAIN run.criteria : run.criteria[i].id = run.criteria[j].id => i = j

-----------------------------------------------------------------------------
(* Receipt authority: the task dispatches of a run (by the owner epoch     *)
(* they were made under), its worker acceptances and its rejections.       *)

EmptyAuthority == [dispatched |-> <<>>, accepted |-> <<>>, rejected |-> <<>>]

(* The newest dispatch of the run's present owner; 0: none yet. *)
taskGeneration(run, authority) ==
    SelectLastInSeq(authority.dispatched, LAMBDA epoch : epoch = run.epoch)

(* Slip: the HEAD of the capture does not matter. *)
matchesRunAnyHead(run, entry) ==
    /\ entry.ownerSessionId = run.sessionId
    /\ entry.ownerEpoch = run.epoch

matchesRun(run, entry) ==
    /\ entry.ownerSessionId = run.sessionId
    /\ entry.ownerEpoch = run.epoch
    /\ entry.captureCommit = run.expectedHead

(* Slip: the acceptance of an earlier attempt still counts. *)
currentAcceptanceAnyAttempt(run, authority, taskId) ==
    IF taskGeneration(run, authority) = 0 THEN 0
    ELSE SelectLastInSeq(authority.accepted,
           LAMBDA entry : /\ matchesRun(run, entry)
                          /\ entry.taskId = taskId
                          /\ entry.taskGeneration = taskGeneration(run, authority))

(* Position of the acceptance that currently speaks for a task; 0: none. *)
currentAcceptance(run, authority, taskId) ==
    IF taskGeneration(run, authority) = 0 THEN 0
    ELSE SelectLastInSeq(authority.accepted,
           LAMBDA entry : /\ matchesRun(run, entry)
                          /\ entry.taskId = taskId
                          /\ entry.taskGeneration = taskGeneration(run, authority)
                          /\ entry.attempt = run.progressRevision)

IsCurrent(run, authority, taskId, acceptanceId) ==
    LET i == currentAcceptance(run, authority, taskId)
    IN i # 0 /\ authority.accepted[i].idempotencyKey = acceptanceId

(* Per task of the plan, the newest acceptance that matches the run. *)
acceptanceOf(run, authority, taskId) ==
    SelectLastInSeq(authority.accepted,
        LAMBDA entry : matchesRun(run, entry) /\ entry.taskId = taskId)

CompletionReady(run, authority) ==
    /\ run.taskIds # <<>>
    /\ currentAcceptance(run, authority, Last(run.taskIds)) # 0
    /\ \A k \in DOMAIN run.taskIds : acceptanceOf(run, authority, run.taskIds[k]) # 0

startCompletionAcceptanceIds(run, authority) ==
    [k \in DOMAIN run.taskIds |->
        authority.accepted[acceptanceOf(run, authority, run.taskIds[k])].idempotencyKey]

(* The task whose worker was rejected three times, or None. *)
exhaustedTaskId(run, authority) ==
    LET i == IF taskGeneration(run, authority) = 0 THEN 0
             ELSE SelectLastInSeq(authority.rejected,
                    LAMBDA entry : /\ entry.ownerEpoch = run.epoch
                                   /\ entry.taskGeneration = taskGeneration(run, authority)
                                   /\ entry.count = 3
                                   /\ currentAcceptance(run, authority, entry.taskId) = 0)
    IN IF i = 0 THEN None ELSE authority.rejected[i].taskId

(* What the ledgers do to it, once they have resolved the run: a task is   *)
(* dispatched, a worker's result is accepted for the newest dispatch at    *)
(* the HEAD of that moment, or rejected for the third time (the first two  *)
(* rejections say nothing to the run).                                     *)
Dispatched(run, authority) == [authority EXCEPT !.dispatched = Append(@, run.epoch)]

Accepted(run, authority, taskId, head) ==
    [authority EXCEPT !.accepted = Append(@,
        [idempotencyKey |-> <<taskId, Len(@) + 1>>, taskId |-> taskId,
         ownerSessionId |-> run.sessionId, ownerEpoch |-> run.epoch, captureCommit |-> head,
         taskGeneration |-> taskGeneration(run, authority),
         attempt |-> run.progressRevision, runRevision |-> run.revision])]

Rejected(run, authority, taskId) ==
    [authority EXCEPT !.rejected = Append(@,
        [taskId |-> taskId, ownerEpoch |-> run.epoch,
         taskGeneration |-> taskGeneration(run, authority), count |-> 3])]

-----------------------------------------------------------------------------
(* Workflow control: reduceStart and reduceUlw *)

resetContinuation(run) ==
    [run EXCEPT !.attempts = 0, !.seen = run.progressRevision, !.stuck = FALSE]

ControlAllowed(run, control) ==
    \/ control = "pause" /\ run.status = "active"
    \/ control = "cancel" /\ run.status \notin Terminal
    \/ control = "resume" /\ run.status \in {"paused", "stuck"}
    \/ control = "adopt" /\ run.status \in Adoptable
    \/ control = "reconcile_plan" /\ run.workflow = "start_work" /\ run.status \notin Terminal

(* Slip: pausing does not count as a revision. *)
PausedInPlace(run) == [run EXCEPT !.status = "paused"]

Paused(run) == [Bumped(run) EXCEPT !.status = "paused"]

Cancelled(run) == [Bumped(run) EXCEPT !.status = "cancelled"]
Resumed(run) == [resetContinuation(Bumped(run)) EXCEPT !.status = "active"]
Adopted(run, sessionId) ==
    [Resumed(run) EXCEPT !.sessionId = sessionId, !.epoch = @ + 1]
Reconciled(run, taskIds) ==
    [Bumped(run) EXCEPT !.status = "active", !.taskIds = taskIds]

-----------------------------------------------------------------------------
(* ULW bounds: startGoalCycle and recordCriterionFailure *)

CycleAllowed(run) == run.workflow = "ulw_loop" /\ run.cycleCount < CycleLimit
CycleStarted(run) == [Bumped(run) EXCEPT !.cycleCount = @ + 1]

Repeats(c, fingerprint) == c.fingerprint = fingerprint

FailureAllowed(run, criterionId, fingerprint) ==
    \E i \in DOMAIN run.criteria :
       /\ run.criteria[i].id = criterionId
       /\ ~(Repeats(run.criteria[i], fingerprint) /\ run.criteria[i].failures >= FailureLimit)

FailureRecorded(run, criterionId, fingerprint) ==
    LET failed(c) == [c EXCEPT !.status = "fail", !.fingerprint = fingerprint,
                               !.failures = IF Repeats(c, fingerprint) THEN @ + 1 ELSE 1]
    IN [Bumped(run) EXCEPT !.criteria =
          [i \in DOMAIN run.criteria |->
             IF run.criteria[i].id = criterionId THEN failed(run.criteria[i])
                                                 ELSE run.criteria[i]]]

-----------------------------------------------------------------------------
(* Steering appends new pending criteria to the active goal. *)

SteerAllowed(run, criteria) ==
    /\ run.workflow = "ulw_loop" /\ HasActiveGoal(run)
    /\ \A i \in DOMAIN criteria : criteria[i] \notin CriterionIds(run)

Steered(run, criteria) ==
    [Bumped(run) EXCEPT !.criteria = @ \o [i \in DOMAIN criteria |-> NewCriterion(criteria[i])]]

-----------------------------------------------------------------------------
(* Progress and continuation: reduceRuntimeProgress *)

Progressed(run) == [Bumped(run) EXCEPT !.progressRevision = @ + 1]

settleAllowed(run, event, authority) ==
    LET m == event.mutation
        i == currentAcceptance(run, authority, m.criterionId)
    IN /\ run.workflow = "ulw_loop"
       /\ IsCurrent(run, authority, m.criterionId, m.acceptanceId)
       /\ authority.accepted[i].taskGeneration = event.expected.taskGeneration
       /\ authority.accepted[i].runRevision = m.captureRevision
       /\ authority.accepted[i].captureCommit = m.captureCommit
       /\ \E k \in DOMAIN run.criteria :
             run.criteria[k].id = m.criterionId /\ run.criteria[k].status # "pass"

settleCriterion(run, criterionId) ==
    LET criteria == [k \in DOMAIN run.criteria |->
                       IF run.criteria[k].id = criterionId
                       THEN [run.criteria[k] EXCEPT !.status = "pass"]
                       ELSE run.criteria[k]]
        completed == \A k \in DOMAIN criteria : criteria[k].status = "pass"
    IN [Progressed(run) EXCEPT
          !.criteria = criteria,
          !.goalStatus = IF completed THEN "complete" ELSE @,
          !.status = IF completed THEN "completed" ELSE @]

evidenceAllowed(run, event, authority) ==
    /\ run.workflow = "start_work"
    /\ IsCurrent(run, authority, event.mutation.taskId, event.mutation.acceptanceId)
    /\ taskGeneration(run, authority) = event.expected.taskGeneration

terminalAllowed(run, event, authority) ==
    LET m == event.mutation
    IN /\ event.expected.taskGeneration = taskGeneration(run, authority)
       /\ \/ m.status = "failed" /\ exhaustedTaskId(run, authority) = m.taskId
          \/ /\ m.status = "completed" /\ run.workflow = "start_work"
             /\ CompletionReady(run, authority)
             /\ startCompletionAcceptanceIds(run, authority) = m.acceptanceIds

terminalRun(run, status) ==
    IF status = "failed" THEN [Bumped(run) EXCEPT !.status = "failed"]
                         ELSE [Progressed(run) EXCEPT !.status = "completed"]

attemptAllowed(run, m) == run.leaf # m.leafId /\ m.progressRevision = run.progressRevision

attemptContinuation(run, leafId) ==
    [Bumped(run) EXCEPT
       !.leaf = leafId, !.seen = run.progressRevision, !.stuck = FALSE,
       !.attempts = IF run.seen # run.progressRevision THEN 1 ELSE @ + 1]

stopAllowed(run, m) ==
    /\ run.leaf # m.leafId
    /\ run.seen = run.progressRevision
    /\ run.attempts >= NoProgressLimit

stopContinuation(run, leafId) ==
    [Bumped(run) EXCEPT !.status = "stuck", !.leaf = leafId, !.stuck = TRUE]

-----------------------------------------------------------------------------
(* The mutations a caller can put in an event, as far as their types go:   *)
(* what the StateMutation type says. *)

Kinds == {"run_created", "workflow_controlled", "owner_adopted", "plan_reconciled",
          "workflow_steered", "criterion_settled", "task_evidence_accepted",
          "workflow_terminal", "continuation_attempted", "continuation_stuck",
          "goal_cycle_started", "criterion_failure_recorded"}

WellFormed(event) ==
    LET m == event.mutation
    IN /\ event.runId \in RunIds
       /\ event.sequence \in Nat
       /\ m.kind \in Kinds
       /\ m.kind = "run_created" => m.run \in Runs
       /\ m.kind = "owner_adopted" => m.sessionId \in STRING
       /\ m.kind = "plan_reconciled" => m.taskIds \in Seq(STRING)
       /\ m.kind = "workflow_steered" => m.criteria \in Seq(STRING)
       /\ m.kind \in {"continuation_attempted", "continuation_stuck"} => m.leafId \in STRING
       /\ m.kind = "criterion_failure_recorded" => m.fingerprint \in STRING

(* controlRun: may the event's mutation be applied, and with what result? *)

ReceiptBound == {"criterion_settled", "task_evidence_accepted", "workflow_terminal"}

TaskScoped == ReceiptBound \cup
    {"plan_reconciled", "workflow_steered", "goal_cycle_started", "criterion_failure_recorded"}

controlAllowed(run, event, authority) ==
    LET m == event.mutation
    IN \/ m.kind = "workflow_controlled" /\ ControlAllowed(run, m.control)
       \/ m.kind = "owner_adopted" /\ ControlAllowed(run, "adopt")
       \/ m.kind = "plan_reconciled" /\ ControlAllowed(run, "reconcile_plan")
       \/ m.kind = "workflow_steered" /\ SteerAllowed(run, m.criteria)
       \/ m.kind = "criterion_settled" /\ settleAllowed(run, event, authority)
       \/ m.kind = "task_evidence_accepted" /\ evidenceAllowed(run, event, authority)
       \/ m.kind = "workflow_terminal" /\ terminalAllowed(run, event, authority)
       \/ m.kind = "continuation_attempted" /\ attemptAllowed(run, m)
       \/ m.kind = "continuation_stuck" /\ stopAllowed(run, m)
       \/ m.kind = "goal_cycle_started" /\ CycleAllowed(run)
       \/ m.kind = "criterion_failure_recorded"
            /\ FailureAllowed(run, m.criterionId, m.fingerprint)

controlRun(run, m) ==
    CASE m.kind = "workflow_controlled" ->
            (CASE m.control = "pause" -> Paused(run)
               [] m.control = "cancel" -> Cancelled(run)
               [] OTHER -> Resumed(run))
      [] m.kind = "owner_adopted" -> Adopted(run, m.sessionId)
      [] m.kind = "plan_reconciled" -> Reconciled(run, m.taskIds)
      [] m.kind = "workflow_steered" -> Steered(run, m.criteria)
      [] m.kind = "criterion_settled" -> settleCriterion(run, m.criterionId)
      [] m.kind = "task_evidence_accepted" -> Progressed(run)
      [] m.kind = "workflow_terminal" -> terminalRun(run, m.status)
      [] m.kind = "continuation_attempted" -> attemptContinuation(run, m.leafId)
      [] m.kind = "continuation_stuck" -> stopContinuation(run, m.leafId)
      [] m.kind = "goal_cycle_started" -> CycleStarted(run)
      [] OTHER -> FailureRecorded(run, m.criterionId, m.fingerprint)

-----------------------------------------------------------------------------
(* The active index *)

statusHint(run) ==
    CASE run.status \in {"active", "paused", "stuck"} -> run.status
      [] run.status \in Terminal -> None
      [] OTHER -> "blocked"

EntryOf(run, sequence) ==
    [workflow |-> run.workflow, sessionId |-> run.sessionId, runId |-> run.runId,
     ownerEpoch |-> run.epoch, runRevision |-> run.revision,
     transactionRevision |-> sequence, statusHint |-> statusHint(run)]

(* Slip: the old entry goes only when there is a new one. *)
deriveIndexKeepsTerminal(index, run, sequence) ==
    [revision |-> sequence,
     entries |-> IF statusHint(run) = None THEN index.entries
                 ELSE {entry \in index.entries : entry.runId # run.runId}
                      \cup {EntryOf(run, sequence)}]

(* Slip: the entries of the run's session are replaced, not the run's. *)
deriveIndexBySession(index, run, sequence) ==
    [revision |-> sequence,
     entries |-> {entry \in index.entries : entry.sessionId # run.sessionId}
                 \cup (IF statusHint(run) = None THEN {} ELSE {EntryOf(run, sequence)})]

(* The entries as a set: deriveIndex always puts the entry it writes last, *)
(* so their order in the file is that of their transactionRevision.  The   *)
(* run's old entry goes; a terminal run gets no new one.                   *)
deriveIndex(index, run, sequence) ==
    [revision |-> sequence,
     entries |-> {entry \in index.entries : entry.runId # run.runId}
                 \cup (IF statusHint(run) = None THEN {} ELSE {EntryOf(run, sequence)})]

EmptyIndex == [revision |-> 0, entries |-> {}]

(* decodeActiveIndex refuses an index that is not valid. *)
validateActiveIndex(index) ==
    \A a, b \in index.entries :
       a # b => /\ a.runId # b.runId
                /\ <<a.workflow, a.sessionId>> # <<b.workflow, b.sessionId>>

(* The run a session's ledger calls are about: its only entry, if the      *)
(* snapshot agrees with it.                                                *)
ResolvesTo(index, snapshots, sessionId, run) ==
    /\ {entry \in index.entries : entry.sessionId = sessionId} =
          {EntryOf(run, run.transactionRevision)}
    /\ run.runId \in DOMAIN snapshots /\ run = snapshots[run.runId]

-----------------------------------------------------------------------------
(* prepareTransition.  current is a set: empty if the run has no snapshot. *)

EventFits(index, event) ==
    event.expected.indexRevision = index.revision /\ event.sequence = index.revision + 1

CreateFits(current, event) ==
    /\ current = {}
    /\ event.expected.runRevision = NoRevision
    /\ event.expected.ownerSessionId = None
    /\ event.expected.ownerEpoch = 0

MutationFits(run, event, authority) ==
    /\ run.revision = event.expected.runRevision
    /\ run.sessionId = event.expected.ownerSessionId
    /\ run.epoch = event.expected.ownerEpoch
    /\ event.expected.expectedHead # None => run.expectedHead = event.expected.expectedHead
    /\ (event.mutation.kind \in TaskScoped) = (event.expected.taskGeneration # NoGeneration)
    /\ controlAllowed(run, event, authority)

NextRun(current, event) ==
    IF event.mutation.kind = "run_created" THEN event.mutation.run
    ELSE controlRun(CHOOSE run \in current : TRUE, event.mutation)

Prepares(index, current, event, authority) ==
    /\ EventFits(index, event)
    /\ IF event.mutation.kind = "run_created" THEN CreateFits(current, event)
       ELSE \E run \in current : MutationFits(run, event, authority)
    /\ NextRun(current, event).runId = event.runId
    /\ NextRun(current, event).workflow = event.workflow

(* Slip: the published run keeps its old transactionRevision. *)
PreparedUnstamped(index, current, event) ==
    LET next == NextRun(current, event)
    IN [run |-> next, index |-> deriveIndex(index, next, event.sequence)]

Prepared(index, current, event) ==
    LET published == [NextRun(current, event) EXCEPT !.transactionRevision = event.sequence]
    IN [run |-> published, index |-> deriveIndex(index, published, event.sequence)]

-----------------------------------------------------------------------------
(* next is a legal successor of run in the eyes of everyone who compares   *)
(* revisions or epochs with it: the same run bound to the same HEAD, one   *)
(* revision on, never back in progress, and with another owner only under  *)
(* a new epoch.                                                            *)
Succeeds(run, next) ==
    /\ next.runId = run.runId /\ next.workflow = run.workflow
    /\ next.expectedHead = run.expectedHead
    /\ next.revision = run.revision + 1
    /\ next.progressRevision \in {run.progressRevision, run.progressRevision + 1}
    /\ \/ next.epoch = run.epoch /\ next.sessionId = run.sessionId
       \/ next.epoch = run.epoch + 1
=============================================================================
