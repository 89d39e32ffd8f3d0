------------------------- MODULE MCTransactionStore -------------------------
(***************************************************************************)
(* TransactionStore for TLC: a small set of requests, among them stale,    *)
(* conflicting and repeated ones.                                          *)
(***************************************************************************)
EXTENDS TransactionStore

HeadCommit == "head-1"
RunA == NewRun("a", "start_work", "s1", HeadCommit, <<"t1">>)
RunB == NewRun("b", "ulw_loop", "s1", HeadCommit, <<>>)

Event(id, sequence, run, runRevision, session, epoch, generation, mutation) ==
    [eventId |-> id, sequence |-> sequence, runId |-> run.runId, workflow |-> run.workflow,
     expected |-> [indexRevision |-> sequence - 1, runRevision |-> runRevision,
                   ownerSessionId |-> session, ownerEpoch |-> epoch,
                   expectedHead |-> None, taskGeneration |-> generation],
     mutation |-> mutation]

Create(run, sequence) ==
    Event(<<"create", run.runId>>, sequence, run, NoRevision, None, 0, NoGeneration,
          [kind |-> "run_created", run |-> run])

Control(run, sequence, runRevision, control) ==
    Event(<<"control", run.runId, sequence, runRevision>>, sequence, run, runRevision, "s1", 1, NoGeneration,
          [kind |-> "workflow_controlled", control |-> control])

Steer(sequence, runRevision, criteria) ==
    Event(<<"steer", "b", 1>>, sequence, RunB, runRevision, "s1", 1, 1,
          [kind |-> "workflow_steered", criteria |-> criteria])

Evidence(sequence, runRevision, k) ==
    Event(<<"evidence", "a", sequence, k>>, sequence, RunA, runRevision, "s1", 1, 1,
          [kind |-> "task_evidence_accepted", taskId |-> "t1", acceptanceId |-> <<"t1", k>>])

(* Two creates race for the first place, a control event races a steering  *)
(* and is retried against a stale and the current revision; the steering's *)
(* idempotency key is used for two different events.                       *)
StoreRequests ==
    {Create(RunA, 1), Create(RunB, 1), Create(RunB, 2),
     Control(RunA, 2, 1, "pause"), Control(RunA, 3, 1, "cancel"), Control(RunA, 3, 2, "cancel"),
     Steer(2, 1, <<"c2">>), Steer(3, 1, <<"c2">>)}

(* The first acceptance offered for the first and for the second attempt, *)
(* and the acceptance of the second attempt.                               *)
EvidenceRequests ==
    {Create(RunA, 1), Evidence(2, 1, 1), Evidence(3, 2, 1), Evidence(3, 2, 2)}

ReceiptRequests == {Create(RunA, 1), Evidence(2, 1, 1)}

SteerRequests == {Create(RunB, 1), Steer(2, 1, <<"c2">>)}

(* A steering document with an annotation and no criteria. *)
AnnotationRequests == {Create(RunB, 1), Steer(2, 1, <<>>)}
=============================================================================
