------------------------- MODULE RunLifecycleProofs -------------------------
(***************************************************************************)
(* What controlRun, the reducer of every mutation but run_created, does to *)
(* any run: it stays well-formed and inside the ULW bounds, keeps its      *)
(* identity, moves forward, and makes progress only on a receipt.          *)
(***************************************************************************)
EXTENDS RunLifecycle, WellFoundedInduction, TLAPS

-----------------------------------------------------------------------------
(* Field updates that keep a run well-formed *)

(* The counters of a run are numbers. *)
LEMMA RunFields ==
  ASSUME NEW run \in Runs
  PROVE  /\ run.revision \in Nat /\ run.progressRevision \in Nat /\ run.epoch \in Nat
         /\ run.attempts \in Nat /\ run.seen \in Nat
  BY DEF Runs

(* Another status. *)
LEMMA StatusTyped ==
  ASSUME NEW run \in Runs, NEW s \in Statuses
  PROVE  [run EXCEPT !.status = s] \in Runs
  BY DEF Runs

(* Other criteria. *)
LEMMA CriteriaTyped ==
  ASSUME NEW run \in Runs, NEW c \in Seq(Criteria)
  PROVE  [run EXCEPT !.criteria = c] \in Runs
  BY DEF Runs

(* One revision on. *)
LEMMA BumpedTyped ==
  ASSUME NEW run \in Runs
  PROVE  Bumped(run) \in Runs
  <1>1. run.revision + 1 \in Nat
    BY DEF Runs
  <1>2. ASSUME NEW n \in Nat PROVE [run EXCEPT !.revision = n] \in Runs
    BY DEF Runs
  <1> QED BY <1>1, <1>2 DEF Bumped

(* Progress. *)
LEMMA ProgressedTyped ==
  ASSUME NEW run \in Runs
  PROVE  Progressed(run) \in Runs
  <1>1. Bumped(run) \in Runs
    BY BumpedTyped
  <1>2. Bumped(run).progressRevision + 1 \in Nat
    BY <1>1, RunFields
  <1>3. ASSUME NEW n \in Nat PROVE [Bumped(run) EXCEPT !.progressRevision = n] \in Runs
    BY <1>1 DEF Runs
  <1> QED BY <1>2, <1>3 DEF Progressed

(* A resumed run. *)
LEMMA ResumedTyped ==
  ASSUME NEW run \in Runs
  PROVE  Resumed(run) \in Runs
  <1>1. Bumped(run) \in Runs
    BY BumpedTyped
  <1>2. resetContinuation(Bumped(run)) \in Runs
    BY <1>1 DEF Runs, resetContinuation
  <1>3. "active" \in Statuses
    BY DEF Statuses
  <1> QED BY <1>2, <1>3, StatusTyped DEF Resumed

(* Another owner. *)
LEMMA AdoptedTyped ==
  ASSUME NEW run \in Runs, NEW s \in STRING
  PROVE  Adopted(run, s) \in Runs
  <1>1. Resumed(run) \in Runs
    BY ResumedTyped
  <1>2. Resumed(run).epoch + 1 \in Nat
    BY <1>1, RunFields
  <1>3. ASSUME NEW n \in Nat
        PROVE  [Resumed(run) EXCEPT !.sessionId = s, !.epoch = n] \in Runs
    BY <1>1 DEF Runs
  <1> QED BY <1>1, <1>2, <1>3 DEF Adopted, Runs

(* Other tasks. *)
LEMMA ReconciledTyped ==
  ASSUME NEW run \in Runs, NEW ids \in Seq(STRING)
  PROVE  Reconciled(run, ids) \in Runs
  <1>1. Bumped(run) \in Runs
    BY BumpedTyped
  <1>2. "active" \in Statuses
    BY DEF Statuses
  <1> QED BY <1>1, <1>2 DEF Runs, Reconciled

(* Another cycle. *)
LEMMA CycleTyped ==
  ASSUME NEW run \in Runs, CycleAllowed(run)
  PROVE  CycleStarted(run) \in Runs
  <1>1. Bumped(run) \in Runs
    BY BumpedTyped
  <1>2. Bumped(run).cycleCount = run.cycleCount
    BY DEF Runs, Bumped
  <1>3. run.cycleCount + 1 \in 0 .. CycleLimit
    BY DEF Runs, CycleAllowed, CycleLimit
  <1>4. ASSUME NEW n \in 0 .. CycleLimit
        PROVE  [Bumped(run) EXCEPT !.cycleCount = n] \in Runs
    BY <1>1 DEF Runs
  <1> QED BY <1>2, <1>3, <1>4 DEF CycleStarted

(* Another attempt. *)
LEMMA AttemptTyped ==
  ASSUME NEW run \in Runs, NEW leaf \in STRING
  PROVE  attemptContinuation(run, leaf) \in Runs
  <1>1. Bumped(run) \in Runs
    BY BumpedTyped
  <1>2. Bumped(run).attempts + 1 \in Nat /\ run.progressRevision \in Nat
    BY <1>1, RunFields
  <1>3. ASSUME NEW n \in Nat, NEW k \in Nat
        PROVE  [Bumped(run) EXCEPT !.leaf = leaf, !.seen = k, !.stuck = FALSE,
                                   !.attempts = n] \in Runs
    BY <1>1 DEF Runs
  <1> DEFINE n == IF run.seen # run.progressRevision THEN 1 ELSE Bumped(run).attempts + 1
  <1>4. n \in Nat
    BY <1>2
  <1>5. attemptContinuation(run, leaf) =
          [Bumped(run) EXCEPT !.leaf = leaf, !.seen = run.progressRevision, !.stuck = FALSE,
                              !.attempts = n]
    BY <1>1 DEF attemptContinuation, Runs
  <1> HIDE DEF n
  <1> QED BY <1>2, <1>3, <1>4, <1>5

(* A stuck run. *)
LEMMA StuckTyped ==
  ASSUME NEW run \in Runs, NEW leaf \in STRING
  PROVE  stopContinuation(run, leaf) \in Runs
  <1>1. Bumped(run) \in Runs
    BY BumpedTyped
  <1>2. "stuck" \in Statuses
    BY DEF Statuses, Adoptable
  <1> QED BY <1>1, <1>2 DEF Runs, stopContinuation

(* A run that ends. *)
LEMMA TerminalTyped ==
  ASSUME NEW run \in Runs, NEW s
  PROVE  terminalRun(run, s) \in Runs
  <1>1. "failed" \in Statuses /\ "completed" \in Statuses
    BY DEF Statuses, Terminal
  <1> QED BY <1>1, StatusTyped, BumpedTyped, ProgressedTyped DEF terminalRun

-----------------------------------------------------------------------------
(* Updates of the criteria *)

(* Criteria changed one by one. *)
LEMMA MappedCriteria ==
  ASSUME NEW run \in Runs, NEW F \in [DOMAIN run.criteria -> Criteria]
  PROVE  F \in Seq(Criteria)
  <1>1. run.criteria \in Seq(Criteria)
    BY DEF Runs
  <1> QED BY <1>1

(* Bumping leaves the criteria alone. *)
LEMMA BumpedCriteria ==
  ASSUME NEW run \in Runs
  PROVE  Bumped(run).criteria = run.criteria
  BY DEF Runs, Bumped

(* A steered run. *)
LEMMA SteeredTyped ==
  ASSUME NEW run \in Runs, NEW ids \in Seq(STRING)
  PROVE  Steered(run, ids) \in Runs
  <1> DEFINE added == [i \in DOMAIN ids |-> NewCriterion(ids[i])]
  <1>0. 0 \in 0 .. FailureLimit
    BY DEF FailureLimit
  <1>1. ASSUME NEW id \in STRING PROVE NewCriterion(id) \in Criteria
    <2>1. None \in STRING \cup {None}
      OBVIOUS
    <2> QED BY <1>0, <2>1 DEF NewCriterion, Criteria
  <1>2. added \in Seq(Criteria)
    <2>1. \A i \in DOMAIN ids : ids[i] \in STRING
      OBVIOUS
    <2>2. added \in [DOMAIN ids -> Criteria]
      BY <1>1, <2>1
    <2>3. DOMAIN ids = 1 .. Len(ids) /\ Len(ids) \in Nat
      OBVIOUS
    <2> HIDE DEF added
    <2> QED BY <2>2, <2>3
  <1>3. run.criteria \in Seq(Criteria)
    BY DEF Runs
  <1>4. run.criteria \o added \in Seq(Criteria)
    BY <1>2, <1>3
  <1>5. Steered(run, ids) = [Bumped(run) EXCEPT !.criteria = run.criteria \o added]
    BY BumpedCriteria DEF Steered
  <1> HIDE DEF added
  <1> QED BY <1>4, <1>5, BumpedTyped, CriteriaTyped

(* A failure, the third of its kind too. *)
LEMMA FailureTyped ==
  ASSUME NEW run \in Runs, NEW id, NEW fingerprint \in STRING,
         \A i \in DOMAIN run.criteria :
            run.criteria[i].id = id =>
               ~(Repeats(run.criteria[i], fingerprint) /\ run.criteria[i].failures >= FailureLimit)
  PROVE  FailureRecorded(run, id, fingerprint) \in Runs
  <1> DEFINE failed(c) == [c EXCEPT !.status = "fail", !.fingerprint = fingerprint,
                             !.failures = IF Repeats(c, fingerprint) THEN @ + 1 ELSE 1]
             F == [i \in DOMAIN run.criteria |->
                     IF run.criteria[i].id = id THEN failed(run.criteria[i])
                                                ELSE run.criteria[i]]
  <1>1. ASSUME NEW c \in Criteria, ~(Repeats(c, fingerprint) /\ c.failures >= FailureLimit)
        PROVE  failed(c) \in Criteria
    <2> DEFINE n == IF Repeats(c, fingerprint) THEN c.failures + 1 ELSE 1
    <2>1. n \in 0 .. FailureLimit
      BY <1>1 DEF Criteria, FailureLimit
    <2>2. failed(c) = [c EXCEPT !.status = "fail", !.fingerprint = fingerprint, !.failures = n]
      BY <1>1 DEF Criteria
    <2> HIDE DEF n
    <2> QED BY <2>1, <2>2 DEF Criteria
  <1>2. \A i \in DOMAIN run.criteria : run.criteria[i] \in Criteria
    BY DEF Runs
  <1> HIDE DEF failed
  <1>3. F \in [DOMAIN run.criteria -> Criteria]
    BY <1>1, <1>2
  <1>4. FailureRecorded(run, id, fingerprint) = [Bumped(run) EXCEPT !.criteria = F]
    BY DEF FailureRecorded, failed
  <1> HIDE DEF F
  <1>5. F \in Seq(Criteria)
    BY <1>3, MappedCriteria
  <1> QED BY <1>4, <1>5, BumpedTyped, CriteriaTyped

(* A settled receipt. *)
LEMMA SettledTyped ==
  ASSUME NEW run \in Runs, NEW id
  PROVE  settleCriterion(run, id) \in Runs
  <1> DEFINE F == [k \in DOMAIN run.criteria |->
                     IF run.criteria[k].id = id THEN [run.criteria[k] EXCEPT !.status = "pass"]
                                                ELSE run.criteria[k]]
             completed == \A k \in DOMAIN F : F[k].status = "pass"
             g == IF completed THEN "complete" ELSE Progressed(run).goalStatus
             s == IF completed THEN "completed" ELSE Progressed(run).status
  <1>1. \A i \in DOMAIN run.criteria : run.criteria[i] \in Criteria
    BY DEF Runs
  <1>2. \A c \in Criteria : [c EXCEPT !.status = "pass"] \in Criteria
    BY DEF Criteria
  <1>3. F \in [DOMAIN run.criteria -> Criteria]
    BY <1>1, <1>2
  <1>4. Progressed(run) \in Runs
    BY ProgressedTyped
  <1>5. settleCriterion(run, id) =
          [Progressed(run) EXCEPT !.criteria = F, !.goalStatus = g, !.status = s]
    BY <1>4 DEF settleCriterion, Runs
  <1>6. g \in {None, "in_progress", "complete"} /\ s \in Statuses
    BY <1>4 DEF Runs, Statuses, Terminal
  <1>7. F \in Seq(Criteria)
    <2> HIDE DEF F
    <2> QED BY <1>3, MappedCriteria
  <1> HIDE DEF F, completed, g, s
  <1> QED BY <1>4, <1>5, <1>6, <1>7 DEF Runs

-----------------------------------------------------------------------------
(* controlRun applies its mutation only where controlAllowed holds, and    *)
(* counts a failure on a run that decodeRun has accepted (no criterion     *)
(* twice; nothing else needs that).  Whatever the mutation, the run it     *)
(* returns is well-formed: its status is one of the ten, no criterion has  *)
(* more than three identical failures, the goal at most five cycles.       *)
THEOREM ControlRunTyped ==
  ASSUME NEW run \in Runs, NEW event, NEW authority,
         WellFormed(event), controlAllowed(run, event, authority),
         event.mutation.kind = "criterion_failure_recorded" => RunDecodes(run)
  PROVE  controlRun(run, event.mutation) \in Runs
  <1> DEFINE m == event.mutation
  <1> USE DEF controlRun
  <1>1. CASE m.kind = "workflow_controlled"
    <2>1. Paused(run) \in Runs /\ Cancelled(run) \in Runs
      <3>1. "paused" \in Statuses /\ "cancelled" \in Statuses
        BY DEF Statuses, Adoptable, Terminal
      <3> QED BY <3>1, BumpedTyped, StatusTyped DEF Paused, Cancelled
    <2> QED BY <1>1, <2>1, ResumedTyped
  <1>2. CASE m.kind = "owner_adopted"
    BY <1>2, AdoptedTyped DEF WellFormed
  <1>3. CASE m.kind = "plan_reconciled"
    BY <1>3, ReconciledTyped DEF WellFormed
  <1>4. CASE m.kind = "workflow_steered"
    BY <1>4, SteeredTyped DEF WellFormed
  <1>5. CASE m.kind = "criterion_settled"
    BY <1>5, SettledTyped
  <1>6. CASE m.kind = "task_evidence_accepted"
    BY <1>6, ProgressedTyped
  <1>7. CASE m.kind = "workflow_terminal"
    BY <1>7, TerminalTyped
  <1>8. CASE m.kind = "continuation_attempted"
    BY <1>8, AttemptTyped DEF WellFormed
  <1>9. CASE m.kind = "continuation_stuck"
    BY <1>9, StuckTyped DEF WellFormed
  <1>10. CASE m.kind = "goal_cycle_started"
    BY <1>10, CycleTyped DEF controlAllowed
  <1>11. CASE m.kind = "criterion_failure_recorded"
    <2>1. FailureAllowed(run, m.criterionId, m.fingerprint) /\ m.fingerprint \in STRING
      BY <1>11 DEF controlAllowed, WellFormed
    <2>2. \A i \in DOMAIN run.criteria :
            run.criteria[i].id = m.criterionId =>
               ~(Repeats(run.criteria[i], m.fingerprint)
                   /\ run.criteria[i].failures >= FailureLimit)
      BY <1>11, <2>1 DEF FailureAllowed, RunDecodes
    <2>3. controlRun(run, m) = FailureRecorded(run, m.criterionId, m.fingerprint)
      BY <1>11
    <2> QED BY <2>1, <2>2, <2>3, FailureTyped
  <1>12. m.kind # "run_created"
    BY DEF controlAllowed
  <1> QED BY <1>1, <1>2, <1>3, <1>4, <1>5, <1>6, <1>7, <1>8, <1>9, <1>10, <1>11, <1>12
         DEF WellFormed, Kinds

-----------------------------------------------------------------------------
(* One revision on is a legal successor. *)
LEMMA BumpedSucceeds ==
  ASSUME NEW run \in Runs
  PROVE  /\ Succeeds(run, Bumped(run))
         /\ Succeeds(run, Progressed(run))
         /\ Succeeds(run, Resumed(run))
         /\ Resumed(run).epoch = run.epoch
  BY DEF Runs, Succeeds, Bumped, Progressed, Resumed, resetContinuation

(* Every mutation controlRun allows is such a step, so a compare-and-swap  *)
(* on the revision, the owner and the epoch sees every change of a run.    *)
THEOREM ControlRunSucceeds ==
  ASSUME NEW run \in Runs, NEW event, NEW authority,
         WellFormed(event), controlAllowed(run, event, authority)
  PROVE  Succeeds(run, controlRun(run, event.mutation))
  <1> DEFINE m == event.mutation
  <1>a. Bumped(run) \in Runs /\ Progressed(run) \in Runs /\ Resumed(run) \in Runs
    BY BumpedTyped, ProgressedTyped, ResumedTyped
  <1>b. Succeeds(run, Bumped(run)) /\ Succeeds(run, Progressed(run))
          /\ Succeeds(run, Resumed(run)) /\ Resumed(run).epoch = run.epoch
    BY BumpedSucceeds
  <1> USE <1>a, <1>b
  <1>1. CASE m.kind = "workflow_controlled"
    BY <1>1 DEF controlRun, Paused, Cancelled, Succeeds, Runs
  <1>2. CASE m.kind = "owner_adopted"
    BY <1>2 DEF controlRun, Adopted, Succeeds, Runs
  <1>3. CASE m.kind = "plan_reconciled"
    BY <1>3 DEF controlRun, Reconciled, Succeeds, Runs
  <1>4. CASE m.kind = "workflow_steered"
    BY <1>4 DEF controlRun, Steered, Succeeds, Runs
  <1>5. CASE m.kind = "criterion_settled"
    BY <1>5 DEF controlRun, settleCriterion, Succeeds, Runs
  <1>6. CASE m.kind = "task_evidence_accepted"
    BY <1>6 DEF controlRun
  <1>7. CASE m.kind = "workflow_terminal"
    BY <1>7 DEF controlRun, terminalRun, Succeeds, Runs
  <1>8. CASE m.kind = "continuation_attempted"
    BY <1>8 DEF controlRun, attemptContinuation, Succeeds, Runs
  <1>9. CASE m.kind = "continuation_stuck"
    BY <1>9 DEF controlRun, stopContinuation, Succeeds, Runs
  <1>10. CASE m.kind = "goal_cycle_started"
    BY <1>10 DEF controlRun, CycleStarted, Succeeds, Runs
  <1>11. CASE m.kind = "criterion_failure_recorded"
    BY <1>11 DEF controlRun, FailureRecorded, Succeeds, Runs
  <1>12. m.kind # "run_created"
    BY DEF controlAllowed
  <1> QED BY <1>1, <1>2, <1>3, <1>4, <1>5, <1>6, <1>7, <1>8, <1>9, <1>10, <1>11, <1>12
         DEF WellFormed, Kinds

-----------------------------------------------------------------------------
(* Receipts *)

(* A bounded set of positive numbers that is not empty contains its Max. *)
LEMMA MaxIsMember ==
  ASSUME NEW n \in Nat, NEW S \in SUBSET (1 .. n), S # {}
  PROVE  Max(S) \in S
  <1> DEFINE T == {n - i : i \in S}
             R == {ss \in Nat \X Nat : ss[1] < ss[2]}
  <1>1. T \subseteq Nat OBVIOUS
  <1>2. T # {}
    <2>1. PICK i \in S : TRUE OBVIOUS
    <2>2. n - i \in T BY <2>1
    <2> QED BY <2>2
  <1>3. IsWellFoundedOn(R, Nat)
    <2>1. R = OpToRel(<, Nat) BY Zenon DEF OpToRel
    <2> QED BY <2>1, NatLessThanWellFounded
  <1> HIDE DEF R, T
  <1>4. \E t \in T : \A y \in T : ~(<<y, t>> \in R)
    BY <1>1, <1>2, <1>3, WFMin
  <1>5. PICK t \in T : \A y \in T : ~(<<y, t>> \in R)
    BY <1>4
  <1>6. \A y \in T : t <= y
    <2> TAKE y \in T
    <2>1. t \in Nat /\ y \in Nat BY <1>1
    <2>2. ~(<<y, t>> \in R) BY <1>5
    <2> QED BY <2>1, <2>2 DEF R
  <1>7. PICK x \in S : t = n - x BY DEF T
  <1>8. \A y \in S : x >= y
    <2> TAKE y \in S
    <2>1. n - y \in T BY DEF T
    <2>2. t <= n - y BY <1>6, <2>1
    <2> QED BY <1>7, <2>2
  <1> QED BY <1>7, <1>8 DEF Max

Acceptances == [idempotencyKey : STRING \X Nat, taskId : STRING,
                ownerSessionId : STRING, ownerEpoch : Nat, captureCommit : STRING,
                taskGeneration : Nat, attempt : Nat, runRevision : Nat]

Authorities == [dispatched : Seq(Nat), accepted : Seq(Acceptances), rejected : {<<>>}]

(* The newest dispatch is one of the dispatches, or 0. *)
LEMMA GenerationTyped ==
  ASSUME NEW run, NEW authority \in Authorities
  PROVE  taskGeneration(run, authority) \in Nat
  <1> DEFINE I == {i \in 1 .. Len(authority.dispatched) : authority.dispatched[i] = run.epoch}
  <1>1. Len(authority.dispatched) \in Nat BY DEF Authorities
  <1>2. I # {} => Max(I) \in I BY <1>1, MaxIsMember
  <1>3. taskGeneration(run, authority) = IF I # {} THEN Max(I) ELSE 0
    BY DEF taskGeneration, SelectLastInSeq
  <1> HIDE DEF I
  <1>4. I \subseteq Nat BY <1>1 DEF I
  <1>5. CASE I # {}
    <2>1. Max(I) \in Nat BY <1>2, <1>4, <1>5
    <2> QED BY <1>3, <1>5, <2>1
  <1>6. CASE I = {} BY <1>3, <1>6
  <1> QED BY <1>5, <1>6

(* The acceptance that currently speaks for a task is an acceptance of the *)
(* run's present attempt.                                                  *)
LEMMA CurrentIsOfThisAttempt ==
  ASSUME NEW run, NEW authority \in Authorities, NEW taskId,
         currentAcceptance(run, authority, taskId) # 0
  PROVE  \E i \in DOMAIN authority.accepted :
            authority.accepted[i].attempt = run.progressRevision
  <1> DEFINE accepted == authority.accepted
             I == {i \in 1 .. Len(accepted) :
                     /\ matchesRun(run, accepted[i])
                     /\ accepted[i].taskId = taskId
                     /\ accepted[i].taskGeneration = taskGeneration(run, authority)
                     /\ accepted[i].attempt = run.progressRevision}
  <1>1. accepted \in Seq(Acceptances) BY DEF Authorities
  <1>2. Len(accepted) \in Nat /\ DOMAIN accepted = 1 .. Len(accepted) BY <1>1
  <1>3. currentAcceptance(run, authority, taskId) \in {0, IF I # {} THEN Max(I) ELSE 0}
    BY DEF currentAcceptance, SelectLastInSeq
  <1>4. I # {} BY <1>3
  <1> QED BY <1>2, <1>4

(* A run makes progress only on the strength of a worker result accepted   *)
(* for its present attempt: settling a criterion, accepting a task's       *)
(* evidence and completing the plan each name one, and nothing else moves  *)
(* progressRevision.                                                       *)
THEOREM ProgressNeedsAcceptance ==
  ASSUME NEW run \in Runs, NEW event, NEW authority \in Authorities,
         WellFormed(event), controlAllowed(run, event, authority),
         controlRun(run, event.mutation).progressRevision # run.progressRevision
  PROVE  \E i \in DOMAIN authority.accepted :
            authority.accepted[i].attempt = run.progressRevision
  <1> DEFINE m == event.mutation
             Goal == \E i \in DOMAIN authority.accepted :
                        authority.accepted[i].attempt = run.progressRevision
  <1>a. ASSUME NEW t, IsCurrent(run, authority, t, m.acceptanceId) PROVE Goal
    BY <1>a, CurrentIsOfThisAttempt DEF IsCurrent
  <1>b. Bumped(run).progressRevision = run.progressRevision /\ Bumped(run) \in Runs
    BY BumpedTyped DEF Bumped, Runs
  <1>c. Resumed(run).progressRevision = run.progressRevision /\ Resumed(run) \in Runs
    BY ResumedTyped DEF Resumed, resetContinuation, Bumped, Runs
  <1> USE DEF controlRun
  <1>1. CASE m.kind = "criterion_settled"
    BY <1>1, <1>a DEF controlAllowed, settleAllowed
  <1>2. CASE m.kind = "task_evidence_accepted"
    BY <1>2, <1>a DEF controlAllowed, evidenceAllowed
  <1>3. CASE m.kind = "workflow_terminal"
    <2>1. m.status # "failed"
      BY <1>3, <1>b DEF terminalRun, Runs
    <2>2. CompletionReady(run, authority)
      BY <1>3, <2>1 DEF controlAllowed, terminalAllowed
    <2> QED BY <2>2, CurrentIsOfThisAttempt DEF CompletionReady
  <1>4. CASE m.kind = "workflow_controlled"
    BY <1>4, <1>b, <1>c DEF Paused, Cancelled, Runs
  <1>5. CASE m.kind = "owner_adopted"
    BY <1>5, <1>c DEF Adopted, Runs
  <1>6. CASE m.kind = "plan_reconciled"
    BY <1>6, <1>b DEF Reconciled, Runs
  <1>7. CASE m.kind = "workflow_steered"
    BY <1>7, <1>b DEF Steered, Runs
  <1>8. CASE m.kind = "continuation_attempted"
    BY <1>8, <1>b DEF attemptContinuation, Runs
  <1>9. CASE m.kind = "continuation_stuck"
    BY <1>9, <1>b DEF stopContinuation, Runs
  <1>10. CASE m.kind = "goal_cycle_started"
    BY <1>10, <1>b DEF CycleStarted, Runs
  <1>11. CASE m.kind = "criterion_failure_recorded"
    BY <1>11, <1>b DEF FailureRecorded, Runs
  <1>12. m.kind # "run_created"
    BY DEF controlAllowed
  <1> HIDE DEF controlRun
  <1> QED BY <1>1, <1>2, <1>3, <1>4, <1>5, <1>6, <1>7, <1>8, <1>9, <1>10, <1>11, <1>12
         DEF WellFormed, Kinds
=============================================================================
