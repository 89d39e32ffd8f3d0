----------------------------- MODULE TaskLedger -----------------------------
(***************************************************************************)
(* The task ledger and the tool calls that go through it: the tool_call    *)
(* gate (gates/tool-call-dispatcher.ts, task-spawn-guard.ts), the ledger   *)
(* of facts about dispatched tasks (task-event-ledger.ts,                  *)
(* task-sidecar-store.ts, task-receipt-writer.ts) and the tool_result      *)
(* observer (observers/tool-result-observer.ts).                           *)
(*                                                                         *)
(* The gate finds the session's run twice without the repository lock and  *)
(* then decides under it; the tool runs; its result comes back later, when *)
(* the run may have another owner, another task may have been dispatched,  *)
(* or the same result may come again.  transact resolves, decides and      *)
(* replaces the ledger under the lock, so it is one step.                  *)
(***************************************************************************)
EXTENDS SequencesExt, FiniteSetsExt, Integers

CONSTANTS
    Sessions,     \* sessions of the host
    Runs,         \* runs, of different workflows
    Calls,        \* tool call ids
    Offers,       \* Offers[c]: the inputs a call may have
    Reports,      \* workers, with a status, that a job or IRC result may name
    MaxFanOut,    \* tasks one owner may reserve (32 in the code)
    MaxItems,     \* bound: tasks in one call
    MaxCommits,   \* bound: commits to the runs, together
    MaxDeliveries \* bound: calls dispatched, and results delivered again

(* The host names a worker after the item it works on, and its job after   *)
(* the worker.                                                             *)
Agents == Calls \X (1 .. MaxItems)

(* parseTaskSpawn: one task, or a batch.                                   *)
TaskInputs == [kind : {"task"}, items : 1 .. MaxItems]

(* parseJobControl: a cancellation names its jobs; a poll or a list need   *)
(* not.                                                                    *)
JobInputs ==
    [kind : {"control"}, control : {"job_snapshot"}, targets : SUBSET Agents]
    \cup [kind : {"control"}, control : {"job_cancel"}, targets : SUBSET Agents \ {{}}]

(* parseIrcControl: a message goes to one worker; irc_target is passive,   *)
(* and without a target asks nobody.                                       *)
IrcInputs ==
    [kind : {"control"}, control : {"irc_send"}, targets : {{a} : a \in Agents}]
    \cup [kind : {"control"}, control : {"irc_target"}, targets : {{}} \cup {{a} : a \in Agents}]

(* parseHubWaitControl: the jobs and the workers one hub call waits for.   *)
HubWaitInputs == [kind : {"hub_wait"}, jobs : SUBSET Agents, agents : SUBSET Agents]

(* What authorizeImmutableToolCall makes of a tool call.                   *)
Inputs == [kind : {"denied"}] \cup TaskInputs \cup JobInputs \cup IrcInputs \cup HubWaitInputs

ASSUME TaskAssumption ==
    /\ MaxFanOut \in Nat \ {0} /\ MaxItems \in Nat \ {0}
    /\ MaxCommits \in Nat /\ MaxDeliveries \in Nat
    /\ Reports \subseteq [about : SUBSET Agents, status : {"running", "completed"}]
    /\ \A report \in Reports : IsFiniteSet(report.about)
    /\ \A c \in Calls : Offers[c] \subseteq Inputs

VARIABLES
    run,       \* run[r]: the snapshot runs/<id>/run.json
    entry,     \* entry[r]: its entry in active.json
    commit,    \* the run whose commit holds the lock between its two writes
    ledger,    \* ledger[r]: task-facts/<run>.json
    call,      \* call[c]: the handlers of a tool call
    deliveries \* calls dispatched so far, and results delivered again

vars == <<run, entry, commit, ledger, call, deliveries>>

NoOne == "none"
NoRun == [owner |-> NoOne, epoch |-> 0, revision |-> 0, live |-> FALSE]

Idle == [at |-> "idle"]

Started(s) == [owner |-> s, epoch |-> 0, revision |-> 1, live |-> TRUE]

(* One run has been started. *)
Init ==
    /\ \E first \in Runs, s \in Sessions : run = [r \in Runs |-> IF r = first THEN Started(s) ELSE NoRun]
    /\ entry = run
    /\ commit = {}
    /\ ledger = [r \in Runs |-> <<>>]
    /\ call = [c \in Calls |-> Idle]
    /\ deliveries = 0

-----------------------------------------------------------------------------
(* Runs: created, advanced, adopted and ended by commits of the store      *)

Successors(old) ==
    IF old.live
    THEN {[old EXCEPT !.revision = @ + 1], [old EXCEPT !.revision = @ + 1, !.live = FALSE]}
         \cup {[old EXCEPT !.owner = s, !.epoch = @ + 1, !.revision = @ + 1] : s \in Sessions}
    ELSE IF old = NoRun THEN {Started(s) : s \in Sessions}
    ELSE {}

Commits == MapThenSumSet(LAMBDA r : run[r].revision, Runs)

(* commit writes the snapshot, then the index, under the lock. *)
CommitSnapshot(r) ==
    /\ commit = {} /\ entry[r] = run[r] /\ Commits < MaxCommits
    /\ \E new \in Successors(run[r]) : run' = [run EXCEPT ![r] = new]
    /\ commit' = {r}
    /\ UNCHANGED <<entry, ledger, call, deliveries>>

CommitIndex(r) ==
    /\ commit = {r}
    /\ entry' = [entry EXCEPT ![r] = run[r]]
    /\ commit' = {}
    /\ UNCHANGED <<run, ledger, call, deliveries>>

(* The committing process dies; its lock is cleared. *)
Crash ==
    /\ commit # {}
    /\ commit' = {}
    /\ UNCHANGED <<run, entry, ledger, call, deliveries>>

(* repairState *)
Repair(r) ==
    /\ commit = {} /\ entry[r] # run[r]
    /\ entry' = [entry EXCEPT ![r] = run[r]]
    /\ UNCHANGED <<run, commit, ledger, call, deliveries>>

(* The index lists the runs that are not over. *)
Listed(s) == {r \in Runs : entry[r].live /\ entry[r].owner = s}

(* Slip: with a run of each workflow, either will do. *)
ScopeOfAny(s) == {r \in Listed(s) : run[r] = entry[r]}

(* TaskSidecarStore.resolve: the session's one run, if its snapshot is the *)
(* one the index lists.                                                    *)
ScopeOf(s) == {r \in Listed(s) : Listed(s) = {r} /\ run[r] = entry[r]}

-----------------------------------------------------------------------------
(* What the ledger says of the current owner (task-ledger-view.ts)         *)

Owner(r) == <<run[r].owner, run[r].epoch>>

Current(r) == {e \in ToSet(ledger[r]) : e.owner = Owner(r)}

Facts(r, kind) == {e \in Current(r) : e.fact.kind = kind}

FactsOf(r, kind, c) == {e \in Facts(r, kind) : e.fact.call = c}

(* The tasks an owner has reserved. *)
ReservedItems(entries, owner) ==
    LET sum[n \in 0 .. Len(entries)] ==
            IF n = 0 THEN 0
            ELSE IF entries[n].owner = owner /\ entries[n].fact.kind = "task_reserved"
            THEN sum[n - 1] + entries[n].fact.items ELSE sum[n - 1]
    IN  sum[Len(entries)]

Dispatching == {"task_reserved", "task_identities_bound"}

taskGeneration(r) ==
    Max({0} \cup {e.sequence : e \in Facts(r, "task_reserved") \cup Facts(r, "task_identities_bound")})

(* runtimeIdentities: the workers of the newest generation, once bound.  A *)
(* worker has a job when its binding names it, or a job receipt of this    *)
(* generation does.                                                        *)
Bindings(r) ==
    UNION {ToSet(e.fact.bindings) :
             e \in {f \in Facts(r, "task_identities_bound") : f.sequence = taskGeneration(r)}}

returnedJobs(r) ==
    {e.fact.receipt.target :
       e \in {f \in Facts(r, "task_receipt_observed") :
                /\ f.fact.receipt.kind = "job"
                /\ \E a \in FactsOf(r, "task_control_authorized", f.fact.call) :
                      a.fact.generation = taskGeneration(r)}}

OwnedAgents(r) == {b.agent : b \in Bindings(r)}

OwnedJobs(r) == {b.agent : b \in {x \in Bindings(r) : x.job \/ x.agent \in returnedJobs(r)}}

-----------------------------------------------------------------------------
(* Facts and their keys (task-ledger-codec.ts)                             *)

Reserved(c, items) == [kind |-> "task_reserved", call |-> c, items |-> items]
Bound(c, bindings) == [kind |-> "task_identities_bound", call |-> c, bindings |-> bindings]
Authorized(c, control, targets, inputKey, g) ==
    [kind |-> "task_control_authorized", call |-> c, control |-> control, targets |-> targets,
     inputKey |-> inputKey, generation |-> g]
Receipt(c, kind, target, status) ==
    [kind |-> "task_receipt_observed", call |-> c,
     receipt |-> [kind |-> kind, target |-> target, status |-> status]]
Capability(c, g, status) ==
    [kind |-> "async_capability_observed", call |-> c, generation |-> g, status |-> status]

taskFactKey(fact) ==
    IF fact.kind = "task_receipt_observed"
    THEN <<fact.kind, fact.call, fact.receipt.kind, fact.receipt.target>>
    ELSE <<fact.kind, fact.call>>

(* ledgerIsOrdered, which taskLedgerSchema asks of every ledger.           *)
ledgerIsOrdered(entries) ==
    /\ \A i \in DOMAIN entries : entries[i].sequence = i
    /\ \A i, j \in DOMAIN entries :
          entries[i].owner = entries[j].owner /\ taskFactKey(entries[i].fact) = taskFactKey(entries[j].fact)
          => i = j

(* #merge: facts already there are passed over; a fact that differs from   *)
(* the one under its key, or a key given twice, refuses the whole batch.   *)
Novel(r, facts) ==
    LET novel[n \in 0 .. Len(facts)] ==
            IF n = 0 THEN <<>>
            ELSE IF facts[n] \in {e.fact : e \in Current(r)} THEN novel[n - 1]
            ELSE Append(novel[n - 1], facts[n])
    IN  novel[Len(facts)]

(* Slip: the batch is appended without looking for its keys. *)
MergesUnchecked(r, facts) == TRUE

Merges(r, facts) ==
    /\ \A f \in ToSet(facts), e \in Current(r) : taskFactKey(f) = taskFactKey(e.fact) => f = e.fact
    /\ LET novel == Novel(r, facts)
       IN \A i, j \in DOMAIN novel : taskFactKey(novel[i]) = taskFactKey(novel[j]) => i = j

Merged(r, facts) ==
    LET novel == Novel(r, facts)
    IN ledger[r] \o [i \in DOMAIN novel |-> [sequence |-> Len(ledger[r]) + i, owner |-> Owner(r),
                                             fact |-> novel[i]]]

-----------------------------------------------------------------------------
(* Decisions: the answer, and the facts to append                          *)

Return(value) == [value |-> value, facts |-> <<>>]
Adds(value, facts) == [value |-> value, facts |-> facts]

(* Slip: only the new call is measured against the limit. *)
reserveEach(r, c, items) ==
    IF FactsOf(r, "task_reserved", c) # {} THEN Return("replayed")
    ELSE IF items > MaxFanOut THEN Return("limit") ELSE Adds("reserved", <<Reserved(c, items)>>)

reserve(r, c, items) ==
    LET existing == FactsOf(r, "task_reserved", c)
        total == items + ReservedItems(ledger[r], Owner(r))
    IN IF existing # {}
       THEN Return(IF Reserved(c, items) \in {e.fact : e \in existing} THEN "replayed" ELSE "fact_conflict")
       ELSE IF total > MaxFanOut THEN Return("limit")
       ELSE Adds("reserved", <<Reserved(c, items)>>)

(* The result names one distinct worker for every item, or nothing is      *)
(* bound.  Without a background job the workers cannot be followed.        *)
bind(r, c, bindings, async) ==
    LET reserved == FactsOf(r, "task_reserved", c)
        existing == FactsOf(r, "task_identities_bound", c)
        blocked == Capability(c, Len(ledger[r]) + 1, "blocked")
        status == IF async THEN "pending" ELSE "blocked"
    IN IF reserved = {} THEN Return("missing_reservation")
       ELSE IF \E e \in reserved : e.fact.items # Len(bindings) THEN Return("fact_conflict")
       ELSE IF existing # {}
       THEN Return(IF Bound(c, bindings) \in {e.fact : e \in existing} THEN status ELSE "fact_conflict")
       ELSE Adds(status, <<Bound(c, bindings)>> \o IF async THEN <<>> ELSE <<blocked>>)

(* Slip: workers of earlier generations are owned too. *)
authorizeAgents(r, c, i) ==
    LET bound == UNION {ToSet(e.fact.bindings) : e \in Facts(r, "task_identities_bound")}
    IN IF taskGeneration(r) = 0 THEN Return("no_generation")
       ELSE IF i.targets \subseteq {b.agent : b \in bound}
       THEN Adds("authorized", <<Authorized(c, i.control, i.targets, i, taskGeneration(r))>>)
       ELSE Return("unowned")

authorize(r, c, i) ==
    LET owned == IF i.control \in {"irc_send", "irc_target"} THEN OwnedAgents(r) ELSE OwnedJobs(r)
    IN IF taskGeneration(r) = 0 THEN Return("no_generation")
       ELSE IF ~(i.targets \subseteq owned) THEN Return("unowned")
       ELSE Adds("authorized", <<Authorized(c, i.control, i.targets, i, taskGeneration(r))>>)

authorizeHubWait(r, c, i) ==
    IF taskGeneration(r) = 0 THEN Return("no_generation")
    ELSE IF ~(i.jobs \subseteq OwnedJobs(r)) THEN Return("unowned_job")
    ELSE IF ~(i.agents \subseteq OwnedAgents(r)) THEN Return("unowned_agent")
    ELSE Adds("authorized", <<Authorized(c, "job_snapshot", i.jobs, i, taskGeneration(r))>>)

(* Slip: an authorization of an earlier generation will do. *)
matchingAuthorizationAny(r, c, control) ==
    IF \E a \in FactsOf(r, "task_control_authorized", c) :
          a.fact.control = control /\ a.fact.inputKey = call[c].input
    THEN "matched" ELSE "uncorrelated"

matchingAuthorization(r, c, control) ==
    LET authorization == {a \in FactsOf(r, "task_control_authorized", c) :
                            a.fact.control = control /\ a.fact.inputKey = call[c].input}
    IN IF authorization = {} THEN "uncorrelated"
       ELSE IF \E a \in authorization : a.fact.generation # taskGeneration(r) THEN "stale_generation"
       ELSE "matched"

AuthorizedTargets(r, c) == UNION {a.fact.targets : a \in FactsOf(r, "task_control_authorized", c)}

(* The snapshot lists a job for every worker and no other task. *)
Complete(r, jobs) == OwnedAgents(r) # {} /\ jobs = OwnedAgents(r)

recordJobSnapshot(r, c, jobs, status) ==
    LET matched == matchingAuthorization(r, c, "job_snapshot")
        g == taskGeneration(r)
    IN IF matched # "matched" THEN Return(matched)
       ELSE IF ~Complete(r, jobs) THEN Adds("incomplete", <<Capability(c, g, "blocked")>>)
       ELSE Adds("recorded", Append(SetToSeq({Receipt(c, "job", j, status) : j \in jobs}),
                                    Capability(c, g, "proven")))

recordCancellation(r, c, cancelled) ==
    LET matched == matchingAuthorization(r, c, "job_cancel")
        targets == AuthorizedTargets(r, c)
    IN IF matched # "matched" THEN Return(matched)
       ELSE IF ~(targets \subseteq cancelled) THEN Return("receipt_missing")
       ELSE Adds("recorded", SetToSeq({Receipt(c, "job_cancel", t, "cancelled") : t \in targets}))

recordIrcReceipts(r, c, answered, outcome) ==
    LET matched == matchingAuthorization(r, c, "irc_send")
    IN IF matched # "matched" THEN Return(matched)
       ELSE IF answered # AuthorizedTargets(r, c) THEN Return("receipt_missing")
       ELSE Adds("recorded", SetToSeq({Receipt(c, "irc", t, outcome) : t \in answered}))

-----------------------------------------------------------------------------
(* transact, and the two handlers of a tool call                           *)

At(c, l) == call[c].at = l
Goto(c, l) == call' = [call EXCEPT ![c].at = l]

(* The handler is through: the call is blocked, or its result observed.    *)
(* The host may deliver that result again.                                 *)
Finished(c) ==
    call' = [call EXCEPT ![c] = IF "result" \in DOMAIN @ /\ deliveries < MaxDeliveries
                                THEN [@ EXCEPT !.at = "done"] ELSE Idle]

(* One transaction of call c's session: the run is resolved again under    *)
(* the lock, and decide is the decision about each run.  An answer in      *)
(* passing lets the tool run; every other one, and a conflict, ends the    *)
(* handler.                                                                *)
Transact(c, decide, passing) ==
    /\ commit = {}
    /\ LET s == call[c].session
       IN \/ ScopeOf(s) = {} /\ Finished(c) /\ UNCHANGED ledger
          \/ \E r \in ScopeOf(s) :
                LET decision == decide[r]
                IN IF Merges(r, decision.facts)
                   THEN /\ ledger' = [ledger EXCEPT ![r] = Merged(r, decision.facts)]
                        /\ IF decision.value \in passing THEN Goto(c, "running") ELSE Finished(c)
                   ELSE Finished(c) /\ UNCHANGED ledger

(* A tool_call event, the first one or the host sending it again, and      *)
(* resolveCurrentRunScope, without the lock: a session without a run is    *)
(* none of the gate's business; one with two, or with a snapshot the index *)
(* does not list, is blocked.                                              *)
Call(c, s, i) ==
    /\ At(c, "idle") /\ deliveries < MaxDeliveries /\ deliveries' = deliveries + 1
    /\ \/ /\ Listed(s) = {}
          /\ call' = [call EXCEPT ![c] = [at |-> "running", session |-> s, input |-> i]]
       \/ /\ Listed(s) # {} /\ ScopeOf(s) = {}
          /\ UNCHANGED call
       \/ \E r \in ScopeOf(s) :
             call' = [call EXCEPT ![c] = [at |-> "found", session |-> s, input |-> i,
                                          seen |-> <<r, run[r]>>]]
    /\ UNCHANGED <<run, entry, commit, ledger>>

(* ledger.resolve, still without the lock, must find the run found before. *)
FindLedger(c) ==
    /\ At(c, "found")
    /\ IF \E r \in ScopeOf(call[c].session) : <<r, run[r]>> = call[c].seen
       THEN call' = [call EXCEPT ![c] = [at |-> "guarding", session |-> @.session,
                                         input |-> @.input]]
       ELSE Finished(c)
    /\ UNCHANGED <<run, entry, commit, ledger>>

(* TaskSpawnGuard.handleAuthorized: malformed input is refused; the rest   *)
(* goes to the handler of its kind, and on to the tool if that lets it.    *)
handleDenied(c) ==
    /\ At(c, "guarding") /\ call[c].input.kind = "denied"
    /\ Finished(c)
    /\ UNCHANGED <<run, entry, commit, ledger>>

handleTask(c) ==
    /\ At(c, "guarding") /\ call[c].input \in TaskInputs
    /\ Transact(c, [r \in Runs |-> reserve(r, c, call[c].input.items)], {"reserved", "replayed"})
    /\ UNCHANGED <<run, entry, commit>>

(* A list of the jobs passes where no task was dispatched. *)
handleJob(c) ==
    /\ At(c, "guarding") /\ call[c].input \in JobInputs
    /\ Transact(c, [r \in Runs |-> authorize(r, c, call[c].input)],
                {"authorized"} \cup IF call[c].input.targets = {} THEN {"no_generation"} ELSE {})
    /\ UNCHANGED <<run, entry, commit>>

handleIrc(c) ==
    /\ At(c, "guarding") /\ call[c].input \in IrcInputs
    /\ IF call[c].input.control = "irc_target" /\ call[c].input.targets = {}
       THEN Goto(c, "running") /\ UNCHANGED ledger
       ELSE Transact(c, [r \in Runs |-> authorize(r, c, call[c].input)], {"authorized"})
    /\ UNCHANGED <<run, entry, commit>>

handleHubWait(c) ==
    /\ At(c, "guarding") /\ call[c].input \in HubWaitInputs
    /\ Transact(c, [r \in Runs |-> authorizeHubWait(r, c, call[c].input)], {"authorized"})
    /\ UNCHANGED <<run, entry, commit>>

(* The lock is not had within two seconds, by the gate or by the observer. *)
LockTimeout(c) ==
    /\ call[c].at \in {"guarding", "binding", "recording"}
    /\ Finished(c)
    /\ UNCHANGED <<run, entry, commit, ledger>>

(* The host runs the tool (external).  Any result may be an error, or      *)
(* malformed, or about something else (not usable).  A task may have a     *)
(* background job, which may be its first worker's; the other tools return *)
(* jobs or receipts for any workers.                                       *)
TaskResults ==
    [usable : {TRUE}, async : {TRUE}, job : BOOLEAN]
    \cup [usable : {TRUE}, async : {FALSE}, job : {FALSE}]

JobResults == [usable : {TRUE}, report : Reports]

IrcResults == [usable : {TRUE}, report : Reports]

Results(c) ==
    [usable : {FALSE}] \cup (IF call[c].input \in TaskInputs THEN TaskResults
                            ELSE IF call[c].input \in IrcInputs THEN IrcResults
                            ELSE JobResults)

(* ToolResultObserver.observe: for a task, the reservation is looked up    *)
(* first, without the lock; the controls that leave receipts go straight   *)
(* to the ledger.                                                          *)
observeTask(c) ==
    IF \E r \in ScopeOf(call[c].session) : FactsOf(r, "task_reserved", c) # {}
    THEN "binding" ELSE "done"

Observed(c, result) ==
    LET i == call[c].input
    IN IF ~result.usable \/ i.kind = "denied" THEN "done"
       ELSE IF i \in TaskInputs THEN observeTask(c)
       ELSE IF i \in IrcInputs /\ i.control = "irc_target" THEN "done"
       ELSE "recording"

Observe(c, result) ==
    /\ call' = [call EXCEPT ![c] =
                  IF Observed(c, result) = "done" THEN Idle
                  ELSE [at |-> Observed(c, result), session |-> @.session,
                        input |-> @.input, result |-> result]]
    /\ UNCHANGED <<run, entry, commit, ledger>>

(* The tool has run, and its result is delivered; or delivered again. *)
Deliver(c) ==
    /\ At(c, "running") /\ \E result \in Results(c) : Observe(c, result)
    /\ UNCHANGED deliveries

Redeliver(c) ==
    /\ At(c, "done") /\ Observe(c, call[c].result)
    /\ deliveries < MaxDeliveries /\ deliveries' = deliveries + 1

(* #bindings: the background job is the one worker's whose name it has. *)
Binding(c) ==
    [n \in 1 .. call[c].input.items |->
       [agent |-> <<c, n>>, job |-> call[c].result.job /\ n = 1]]

Bind(c) ==
    /\ At(c, "binding")
    /\ Transact(c, [r \in Runs |-> bind(r, c, Binding(c), call[c].result.async)], {})
    /\ UNCHANGED <<run, entry, commit>>

(* #observeHub of a wait goes on as #observeJob. *)
observeJob(c) ==
    /\ At(c, "recording") /\ call[c].input \in JobInputs \cup HubWaitInputs
    /\ LET report == call[c].result.report
       IN Transact(c, [r \in Runs |->
                        IF call[c].input \in JobInputs /\ call[c].input.control = "job_cancel"
                        THEN recordCancellation(r, c, report.about)
                        ELSE recordJobSnapshot(r, c, report.about, report.status)], {})
    /\ UNCHANGED <<run, entry, commit>>

observeIrc(c) ==
    /\ At(c, "recording") /\ call[c].input \in IrcInputs
    /\ LET report == call[c].result.report
       IN Transact(c, [r \in Runs |-> recordIrcReceipts(r, c, report.about, report.status)], {})
    /\ UNCHANGED <<run, entry, commit>>

Handle(c) ==
    \/ FindLedger(c) \/ LockTimeout(c)
    \/ handleDenied(c) \/ handleTask(c) \/ handleJob(c) \/ handleIrc(c) \/ handleHubWait(c)
    \/ Bind(c) \/ observeJob(c) \/ observeIrc(c)

Next ==
    \/ \E r \in Runs : CommitSnapshot(r) \/ CommitIndex(r) \/ Repair(r)
    \/ Crash
    \/ \E c \in Calls :
          \/ \E s \in Sessions, i \in Offers[c] : Call(c, s, i)
          \/ Handle(c) /\ UNCHANGED deliveries
          \/ Deliver(c) \/ Redeliver(c)

Spec == Init /\ [][Next]_vars

-----------------------------------------------------------------------------
(* Properties                                                              *)

(* Every ledger the gates and observers write is one its reader accepts    *)
(* (taskLedgerSchema), whatever calls and results are sent twice.          *)
LedgersDecode == \A r \in Runs : ledgerIsOrdered(ledger[r])

(* Tasks dispatched at the same time cannot together pass the fan-out      *)
(* limit of their owner, although each call looks for its run, and is      *)
(* answered, on its own.                                                   *)
FanOutHeld ==
    \A r \in Runs, s \in Sessions, epoch \in 0 .. MaxCommits :
       ReservedItems(ledger[r], <<s, epoch>>) <= MaxFanOut

(* No dispatch of the same owner lies between the two ledger positions. *)
SameGeneration(r, low, high) ==
    \A i \in low + 1 .. high - 1 :
       ledger[r][i].owner = ledger[r][high].owner => ledger[r][i].fact.kind \notin Dispatching

(* A control is let through only for workers the same owner dispatched,    *)
(* and only those of its newest task: never for another session's, a       *)
(* former owner's, or an earlier task's.                                   *)
ControlsReachOwnWorkers ==
    \A r \in Runs : \A e \in ToSet(ledger[r]) :
       e.fact.kind = "task_control_authorized" =>
          LET g == ledger[r][e.fact.generation]
          IN /\ e.fact.generation < e.sequence /\ g.owner = e.owner
             /\ g.fact.kind \in Dispatching
             /\ SameGeneration(r, e.fact.generation, e.sequence)
             /\ e.fact.targets # {} =>
                   /\ g.fact.kind = "task_identities_bound"
                   /\ e.fact.targets \subseteq {b.agent : b \in ToSet(g.fact.bindings)}

(* A receipt is recorded only under the authorization of its own call, by  *)
(* the owner that was authorized, and not once another task has been       *)
(* dispatched: late results of an earlier generation leave no receipt.     *)
ReceiptsAreCurrent ==
    \A r \in Runs : \A e \in ToSet(ledger[r]) :
       e.fact.kind = "task_receipt_observed" =>
          \E a \in ToSet(ledger[r]) :
             /\ a.fact.kind = "task_control_authorized" /\ a.fact.call = e.fact.call
             /\ a.owner = e.owner /\ a.sequence < e.sequence
             /\ SameGeneration(r, a.sequence, e.sequence)

(* Only the current owner's facts are added to a ledger, and only while    *)
(* the run is the one run of that session: what the handlers read before   *)
(* they had the lock decides nothing, and a session with a run of each     *)
(* workflow writes to neither.                                             *)
OnlyOwnerAppends ==
    [][\A r \in Runs : ledger'[r] # ledger[r] =>
          /\ commit = {}
          /\ Listed(run[r].owner) = {r} /\ run[r] = entry[r]
          /\ \A i \in Len(ledger[r]) + 1 .. Len(ledger'[r]) : ledger'[r][i].owner = Owner(r)
      ]_vars

=============================================================================
