# A TLA+ verification of omp-lazy

omp-lazy is an extension of a coding-agent host. It keeps *runs* of two
workflows (`start_work`: work through an approved plan; `ulw_loop`: loop until
every criterion passes) in files under `.omo/omp-lazy` of a repository, lets any
number of host sessions act on them, and continues a session by itself when it
stops naturally. There is no server and no database: everything rests on a lock
file, atomic renames, an event log and comparisons of revisions. Around that core
it gates the tool calls of the host's agent, accepts the results of its workers,
keeps teams of them, meters what they read, and announces and continues workflows.
This directory models both and says what makes them correct.

Paths in this document are relative to the repository (`src/state/...` is the
extension's own `src` directory).

## Parts of the system

| Part | State it keeps | Operations | What is hard | What makes it correct |
|---|---|---|---|---|
| Repository lock (`state/repo-lock.ts`, `state/recovery.ts`) | `state.lock`: owner, nonce | `tryAcquire`, `release`, `clearConfirmedStaleLock` | the file exists before its metadata; check-then-unlink; owners die | no two holders; a live owner's file is removed by its owner only; handles are given back |
| Run reducers, index (`state/state-transition.ts`, `runtime-progress-transition.ts`, `receipt-authority.ts`, `active-index.ts`, `workflows/workflow-control.ts`, `ulw-loop-contract.ts`) | none (pure) | one per `StateMutation`; `deriveIndex` | guards spread over five files; bounds (2 attempts, 3 failures, 5 cycles) | a result is a legal successor; bounds are never passed; stale receipts settle nothing |
| Transaction store and recovery (`state/transaction-store.ts`, `event-store.ts`, `recovery.ts`) | event log, run snapshots, `active.json` | `commit`, `repairState` | a commit is three file writes; deadlines and crashes between them; retries | linear log, index at most one event behind, a reported commit is durable, every leftover is repairable |
| Workflow commands (`commands/workflow-command-{runtime,start,ulw}.ts`) | none between calls | create, pause, resume, cancel, adopt, reconcile, steer, checkpoint | three reads outside the lock, then a commit | only the owner writes; terminal is final; the index stays decodable |
| Plans and approvals (`workflows/start-work-plan.ts`, `commands/workflow-command-inputs.ts`) | the plan file, an approval per text | approve, create, reconcile, a stop | the file is edited between any two reads; an approval is of bytes, a run is bound to tasks | a run has the tasks its creator approved, and goes on with one of them |
| Durable continuation (`continuation/durable-continuation.ts`, `continuation-coordinator.ts`) | none between calls | a natural stop | index, runs, receipts and plan are read at different moments | only active runs go on; at most two continuations without progress |
| Session stop and budget (`continuation/register-session-stop.ts`, `continuation-budget.ts`) | a counter file per session | stop handler | the counter is written after the attempt is committed, and its write may be lost | a turn's budget is not passed |
| Worker acceptance (`contracts/worker-acceptance-*.ts`, `worker-result-acceptance.ts`) | snapshot + write-ahead log per run, rejection counts | accept, reject, replay | crash between log and snapshot; 1000-record limit; readers without the lock | nothing accepted is lost or counted twice |
| Task ledger and tool gates (`gates/*`) | task facts per run | reserve, bind, authorise, receipt | the run is found before the lock is had; results come late, twice or after an adoption | fan-out limit; controls and receipts concern the owner's newest task only |
| Lifecycle migration (`state/migration*.ts`) | journal, backup, staged files, marker | migrate, recover | crash at any of six phases | all files old or all files new |
| Team mode (`commands/team-reservation-store.ts`, `workflows/teammode-*.ts`) | reservation, team file | prepare, create, bind, complete, cancel, resume, archive, delete | crash between the team and its reservation; the parent run moves on | one team per reservation; only results of the team's own attempt complete it |
| Activation (`activation/*`, `extension/register-extension.ts`) | pending input and suppressed text in memory, a record per session | input, start of a turn, command | handlers interleave across awaits; restarts | an input is announced once; a directive is not injected again without cause |
| Packets, risk, models (`contracts/task-packet.ts`, `workflows/{task-packet-compiler,risk-classifier,escalation-policy,model-role-resolution}.ts`) | the route receipt, a provenance file | compile, classify, resolve, escalate | several classifiers and resolvers of the same thing; failures in any order | a packet's route is bounded; a packet that is sent goes to the first usable model |
| Context and observers (`context/*`, `observers/*`, `gates/retrieval-budget-guard.ts`, `contracts/retrieval-budget.ts`) | packet in force, budget, model-call records | start, tool call and result, context, response | overlapping calls; lost and repeated responses; files edited while they are read | budgets hold; the context shown is current; records name the right packet |
| Process runners (`scripts/run-isolated.ts`, `hostile-process.ts`, `process-tree-cleanup.ts`) | sandbox, process tree | run a command with a time limit | processes fork, detach and exit at any moment; two platforms | the runner ends; its receipt is true |
| Command parsing, status line, registration, packaging scripts, evaluation harness | none or derived | parse, render, compare | strings and files | outside the model |

How they interact: the commands and the continuation build an event from a run
they have read and hand it to `commit`; `commit` takes the lock, reads log,
index, snapshot and the receipt authority (task facts, acceptances, rejections),
applies the reducer and writes event, snapshot and index. Worker acceptance and
the task ledger resolve the session's run through the index, under the same
lock, and write their own files, which the next commit reads as authority. Team mode
reads the run, the task facts and the acceptances under that lock too. The handlers
of a turn only read the index, and keep what they know in memory and in one small
file each.

## Modules

| Module | What it is |
|---|---|
| `ExclusiveLock` | abstract: the lock as its users see it (free, owned, stale) |
| `RepoLock` | the lock file protocol, one action per file operation |
| `RunLifecycle` | runs, receipt authority, reducers, index, `prepareTransition`: operators only |
| `AtomicLog` | abstract: events take effect one at a time, at most once |
| `TransactionStore` | `commit` and `repairState` as separate file writes (extends `RunLifecycle` and `ExclusiveLock`) |
| `WorkflowSessions` | commands and natural stops of several sessions (extends `RunLifecycle`) |
| `PlanApproval` | plan texts, approvals, and the runs created from, reconciled with and continued by them |
| `LifecycleMigration` | the journalled migration of the files from schema version 1 to 2, and the preflight that runs it (extends `ExclusiveLock`) |
| `AcceptanceLog` | abstract: acceptances are added one at a time, current and distinct |
| `WorkerAcceptance` | the accept call, its write-ahead log, snapshot and rejection counts, and readers without the lock (extends `ExclusiveLock`) |
| `TaskLedger` | tool calls through the gates, the task facts of two runs, and the observers of results |
| `TeamMode` | the reservation and the roster of one team, beside the runs and ledgers they look at |
| `HostTurn` | the handlers of a session's turns: inputs, directives, commands, natural stops and their budget |
| `TaskPackets` | packets, tiers and the risk classifier: operators only |
| `ContextAssembly` | discovery, matching and assembly of the repository's rules, and the catalog |
| `RuntimeObserver` | the packet in force, the budget of its tool calls, its context and its model calls (extends `TaskPackets`, `ContextAssembly`) |
| `WorkerRouting` | risk tier, route, escalation and model resolution (extends `TaskPackets`) |
| `ProcessRunner` | the two runners of the scripts and the processes they start |
| `Lists` | arrays and their filters, for `TaskPackets`, `PlanApproval`, `RuntimeObserver` and `ContextAssembly` |
| `MC*` | constants for TLC; `MCRuntime` puts `RuntimeObserver`, `ContextAssembly`, `WorkerRouting` and `PlanApproval` beside each other |
| `OwnershipProofs`, `RunLifecycleProofs`, `TransactionStoreProofs`, `HostProofs`, `WorkerAcceptanceProofs`, `TaskLedgerProofs`, `WorkflowSessionsProofs`, `RuntimeProofs` | theorems about the module each is named after (`OwnershipProofs`: `RepoLock` and `TeamMode`, who may create and remove a file; `HostProofs`: `HostTurn` and `ProcessRunner`; `RuntimeProofs`: `RuntimeObserver`, `PlanApproval`, `WorkerRouting` and `ContextAssembly`, which share lemmas on lists; `TransactionStoreProofs`: also `LifecycleMigration`; it and `WorkflowSessionsProofs` extend `RunLifecycleProofs`) |

Operators named "Slip: ..." in their comment are not part of any specification:
each is a plausible mistake in the definition after it, kept to show that the
properties notice it. `PROJECT.json` maps every other definition to source lines.

### How state and actions correspond to the code

**RepoLock.** `lock` is the path `state.lock`; a file is identified by the nonce
of the acquisition that created it, and is empty until the metadata is written.
`Open` is `open(path, "wx")`, `WriteMetadata` the write through the descriptor
(it reaches the path only while the path still names that file), `ReleaseRead`
and `ReleaseUnlink` the two halves of `release`. `GiveUp` is the deadline,
`WriteFails` an I/O error, `Crash` the death of the process. A clearer confirms a
dead owner, reads the metadata, then runs the same two halves of `release`.

**RunLifecycle.** Every mutation kind has a guard (`...Allowed`) and a result.
Runs are records of schema version 2 with `legacyHeadUnbound` false, which is what
every command writes; a ULW run has the one goal `goal-1`, since no mutation adds
another. Texts and timestamps are dropped. `goal_cycle_started` and
`criterion_failure_recorded` are modelled because the reducers have them, although
nothing in the extension emits them. The receipt authority is three sequences:
dispatches (by owner epoch), acceptances, and tasks rejected three times.

**TransactionStore.** `events`, `runs`, `index` are the three kinds of files. What
`commit` reads under the lock cannot change until it writes, so its reads and
checks are one action (`Decide`); the three writes are `AppendEvent`, `PublishRun`
and `PublishIndex`, with `Expire` (a deadline check) and `Crash` possible before
each. `repairState` enters the same writes at the point where the crashed commit
stopped. `ReceiptStep` stands for the ledgers: they take the lock too, but do not
look at the event log.

**WorkflowSessions.** A command is two or three reads (`LookupTarget`, or
`LookupEntry` then `ReadRun`), the construction of the event with the index
revision read again (`Control`, `Reconcile`, `Steer`, `Checkpoint`, `Create`) and
the commit (`CommitRun`, `CommitIndex`), with all other sessions acting in between.
A stop reads the index (`StopReadIndex`), then decides (`StopDecide`) and commits.
Two merges need an argument:
 - the commands read HEAD and the index in one action. HEAD may move away and back
   at any time, so any combination the separate reads could give is one the merged
   action gives in another behaviour;
 - `StopDecide` reads runs, receipts and plan at once. A decision based on a run
   older than the receipts carries an old run revision and is refused by `commit`,
   and receipts are only added; so the mixed reads that survive the commit are
   reads of one moment.
The plan file is present, approved and unedited except for its ticks (the rest is in
`PlanApproval`), and acceptance, dispatch and the third rejection are single steps.

**PlanApproval.** A text is its version markers, whether its headings are in order,
and its check-list lines; it stands for its own hash. A document is a text in place, one that
is too long, a link out of `.omo/plans`, or nothing. Every read that is awaited is an
action: `ApproveRead`, `ApproveWrite` (under the lock) or `ApproveTimeout`; `CreateRead`,
`CreateCheck`, `CreateLookup`, `CreateCommit`; `Reconcile`, `ReconcileCommit`;
`StopRead`, `StopPlan`, `StopCommit`; with `EditPlan` between any two. The commit is
one step here, refused (`CommitRefused`) when the index has moved; runs are also adopted
(`AdoptPlan`) and ended (`EndPlan`).

**LifecycleMigration.** `file`, `journal`, `backup`, `staged` and `marker` are what
is on disk; a content is its schema version and how often commits have rewritten
it, which is all the hashes are compared for. Every file write is an action:
`WritePhase` (the journal), `CopyStart`/`CopyEnd` (the backup copy, not atomic),
`StageFile`, `PublishFile`/`NotePublished`, `WriteMarker`, `WriteFinal`; recovery is
`RecoverRead`, `Finalize`, `VerifyBackup`, `RestoreFile`, `Forget`. A loop over the files
takes the `First` of those that are `left`. `ReadActive`,
`CheckJournal` and `Continue` are `preflightLifecycle`, whose first two reads are
outside the lock. Two branches of `recoverLifecycleMigration` return a promise
without awaiting it, so the `finally` block may release the lock at any time
(`ReleaseUnawaited`) while their steps go on. `finalize` and `restore` read their files in
parallel; each comparison is one step. `MigrationSpec` is the code: any number of processes,
in any order. With two that overlap before the migration is done the properties fail
(counterexample 6), so they are stated for `OrderlySpec`, in which a process starts only
when no other is at it until the store is `Settled` (all files of version 2, the journal
gone or committed, nobody in a call), and from then on as it likes (`StartInOrder`).
Nothing in the code sees to that order: it is what its users have to.

**WorkerAcceptance.** `snap`, `wal` and `rejections` are the three files of a run;
`Merged` and `Decodes` are `#readAcceptance`, used by the call (`Lookup`) and by the
readers. `Enter` to `FinalGit` are the checks of `accept` in their order, each await
a step: the cap before any evidence is read, HEAD twice. `Reject`, `AppendWal` and
`WriteSnapshot` are the writes, with `WriteFails` and `Crash` possible at each. A
reader takes snapshot (`ReadSnapshot`) and log (`ReadWal`) at different moments, as
the continuation does. What the containment and binding checks say of a result's
files and output is one flag of the offer; what changes while it is under way (HEAD,
attempt, generation) is compared. `WorkflowSessions` and `TransactionStore` add
acceptances in one step: `ImplementsAcceptanceLog` is what entitles them to.

**TaskLedger.** `ledger[r]` is `task-facts/<run>.json`, a fact what its key and the
decisions compare. `Call` and `FindLedger` are the two look-ups before the lock is
had; `Transact` is the transaction, which looks again under it, decides
(`reserve`, `bind`, `authorize`, `record...`) and merges. The result comes back
through `Deliver`, possibly again (`Redeliver`), to the observers. Runs begin, go
to another owner and end by a snapshot and an index write, between which a crash
may come (`CommitSnapshot`, `CommitIndex`, `Crash`, `Repair`), so that snapshot and
index disagree as they do in `TransactionStore`. Tool inputs are parsed into what they name.

**TeamMode.** `reservation` and `team` are the two files of one team name. Every
operation holds the lock and writes one file, so it is one step; `Create` and
`Consume` are the two writes of a create, and `Tear` the crash or the deadline
between them. `Prepare` reads run and HEAD before `Reserve` has the lock. The runs,
the newest dispatch and the acceptances are what the operations look at.

**HostTurn.** One action per stretch between two awaits: `Consume`, `CheckActive`,
`CheckRecord`, `ResolveScope`, `RecordDirective` are `before_agent_start`, in the
order of `register-extension.ts`; `Handle`, `ReadCounter`, `WriteCounter`, `Emit`
the stop handler, with its fence (`Expire`) at every point; `Command`,
`ClearRecord`, `SendMessage` a slash command that sends a message. Runs begin,
commit and end meanwhile; a restart of the host loses what is in memory. A text is
the workflows its words name.

**RuntimeObserver.** The handlers of `product-runtime-observer.ts`, the retrieval
budget guard and the model-call observer, each one step (they do not await between
reading and writing their state), in any order the host may call them. A packet is
the fields that can refuse it, and stands for its own hash.

**ContextAssembly.** `discoverRepositoryRules` is one step per awaited file
operation; `Edit` changes the directory between any two. `Resolved` follows links to the end,
as `realpath` and `open` do; a file outside the directory may be any (`FilesAt`). A glob is a sequence of
segments of characters: `matchGlob` and `segmentMatch` are the source's scans, and are
compared with `GlobFits`, which says what a pattern means without scanning (`Spans`: cuts
that divide the path among the segments, the segment among the characters). The two agree
but for paths with a star in them (counterexample 7), so `RulesAreWhole` asks of those only
that no rule is shown that should not be (`Plain`). `Arranged` is a stable sort: each
position gets the element that so many others come before; `Greedy` is the loop that keeps
what fits.

**WorkerRouting.** The policies are operators; the actions are an orchestrating
agent's calls of them (`Classify`, `Resolve`, `Fail`), with providers coming and going.

**ProcessRunner.** The runner is a program counter (`Runner`); the processes are a
tree with a group and open pipes (`Forks`, `Exits`, `Prints`; external).
Every wait has its timer, which may fire at any moment of it. POSIX kills the group
until it is gone, Windows kills what the tracker has seen.

## Runs

| Run | Instance | Shows |
|---|---|---|
| `repo_lock` | 3 processes, 1 clearer, 3 acquisitions each, I/O faults | `MutualExclusion`, `OnlyOwnNonceRemoved`, refinement of `ExclusiveLock` |
| `store` | 2 processes, 2 runs, 8 requests, log of 3 | `LogIsLinear`, `SnapshotsFollowIndex`, `CommittedIsDurable`, `DivergedIsRepairable`, `RunsAdvance`, `CallsEnd`, refinement of `AtomicLog` |
| `store_evidence` | 2 processes, 1 run, 3 receipt changes | `ProgressIsEarned`: no worker result advances a run twice, repairs included |
| `sessions` | 2 sessions, 1 run id, 2 HEADs, 4 events, 2 receipts | `NoProgressBound`, `CompletedIsAccepted`, `OnlyEntitledWrite` |
| `session_adopt` | 2 sessions with a run each | violation of `UniqueActiveKey` |
| `migration` | 2 processes, one at a time until the store is settled; 3 legacy files, 2 later commits | `Recoverable`, `CommitsSurvive`, `PreflightEnds` |
| `worker_acceptance` | 1 process, 1 reader, 6 offers, a log of 2, 2 attempts, 2 HEADs | `LedgerIsSound`, `CapIsHeld`, `CallsEnd`, refinement of `AcceptanceLog` |
| `task_ledger` | 2 sessions, 2 runs, 2 task calls and 1 control of six kinds, 3 deliveries, 2 commits | `LedgersDecode`, `FanOutHeld`, `ControlsReachOwnWorkers`, `ReceiptsAreCurrent`, `OnlyOwnerAppends` |
| `team` | 2 sessions, 2 runs, 2 HEADs, 1 commit, 2 dispatches, 1 torn create | `CompletedIsAccepted`, `ReservationIsSpent`, `RosterIsKept` |
| `host_turn` | 5 texts, 2 inputs, 2 turns, 2 runs, 1 command or fault | `OneActivationPerInput`, `ContinuationsBounded`, `DirectiveStands` |
| `runtime` | 4 tool calls, 2 model calls, 2 turns; 3 rule files, 1 edit; 9 settings, 2 provider changes; 2 sessions, a plan of 11 documents, 1 edit, 3 commits | `CallsWithinBudget`, `ContextIsCurrent`, `CallsAttributed`, `RulesAreWhole`, `RoutesAreSound`, `WorkIsApproved` |
| `process_runner` | a leader and 2 descendants, 8 jobs (runner, platform, marker) | `ReceiptIsTrue`, `RunEnds` |

### Bounds

`MaxRounds`: a release can only confuse an earlier lock file with a later one, so
two files per process would do; there are three. A third process is what a check-then-unlink
race needs (one dead owner, one new owner, one victim). `MaxRevision` in `store`: three
events let two creates race, a commit be stranded and repaired, and the repaired
log be extended and met by a retry. `MaxRevision` in `sessions`: four events are
create, two attempts and the third that must be refused, or create, pause, adopt
and one more by the old owner. `MaxReceipts`: a dispatch and an acceptance, and one
more where an old acceptance has to be told from a new one. The migration
needs a file published first, one in the middle and the index. Two later commits make the
files differ from what the journal recorded, and again after another start. Of its two
processes one may die anywhere and the other take over, or both work on the settled store.
`worker_acceptance` has one process: calls do
all their work under the lock, so one that dies and returns, with a reader beside it,
gives every order of their writes. `MaxWalEntries` is 2 in place of 1000: one entry
behind the snapshot, one ahead of it, and then the refusal; three rejections in the
one generation reach the cap. `Requests` is the set
of events offered; it holds stale revisions, the same id with other contents, and
competing creates.

`task_ledger`: `MaxFanOut` 2, with calls of one and two items, lets two calls
fit or not fit side by side. Three deliveries are a task, a second task that begins a
new generation and a control of either, or one of them twice. Besides the run there
is from the start, one commit adopts it, ends it, or gives the session a second
one; it may die half-way. `team`: `MaxDispatch` 2 is
a dispatch and the one that supersedes it, `MaxCommits` 1 a new attempt or an
adoption (after which a session may own both runs). `host_turn`: `MaxUpsets` counts
commands, lost writes and restarts together, since each is a reason of its own for a
directive to be injected again or a counter to be behind; two runs are enough for a
conflict, and for one that ends and another that begins. `runtime`: the byte and
call budgets are scaled to single digits, in one tier below and in another above the
tier's call limit; four calls go past the largest, and two model calls are a call and its retry or the
response of one met by the other. The plan is any document at first and any other after
the edit; three commits are a create, an adoption or the end of the run, and a
continuation or reconciliation. Its parts share no variable and are
explored one at a time. `process_runner`: a child and a grandchild are enough for an
orphan, a process outside the group and a pipe held by neither the leader nor the child. Deadlock is not checked: every bound makes the system stop, and
so may its users.

### Fairness

`TransactionStore`: weak fairness of `Finishes(p)`, the steps of a call under way: the
code awaits file operations and bounded sleeps only, the wait for the lock ends by
its deadline, and the release is in a `finally` block. `LifecycleMigration` and
`WorkerAcceptance`: the same for the steps of a preflight and of an accept call.
`ProcessRunner`: weak fairness of `Runner`, since each of its waits is raced against a
timer; the processes it started owe nothing, they may hang, fork or hold the pipes
for ever. Nothing obliges anybody to submit, crash, clear a lock or repair. Liveness
then says that calls and runners end, not that they succeed. The other modules state
no fairness and no liveness.

## Theorems

All are checked by TLAPS, for any number of processes, sessions, runs, requests, calls
and receipts. Each listed property is the one the runs check. The assumptions are those
the modules name, and where a theorem has another of its own, it is given here.

**OwnershipProofs**, first for the lock, assuming at most one clearer (`AtMostOneClearer`; with two the
properties are false, see counterexample 2). `MutualExclusionHolds`,
`OnlyOwnNonceRemovedHolds` and `RepoLockRefines` rest on `IInv`: besides types, a process
that claims the lock owns the file at the path, at most one process claims, and a clearer
that is past its comparison holds the nonce of a dead process. Mutual exclusion is not
inductive alone: that nobody else's unlink can hit the holder's file is what keeps it.
Then for the team (`TeamSpec`). The invariant (`TeamInvariant`) says that there is at most
one roster and it decodes, that the reservation allows one team more than were made of it
only while it is not consumed, and that a create between its two writes is the only one. Each
operation on the roster is shown to replace it by one that decodes and claims no acceptance
that did not happen. `ReservationIsSpentHolds`, `TeamIsAcceptedHolds` and, of every step,
`RosterIsKeptHolds` follow.

**RunLifecycleProofs**. `ControlRunTyped`: every accepted mutation leaves the run
within its type, which contains the bounds of five cycles and three identical
failures. `ControlRunSucceeds`: it makes a legal successor (`Succeeds`).
`ProgressNeedsAcceptance`: it moves the progress of the run only on a worker result
accepted for the present attempt.

**TransactionStoreProofs**, from `StoreAssumption` (requests are well-formed).
The inductive invariant is `Types /\ Phases /\ LogIsLinear /\ CommittedIsDurable`,
where `Phases` says for each process, by its program counter, that it holds the
lock, that its request fits the log it is about to extend, that what it has
prepared is derived from the present index, and that after `AppendEvent` the last
event is the one ahead. `LogIsLinear` needs it because the append and the index
write are separate steps: between them only the lock holder's own bookkeeping
says that the index will catch up by exactly one. `StoreTypeOK`, `LogIsLinearHolds`,
`CommittedIsDurableHolds`, `SnapshotsFollowIndexHolds`, `RunsAdvanceHolds` and
`StoreRefinesAtomicLog` follow. `ProgressIsEarnedHolds` adds to it `EarnedInv` (a snapshot,
and whatever is prepared over it, has an acceptance for each earlier attempt) and assumes
that requests create runs at their first attempt, as the two commands do
(`CreatesFirstAttempt`). `DivergedIsRepairableHolds` is stated for every moment at which the
files can be read (`StoreStaysReadable`) and the event ahead does not rest on receipts
(`AheadNeedsReceipt`): counterexamples 3 and 5 are what happens otherwise.
Then for the migration, for any number of processes. Until the store is settled they have
to start in order (`OrderlySpec`; otherwise the properties are false, see counterexample 6).
The invariant (`OrderlyInv`) is what the journal stands for
(`DiskInv`: before `backed_up` no file has been replaced, from then on the backup is whole
and each file is old or new, and once committed all are new), what the one process that is at
it relies on at the point it has reached (`Where`: in a loop, that the files no longer `left`
are done) and that there is only one such process before the store is settled (`OneAtATime`).
`RecoverableHolds` and, of every step, `OrderlyCommitsSurvive` follow. From a settled store on
no order is needed: `CommitsSurviveHolds` is about every behaviour of the code, whatever
overlaps, that begins in one. `Settled` is its own invariant, since a start that finds
version 2 and a committed journal takes neither for unfinished work, and only commits write.

**HostProofs**, first for the turns. `OneActivationHolds`: an input's token is in one place at a time, in
memory, in the handler that consumed it, or spent. `DirectiveStandsHolds`: what stands is
what the record of the session says, as long as it was written. `ContinuationsBoundedHolds`:
the file of the counter is never behind what was emitted by more than the lost writes.
Then for the runners (`RunnerSpec`). `ReceiptIsTrueHolds` rests on `RunnerInv`: only what was
started is in the group or holds the pipes, so what has ended stays ended whatever is forked
(`Stays`); what is cleaned up after its end has ended, and a cleanup that did not throw has
left nothing of the group.

**WorkerAcceptanceProofs**. The invariant says that the write-ahead log has each key once and
in order, that the snapshot is a prefix of it, and by the point each call and reader has
reached, what it has read and may still rely on. Merging snapshot and log then gives the
log (`LedgerIsWal`, by induction on the length of the prefix that is compared).
`LedgerIsSoundHolds`, `CapIsHeldHolds` and `AcceptanceRefines` follow.

**TaskLedgerProofs**. The invariant (`LedgerInvariant`) is about one ledger at a time: it
decodes, controls and receipts are of the generation they follow, reservations sum up to no
more than the limit. Each decision of a transaction is shown to append what keeps it so
(`Good`), whatever the handler had found before it had the lock. `LedgersDecodeHolds`,
`FanOutHolds`, `ControlsReachOwnWorkersHolds`, `ReceiptsAreCurrentHolds` and
`OnlyOwnerAppendsHolds` follow.

**WorkflowSessionsProofs**. Commands and stops act on copies, and the reducers of settling,
continuing and ending do not look at the status again. The invariant (`SessionsInvariant`)
therefore says of each copy and each event a session has ready that it is of an earlier
revision or is true of the run as it is (`Copy`, `Fresh`): each commit makes a new revision,
so an event that passes the compare-and-swap is applied to the run its maker knew. To it come,
per run, that what has passed or completed is backed by receipts (`Proven`), that a receipt of
the present revision is of a run that has not ended (`Dated`, which is what a checkpoint needs),
and that the run's own counter covers what it was granted (`Counted`).
`OnlyEntitledWriteHolds`, `NoProgressBoundHolds` and `CompletedIsAcceptedHolds` follow.
Since the provers do not know that a quoted name is a string, `LiteralsAssumption` tells
them so of the four they need; TLC evaluates it.

**RuntimeProofs**, first for the plans (`PlanSpec`). The invariant (`PlanInvariant`) follows a
text from its read to the approval, the run and the continuation that rest on it.
`WorkIsApprovedHolds` and, of every step, `RunsKeepTheirTasksHolds`. Then for the observer
alone (`ObserverSpec`). `CallsWithinBudgetHolds`: what
the guard has counted, and the calls it has let through, cover what was spent.
`ContextIsCurrentHolds`: the order and the filters of the context, applied to their own
result, change nothing. `CallsAttributedHolds`: the recorded ids of a scope increase, and
while nothing was lost or repeated the one pending call is the one that is out.
Then for routing (`RoutingSpec`). `RoutesAreSoundHolds`: no role above the route's has had the
packet, its own no more often than the route's transport count (`RouteInvariant`), and every
failure leaves the route where it is, raises the role or blocks it (`FailureFacts`). That the
loop of the resolvers stops at the first candidate that settles it (`AttemptsFacts`), and that
both go through the same ones (`PatternsOfSingles`), needs no invariant. The theorem says where
a packet that is sent goes, and that it is sent if those before the usable model are merely
unavailable; of a malformed one before it (counterexample 8) it says nothing.

Last for the rules (`AssemblySpec`). `AssemblyInvariant`: each name that was listed is a
rule's, is rejected or is left to read, and only one of these, however the directory
changes between the awaited steps (and wherever the links lead, `ResolvedFacts`).
`RulesAreWholeHolds` takes from it that what was read
are rules with different names, and is otherwise about functions of the rules and the
request: `MatchGlobSpans` (the recursion at a globstar), `SegmentMatchSound` and
`SegmentMatchComplete` (by a measure that falls at each step of the scan; the last star is
enough to come back to, since a division that an earlier star is left for is also one from
the last star on, `SuitsFrom`),
`CompareOrders` and `ArrangedFacts` (the number of those before an element is its place),
and `GreedyFacts` and `GreedyLeftOut` (what is kept before a unit only grows).

The models are stated so that this is possible: what goes over an array is a
recursive function on its positions (`Lists`, `Merged`, `ReservedItems`), not a `RECURSIVE`
operator or a fold, and a filter names the set of elements it keeps. Facts about such
functions are proved by a least counterexample among the positions, since an induction
theorem with an operator parameter cannot be used. The assumptions these
proofs needed are that the attempt and size limits are positive (`MaxAttempt`), that a report or a
prompt is about finitely many things and has the fields its schema demands, that a result
has a size, that a document is a sequence of lines, that a directory has finitely many names,
and that a rule has an integer order and globs, a path segments and a catalog entry a size.

Only model-checked is what is temporal under fairness (`CallsEnd` twice, `PreflightEnds`,
`RunEnds`), which this prover does not treat. Every invariant and every action property of
the passing runs is stated by a theorem.

## Counterexamples

One run expects a violation, and its finding in `PROJECT.json` quotes the lines the
code disagrees with:

1. `session_adopt`. A session that owns a run adopts another of the same workflow:
   the index published has a duplicate key and cannot be read back
   (`workflow-command-runtime.ts:153`).

Seven more are kept beside the runs, as configurations that end with a violation:

2. `MCRepoLockTwoClearers.cfg` (`OnlyOwnNonceRemoved`). Two callers of
   `clearConfirmedStaleLock` for one dead owner: the slower unlinks the lock of
   whoever has taken it since (`repo-lock.ts:77`).
3. `MCStoreReceipts.cfg` (`DivergedIsRepairable`). A receipt recorded between a crash
   and `repairState` makes the stranded event unrepairable for good (`recovery.ts:91`).
4. `MCStoreReplay.cfg` (`ReplayedIsApplied`). The retry of an event that was appended
   and never published is answered `ok`, `replayed`, although it has not taken effect
   (`transaction-store.ts:95`).
5. `MCStoreAnnotation.cfg` (`StoreStaysReadable`). A steering document without criteria
   passes the input schema and commits an event that `readAll` cannot decode
   (`codec-schemas.ts:249`).
6. `MCMigrationTwo.cfg` (`CommitsSurvive`). Of two processes that start at once, one that has read a version 1 index
   and takes the lock only after another has migrated and committed restores the
   version 1 backup over that commit (`migration.ts:311`); a reader of the result finds
   both versions.
7. `MCRuntimeStar.cfg` (`GlobsAreAsDocumented`). `*b` does not match a segment `*ab`,
   although a star "matches any characters within a single segment": the loop compares
   characters before it looks for a wildcard, and the two stars are equal
   (`rules-assembly.ts:123`). It is the case that `SegmentMatchComplete` has to leave out.
8. `MCRuntimeChain.cfg` (`OnlyExhaustedBlocks`). "Only an exhausted chain yields BLOCKED"
   (`src/workflows/model-role-resolution.ts:128`), but a malformed alias or an undefined
   role ends the chain at once, although a usable model follows it. `RoutesAreSound` leaves
   the case out.

### Observed while modelling

What the code does, where a reader may expect something else. The models have it as
it is; no run is about it.

 - Lock: an owner that dies before its metadata is written leaves a file that
   `readMetadata` refuses, so it can never be cleared (`recovery.ts:124`).
 - Runs: steering a terminal run is accepted (its status stays). A task rejected
   three times and accepted after review counts as exhausted again once
   `progressRevision` moves on (`receipt-authority.ts:106`).
 - Plans: the first session to approve a text stays the only one that has; to any other it
   is a conflict for good (`workflow-command-inputs.ts:148`). Ticking a task before the run is
   created needs another approval, after that none. `reconcile` takes any plan with the
   run's tasks, at any path, approved or not; a stop reads the plan without the checks of
   size and containment that the commands make (`durable-continuation.ts:140`).
 - Gates: the spawn policy for packets (`task-spawn-guard.ts` 41-85, 138-164) is
   undefined in every state the extension reaches.
 - Teams: `status` asks for the owner, `cancel`, `archive`, `delete` and `resume` do not.
   A cancelled team that was never bound can be archived, although
   `skills/teammode(omp)/SKILL.md:28` has "Archive only a completed durable roster";
   one cancelled after binding cannot until it is resumed and cancelled again.
   `initialize`, `bind` and `complete` have no caller in the extension yet: the commands
   create, cancel, archive, delete and resume.
 - Turns: `deriveIndex` puts the committed run last, so with two runs the budget is
   counted for the one that was not continued, and alternating between them starts
   it anew. The record holds one workflow, and with two runs no run id: directives
   are then injected each turn. `writeInjectionReceipt` and `setInjectionContent`
   have no caller in the extension.
 - Budget: a JSON prompt that is no packet, and a run packet that is refused, leave the
   turn unmetered; a packet in a prompt, and a new run revision, renew the budget.
   Results of `irc` and `hub` messages are not metered. A call refused by the
   dispatcher stays pending and counts.
 - Model calls: responses are matched in order, so a lost one shifts the attributions
   after it; `observeProxyTerminal` has no caller.
 - Rules: the size of a rule is not checked again once it is open, nor where it lies once
   its path is resolved: a name that has become a link by the time it is opened is followed,
   out of the directory too, and read if its target has the size `lstat` saw.
 - Models: the next resolution of a run overwrites the provenance of the last. `classifyWorkflowRisk`
   may give a higher tier than `classifyTaskTier`, and a packet that claims it is refused.
   These policies, and `reduceWorkerFailure`, `assembleRules` and `compactCatalog`, are pure
   functions that nothing in the extension calls yet.
 - Runners: on Windows a command that ends in time is not cleaned up, yet its receipt
   says the tree is complete; descendants in a session of their own (POSIX) or
   orphaned (Windows) escape; a group that vanishes between check and kill makes a
   successful command fail; a timeout that races the exit may end as a cleanup error.
   The sandbox stays behind if `createEnvironment` or the spawn throws.

## Not modelled

String processing (parsing of commands, of the lines of a plan, of Markdown; rendering,
the status line), hashing and the resolution of paths (a path is inside or it is not), schema version 1 as live state, the handler
budget of the registration, and
what nothing in the extension calls (critic receipts, quality scores, parallelism
history, the lcx contract). Packaging scripts, release
gates and the evaluation harness (the rest of `scripts/`, `harness-eval/`) compare
files and fixtures: they keep no state whose order matters.

## Plan

The plan is carried out: what is left is what the prover cannot treat (liveness) and the
parts named above. Where the code grows (a caller for `assembleRules`, another reader of the
index) the modules have to follow it first.
