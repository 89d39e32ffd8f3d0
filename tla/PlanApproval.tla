---------------------------- MODULE PlanApproval ----------------------------
(***************************************************************************)
(* Plans: how the Markdown of a plan becomes tasks                         *)
(* (workflows/start-work-plan.ts), who has approved it                     *)
(* (commands/workflow-command-inputs.ts), and what of that still holds     *)
(* when a run is created from it, reconciled with it and continued         *)
(* (commands/workflow-command-start.ts, continuation/                      *)
(* durable-continuation.ts, workflows/start-work-contract.ts).             *)
(*                                                                         *)
(* An approval is of the bytes, a run is bound to the tasks.  Both are     *)
(* compared with a file that an editor changes at any moment, and every    *)
(* command reads it, the approvals and the index one after the other       *)
(* without the lock.  What a commit does is in WorkflowSessions; here it   *)
(* is one step that is refused if the index has changed.                   *)
(***************************************************************************)
EXTENDS Lists, FiniteSets

CONSTANTS
    Sessions,
    PlanPaths,   \* paths below .omo/plans
    OtherPaths,  \* paths that lead elsewhere
    Documents,   \* what an editor may leave at a path
    MaxPlanEdits,    \* bound: edits
    MaxPlanCommits   \* bound: commits

(* A document is a text, or is too long, or a link out of .omo/plans.  A   *)
(* text has markers of either version, its headings in order or not, and   *)
(* check-list lines [section, label, explicit, checked]; it stands for its *)
(* own hash.                                                               *)
Missing == [kind |-> "missing"]

ASSUME PlanAssumption ==
    /\ PlanPaths \cap OtherPaths = {} /\ Missing \in Documents
    /\ \A document \in Documents \ {Missing} :
        LET lines == document.text.lines IN lines \in Seq({lines[i] : i \in DOMAIN lines})
    /\ MaxPlanEdits \in Nat /\ MaxPlanCommits \in Nat

VARIABLES
    file,           \* file[path]
    approvals,      \* approvals/<hash>.json: the text and the session that approved it
    runs,           \* the runs, in the order they were created
    indexRevision,  \* the revision of active.json
    cmd,            \* cmd[s]: the command or stop session s is in
    planEdits,      \* how many there were
    continued       \* history: the last continuation: a set of at most one

shared == <<file, approvals, runs, indexRevision, planEdits, continued>>
planVars == <<shared, cmd>>

Waiting == [at |-> "idle"]

PlanInit ==
    /\ file \in [PlanPaths \cup OtherPaths -> Documents]
    /\ approvals = {} /\ runs = <<>> /\ indexRevision = 0
    /\ cmd = [s \in Sessions |-> Waiting]
    /\ planEdits = 0 /\ continued = {}

(* The editor, and the agent that ticks its tasks off (external). *)
EditPlan ==
    /\ planEdits < MaxPlanEdits /\ planEdits' = planEdits + 1
    /\ \E path \in PlanPaths : \E document \in Documents \ {file[path]} :
          file' = [file EXCEPT ![path] = document]
    /\ UNCHANGED <<approvals, runs, indexRevision, cmd, continued>>

-----------------------------------------------------------------------------
(* normalizeStartWorkPlan                                                  *)

(* The two sections that count. *)
parseChecklist(text) ==
    Chosen(text.lines, {line \in Elements(text.lines) : line.section \in {"todos", "final"}})

(* A line without an id of its own is named by all it says but its tick. *)
TaskId(line) == [legacy |-> ~line.explicit, label |-> line.label]

(* The tasks a text is normalized to: a set of at most one. *)
normalizeStartWorkPlan(text) ==
    LET lines == parseChecklist(text)
        names(chosen) == [i \in DOMAIN chosen |-> TaskId(chosen[i])]
        version2 == text.v2 = 1
    IN  IF \/ text.v1 + text.v2 # 1
           \/ version2 /\ (~text.ordered \/ \E i \in DOMAIN lines : ~lines[i].explicit)
           \/ Cardinality(Elements(names(lines))) # Len(lines)
        THEN {}
        ELSE {[taskIds |-> names(lines),
               remaining |-> names(Chosen(lines, {line \in Elements(lines) : ~line.checked})),
               fingerprint |-> [i \in DOMAIN lines |-> <<lines[i].section, TaskId(lines[i])>>]]}

(* The bytes at a path, where the path, what it resolves to and the size   *)
(* are as they should be: a set of at most one.                            *)
containedFile(path) ==
    {file[p].text : p \in {q \in {path} \cap PlanPaths : file[q].kind = "text"}}

readContainedPlan(path) ==
    UNION {{[path |-> path, text |-> text, plan |-> plan] : plan \in normalizeStartWorkPlan(text)} :
             text \in containedFile(path)}

-----------------------------------------------------------------------------
(* Commands                                                                *)

Goes(s, c) == cmd' = [cmd EXCEPT ![s] = c]

(* /ulw-plan approve: the plan is read and its hash compared with the one  *)
(* the user names; the lock comes later.                                   *)
ApproveRead(s, path, claimed) ==
    /\ cmd[s] = Waiting
    /\ \E read \in readContainedPlan(path) :
          read.text = claimed /\ Goes(s, [at |-> "approving", text |-> read.text])
    /\ UNCHANGED shared

(* approvePlan under the lock: the first session to approve these bytes    *)
(* stays the one that has; for any other it is a conflict.                 *)
ApproveWrite(s) ==
    /\ cmd[s].at = "approving"
    /\ approvals' = IF \E a \in approvals : a.text = cmd[s].text THEN approvals
                    ELSE approvals \cup {[text |-> cmd[s].text, session |-> s]}
    /\ Goes(s, Waiting)
    /\ UNCHANGED <<file, runs, indexRevision, planEdits, continued>>

(* Or the lock was not had in time. *)
ApproveTimeout(s) ==
    /\ cmd[s].at = "approving" /\ Goes(s, Waiting)
    /\ UNCHANGED shared

(* createStartWork reads the plan, then whether it is approved ... *)
CreateRead(s, path) ==
    /\ cmd[s] = Waiting
    /\ \E read \in readContainedPlan(path) : Goes(s, [at |-> "planned", read |-> read])
    /\ UNCHANGED shared

(* Slip: anyone's approval will do. *)
planIsApprovedByAnyone(s, text) == \E a \in approvals : a.text = text

planIsApproved(s, text) == [text |-> text, session |-> s] \in approvals

CreateCheck(s) ==
    /\ cmd[s].at = "planned"
    /\ Goes(s, IF planIsApproved(s, cmd[s].read.text)
               THEN [at |-> "approved", read |-> cmd[s].read] ELSE Waiting)
    /\ UNCHANGED shared

Owned(s) == {r \in DOMAIN runs : runs[r].live /\ runs[r].owner = s}

(* ... then whether the session has a run, of this plan or of another:     *)
(* either way there is nothing to do.  The look and the read of the index  *)
(* are one step: in between only another session could give s a run, and   *)
(* none does.                                                              *)
CreateLookup(s) ==
    /\ cmd[s].at = "approved"
    /\ Goes(s, IF Owned(s) = {} THEN [at |-> "creating", read |-> cmd[s].read, revision |-> indexRevision]
               ELSE Waiting)
    /\ UNCHANGED shared

(* commit, refused if the index is not the one that was read. *)
Commits(s) == cmd[s].revision = indexRevision /\ indexRevision < MaxPlanCommits

CreateCommit(s) ==
    LET read == cmd[s].read
    IN /\ cmd[s].at = "creating" /\ Commits(s) /\ indexRevision' = indexRevision + 1
       /\ runs' = Append(runs, [owner |-> s, creator |-> s, live |-> TRUE, path |-> read.path,
                                taskIds |-> read.plan.taskIds, fingerprint |-> read.plan.fingerprint])
       /\ Goes(s, Waiting)
       /\ UNCHANGED <<file, approvals, planEdits, continued>>

CommitRefused(s) ==
    /\ cmd[s].at \in {"creating", "reconciling", "continuing"} /\ cmd[s].revision # indexRevision
    /\ Goes(s, Waiting)
    /\ UNCHANGED shared

(* reconcileStartWork takes any plan with the tasks of the run: nothing    *)
(* says that it is the one the run was created from.  Run, plan and index  *)
(* are read in one step, as a run that changes in between fails the commit *)
(* and its tasks never change.                                             *)
Matches(run, plan) == run.fingerprint = plan.fingerprint /\ run.taskIds = plan.taskIds

Reconcile(s, path) ==
    /\ cmd[s] = Waiting
    /\ \E r \in Owned(s), read \in readContainedPlan(path) :
          /\ Matches(runs[r], read.plan)
          /\ Goes(s, [at |-> "reconciling", run |-> r, plan |-> read.plan, revision |-> indexRevision])
    /\ UNCHANGED shared

ReconcileCommit(s) ==
    /\ cmd[s].at = "reconciling" /\ Commits(s) /\ indexRevision' = indexRevision + 1
    /\ runs' = [runs EXCEPT ![cmd[s].run].taskIds = cmd[s].plan.taskIds,
                            ![cmd[s].run].fingerprint = cmd[s].plan.fingerprint]
    /\ Goes(s, Waiting)
    /\ UNCHANGED <<file, approvals, planEdits, continued>>

(* Adoption, by a session that has no run yet, and the end of a run. *)
AdoptPlan(s, r) ==
    /\ cmd[s] = Waiting /\ runs[r].live /\ Owned(s) = {} /\ indexRevision < MaxPlanCommits
    /\ indexRevision' = indexRevision + 1 /\ runs' = [runs EXCEPT ![r].owner = s]
    /\ UNCHANGED <<file, approvals, cmd, planEdits, continued>>

EndPlan(r) ==
    /\ runs[r].live /\ indexRevision < MaxPlanCommits
    /\ indexRevision' = indexRevision + 1 /\ runs' = [runs EXCEPT ![r].live = FALSE]
    /\ UNCHANGED <<file, approvals, cmd, planEdits, continued>>

-----------------------------------------------------------------------------
(* A natural stop                                                          *)

StopRead(s) ==
    /\ cmd[s] = Waiting
    /\ \E r \in Owned(s) :
          Goes(s, [at |-> "stopping", run |-> r, copy |-> runs[r], revision |-> indexRevision])
    /\ UNCHANGED shared

(* evaluateStartWorkContinuation: the first task that is not ticked, if    *)
(* the plan still has the run's tasks in the run's order.                  *)
evaluateStartWorkContinuation(run, plan) ==
    IF Matches(run, plan) /\ plan.remaining # <<>> THEN {Head(plan.remaining)} ELSE {}

(* readPlan is not confined: a link or a long file is followed and read,   *)
(* so only a missing file and a text that is no plan are quiet.            *)
StopPlan(s) ==
    /\ cmd[s].at = "stopping"
    /\ LET copy == cmd[s].copy
           texts == {document.text : document \in {file[copy.path]} \ {Missing}}
           next == UNION {evaluateStartWorkContinuation(copy, plan) :
                            plan \in UNION {normalizeStartWorkPlan(text) : text \in texts}}
       IN  Goes(s, IF next = {} THEN Waiting
                   ELSE [at |-> "continuing", run |-> cmd[s].run, revision |-> cmd[s].revision,
                         task |-> CHOOSE t \in next : TRUE,
                         text |-> CHOOSE t \in texts : TRUE])
    /\ UNCHANGED shared

StopCommit(s) ==
    /\ cmd[s].at = "continuing" /\ Commits(s) /\ indexRevision' = indexRevision + 1
    /\ continued' = {[run |-> cmd[s].run, task |-> cmd[s].task, text |-> cmd[s].text]}
    /\ Goes(s, Waiting)
    /\ UNCHANGED <<file, approvals, runs, planEdits>>

(* The hashes a user may name. *)
Claims == {document.text : document \in Documents \ {Missing}}

PlanNext ==
    \/ EditPlan
    \/ \E s \in Sessions :
          \/ \E path \in PlanPaths \cup OtherPaths :
                \/ \E text \in Claims : ApproveRead(s, path, text)
                \/ CreateRead(s, path) \/ Reconcile(s, path)
          \/ ApproveWrite(s) \/ ApproveTimeout(s) \/ CreateCheck(s) \/ CreateLookup(s) \/ CreateCommit(s) \/ CommitRefused(s)
          \/ ReconcileCommit(s)
          \/ StopRead(s) \/ StopPlan(s) \/ StopCommit(s)
          \/ \E r \in DOMAIN runs : AdoptPlan(s, r)
    \/ \E r \in DOMAIN runs : EndPlan(r)

PlanSpec == PlanInit /\ [][PlanNext]_planVars

-----------------------------------------------------------------------------
(* Properties                                                              *)

(* The tasks of a text that the session which created the run approved. *)
ApprovedFor(run, taskIds) ==
    \E a \in approvals : /\ a.session = run.creator
                         /\ \E plan \in normalizeStartWorkPlan(a.text) : plan.taskIds = taskIds

(* However the plan is edited, ticked, swapped or removed between the      *)
(* reads, and whoever adopts or reconciles the run: its tasks are those of *)
(* a text its creator approved, and a continuation names one of them that  *)
(* is not ticked in the plan it was read from.                             *)
WorkIsApproved ==
    /\ \A r \in DOMAIN runs : ApprovedFor(runs[r], runs[r].taskIds)
    /\ \A c \in continued :
          /\ c.task \in Elements(runs[c.run].taskIds)
          /\ \E plan \in normalizeStartWorkPlan(c.text) :
                /\ plan.taskIds = runs[c.run].taskIds
                /\ c.task = Head(plan.remaining)
=============================================================================
