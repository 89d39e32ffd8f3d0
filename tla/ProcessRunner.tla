--------------------------- MODULE ProcessRunner ---------------------------
(***************************************************************************)
(* The scripts' runners: a command is started in a sandbox or under        *)
(* capture, waited for with a time limit, its process tree cleaned up and  *)
(* a receipt written (scripts/run-isolated.ts, scripts/hostile-process.ts, *)
(* scripts/process-tree-cleanup.ts).                                       *)
(*                                                                         *)
(* Between any two steps of a runner the processes it started go on: they  *)
(* fork, leave the group, close the pipes, print, exit, or take no notice. *)
(* A timer may fire at any moment of its wait, also when what it guards    *)
(* has just happened.                                                      *)
(***************************************************************************)
EXTENDS FiniteSets

CONSTANTS
    Children,   \* the processes that may be started below the leader
    Jobs        \* [runner, platform, marker, systemRoot]: what is run, and where

Leader == "leader"
Procs == {Leader} \cup Children

ASSUME RunnerAssumption ==
    /\ Leader \notin Children
    /\ \A job \in Jobs :
        /\ job.runner \in {"isolated", "capture"} /\ job.platform \in {"posix", "win32"}
        /\ job.marker => job.runner = "capture"

VARIABLES
    job,
    status,    \* each process: "unborn", "running", "gone"
    parent,    \* who started it
    group,     \* the processes of the leader's process group
    pipes,     \* the processes that hold the leader's stdout or stderr
    killed,    \* sent SIGKILL and not gone yet, or gone by it
    exit,      \* how the leader ended
    printed,   \* the marker has been printed
    tracked,   \* the Windows processes the tracker knows
    sandbox,   \* the directory run-isolated makes: "none", "there", "removed"
    pc,
    why,       \* what the cleanup is for: "startup", "timeout", "after"
    failed,    \* terminate: the cleanup threw
    broken,    \* history: making the sandbox, the spawn or the rm threw
    result

world == <<status, parent, group, pipes, killed, exit, printed>>
runnerVars == <<job, world, tracked, sandbox, pc, why, failed, broken, result>>

NoResult == [kind |-> "none"]
Threw == [kind |-> "threw"]

RunnerInit ==
    /\ job \in Jobs
    /\ status = [p \in Procs |-> "unborn"] /\ parent = [p \in Procs |-> Leader]
    /\ group = {} /\ pipes = {} /\ killed = {} /\ exit = "none" /\ printed = FALSE
    /\ tracked = {} /\ sandbox = "none"
    /\ pc = IF job.runner = "isolated" THEN "prepare" ELSE "spawn"
    /\ why = "none" /\ failed = FALSE /\ broken = FALSE /\ result = NoResult

Running(p) == status[p] = "running"

-----------------------------------------------------------------------------
(* The processes                                                           *)

(* A child is in the group and holds the pipes as its parent does, or has  *)
(* a session or output of its own.                                         *)
Forks(p, c) ==
    /\ Running(p) /\ p \notin killed /\ status[c] = "unborn"
    /\ status' = [status EXCEPT ![c] = "running"] /\ parent' = [parent EXCEPT ![c] = p]
    /\ group' \in {group} \cup (IF p \in group THEN {group \cup {c}} ELSE {})
    /\ pipes' \in {pipes} \cup (IF p \in pipes THEN {pipes \cup {c}} ELSE {})
    /\ UNCHANGED <<killed, exit, printed>>

Exits(p) ==
    /\ Running(p)
    /\ status' = [status EXCEPT ![p] = "gone"]
    /\ IF p = Leader
       THEN exit' \in IF p \in killed THEN {"signal"} ELSE {"ok", "zero tests", "failed"}
       ELSE UNCHANGED exit
    /\ UNCHANGED <<parent, group, pipes, killed, printed>>

Prints(p) ==
    /\ job.marker /\ Running(p) /\ p \in pipes \ killed /\ ~printed
    /\ printed' = TRUE
    /\ UNCHANGED <<status, parent, group, pipes, killed, exit>>

Processes ==
    /\ \E p \in Procs : (\E c \in Children : Forks(p, c)) \/ Exits(p) \/ Prints(p)
    /\ UNCHANGED <<job, tracked, sandbox, pc, why, failed, broken, result>>

(* completion: the leader has exited and nobody holds its output. *)
Completed == status[Leader] = "gone" /\ \A p \in pipes : ~Running(p)

(* What the runner may see of a promise when it looks: the callback comes  *)
(* later than what it waits for, and the timer may be first.               *)
settleWithin(done) == IF done THEN BOOLEAN ELSE {FALSE}

(* What taskkill /T and killTree reach: the running processes below p that *)
(* are linked to it by running parents.                                    *)
Tree(p) ==
    LET closed(set) == \A c \in Children : Running(c) /\ parent[c] \in set => c \in set
    IN  {q \in Procs : /\ Running(p) /\ Running(q)
                       /\ \A set \in SUBSET {r \in Procs : Running(r)} :
                            p \in set /\ closed(set) => q \in set}

Ends(set) ==
    /\ status' = [p \in Procs |-> IF p \in set THEN "gone" ELSE status[p]]
    /\ killed' = killed \cup set
    /\ exit' = IF Leader \in set THEN "signal" ELSE exit
    /\ UNCHANGED <<parent, group, pipes, printed>>

-----------------------------------------------------------------------------
(* Starting                                                                *)

(* run's finally removes the sandbox however the try ends. *)
Returns(r) == result' = r /\ pc' = IF job.runner = "isolated" THEN "remove" ELSE "end"

(* Neither the making of the sandbox nor the spawn is within the try. *)
Breaks == pc' = "end" /\ result' = Threw /\ broken' = TRUE

createEnvironment ==
    /\ pc = "prepare"
    /\ \/ sandbox' = "there" /\ pc' = "spawn" /\ UNCHANGED <<broken, result>>
       \/ sandbox' \in {"none", "there"} /\ Breaks
    /\ UNCHANGED <<job, world, tracked, why, failed>>

(* The leader has a process group of its own where there are groups; the   *)
(* tracker is not started if the leader is gone already.                   *)
spawn ==
    /\ pc = "spawn"
    /\ \/ /\ status' = [status EXCEPT ![Leader] = "running"]
          /\ group' = {Leader} /\ pipes' = {Leader}
          /\ tracked' \in {{}} \cup (IF job.platform = "win32" /\ job.marker THEN {{Leader}} ELSE {})
          /\ pc' = IF job.marker THEN "startup" ELSE "wait"
          /\ UNCHANGED <<broken, result>>
       \/ Breaks /\ UNCHANGED <<status, group, pipes, tracked>>
    /\ UNCHANGED <<job, parent, killed, exit, printed, sandbox, why, failed>>

(* The tracker looks every millisecond until it is stopped. *)
trackWindowsProcessTree ==
    /\ tracked # {} /\ pc \in {"startup", "wait"}
    /\ tracked' = tracked \cup {c \in Children : Running(c) /\ parent[c] \in tracked}
    /\ UNCHANGED <<job, world, sandbox, pc, why, failed, broken, result>>

(* ready: the marker is in the output, on whatever chunks it is spread. *)
captureStdout == printed

(* captureProcess with a marker: the marker, the end or the timer first.   *)
(* Of the output that is there the marker is read before the end.          *)
Startup ==
    /\ pc = "startup"
    /\ \E settled \in settleWithin(captureStdout \/ Completed) :
          IF settled /\ captureStdout THEN pc' = "wait" /\ UNCHANGED why
          ELSE pc' = "cleanup" /\ why' = "startup"
    /\ UNCHANGED <<job, world, tracked, sandbox, failed, broken, result>>

-----------------------------------------------------------------------------
(* Waiting and cleaning up                                                 *)

(* What the two runners return.  A command that timed out, failed or       *)
(* collected no test is not a success.                                     *)
collectedZeroTests == exit = "zero tests"

Receipt(timedOut) ==
    [kind |-> "receipt", timedOut |-> timedOut,
     code |-> IF ~timedOut /\ exit \in {"ok", "zero tests"} /\ ~collectedZeroTests
              THEN "zero" ELSE "nonzero"]

Captured(timedOut) ==
    [kind |-> "receipt", timedOut |-> timedOut,
     code |-> IF timedOut THEN "null" ELSE IF exit \in {"ok", "zero tests"} THEN "zero" ELSE "nonzero"]

Result(timedOut) ==
    IF job.runner = "isolated" THEN Receipt(timedOut) ELSE Captured(timedOut)

(* Slip: what has ended in time is taken to have left nothing behind. *)
WaitTrusting ==
    /\ pc = "wait"
    /\ \E settled \in settleWithin(Completed) :
          IF settled THEN Returns(Result(FALSE)) /\ UNCHANGED why
          ELSE pc' = "cleanup" /\ why' = "timeout" /\ UNCHANGED result
    /\ UNCHANGED <<job, world, tracked, sandbox, failed, broken>>

(* The wait: what has ended in time is cleaned up only where there are     *)
(* process groups; what has not is.                                        *)
Wait ==
    /\ pc = "wait"
    /\ \E settled \in settleWithin(Completed) :
          IF settled /\ job.platform = "win32" THEN Returns(Result(FALSE)) /\ UNCHANGED why
          ELSE /\ pc' = "cleanup" /\ why' = IF settled THEN "after" ELSE "timeout"
               /\ UNCHANGED result
    /\ UNCHANGED <<job, world, tracked, sandbox, failed, broken>>

(* After a timeout an error of the cleanup waits for the completion. *)
CleanupEnds(ok) ==
    IF why = "after" THEN Returns(IF ok THEN Result(FALSE) ELSE Threw) /\ UNCHANGED failed
    ELSE failed' = ~ok /\ pc' = "complete" /\ UNCHANGED result

groupExists == \E p \in group : Running(p)

(* POSIX: nothing is left of the group, or it is killed. *)
CleanupGroup ==
    /\ pc = "cleanup" /\ job.platform = "posix"
    /\ \/ groupExists /\ pc' = "kill" /\ UNCHANGED <<failed, result>>
       \/ /\ ~groupExists
          /\ \E settled \in (IF why = "after" THEN {TRUE} ELSE settleWithin(Completed)) :
               CleanupEnds(settled)
    /\ UNCHANGED <<job, world, tracked, sandbox, why, broken>>

(* The group may be gone by now: process.kill then throws. *)
KillGroup ==
    /\ pc = "kill"
    /\ \/ /\ groupExists
          /\ killed' = killed \cup {p \in group : Running(p)}
          /\ pc' = "await" /\ UNCHANGED <<failed, result>>
       \/ ~groupExists /\ CleanupEnds(FALSE) /\ UNCHANGED killed
    /\ UNCHANGED <<job, status, parent, group, pipes, exit, printed, tracked, sandbox, why, broken>>

awaitGroupExit ==
    /\ pc = "await"
    /\ CleanupEnds(~groupExists)
    /\ UNCHANGED <<job, world, tracked, sandbox, why, broken>>

(* Windows: what the tracker knows is killed with all below it; if none of *)
(* it was running, or nothing was tracked, taskkill has to do it.          *)
KillTracked ==
    /\ pc = "cleanup" /\ job.platform = "win32"
    /\ Ends(UNION {Tree(p) : p \in tracked})
    /\ IF \E p \in tracked : Running(p) THEN CleanupEnds(TRUE)
       ELSE pc' = "taskkill" /\ UNCHANGED <<failed, result>>
    /\ UNCHANGED <<job, tracked, sandbox, why, broken>>

(* By its name, then by its path if there is a SystemRoot.  A killer that  *)
(* fails, or is given up, may have done its work.                          *)
taskkill ==
    /\ pc \in {"taskkill", "taskkill again"}
    /\ \/ Running(Leader) /\ Ends(Tree(Leader)) /\ CleanupEnds(TRUE)
       \/ /\ Ends({}) \/ Ends(Tree(Leader))
          /\ IF pc = "taskkill" /\ job.systemRoot
             THEN pc' = "taskkill again" /\ UNCHANGED <<failed, result>>
             ELSE CleanupEnds(FALSE)
    /\ UNCHANGED <<job, tracked, sandbox, why, broken>>

(* Slip: the end is waited for however long it takes. *)
terminateAndCompleteUnbounded ==
    /\ pc = "complete" /\ Completed
    /\ Returns(IF failed \/ why = "startup" THEN Threw ELSE Result(TRUE))
    /\ UNCHANGED <<job, world, tracked, sandbox, why, failed, broken>>

(* After the kill: the completion within its limit, or an error; then the  *)
(* cleanup's own error; then the startup's.                                *)
terminateAndComplete ==
    /\ pc = "complete"
    /\ \E settled \in settleWithin(Completed) :
          Returns(IF ~settled \/ failed \/ why = "startup" THEN Threw ELSE Result(TRUE))
    /\ UNCHANGED <<job, world, tracked, sandbox, why, failed, broken>>

(* An rm that throws takes the receipt with it. *)
rm ==
    /\ pc = "remove" /\ pc' = "end"
    /\ \/ sandbox' = "removed" /\ UNCHANGED <<broken, result>>
       \/ broken' = TRUE /\ result' = Threw /\ UNCHANGED sandbox
    /\ UNCHANGED <<job, world, tracked, why, failed>>

-----------------------------------------------------------------------------
Runner ==
    \/ createEnvironment \/ spawn \/ Startup \/ Wait
    \/ CleanupGroup \/ KillGroup \/ awaitGroupExit \/ KillTracked \/ taskkill
    \/ terminateAndComplete \/ rm

RunnerNext == Processes \/ trackWindowsProcessTree \/ Runner

(* The runner's waits are bounded by timers; its processes owe nothing. *)
RunnerSpec == RunnerInit /\ [][RunnerNext]_runnerVars /\ WF_runnerVars(Runner)

-----------------------------------------------------------------------------
(* Properties                                                              *)

(* "cleanup: { processTree: complete, sandbox: complete }": with a receipt *)
(* in hand the sandbox is gone, the leader has ended and, where there are  *)
(* process groups, nothing of its group runs, whenever the command ended   *)
(* and whatever it left behind; and code zero is a command that ended by   *)
(* itself, in time.                                                        *)
ReceiptIsTrue ==
    pc = "end" /\ result.kind = "receipt" =>
        /\ sandbox # "there"
        /\ ~Running(Leader) /\ \A p \in pipes : ~Running(p)
        /\ job.platform = "posix" => ~groupExists
        /\ result.code = "zero" => ~result.timedOut /\ Leader \notin killed
                                     /\ exit \in {"ok"} \cup {e \in {"zero tests"} : job.runner = "capture"}

(* However its processes behave the runner ends, and it leaves a sandbox   *)
(* behind only if making it, starting the command or removing it failed.   *)
RunEnds ==
    pc # "end" ~> (pc = "end" /\ (sandbox = "there" => broken))
=============================================================================
