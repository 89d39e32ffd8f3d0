------------------------------ MODULE HostTurn ------------------------------
(***************************************************************************)
(* What the extension does around an agent's turns, for one session:       *)
(* activation (activation/provenance-controller.ts and its durable record),*)
(* the slash commands that send a message, and the natural stop with its   *)
(* continuation budget (continuation/register-session-stop.ts).            *)
(*                                                                         *)
(* The handlers are asynchronous: each action is what one does up to its   *)
(* next await, and the session's runs begin, are committed and end in      *)
(* between.  The host runs one turn of a session at a time, so start and   *)
(* stop exclude each other; a command may come at any time.  Tokens and    *)
(* the handlers are in memory and die with the process; the activation     *)
(* record, the counter and the index are files, and the first two are      *)
(* written without the repository lock.                                    *)
(***************************************************************************)
EXTENDS Integers, Sequences

CONSTANTS
    Texts,      \* prompts and messages
    Names,      \* Names[text]: the workflows whose commands it names
    Bare,       \* texts that have the word ultrawork or ulw, outside quotes and code
    Messages,   \* the texts the commands send; these and Continue are the extension's own
    Continue,   \* the text of a continuation
    MAX_IDLE_CONTINUATIONS,
    MaxTurns,   \* bound: turns the user starts
    MaxInputs,  \* bound: inputs
    MaxRuns,    \* bound: runs created
    MaxUpsets   \* bound: commands that send a message, lost writes and crashes, together

NoText == "none"
NoWorkflow == "none"
NoRun == 0

ASSUME HostAssumption ==
    /\ Messages \subseteq Texts /\ Continue \in Texts /\ NoText \notin Texts
    /\ DOMAIN Names = Texts /\ Bare \subseteq Texts
    /\ MAX_IDLE_CONTINUATIONS \in Nat \ {0}
    /\ MaxTurns \in Nat /\ MaxInputs \in Nat /\ MaxRuns \in Nat
    /\ MaxUpsets \in Nat

VARIABLES
    entries,      \* the session's entries of the active index, in order
    record,       \* directive-activations/<session>.json: a set of at most one
    counter,      \* the continuation counter file: a set of at most one
    pending,      \* the token of the last input: a set of at most one
    suppression,  \* the text whose next start is quiet, or NoText
    command,      \* where the slash command is
    start,        \* where before_agent_start is
    stop,         \* where session_stop is
    turn,         \* the host's turn id
    inputs, runs, commands, faults,  \* how many there were
    grants,       \* history: grants[i]: activations input i was given
    standing,     \* history: the directive injected last, if nothing lets it be injected again
    stable,       \* history: nothing has done so since the present start knows its scope
    streak        \* history: continuations emitted in a row for one run and turn

files == <<entries, record, counter>>
memory == <<pending, suppression, command, start, stop>>
host == <<turn, inputs, runs, commands, faults>>
history == <<grants, standing, stable, streak>>
vars == <<files, memory, host, history>>

Idle == [at |-> "idle"]
NoStreak == [run |-> NoRun, turn |-> 0, emitted |-> 0]

Init ==
    /\ entries = <<>> /\ record = {} /\ counter = {}
    /\ pending = {} /\ suppression = NoText
    /\ command = Idle /\ start = Idle /\ stop = Idle
    /\ turn = 0 /\ inputs = 0 /\ runs = 0 /\ commands = 0 /\ faults = 0
    /\ grants = [i \in 1..MaxInputs |-> 0] /\ streak = NoStreak
    /\ standing = NoWorkflow /\ stable = FALSE

(* A run begins or ends or a command asks for the directive once more. *)
Rearm == standing' = NoWorkflow /\ stable' = FALSE

-----------------------------------------------------------------------------
(* The rest of the system: the session's runs and its host                 *)

(* deriveIndex: the entry of the run leaves its place (no two entries are  *)
(* of one run) and goes to the end unless the run is over.                 *)
Without(i) == SubSeq(entries, 1, i - 1) \o SubSeq(entries, i + 1, Len(entries))

Committed(i) == Append(Without(i), entries[i])

First == IF entries = <<>> THEN NoRun ELSE entries[1].run

Entries == {entries[i] : i \in DOMAIN entries}

(* durableWorkflowKind: the workflows that have runs. *)
Durable == {"start_work", "ulw_loop"}

CreateRun(workflow) ==
    /\ runs < MaxRuns /\ \A e \in Entries : e.workflow # workflow
    /\ entries' = Append(entries, [workflow |-> workflow, run |-> runs + 1])
    /\ runs' = runs + 1 /\ Rearm
    /\ UNCHANGED <<record, counter, memory, turn, inputs, commands, faults, grants, streak>>

CommitRun ==
    /\ \E i \in DOMAIN entries : entries' = Committed(i)
    /\ UNCHANGED <<record, counter, memory, host, history>>

EndRun ==
    /\ \E i \in DOMAIN entries : entries' = Without(i)
    /\ Rearm
    /\ UNCHANGED <<record, counter, memory, host, grants, streak>>

(* The process dies: the files are what is left. *)
Restart ==
    /\ commands + faults < MaxUpsets /\ faults' = faults + 1
    /\ pending' = {} /\ suppression' = NoText
    /\ command' = Idle /\ start' = Idle /\ stop' = Idle /\ stable' = FALSE
    /\ UNCHANGED <<files, turn, inputs, runs, commands, grants, standing, streak>>

-----------------------------------------------------------------------------
(* input: recordInput, with the source the host says the text is from      *)

(* matchActivation: the one workflow whose command the text names; the     *)
(* bare words count only in a text that names no command.                  *)
matchActivation(text) ==
    IF Names[text] # {}
    THEN {workflow \in Names[text] : Names[text] = {workflow}}
    ELSE IF text \in Bare THEN {"ultrawork"} ELSE {}

RecordInput(text) ==
    /\ inputs < MaxInputs /\ inputs' = inputs + 1
    /\ pending' = IF text \in Messages \cup {Continue} THEN {}
                  ELSE {[text |-> text, workflow |-> workflow, input |-> inputs + 1] :
                        workflow \in matchActivation(text)}
    /\ UNCHANGED <<files, suppression, command, start, stop, turn, runs, commands, faults, history>>

-----------------------------------------------------------------------------
(* before_agent_start                                                      *)

Quiet == [at |-> "scope", workflow |-> NoWorkflow]

InCommand == command # Idle

(* Slip: the token stays. *)
ConsumeKeep(text, next) ==
    /\ start = Idle /\ stop = Idle /\ turn' = next
    /\ suppression' = NoText
    /\ \E token \in pending :
          /\ suppression # text
          /\ token.text = text /\ ~InCommand
          /\ start' = [at |-> "active", workflow |-> token.workflow, input |-> token.input]
    /\ UNCHANGED <<files, pending, command, stop, inputs, runs, commands, faults, history>>

(* consumeBeforeAgentStart up to its first await.  A suppressed prompt is  *)
(* quiet and leaves the token where it is; any other takes the token,      *)
(* which counts if this prompt is the input's and no command is running.   *)
Consume(text, next) ==
    /\ start = Idle /\ stop = Idle /\ turn' = next
    /\ suppression' = NoText
    /\ pending' = IF suppression = text THEN pending ELSE {}
    /\ start' \in
         LET heard == {token \in pending : suppression # text /\ token.text = text /\ ~InCommand}
         IN IF heard = {} THEN {Quiet}
            ELSE {[at |-> "active", workflow |-> token.workflow, input |-> token.input] :
                  token \in heard}
    /\ UNCHANGED <<files, command, stop, inputs, runs, commands, faults, history>>

(* isActive: a workflow the session has a run of is not announced. *)
CheckActive ==
    /\ start.at = "active"
    /\ start' = IF start.workflow \in Durable /\ \E e \in Entries : e.workflow = start.workflow
                THEN Quiet
                ELSE [at |-> "recorded", workflow |-> start.workflow, input |-> start.input]
    /\ UNCHANGED <<files, pending, suppression, command, stop, host, history>>

(* The record of another run still counts while the session has none. *)
isDirectiveAlreadyActivated(workflow, run) ==
    \E rec \in record : rec.workflow = workflow /\ (rec.run = run \/ run = NoRun)

(* The decision: currentRunId, the session's first entry, and the record. *)
CheckRecord ==
    /\ start.at = "recorded"
    /\ IF isDirectiveAlreadyActivated(start.workflow, First)
       THEN start' = Quiet /\ UNCHANGED grants
       ELSE /\ start' = [at |-> "scope", workflow |-> start.workflow]
            /\ grants' = [grants EXCEPT ![start.input] = @ + 1]
    /\ UNCHANGED <<files, pending, suppression, command, stop, host, standing, stable, streak>>

(* resolveCurrentRunScope: with two runs, none is current. *)
CurrentScope == IF Len(entries) = 1 THEN First ELSE NoRun

(* resolveDirective: the skill of the activated workflow, if there is an   *)
(* activation and its file can be read.                                    *)
resolveDirective(workflow, readable) == {w \in {workflow} \ {NoWorkflow} : readable}

ResolveScope(readable) ==
    /\ start.at = "scope"
    /\ LET directive == resolveDirective(start.workflow, readable)
       IN /\ start' \in IF directive = {} THEN {Idle}
                        ELSE [at : {"record"}, workflow : directive, run : {CurrentScope}]
          /\ stable' = (directive # {})
    /\ UNCHANGED <<files, pending, suppression, command, stop, host, grants, standing, streak>>

(* Slip: the record does not say which run it is for. *)
RecordDirectiveNoRun(lost) ==
    /\ start.at = "record"
    /\ lost => commands + faults < MaxUpsets
    /\ faults' = faults + IF lost THEN 1 ELSE 0
    /\ record' = IF lost THEN record ELSE {[workflow |-> start.workflow, run |-> NoRun]}
    /\ standing' = IF stable /\ ~lost THEN start.workflow ELSE NoWorkflow
    /\ start' = Idle /\ stable' = FALSE
    /\ UNCHANGED <<entries, counter, pending, suppression, command, stop, turn, inputs, runs, commands,
                   grants, streak>>

(* recordDirectiveActivation, whose errors are swallowed; the directive is *)
(* injected either way.                                                    *)
RecordDirective(lost) ==
    /\ start.at = "record"
    /\ lost => commands + faults < MaxUpsets
    /\ faults' = faults + IF lost THEN 1 ELSE 0
    /\ record' = IF lost THEN record ELSE {[workflow |-> start.workflow, run |-> start.run]}
    /\ standing' = IF stable /\ ~lost THEN start.workflow ELSE NoWorkflow
    /\ start' = Idle /\ stable' = FALSE
    /\ UNCHANGED <<entries, counter, pending, suppression, command, stop, turn, inputs, runs, commands,
                   grants, streak>>

-----------------------------------------------------------------------------
(* A slash command that sends its message: suppressNext and runCommand,    *)
(* which has the session in #commands until the message is sent            *)

Command(text) ==
    /\ command = Idle /\ commands + faults < MaxUpsets /\ commands' = commands + 1
    /\ suppression' = text /\ command' = [at |-> "running"]
    /\ UNCHANGED <<files, pending, start, stop, turn, inputs, runs, faults, history>>

(* clearDirectiveActivation, whose errors are swallowed too. *)
ClearRecord ==
    /\ command.at = "running" /\ command' = [at |-> "cleared"]
    /\ record' = {} /\ Rearm
    /\ UNCHANGED <<entries, counter, pending, suppression, start, stop, host, grants, streak>>

SendMessage ==
    /\ command.at = "cleared" /\ command' = Idle
    /\ UNCHANGED <<files, pending, suppression, start, stop, host, history>>

-----------------------------------------------------------------------------
(* session_stop: handleSessionStop                                         *)

(* The deadline fence, or an error: no continuation from wherever it is. *)
Expire ==
    /\ stop # Idle /\ stop' = Idle
    /\ UNCHANGED <<files, pending, suppression, command, start, host, history>>

(* coordinator.handle commits an attempt of the run it continues (a quiet  *)
(* answer ends the handler): WorkflowSessions has what happens inside.     *)
Handle ==
    /\ start = Idle /\ stop = Idle
    /\ \E i \in DOMAIN entries : entries' = Committed(i)
    /\ stop' = [at |-> "run"]
    /\ UNCHANGED <<record, counter, pending, suppression, command, start, host, history>>

(* resolveActiveRunId, the session's first entry or "unknown" without one, *)
(* and readContinuationCounter, which no one else writes.                  *)
ReadCounter ==
    /\ stop.at = "run" /\ stop' = [at |-> "budget", run |-> First, counter |-> counter]
    /\ UNCHANGED <<files, pending, suppression, command, start, host, history>>

(* The counter that was read, if it is about this run and turn. *)
Current(read, run) == {c \in read : c.run = run /\ c.turn = turn}

(* Slip: one continuation too many. *)
checkBudgetLate(read, run) == \A c \in Current(read, run) : c.count <= MAX_IDLE_CONTINUATIONS

checkBudget(read, run) == \A c \in Current(read, run) : c.count < MAX_IDLE_CONTINUATIONS

incrementCounter(read, run) ==
    IF Current(read, run) = {} THEN {[run |-> run, turn |-> turn, count |-> 1, exhausted |-> FALSE]}
    ELSE {[c EXCEPT !.count = @ + 1] : c \in read}

exhaustedCounter(read) == {[c EXCEPT !.exhausted = TRUE] : c \in read}

(* writeContinuationCounter: a lost write is not noticed.  A refused stop  *)
(* is over.                                                                *)
WriteCounter(lost) ==
    /\ stop.at = "budget"
    /\ lost => commands + faults < MaxUpsets
    /\ faults' = faults + IF lost THEN 1 ELSE 0
    /\ LET allowed == checkBudget(stop.counter, stop.run)
           new == IF allowed THEN incrementCounter(stop.counter, stop.run)
                  ELSE exhaustedCounter(stop.counter)
       IN /\ counter' = IF lost THEN counter ELSE new
          /\ stop' = IF allowed THEN [at |-> "emit"] ELSE Idle
    /\ streak' = IF streak.run = stop.run /\ streak.turn = turn THEN streak
                 ELSE [run |-> stop.run, turn |-> turn, emitted |-> 0]
    /\ UNCHANGED <<entries, record, pending, suppression, command, start, turn, inputs, runs, commands,
                   grants, standing, stable>>

(* suppressNext for the text that is going to be injected, and the answer. *)
Emit ==
    /\ stop.at = "emit" /\ stop' = Idle
    /\ suppression' = Continue
    /\ streak' = [streak EXCEPT !.emitted = @ + 1]
    /\ UNCHANGED <<files, pending, command, start, host, grants, standing, stable>>

Next ==
    \/ \E workflow \in Durable : CreateRun(workflow)
    \/ CommitRun \/ EndRun \/ Restart
    \/ \E text \in Texts : RecordInput(text)
    \/ \E text \in Texts, next \in turn..(turn + 1) : next <= MaxTurns /\ Consume(text, next)
    \/ CheckActive \/ CheckRecord
    \/ \E readable \in BOOLEAN : ResolveScope(readable)
    \/ \E lost \in BOOLEAN : RecordDirective(lost) \/ WriteCounter(lost)
    \/ \E text \in Messages : Command(text)
    \/ ClearRecord \/ SendMessage
    \/ Expire \/ Handle \/ ReadCounter \/ Emit

Spec == Init /\ [][Next]_vars

-----------------------------------------------------------------------------
(* Properties                                                              *)

(* However prompts, inputs and commands interleave, one input is announced *)
(* at most once.                                                           *)
OneActivationPerInput == \A i \in 1..MaxInputs : grants[i] <= 1

(* "Record the activation durably so it won't re-inject on subsequent      *)
(* turns": with at most one run, the directive that was injected last is   *)
(* not injected again, not even after a restart, until a run begins or     *)
(* ends, a command is run or the record is lost.                           *)
DirectiveStands ==
    [][\A lost \in BOOLEAN : RecordDirective(lost) /\ Len(entries) <= 1 =>
          standing # start.workflow]_vars

(* For one run and turn at most MAX_IDLE_CONTINUATIONS continuations are   *)
(* emitted, restarts and cut-off stops included, but for one more with     *)
(* every counter write that is lost.                                       *)
ContinuationsBounded == streak.emitted <= MAX_IDLE_CONTINUATIONS + faults
=============================================================================
