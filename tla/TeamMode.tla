------------------------------ MODULE TeamMode ------------------------------
(***************************************************************************)
(* Team mode: the reservation of a team (commands/team-reservation-store)  *)
(* and its lifecycle (workflows/teammode-contract.ts), for one team name.  *)
(*                                                                         *)
(* Two files hold a team: team-reservations/<name>.json, which says what   *)
(* may be created, for which run, owner and HEAD, and teams/<name>.json,   *)
(* the roster.  create writes both, one after the other.  Every operation  *)
(* holds the repository lock and, but for create, writes one file, so it   *)
(* is one step; prepare reads the run and HEAD before it has the lock.     *)
(* Meanwhile runs are adopted and advance, HEAD moves, workers are         *)
(* dispatched, proven and accepted, and processes die.                     *)
(***************************************************************************)
EXTENDS Integers, FiniteSetsExt

CONSTANTS
    Sessions,     \* sessions; each may own a run
    Runs,         \* runs
    Definitions,  \* team definitions of the one name
    Heads,        \* commits
    MaxCommits,      \* bound: commits of runs
    MaxDispatch,     \* bound: tasks dispatched
    MaxTears         \* bound: creates that are cut short

ASSUME TeamAssumption == MaxCommits \in Nat /\ MaxDispatch \in Nat /\ MaxTears \in Nat

VARIABLES
    run,          \* run[r]: owner, epoch, revision, attempt, expectedHead
    head,         \* HEAD of the repository
    tasks,        \* tasks[r]: what the task ledger says of its newest dispatch
    accepted,     \* worker acceptances, of a whole roster at a time
    reservation,  \* the reservation file, or nothing
    team,         \* the roster file, or nothing
    cmd,          \* cmd[s]: the prepare or create a session is in
    made,         \* teams created from the reservation (for the properties)
    torn          \* creates that died between their two writes

files == <<reservation, team>>
world == <<run, head, tasks, accepted>>
teamVars == <<run, head, tasks, accepted, reservation, team, cmd, made, torn>>

Nothing == {}
Unbound == [generation |-> 0, run |-> "none"]

(* The fields a reservation id is the hash of. *)
ReservationId(res) == <<res.run, res.owner, res.epoch, res.head, res.definition>>

Idle == [at |-> "idle"]

TeamInit ==
    /\ \E owner \in [Runs -> Sessions], h \in Heads :
          /\ \A r1, r2 \in Runs : owner[r1] = owner[r2] => r1 = r2
          /\ run = [r \in Runs |-> [owner |-> owner[r], epoch |-> 1, revision |-> 0, attempt |-> 0,
                                   expectedHead |-> h]]
          /\ head = h
    /\ tasks = [r \in Runs |-> [generation |-> 0, proven |-> FALSE, fits |-> FALSE]]
    /\ accepted = {}
    /\ reservation = Nothing /\ team = Nothing
    /\ cmd = [s \in Sessions |-> Idle]
    /\ made = 0 /\ torn = 0

-----------------------------------------------------------------------------
(* The rest of the system                                                  *)

(* Everything but git holds the repository lock, which a create that is    *)
(* between its two writes still has.                                       *)
Unlocked == \A s \in Sessions : cmd[s].at # "consuming"

Commits == MapThenSumSet(LAMBDA r : run[r].revision, Runs)
Dispatches == MapThenSumSet(LAMBDA r : tasks[r].generation, Runs)

(* A run is committed: it makes progress at the present HEAD, goes to      *)
(* another session, or neither (a checkpoint, a pause, a continuation).    *)
Commit(r, new) ==
    /\ Unlocked /\ Commits < MaxCommits
    /\ run' = [run EXCEPT ![r] = [new EXCEPT !.revision = @ + 1]]
    /\ UNCHANGED <<head, accepted, files, cmd, made, torn>>

Advance(r) == Commit(r, [run[r] EXCEPT !.attempt = @ + 1, !.expectedHead = head]) /\ UNCHANGED tasks

Touch(r) == Commit(r, run[r]) /\ UNCHANGED tasks

(* The task ledger of an adopted run starts anew. *)
Adopt(r, s) ==
    /\ Commit(r, [run[r] EXCEPT !.owner = s, !.epoch = @ + 1])
    /\ tasks' = [tasks EXCEPT ![r].proven = FALSE, ![r].fits = FALSE]

MoveHead == head' \in Heads \ {head} /\ UNCHANGED <<run, tasks, accepted, files, cmd, made, torn>>

(* A task call of the owner, whose workers are those the roster asks for   *)
(* or are not; a job snapshot proves them; the parent accepts them all.    *)
Dispatch(r) ==
    /\ Unlocked /\ Dispatches < MaxDispatch
    /\ \E fits \in BOOLEAN :
          tasks' = [tasks EXCEPT ![r] = [generation |-> @.generation + 1, proven |-> FALSE, fits |-> fits]]
    /\ UNCHANGED <<run, head, accepted, files, cmd, made, torn>>

Prove(r) ==
    /\ Unlocked /\ tasks[r].generation > 0 /\ ~tasks[r].proven
    /\ tasks' = [tasks EXCEPT ![r].proven = TRUE]
    /\ UNCHANGED <<run, head, accepted, files, cmd, made, torn>>

Acceptance(r) ==
    [run |-> r, generation |-> tasks[r].generation, attempt |-> run[r].attempt,
     revision |-> run[r].revision, owner |-> run[r].owner, epoch |-> run[r].epoch]

Accept(r) ==
    /\ Unlocked /\ tasks[r].proven /\ tasks[r].fits
    /\ accepted' = accepted \cup {Acceptance(r)}
    /\ UNCHANGED <<run, head, tasks, files, cmd, made, torn>>

(* The runs a session is the current parent of: with two, of neither. *)
Owned(s) == {r \in Runs : run[r].owner = s}
Parent(s) == {r \in Owned(s) : Owned(s) = {r}}

-----------------------------------------------------------------------------
(* /teammode prepare and create                                            *)

(* prepare reads the session's run and HEAD, which must be the run's. *)
Prepare(s, d) ==
    /\ cmd[s] = Idle
    /\ \E r \in Parent(s) :
          /\ run[r].expectedHead = head
          /\ cmd' = [cmd EXCEPT ![s] = [at |-> "reserving",
                       reservation |-> [run |-> r, owner |-> s, epoch |-> run[r].epoch, head |-> head,
                                        definition |-> d, consumed |-> FALSE]]]
    /\ UNCHANGED <<world, files, made, torn>>

(* prepareTeamReservation: the first one stays; the same again is fine,    *)
(* anything else an idempotency_conflict.                                  *)
Reserve(s) ==
    /\ cmd[s].at = "reserving" /\ Unlocked
    /\ reservation' = IF reservation = Nothing THEN {cmd[s].reservation} ELSE reservation
    /\ cmd' = [cmd EXCEPT ![s] = Idle]
    /\ UNCHANGED <<world, team, made, torn>>

(* What consumeTeamReservation asks of the reservation under the lock: it  *)
(* names a run this session owns, in the same epoch and at the same HEAD.  *)
Consumable(s, res) ==
    /\ run[res.run].owner = s
    /\ run[res.run].epoch = res.epoch
    /\ run[res.run].expectedHead = res.head

Roster(r, d) ==
    [run |-> r, attempt |-> run[r].attempt, status |-> "initializing",
     definition |-> d, bound |-> Unbound, acceptance |-> FALSE]

(* Slip: a roster that is there already is not looked for. *)
CreateOver(s) ==
    /\ cmd[s] = Idle /\ Unlocked
    /\ \E res \in reservation :
          /\ Consumable(s, res) /\ head = res.head /\ ~res.consumed
          /\ team' = {Roster(res.run, res.definition)}
    /\ made' = made + 1
    /\ cmd' = [cmd EXCEPT ![s] = [at |-> "consuming"]]
    /\ UNCHANGED <<world, reservation, torn>>

(* consumeTeamReservation up to its first write.  A roster that is there   *)
(* already is answered, or refused if its definition differs; no write.    *)
Create(s) ==
    /\ cmd[s] = Idle /\ Unlocked
    /\ team = Nothing
    /\ \E res \in reservation :
          /\ Consumable(s, res) /\ head = res.head /\ ~res.consumed
          /\ team' = {Roster(res.run, res.definition)}
    /\ made' = made + 1
    /\ cmd' = [cmd EXCEPT ![s] = [at |-> "consuming"]]
    /\ UNCHANGED <<world, reservation, torn>>

(* Slip: the reservation is left as it was. *)
ConsumeNot(s) ==
    /\ cmd[s].at = "consuming"
    /\ cmd' = [cmd EXCEPT ![s] = Idle]
    /\ UNCHANGED <<world, files, made, torn>>

(* ... and its second. *)
Consume(s) ==
    /\ cmd[s].at = "consuming"
    /\ reservation' = {[res EXCEPT !.consumed = TRUE] : res \in reservation}
    /\ cmd' = [cmd EXCEPT ![s] = Idle]
    /\ UNCHANGED <<world, team, made, torn>>

(* The process dies, or the deadline passes, before the second write. *)
Tear(s) ==
    /\ cmd[s].at = "consuming" /\ torn < MaxTears
    /\ torn' = torn + 1
    /\ cmd' = [cmd EXCEPT ![s] = Idle]
    /\ UNCHANGED <<world, files, made>>

-----------------------------------------------------------------------------
(* TeammodeContract: #transact finds the caller's run, reads the roster,   *)
(* decides and replaces it                                                 *)

(* TeamStateSchema: what a roster in each status must have. *)
TeamDecodes(t) ==
    /\ t.status = "initializing" => t.bound = Unbound /\ ~t.acceptance
    /\ t.status \in {"active", "completed"} => t.bound # Unbound
    /\ t.status = "completed" \/ (t.status = "archived" /\ t.bound # Unbound) => t.acceptance

Replace(new) == TeamDecodes(new) /\ team' = {new}

(* A step of session s on roster t, the caller being parent of run r. *)
Step(s, r, t) == cmd[s] = Idle /\ Unlocked /\ r \in Parent(s) /\ t \in team

Initialize(s, d) ==
    /\ cmd[s] = Idle /\ Unlocked /\ team = Nothing
    /\ \E r \in Parent(s) : team' = {Roster(r, d)}
    /\ UNCHANGED <<world, reservation, cmd, made, torn>>

(* Every member is one proven worker of the newest dispatch. *)
Bind(s, r, t) ==
    /\ Step(s, r, t) /\ t.status = "initializing"
    /\ tasks[r].proven /\ tasks[r].fits
    /\ Replace([t EXCEPT !.status = "active",
                            !.bound = [generation |-> tasks[r].generation, run |-> r]])
    /\ UNCHANGED <<world, reservation, cmd, made, torn>>

(* Slip: an acceptance of another attempt or epoch will do. *)
CompleteAnyAttempt(s, r, t) ==
    /\ Step(s, r, t) /\ t.status = "active" /\ t.run = r
    /\ \E a \in accepted : a.run = r /\ a.generation = t.bound.generation
    /\ Replace([t EXCEPT !.status = "completed", !.acceptance = TRUE])
    /\ UNCHANGED <<world, reservation, cmd, made, torn>>

(* Every member's result was accepted, in this attempt, by this owner, in  *)
(* the newest dispatch, and is that of the worker bound.                   *)
Complete(s, r, t) ==
    /\ Step(s, r, t) /\ t.status = "active" /\ t.run = r /\ t.attempt = run[r].attempt
    /\ Acceptance(r) \in accepted
    /\ t.bound = [generation |-> tasks[r].generation, run |-> r]
    /\ Replace([t EXCEPT !.status = "completed", !.acceptance = TRUE])
    /\ UNCHANGED <<world, reservation, cmd, made, torn>>

Archive(s, r, t) ==
    /\ Step(s, r, t) /\ t.status \in {"completed", "cancelled"}
    /\ Replace([t EXCEPT !.status = "archived"])
    /\ UNCHANGED <<world, reservation, cmd, made, torn>>

Cancel(s, r, t) ==
    /\ Step(s, r, t) /\ t.status \in {"initializing", "active"}
    /\ Replace([t EXCEPT !.status = "cancelled"])
    /\ UNCHANGED <<world, reservation, cmd, made, torn>>

Resume(s, r, t) ==
    /\ Step(s, r, t) /\ t.status = "cancelled"
    /\ Replace([t EXCEPT !.status = "initializing", !.bound = Unbound, !.acceptance = FALSE])
    /\ UNCHANGED <<world, reservation, cmd, made, torn>>

(* The tombstone reads as no roster. *)
Delete(s, r, t) ==
    /\ Step(s, r, t) /\ t.status = "archived"
    /\ team' = Nothing
    /\ UNCHANGED <<world, reservation, cmd, made, torn>>

Change(s, r, t) ==
    \/ Bind(s, r, t) \/ Complete(s, r, t) \/ Archive(s, r, t) \/ Cancel(s, r, t)
    \/ Resume(s, r, t) \/ Delete(s, r, t)

TeamNext ==
    \/ MoveHead
    \/ \E r \in Runs : Advance(r) \/ Touch(r) \/ Dispatch(r) \/ Prove(r) \/ Accept(r) \/ \E s \in Sessions : Adopt(r, s)
    \/ \E s \in Sessions :
          \/ \E d \in Definitions : Prepare(s, d) \/ Initialize(s, d)
          \/ Reserve(s) \/ Create(s) \/ Consume(s) \/ Tear(s)
          \/ \E r \in Runs, t \in team : Change(s, r, t)

TeamSpec == TeamInit /\ [][TeamNext]_teamVars

-----------------------------------------------------------------------------
(* Properties                                                              *)

(* A completed team, archived or not, was bound to workers whose results   *)
(* the parent accepted in the team's own attempt: neither an earlier       *)
(* dispatch, an earlier attempt nor a resumed roster's old workers count.  *)
CompletedIsAccepted ==
    \A t \in team : t.acceptance =>
       \E a \in accepted : a.run = t.run /\ a.attempt = t.attempt /\ a.generation = t.bound.generation

(* Work that is under way is never thrown away: an active roster stays the *)
(* same team until its workers are accepted or it is cancelled, a          *)
(* completed one until it is archived, and neither create, a repeated      *)
(* create nor initialize starts it again.                                  *)
RosterIsKept ==
    [][\A t \in team : t.status \in {"active", "completed"} =>
          \E new \in team' :
             /\ <<new.run, new.attempt, new.definition, new.bound>> = <<t.run, t.attempt, t.definition, t.bound>>
             /\ t.status = "active" => new.status \in {"active", "completed", "cancelled"}
             /\ t.status = "completed" => new.status \in {"completed", "archived"} /\ new.acceptance]_teamVars

(* The interrupted create is the only way to a second team from the same   *)
(* reservation: the reservation is spent once, however often the team is   *)
(* archived, deleted and created again.                                    *)
ReservationIsSpent == made <= 1 + torn

=============================================================================
