--------------------------- MODULE AcceptanceLog ----------------------------
(***************************************************************************)
(* What the acceptance ledger of a run promises to those who read it: a    *)
(* list that only grows, one acceptance at a time, each for the attempt    *)
(* and the task generation the run is at, none with the idempotency key of *)
(* an earlier one.  RunLifecycle's operator Accepted is such a step.       *)
(***************************************************************************)
EXTENDS Naturals, Sequences

VARIABLES
    log,        \* the acceptances
    attempt,    \* the run's progressRevision
    generation  \* its newest task dispatch

AcceptInit == log = <<>>

Accept ==
    /\ UNCHANGED <<attempt, generation>>
    /\ Len(log') = Len(log) + 1
    /\ \A i \in 1 .. Len(log) : log'[i] = log[i]
    /\ LET e == log'[Len(log')]
       IN /\ e.attempt = attempt /\ e.taskGeneration = generation
          /\ \A i \in 1 .. Len(log) : log[i].idempotencyKey # e.idempotencyKey

(* The run moves on. *)
Advance == UNCHANGED log

AcceptSpec == AcceptInit /\ [][Accept \/ Advance]_<<log, attempt, generation>>
=============================================================================
