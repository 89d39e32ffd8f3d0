----------------------------- MODULE AtomicLog ------------------------------
(***************************************************************************)
(* What the transaction store promises its readers: a log of events that   *)
(* take effect one at a time and at most once, each written against the    *)
(* log it extends, and a view of the live runs in which an event changes   *)
(* its own run only.                                                       *)
(***************************************************************************)
EXTENDS Naturals, Sequences

VARIABLES
    log,    \* the events that have taken effect
    view    \* the index entries of the live runs

(* What a view says of runs other than r. *)
Others(v, r) == {entry \in v : entry.runId # r}

LogInit == log = <<>> /\ view = {}

(* The next event takes effect. *)
TakeEffect ==
    /\ Len(log') = Len(log) + 1
    /\ \A i \in 1 .. Len(log) : log'[i] = log[i]
    /\ LET e == log'[Len(log')]
       IN /\ e.expected.indexRevision = Len(log)
          /\ \A i \in 1 .. Len(log) : log[i].eventId # e.eventId
          /\ Others(view', e.runId) = Others(view, e.runId)

LogSpec == LogInit /\ [][TakeEffect]_<<log, view>>
=============================================================================
