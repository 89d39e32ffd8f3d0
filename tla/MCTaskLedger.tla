---------------------------- MODULE MCTaskLedger ----------------------------
(***************************************************************************)
(* TaskLedger for TLC: two task calls, of which the second does not fit    *)
(* beside a large first one, and one control of their workers.             *)
(***************************************************************************)
EXTENDS TaskLedger

CONSTANTS c1, c2, c3

Symmetry == Permutations(Sessions) \cup Permutations(Runs)

Task(n) == [kind |-> "task", items |-> n]
Control(control, targets) == [kind |-> "control", control |-> control, targets |-> targets]

CallOffers ==
    (c1 :> {Task(1), Task(2)}) @@ (c2 :> {Task(1)}) @@
    (c3 :> {Control("job_snapshot", {}), Control("job_cancel", {<<c1, 1>>}),
            Control("irc_send", {<<c1, 1>>}), Control("irc_target", {}), [kind |-> "denied"],
            [kind |-> "hub_wait", jobs |-> {}, agents |-> {<<c1, 1>>}]})

(* All the workers of the first task if it has one item, not all if two. *)
HostReports == [about : {{<<c1, 1>>}}, status : {"completed"}]
=============================================================================
