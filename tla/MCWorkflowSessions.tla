------------------------ MODULE MCWorkflowSessions ------------------------
(***************************************************************************)
(* WorkflowSessions for TLC.                                               *)
(***************************************************************************)
EXTENDS WorkflowSessions

OneTask == <<"t1">>

(* One session works, the other interferes and takes over. *)
WorkOps ==
    [s1 |-> {"start_work", "ulw_loop", "pause", "resume", "reconcile", "steer", "checkpoint",
             "stop"},
     s2 |-> {"adopt", "pause", "cancel", "stop"}]

(* Two sessions with a run each. *)
AdoptOps == [s1 |-> {"ulw_loop", "pause"}, s2 |-> {"ulw_loop", "adopt"}]
=============================================================================
