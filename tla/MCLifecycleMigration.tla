------------------------ MODULE MCLifecycleMigration ------------------------
(***************************************************************************)
(* LifecycleMigration for TLC: a legacy state of three files, and the      *)
(* events of two later commits.                                            *)
(***************************************************************************)
EXTENDS LifecycleMigration

PublishOrder == <<"task-facts", "event-2", "event-3", "run", "active">>
=============================================================================
