----------------------------- MODULE MCRepoLock -----------------------------
(***************************************************************************)
(* RepoLock for TLC.                                                       *)
(***************************************************************************)
EXTENDS RepoLock
=============================================================================
