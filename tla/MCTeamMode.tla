----------------------------- MODULE MCTeamMode -----------------------------
(***************************************************************************)
(* TeamMode for TLC: two sessions with a run each, which either may adopt. *)
(***************************************************************************)
EXTENDS TeamMode, TLC

Symmetric == Permutations(Sessions) \cup Permutations(Runs) \cup Permutations(Heads)
=============================================================================
