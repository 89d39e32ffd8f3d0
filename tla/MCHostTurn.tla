----------------------------- MODULE MCHostTurn -----------------------------
(***************************************************************************)
(* HostTurn for TLC: a prompt with the word ultrawork, one that names the  *)
(* command of start_work, one that names two commands and so none, the     *)
(* message of the ultrawork command, which names it too, and a             *)
(* continuation, which names none.                                         *)
(***************************************************************************)
EXTENDS HostTurn

CommandNames ==
    [text \in Texts |->
        CASE text = "command-ultrawork" -> {"ultrawork"}
          [] text = "ask-start-work" -> {"start_work"}
          [] text = "ask-which" -> {"start_work", "ultrawork"}
          [] OTHER -> {}]
=============================================================================
