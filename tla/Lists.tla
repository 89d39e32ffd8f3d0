------------------------------- MODULE Lists -------------------------------
(***************************************************************************)
(* Arrays and their filters, as the components of a session use them.      *)
(* SelectSeq takes an operator, which no theorem can be about; here the    *)
(* elements to keep are a set.                                             *)
(***************************************************************************)
EXTENDS Integers, Sequences

Elements(s) == {s[i] : i \in DOMAIN s}

(* A filter: the elements that are among the chosen, in their order. *)
Chosen(s, chosen) ==
    LET kept[n \in 0 .. Len(s)] ==
            IF n = 0 THEN <<>>
            ELSE IF s[n] \in chosen THEN Append(kept[n - 1], s[n])
            ELSE kept[n - 1]
    IN  kept[Len(s)]
=============================================================================
