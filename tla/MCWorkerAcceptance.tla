------------------------ MODULE MCWorkerAcceptance ------------------------
(***************************************************************************)
(* WorkerAcceptance for TLC: one worker, whose results are current, late,  *)
(* broken, changed under the same key, and waved through by its parent.    *)
(***************************************************************************)
EXTENDS WorkerAcceptance

Offer(artifact, ofAttempt, valid, decision) ==
    [agent |-> "w", artifact |-> artifact, attempt |-> ofAttempt, generation |-> 1,
     commit |-> "h1", valid |-> valid, decision |-> decision]

WorkerOffers ==
    {Offer("x", 1, TRUE, "none"), Offer("x", 1, TRUE, "accept_after_review"),
     Offer("y", 1, TRUE, "none"), Offer("x", 2, TRUE, "none"),
     Offer("y", 1, FALSE, "retry_worker"), Offer("y", 2, FALSE, "none")}
=============================================================================
