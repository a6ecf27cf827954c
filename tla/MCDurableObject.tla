--------------------------- MODULE MCDurableObject --------------------------
(* Instances of DurableObject for TLC. *)
EXTENDS DurableObject, TLC

\* The object is down, its mailbox empty and the work of its queues done.
Terminating ==
    /\ ~alive /\ mailbox = <<>> /\ \A l \in Lives : queue[l] = <<>>
    /\ UNCHANGED vars

MCSpec == Init /\ [][Next \/ Terminating]_vars

MCFairSpec == MCSpec /\ Fairness

Symmetry == Permutations(Events)

=============================================================================
