---------------------------- MODULE MCWebSocket -----------------------------
(* WebSocket for TLC, alone: one request that makes a pair. *)
EXTENDS WebSocket

MCScripts == {[kinds |-> <<"pair">>, requests |-> 1, frames |-> 0, messages |-> 0, hangs |-> 0]}

\* The context is dropped: nothing more happens in it.
Terminating == phase = "gone" /\ UNCHANGED vars

MCSpec == Init /\ [][Next \/ Terminating]_vars

MCFairSpec == MCSpec /\ Fairness
=============================================================================
