----------------------------- MODULE MCStreams ------------------------------
(* Instances of Streams for TLC. *)
EXTENDS Streams

OneThenNone == <<1, 0>>
OneEach     == <<1, 1>>

\* The context is kept with no request to come, or gone: its tasks may be all
\* that still runs, and end.
Terminating == stage # "serving" /\ (stage = "kept" => request = N) /\ UNCHANGED vars

MCSpec == Init /\ [][Next \/ Terminating]_vars

MCFairSpec == MCSpec /\ Fairness

=============================================================================
