------------------------------ MODULE MCGuards ------------------------------
(* Instances of Guards for TLC. *)
EXTENDS Guards

Cold == [r \in Requests |-> "cold"]
\* One of them comes to a warm context, the others are ready.
OneWarm ==
    LET warm == CHOOSE q \in Requests : TRUE
    IN  [r \in Requests |-> IF r = warm THEN "new" ELSE "ready"]

Ready == [r \in Requests |-> "ready"]

\* What still matters: of the guards and the flags, those of the ids in use; of
\* a turn, what it has not overwritten; of the outcomes, a failed set-up.
View ==
    LET live == {r \in Requests : phase[r] # "done"}
        ids  == {IdOf(r) : r \in live}
        held == {wall[r] : r \in live}
        queued == {deadlines[i] : i \in DOMAIN deadlines}
    IN  <<phase, runner, stage,
          IF stage \in {"over", "disarmed", "counted", "ended", "verdict"} THEN result ELSE "exit",
          holder, terminating, memory_limit_hit, memory_hit, deadlines, due, flagged,
          triggered \cap held, passed \cap (held \cup queued),
          ids \cap {g[1] : g \in passed}, wall, made, hit, cpu,
          IF runner = None THEN <<>> ELSE <<turn_started, timer>>,
          [r \in {q \in live : IdOf(q) \in targets} |-> <<remaining[r], used[r]>>],
          targets, signals, signal,
          terminated \cap (ids \cup IF signal = None THEN {} ELSE {signal[1]}),
          overran, cut \cap ids, stopped, {r \in Requests : outcome[r] = "init"}>>

\* Every request is through, or is a socket that waits and whose turns the bound
\* has used up.
Terminating ==
    /\ \A r \in Requests :
          \/ phase[r] = "done"
          \/ phase[r] = "socket" /\ runner = None /\ wall_limit /\ made[r] + 1 >= MaxGuards
    /\ UNCHANGED vars

MCSpec == Init /\ [][Next \/ Terminating]_vars
=============================================================================
