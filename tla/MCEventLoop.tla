---------------------------- MODULE MCEventLoop -----------------------------
(* Scheduler and WebSocket for TLC. They are checked side by side: a behaviour is *)
(* one of the ops and the timers of a context, or one of its sockets.             *)
EXTENDS Scheduler

VARIABLES
    part,       \* what moves: "ops" or "sockets"
    w_request, w_hungUp, w_scheduler_rx, w_callback_rx, w_scope, w_cancelled_scopes,
    script, phase, upgrades, socket, next_ws, born, readyState, closing, accepted_js, connects,
    ws_event_callbacks, reader, heard, told, deaf, pairs, read, ws_commands, commands, task,
    task_scope, upgrade, accepted, early, asked, sent, wire

wVars ==
    <<w_request, w_hungUp, w_scheduler_rx, w_callback_rx, w_scope, w_cancelled_scopes,
      script, phase, upgrades, socket, next_ws, born, readyState, closing, accepted_js, connects,
      ws_event_callbacks, reader, heard, told, deaf, pairs, read, ws_commands, commands, task,
      task_scope, upgrade, accepted, early, asked, sent, wire>>

Of(kinds, r, f, m, h) ==
    [kinds |-> kinds, requests |-> r, frames |-> f, messages |-> m, hangs |-> h]

MCScripts ==
    {Of(<<"pair">>, 1, 2, 0, 0), Of(<<"pair">>, 1, 0, 1, 1), Of(<<"pair">>, 2, 0, 0, 0),
     Of(<<"client">>, 1, 1, 1, 1), Of(<<"client">>, 2, 0, 0, 0)}

W == INSTANCE WebSocket WITH
        Requests <- N, Scripts <- MCScripts,
        request <- w_request, hungUp <- w_hungUp, scheduler_rx <- w_scheduler_rx,
        callback_rx <- w_callback_rx, scope <- w_scope, cancelled_scopes <- w_cancelled_scopes

Script(ops, t, c) == [ops |-> ops, timers |-> t, clears |-> c]

MCPrograms ==
    {Script(<<"fetch", "kv">>, 0, 0), Script(<<"worker", "read">>, 0, 0),
     Script(<<"invoke", "invoke">>, 0, 0), Script(<<"assets">>, 0, 0), Script(<<"storage">>, 0, 0),
     Script(<<"object">>, 0, 0), Script(<<"database">>, 0, 0), Script(<<"d1">>, 0, 0),
     Script(<<>>, 1, 1)}

\* A part that does not move has one initial state.
MCInit ==
    /\ part \in {"ops", "sockets"}
    /\ Init /\ W!Init
    /\ part = "ops" => script = Of(<<"pair">>, 2, 0, 0, 0)
    /\ part = "sockets" => program = Script(<<>>, 1, 1)

MCNext ==
    \/ part = "ops" /\ Next /\ UNCHANGED wVars
    \/ part = "sockets" /\ W!Next /\ UNCHANGED vars

allVars == <<part, vars, wVars>>

\* The context is dropped: nothing more happens in it.
Terminating == (stage = "gone" \/ phase = "gone") /\ UNCHANGED allVars

MCSpec == MCInit /\ [][(MCNext /\ UNCHANGED part) \/ Terminating]_allVars

\* What does not move has no step that its fairness asks for.
MCFairSpec == MCSpec /\ Fairness /\ W!Fairness

-----------------------------------------------------------------------------
(* The properties of WebSocket *)

\* The frames of the guest go on the wire in the order it sent them, those it sent
\* before the client arrived first.
WireOrder == W!WireOrder

\* A socket tells only the request that accepted it, and of its end once and last.
EventsOwn == W!EventsOwn

\* A connected socket that ends while its context lives has told its peer.
PeerTold == W!PeerTold

\* A socket that the guest reads hears of its end once the caller hangs up.
CancelIsHeard == W!CancelIsHeard

\* A pair that the response does not carry does not wait for a socket for good.
PairsEnd == W!PairsEnd

\* The event of an upgrade ends once its socket has, if the guest was there to hear.
HeardSocketEnds == W!HeardSocketEnds
=============================================================================
