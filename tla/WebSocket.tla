------------------------------ MODULE WebSocket -----------------------------
(***************************************************************************)
(* The WebSockets of a context: the class of the guest and its natives     *)
(* (runtime/bindings/websocket.rs), the messages of the event loop and the *)
(* task of each socket (runtime/scheduler.rs), the dispatch of its events  *)
(* (dispatch_ws_event), and the part of exec that waits for the socket of  *)
(* an upgrade (execution_context.rs).                                      *)
(*                                                                         *)
(* A "pair" is the server end of a WebSocketPair: the response may carry   *)
(* it, and the runner then gives it the socket of the upgrade. A "client"  *)
(* is a socket the guest opens. The guest may act at any time of a         *)
(* request, as its timers and its other ops (module Scheduler) wake it;    *)
(* which requests are upgrades, the runner and the peers are external. A   *)
(* host that panics is in Scheduler, relays are not followed.              *)
(*                                                                         *)
(* A definition named X_Variant is a plausible mistake in X; no            *)
(* specification uses one.                                                 *)
(***************************************************************************)
EXTENDS Integers, Sequences, FiniteSets

CONSTANTS
    Requests,       \* bound: requests a context serves
    Scripts         \* what a guest makes: the kinds of its sockets in order, and the
                    \* bounds on its requests, on the frames and messages of a
                    \* socket, and on the callers that hang up

VARIABLES
    script,
    phase,          \* of exec: "event" to its response, "streams", "socket", "drain"
    request,
    upgrades,       \* the request is an upgrade
    hungUp,         \* its abort token is cancelled
    socket,         \* the socket of the upgrade, 0 for none
    next_ws,
    born,           \* history: the request that made the socket
    readyState,
    closing,        \* _closing: sockets closed while they connect
    accepted_js,    \* _accepted
    connects,       \* sockets whose connect callbacks wait
    ws_event_callbacks,
    reader,         \* history: the request that accepted the socket
    heard, told,    \* history: messages, and close events, the guest got
    deaf,           \* history: sockets whose close event found no callback
    scheduler_rx, callback_rx,
    scope, cancelled_scopes,
    pairs, read,    \* pairs the response can still carry; the response is read
    ws_commands,    \* sockets whose command channel the loop holds
    commands,       \* what is in it
    task,           \* "none", "connecting", "waiting", "pumping" or "ended"
    task_scope,
    upgrade, accepted, early,
    asked,          \* history: frames the guest sent
    sent,           \* history: frames on the wire, 0 for the close frame
    wire            \* history: "none" until connected, "up", "down" once the peer left

execVars  == <<script, phase, request, upgrades, hungUp, socket>>
guestVars == <<next_ws, born, readyState, closing, accepted_js, connects, ws_event_callbacks, reader, asked>>
toldVars  == <<heard, told, deaf>>
scopeVars == <<scope, cancelled_scopes>>
loopVars  == <<pairs, read, ws_commands>>
taskVars  == <<task, task_scope, upgrade, accepted, early, sent, wire>>
vars == <<execVars, guestVars, toldVars, scheduler_rx, callback_rx, scopeVars, loopVars, commands, taskVars>>

Sockets == UNION {1..Len(s.kinds) : s \in Scripts}

Init ==
    /\ script \in Scripts
    /\ phase = "idle" /\ request = 0 /\ upgrades = FALSE /\ hungUp = {} /\ socket = 0
    /\ next_ws = 1 /\ born = [s \in Sockets |-> 0]
    /\ readyState = [s \in Sockets |-> "none"]
    /\ closing = {} /\ accepted_js = {} /\ connects = {} /\ ws_event_callbacks = {}
    /\ reader = [s \in Sockets |-> 0]
    /\ heard = [s \in Sockets |-> 0] /\ told = [s \in Sockets |-> 0] /\ deaf = {}
    /\ scheduler_rx = <<>> /\ callback_rx = <<>>
    /\ scope = 0 /\ cancelled_scopes = {}
    /\ pairs = {} /\ read = FALSE /\ ws_commands = {}
    /\ commands = [s \in Sockets |-> <<>>]
    /\ task = [s \in Sockets |-> "none"] /\ task_scope = [s \in Sockets |-> 0]
    /\ upgrade = {} /\ accepted = {} /\ early = [s \in Sockets |-> <<>>]
    /\ asked = [s \in Sockets |-> 0] /\ sent = [s \in Sockets |-> <<>>]
    /\ wire = [s \in Sockets |-> "none"]

-----------------------------------------------------------------------------
(* The event: exec and trigger_fetch_event *)

Serving == phase \in {"event", "streams", "socket", "drain"}

\* What reset() clears of the sockets.
ClearSockets_KeepsEvents == connects' = {} /\ UNCHANGED ws_event_callbacks

ClearSockets == connects' = {} /\ ws_event_callbacks' = {}

Start ==
    /\ phase = "idle" /\ request < script.requests
    /\ phase' = "event" /\ request' = request + 1 /\ socket' = 0
    /\ upgrades' \in BOOLEAN
    /\ ClearSockets /\ callback_rx' = <<>>
    /\ deaf' = 1..(next_ws - 1)
    /\ scheduler_rx' = Append(scheduler_rx, [type |-> "BeginRequest", id |-> request + 1])
    /\ UNCHANGED <<script, hungUp, next_ws, born, readyState, closing, accepted_js, reader, asked,
                   heard, told, scopeVars, loopVars, commands, taskVars>>

HangUp ==
    /\ Serving /\ request \notin hungUp /\ Cardinality(hungUp) < script.hangs /\ hungUp' = hungUp \cup {request}
    /\ UNCHANGED <<script, phase, request, upgrades, socket, guestVars, toldVars, scheduler_rx,
                   callback_rx, scopeVars, loopVars, commands, taskVars>>

\* Whether the socket of the upgrade is open and the guest reads it.
SocketOpen == socket \in ws_event_callbacks

\* The response is read. It may carry a pair: of an upgrade, that becomes the socket
\* of the event; of any other request, it is refused and the event fails.
ReadResponse(carried) ==
    /\ phase = "event"
    /\ carried # 0 => carried < next_ws /\ script.kinds[carried] = "pair"
    /\ LET taken == IF upgrades THEN carried ELSE 0
       IN  /\ socket' = taken
           /\ phase' = IF taken = carried THEN "streams" ELSE "drain"
           /\ scheduler_rx' = Append(scheduler_rx, [type |-> "Upgrade", id |-> taken])
    /\ UNCHANGED <<script, request, upgrades, hungUp, guestVars, toldVars, callback_rx, scopeVars,
                   loopVars, commands, taskVars>>

\* A socket the guest never accepted has no reader, and closes with the event.
ClosesUnread ==
    scheduler_rx' = IF socket # 0 /\ ~SocketOpen
                    THEN Append(scheduler_rx, [type |-> "Close", id |-> socket]) ELSE scheduler_rx

\* The streams of the response are done. With a socket the event goes on ...
StreamsComplete ==
    /\ phase = "streams"
    /\ phase' = IF SocketOpen THEN "socket" ELSE "drain"
    /\ ClosesUnread
    /\ UNCHANGED <<script, request, upgrades, hungUp, socket, guestVars, toldVars, callback_rx,
                   scopeVars, loopVars, commands, taskVars>>

\* ... until it closes.
SocketClosed ==
    /\ phase = "socket" /\ ~SocketOpen
    /\ phase' = "drain" /\ ClosesUnread
    /\ UNCHANGED <<script, request, upgrades, hungUp, socket, guestVars, toldVars, callback_rx,
                   scopeVars, loopVars, commands, taskVars>>

\* The waitUntil work is done, and the context waits for the next request.
Drained ==
    /\ phase = "drain" /\ phase' = "idle"
    /\ UNCHANGED <<script, request, upgrades, hungUp, socket, guestVars, toldVars, scheduler_rx,
                   callback_rx, scopeVars, loopVars, commands, taskVars>>

\* The context is dropped: its loop is aborted, and lets go of the command channels,
\* before its guard cancels the scopes.
Drop ==
    /\ phase \notin {"dropping", "gone"} /\ request > 0 /\ phase' = "dropping"
    /\ scheduler_rx' = <<>> /\ callback_rx' = <<>> /\ ws_commands' = {}
    /\ UNCHANGED <<script, request, upgrades, hungUp, socket, guestVars, toldVars, scopeVars, pairs,
                   read, commands, taskVars>>

Dropped ==
    /\ phase = "dropping" /\ phase' = "gone" /\ cancelled_scopes' = 0..Requests
    /\ UNCHANGED <<script, request, upgrades, hungUp, socket, guestVars, toldVars, scheduler_rx,
                   callback_rx, scope, loopVars, commands, taskVars>>

-----------------------------------------------------------------------------
(* The guest: the WebSocket class and its natives *)

Guest == UNCHANGED <<execVars, toldVars, callback_rx, scopeVars, loopVars, commands, taskVars>>

Sends(m) == scheduler_rx' = Append(scheduler_rx, m)

Makes(kind, state) ==
    /\ Serving /\ next_ws <= Len(script.kinds) /\ script.kinds[next_ws] = kind
    /\ next_ws' = next_ws + 1
    /\ born' = [born EXCEPT ![next_ws] = request]
    /\ readyState' = [readyState EXCEPT ![next_ws] = state]
    /\ Guest /\ UNCHANGED <<closing, accepted_js, ws_event_callbacks, reader, asked>>

\* new WebSocketPair().
NativeWebSocketPair ==
    /\ Makes("pair", "OPEN") /\ Sends([type |-> "Pair", id |-> next_ws]) /\ UNCHANGED connects

\* new WebSocket(url).
NativeWebSocketConnect ==
    /\ Makes("client", "CONNECTING") /\ Sends([type |-> "Connect", id |-> next_ws])
    /\ connects' = connects \cup {next_ws}

\* accept(): the dispatcher is registered, whatever became of the socket.
NativeWebSocketAccept(s) ==
    /\ Serving /\ s < next_ws /\ script.kinds[s] = "pair" /\ s \notin accepted_js
    /\ accepted_js' = accepted_js \cup {s}
    /\ ws_event_callbacks' = ws_event_callbacks \cup {s}
    /\ reader' = [reader EXCEPT ![s] = request]
    /\ Sends([type |-> "Accept", id |-> s])
    /\ Guest /\ UNCHANGED <<next_ws, born, readyState, closing, connects, asked>>

\* send(): a socket that is not open discards it.
NativeWebSocketSend(s) ==
    /\ Serving /\ s < next_ws /\ readyState[s] = "OPEN" /\ asked[s] < script.frames
    /\ asked' = [asked EXCEPT ![s] = @ + 1]
    /\ Sends([type |-> "Send", id |-> s, frame |-> asked[s] + 1])
    /\ Guest /\ UNCHANGED <<next_ws, born, readyState, closing, accepted_js, connects,
                            ws_event_callbacks, reader>>

\* close(): a socket that connects is closed once it has connected.
NativeWebSocketClose(s) ==
    /\ Serving /\ s < next_ws /\ readyState[s] \in {"CONNECTING", "OPEN"}
    /\ readyState' = [readyState EXCEPT ![s] = "CLOSING"]
    /\ IF readyState[s] = "CONNECTING"
       THEN closing' = closing \cup {s} /\ UNCHANGED scheduler_rx
       ELSE Sends([type |-> "Close", id |-> s]) /\ UNCHANGED closing
    /\ Guest /\ UNCHANGED <<next_ws, born, accepted_js, connects, ws_event_callbacks, reader, asked>>

-----------------------------------------------------------------------------
(* The event loop: its messages about sockets *)

Loops == UNCHANGED <<execVars, guestVars, toldVars, callback_rx>>

Message(type) ==
    /\ scheduler_rx # <<>> /\ Head(scheduler_rx).type = type
    /\ scheduler_rx' = Tail(scheduler_rx)

\* The task of the socket starts.
Runs(s, as) == task' = [task EXCEPT ![s] = as] /\ task_scope' = [task_scope EXCEPT ![s] = scope]

LoopConnect ==
    /\ Message("Connect")
    /\ LET s == Head(scheduler_rx).id
       IN  ws_commands' = ws_commands \cup {s} /\ Runs(s, "connecting")
    /\ Loops /\ UNCHANGED <<scopeVars, pairs, read, commands, upgrade, accepted, early, sent, wire>>

\* A pair made after the response never gets a socket: its commands go nowhere.
Keeps_Always(s) == ws_commands' = ws_commands \cup {s} /\ pairs' = pairs \cup {s}

Keeps(s) ==
    IF read THEN UNCHANGED <<ws_commands, pairs>>
            ELSE ws_commands' = ws_commands \cup {s} /\ pairs' = pairs \cup {s}

LoopPair ==
    /\ Message("Pair")
    /\ LET s == Head(scheduler_rx).id IN Keeps(s) /\ Runs(s, "waiting")
    /\ Loops /\ UNCHANGED <<scopeVars, read, commands, upgrade, accepted, early, sent, wire>>

\* A command goes to the task, if the loop still holds its channel.
Commands(s, c) ==
    commands' = IF s \in ws_commands THEN [commands EXCEPT ![s] = Append(@, c)] ELSE commands

\* WebSocketUpgrade: the pair that the response carries is attached, the others close.
LoopUpgrade ==
    /\ Message("Upgrade")
    /\ LET s == Head(scheduler_rx).id
           carried == pairs \cap {s}
       IN  /\ \A c \in carried : Commands(c, [type |-> "Attach"])
           /\ carried = {} => UNCHANGED commands
           /\ ws_commands' = ws_commands \ (pairs \ carried)
    /\ pairs' = {} /\ read' = TRUE
    /\ Loops /\ UNCHANGED <<scopeVars, taskVars>>

LoopAccept ==
    /\ Message("Accept")
    /\ Commands(Head(scheduler_rx).id, [type |-> "Accept"])
    /\ Loops /\ UNCHANGED <<scopeVars, loopVars, taskVars>>

LoopSend ==
    /\ Message("Send")
    /\ Commands(Head(scheduler_rx).id, [type |-> "Send", frame |-> Head(scheduler_rx).frame])
    /\ Loops /\ UNCHANGED <<scopeVars, loopVars, taskVars>>

LoopClose ==
    /\ Message("Close")
    /\ LET s == Head(scheduler_rx).id
       IN  Commands(s, [type |-> "Close"]) /\ ws_commands' = ws_commands \ {s}
    /\ Loops /\ UNCHANGED <<scopeVars, pairs, read, taskVars>>

\* A request ends the scope of the one before, and forgets its sockets.
LoopBeginRequest ==
    /\ Message("BeginRequest")
    /\ cancelled_scopes' = cancelled_scopes \cup {scope} /\ scope' = Head(scheduler_rx).id
    /\ ws_commands' = {} /\ pairs' = {} /\ read' = FALSE
    /\ Loops /\ UNCHANGED <<commands, taskVars>>

\* The abort token of the request is linked to its scope.
Abort ==
    /\ scope \in hungUp \ cancelled_scopes
    /\ cancelled_scopes' = cancelled_scopes \cup {scope}
    /\ Loops /\ UNCHANGED <<scheduler_rx, scope, loopVars, commands, taskVars>>

-----------------------------------------------------------------------------
(* The task of a socket *)

Tasks == UNCHANGED <<execVars, guestVars, toldVars, scheduler_rx, scopeVars, loopVars, task_scope>>

Tells(s, type) ==
    callback_rx' = IF phase \in {"dropping", "gone"} THEN <<>>
                                                     ELSE Append(callback_rx, [type |-> type, id |-> s])

Ends(s) == task' = [task EXCEPT ![s] = "ended"]

OnWire(s, frames) == sent' = [sent EXCEPT ![s] = @ \o frames]

\* The select of each task looks at its scope first.
Goes(s, as) == task[s] = as /\ task_scope[s] \notin cancelled_scopes

\* A cancelled socket that is connected says so to its peer, and to the guest.
TellsPeer_Not(s) == UNCHANGED sent

TellsPeer(s) == IF task[s] = "pumping" THEN OnWire(s, <<0>>) ELSE UNCHANGED sent

TellsGuest_Not(s) == UNCHANGED callback_rx

TellsGuest(s) == Tells(s, IF task[s] = "connecting" THEN "ConnectError" ELSE "Closed")

Cancelled(s) ==
    /\ task[s] \in {"connecting", "waiting", "pumping"} /\ task_scope[s] \in cancelled_scopes
    /\ TellsPeer(s) /\ TellsGuest(s) /\ Ends(s)
    /\ Tasks /\ UNCHANGED <<commands, upgrade, accepted, early, wire>>

\* run_websocket: the peer answers.
Connects(s) ==
    /\ Goes(s, "connecting")
    /\ \/ Tells(s, "Connected") /\ task' = [task EXCEPT ![s] = "pumping"]
          /\ wire' = [wire EXCEPT ![s] = "up"]
       \/ Tells(s, "ConnectError") /\ Ends(s) /\ UNCHANGED wire
    /\ Tasks /\ UNCHANGED <<commands, upgrade, accepted, early, sent>>

\* run_server_websocket: the client arrives, and gets first what the guest has sent
\* by then ...
Flush_Drops(s) == UNCHANGED sent

Flush(s) == OnWire(s, early[s])

Upgraded(s) ==
    /\ Goes(s, "waiting") /\ s \in upgrade
    /\ Flush(s) /\ early' = [early EXCEPT ![s] = <<>>]
    /\ task' = [task EXCEPT ![s] = "pumping"] /\ wire' = [wire EXCEPT ![s] = "up"]
    /\ Tasks /\ UNCHANGED <<callback_rx, commands, upgrade, accepted>>

\* ... or the runner does not upgrade.
NotUpgraded(s) ==
    /\ Goes(s, "waiting") /\ s \in upgrade
    /\ Tells(s, "Closed") /\ Ends(s)
    /\ Tasks /\ UNCHANGED <<commands, upgrade, accepted, early, sent, wire>>

\* The next command of the guest, before the client arrives and after.
IsNext(s, type) ==
    /\ commands[s] # <<>> /\ Head(commands[s]).type = type
    /\ commands' = [commands EXCEPT ![s] = Tail(@)]

Attach(s) ==
    /\ Goes(s, "waiting") /\ IsNext(s, "Attach")
    /\ upgrade' = upgrade \cup {s}
    /\ Tasks /\ UNCHANGED <<callback_rx, task, accepted, early, sent, wire>>

Accept(s) ==
    /\ Goes(s, "waiting") \/ Goes(s, "pumping")
    /\ IsNext(s, "Accept") /\ accepted' = accepted \cup {s}
    /\ Tasks /\ UNCHANGED <<callback_rx, task, upgrade, early, sent, wire>>

Send(s) ==
    /\ IsNext(s, "Send")
    /\ \/ Goes(s, "waiting") /\ early' = [early EXCEPT ![s] = Append(@, Head(commands[s]).frame)]
          /\ UNCHANGED sent
       \/ Goes(s, "pumping") /\ OnWire(s, <<Head(commands[s]).frame>>) /\ UNCHANGED early
    /\ Tasks /\ UNCHANGED <<callback_rx, task, upgrade, accepted, wire>>

Close(s) ==
    /\ \/ Goes(s, "waiting") /\ UNCHANGED sent
       \/ Goes(s, "pumping") /\ OnWire(s, <<0>>)
    /\ IsNext(s, "Close") /\ Tells(s, "Closed") /\ Ends(s)
    /\ Tasks /\ UNCHANGED <<upgrade, accepted, early, wire>>

\* The loop let go of the channel: the response did not carry the pair. A connected
\* socket, which loses its loop only with its context, ends without a word.
NoMoreCommands(s) ==
    /\ commands[s] = <<>> /\ s \notin ws_commands
    /\ \/ Goes(s, "waiting") /\ Tells(s, "Closed")
       \/ Goes(s, "pumping") /\ UNCHANGED callback_rx
    /\ Ends(s)
    /\ Tasks /\ UNCHANGED <<commands, upgrade, accepted, early, sent, wire>>

\* The peer sends a message, or leaves: only a socket that is accepted is read, and
\* its commands come first.
Receive(s) ==
    /\ Goes(s, "pumping") /\ s \in accepted
    /\ \/ /\ heard[s] + Cardinality({k \in DOMAIN callback_rx : callback_rx[k] =
                                        [type |-> "Message", id |-> s]}) < script.messages
          /\ Tells(s, "Message") /\ UNCHANGED <<task, wire>>
       \/ Tells(s, "Closed") /\ Ends(s) /\ wire' = [wire EXCEPT ![s] = "down"]
    /\ Tasks /\ UNCHANGED <<commands, upgrade, accepted, early, sent>>

-----------------------------------------------------------------------------
(* The callbacks of the sockets, in the rounds of the request *)

Due(type) ==
    /\ Serving /\ callback_rx # <<>> /\ Head(callback_rx).type = type
    /\ callback_rx' = Tail(callback_rx)

Dispatches == UNCHANGED <<execVars, next_ws, born, asked, scopeVars, loopVars, commands, taskVars>>

Hears(s) == told' = [told EXCEPT ![s] = @ + 1]

\* The resolve of a connect: a socket closed in the meantime is closed at once,
\* any other is accepted.
Opens(s) ==
    IF s \in closing THEN UNCHANGED <<ws_event_callbacks, reader>>
    ELSE /\ ws_event_callbacks' = ws_event_callbacks \cup {s}
         /\ reader' = [reader EXCEPT ![s] = request]

DispatchConnected ==
    /\ Due("Connected")
    /\ LET s == Head(callback_rx).id
       IN  /\ connects' = connects \ {s}
           /\ IF s \in connects
              THEN /\ Opens(s)
                   /\ readyState' = [readyState EXCEPT ![s] = IF s \in closing THEN "CLOSED" ELSE "OPEN"]
                   /\ Sends([type |-> IF s \in closing THEN "Close" ELSE "Accept", id |-> s])
                   /\ IF s \in closing THEN Hears(s) /\ UNCHANGED accepted_js
                                       ELSE accepted_js' = accepted_js \cup {s} /\ UNCHANGED told
              ELSE UNCHANGED <<ws_event_callbacks, reader, readyState, scheduler_rx, told, accepted_js>>
    /\ Dispatches /\ UNCHANGED <<closing, heard, deaf>>

DispatchConnectError ==
    /\ Due("ConnectError")
    /\ LET s == Head(callback_rx).id
       IN  /\ connects' = connects \ {s}
           /\ IF s \in connects
              THEN Hears(s) /\ readyState' = [readyState EXCEPT ![s] = "CLOSED"]
              ELSE UNCHANGED <<told, readyState>>
    /\ Dispatches /\ UNCHANGED <<closing, accepted_js, ws_event_callbacks, reader, heard, deaf, scheduler_rx>>

\* dispatch_ws_event.
DispatchMessage ==
    /\ Due("Message")
    /\ LET s == Head(callback_rx).id
       IN  heard' = IF s \in ws_event_callbacks THEN [heard EXCEPT ![s] = @ + 1] ELSE heard
    /\ Dispatches /\ UNCHANGED <<readyState, closing, accepted_js, connects, ws_event_callbacks, reader,
                                 told, deaf, scheduler_rx>>

\* The close event takes the callback out; without one, nobody hears it.
Unregisters_Not(s) == UNCHANGED ws_event_callbacks

Unregisters(s) == ws_event_callbacks' = ws_event_callbacks \ {s}

DispatchClosed ==
    /\ Due("Closed")
    /\ LET s == Head(callback_rx).id
       IN  /\ Unregisters(s)
           /\ IF s \in ws_event_callbacks
              THEN Hears(s) /\ readyState' = [readyState EXCEPT ![s] = "CLOSED"] /\ UNCHANGED deaf
              ELSE deaf' = deaf \cup {s} /\ UNCHANGED <<told, readyState>>
    /\ Dispatches /\ UNCHANGED <<closing, accepted_js, connects, reader, heard, scheduler_rx>>

-----------------------------------------------------------------------------
LoopStep ==
    \/ LoopConnect \/ LoopPair \/ LoopUpgrade \/ LoopAccept \/ LoopSend \/ LoopClose \/ LoopBeginRequest

Dispatch == DispatchConnected \/ DispatchConnectError \/ DispatchMessage \/ DispatchClosed

\* What the runtime owes a socket: to look at its scope and at its commands.
Served(s) == Cancelled(s) \/ Attach(s) \/ Accept(s) \/ Send(s) \/ Close(s) \/ NoMoreCommands(s)

Next ==
    \/ Start \/ HangUp \/ StreamsComplete \/ SocketClosed \/ Drained \/ Drop \/ Dropped
    \/ \E s \in Sockets \cup {0} : ReadResponse(s)
    \/ NativeWebSocketPair \/ NativeWebSocketConnect
    \/ \E s \in Sockets : NativeWebSocketAccept(s) \/ NativeWebSocketSend(s) \/ NativeWebSocketClose(s)
    \/ LoopStep \/ Abort
    \/ \E s \in Sockets : Served(s) \/ Connects(s) \/ Upgraded(s) \/ NotUpgraded(s) \/ Receive(s)
    \/ Dispatch

Spec == Init /\ [][Next]_vars

\* The loop, the tasks of the sockets and a request with callbacks are polled when
\* they are woken. The peers, the runner and the guest owe nothing.
Fairness ==
    /\ WF_vars(LoopStep) /\ WF_vars(Abort) /\ WF_vars(Dispatch) /\ WF_vars(SocketClosed)
    /\ \A s \in Sockets : WF_vars(Served(s))

-----------------------------------------------------------------------------
(* Properties *)

\* The frames of the guest go on the wire in the order it sent them, those it sent
\* before the client arrived first, and none is left out before a later one.
WireOrder ==
    \A s \in Sockets :
       /\ \A k \in DOMAIN sent[s] : sent[s][k] \in {0, k}
       /\ \A k \in DOMAIN sent[s] : sent[s][k] = 0 => k = Len(sent[s])

\* A socket tells only the request that accepted it, as the events of the sockets an
\* earlier request left behind find no callback; and that request hears of the end once,
\* and of no message after it, whether the guest, the peer or a failed connect ends it.
EventsOwn ==
    [][\A s \in Sockets :
          /\ (heard'[s] > heard[s] \/ told'[s] > told[s]) => told[s] = 0
          /\ (heard'[s] > heard[s] \/ (told'[s] > told[s] /\ s \in ws_event_callbacks))
                => reader[s] = request]_vars

\* A connected socket that ends while its context lives has told its peer, unless
\* the peer left first.
PeerTold ==
    \A s \in Sockets :
       (task[s] = "ended" /\ wire[s] = "up" /\ phase \notin {"dropping", "gone"})
          => sent[s] # <<>> /\ sent[s][Len(sent[s])] = 0

\* "Cancelling a request must close the WebSocket its guest is waiting on": a socket
\* that the guest reads, or connects, hears of its end once the caller hangs up,
\* unless its request is over or the guest was not there to hear it.
CancelIsHeard ==
    \A s \in Sockets :
       (Serving /\ request \in hungUp /\ born[s] = request /\ s \in ws_event_callbacks \cup connects)
          ~> (told[s] > 0 \/ s \in deaf \/ ~Serving \/ request # born[s])

\* A pair that the response does not carry does not wait for a socket for good: it
\* ends when the response is read, or at once if it is made later.
PairsEnd ==
    \A s \in Sockets :
       (Serving /\ read /\ scope = request /\ scheduler_rx = <<>> /\ commands[s] = <<>>
          /\ task[s] = "waiting" /\ s \notin upgrade)
          ~> task[s] # "waiting"

\* The event of an upgrade ends once its socket has ended, if the guest was there to
\* hear it.
HeardSocketEnds ==
    (phase = "socket" /\ task[socket] = "ended" /\ socket \notin deaf) ~> (phase # "socket")

\* "the guest sees its socket close instead of waiting on it forever"
\* (inbound_websocket_test.rs): the event of an upgrade ends once its socket has.
SocketEventEnds ==
    (phase = "socket" /\ task[socket] = "ended") ~> (phase # "socket")
=============================================================================
