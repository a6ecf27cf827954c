---------------------------- MODULE ObjectSockets ---------------------------
(***************************************************************************)
(* The WebSockets of a Durable Object (js/durable_object.js and            *)
(* runtime/bindings/durable_object.rs), which the runner holds, across the *)
(* lives of the object (execution_context/durable_object.rs).              *)
(*                                                                         *)
(* The guest accepts a socket for the handlers of its class, where a later *)
(* life finds it again (hibernation), or for listeners of this life, which *)
(* then must not end while the socket is open. What it does to a socket is *)
(* an op: on the channel of the event loop, then in the queue of the       *)
(* object, behind its storage writes, then with the runner. The frames and *)
(* the storage ops on that way are counted, and limited.                   *)
(*                                                                         *)
(* The runner is external. It applies the ops in order, and lists a        *)
(* hibernatable socket until the object closed it or took its end. The     *)
(* gates that order events and storage results are those of DurableObject; *)
(* here the guest acts whenever its object lives.                          *)
(*                                                                         *)
(* A definition named X_Variant is a plausible mistake in X; no            *)
(* specification uses one.                                                 *)
(***************************************************************************)
EXTENDS Integers, Sequences, SequencesExt

CONSTANTS
    Sockets,
    Attachments,        \* what the guest attaches, besides nothing
    None,               \* no attachment
    Programs,           \* what a guest may do: [calls |-> its calls, sockets |-> the ids it gets]
    MAX_WAITING_FRAMES,
    MAX_BACKLOG,
    MaxBytes,           \* bound: bytes of a frame or of a storage op
    MaxLives,           \* bound: times the object is built
    MaxWork,            \* bound: ops on their way, past which the guest makes none
    MaxMailbox          \* bound: events that wait or run

Lives == 1..MaxLives

VARIABLES
    program,
    life, alive,
    inflight,       \* handlers of socket events that run
    failure,        \* a write failed and the guest knows
    mode,           \* _mode of a socket, "none" if this life does not have it
    readyState,
    attachment,     \* _attachment
    sockets,        \* the map of this life
    backlog,
    results,        \* storage results on their way to the guest
    scheduler_rx,   \* the ops the event loop of this life has yet to take
    relays,         \* sockets that a binding handed over
    ids,            \* the socket ids that next_socket_id gave
    queue, failed, frames,      \* of each life
    runner,         \* what the runner knows of a socket
    client,         \* its client: not "handed" over yet, "up" or "left"
    mailbox,
    over,           \* history: sockets the guest closed, or heard the end of
    stranded,       \* history: sockets whose listeners were stopped with their life
    overlap         \* history: this life was built while an earlier queue had work

guestVars  == <<mode, readyState, attachment, sockets>>
queueVars  == <<queue, failed, frames>>
runnerVars == <<runner, client>>
history    == <<over, stranded, overlap>>
vars == <<program, life, alive, inflight, failure, guestVars, backlog, results, scheduler_rx, relays,
          ids, queueVars, runnerVars, mailbox, history>>

Unknown == [accepted |-> "no", open |-> TRUE, attachment |-> None]

Init ==
    /\ program \in Programs
    /\ life = 0 /\ alive = FALSE /\ inflight = 0 /\ failure = FALSE
    /\ mode = [s \in Sockets |-> "none"] /\ readyState = [s \in Sockets |-> "open"]
    /\ attachment = [s \in Sockets |-> None] /\ sockets = {}
    /\ backlog = 0 /\ results = <<>> /\ scheduler_rx = <<>> /\ relays = {} /\ ids = {}
    /\ queue = [l \in Lives |-> <<>>] /\ failed = [l \in Lives |-> FALSE]
    /\ frames = [l \in Lives |-> 0]
    /\ runner = [s \in Sockets |-> Unknown] /\ client = [s \in Sockets |-> "none"]
    /\ mailbox = <<>>
    /\ over = {} /\ stranded = {} /\ overlap = FALSE

-----------------------------------------------------------------------------
(* The lives of the object *)

\* What __nativeObjectSockets answers.
Listed == {s \in Sockets : runner[s].accepted = "handlers" /\ runner[s].open}

\* The life starts with its hibernatable sockets, open, as they were left.
FindsSockets ==
    /\ sockets' = Listed
    /\ mode' = [s \in Sockets |-> IF s \in Listed THEN "handlers" ELSE "none"]
    /\ attachment' = [s \in Sockets |-> IF s \in Listed THEN runner[s].attachment ELSE None]

\* A life is built for an event.
Build ==
    /\ ~alive /\ life < MaxLives
    /\ life' = life + 1 /\ alive' = TRUE
    /\ FindsSockets
    /\ overlap' = \E l \in 1..life : queue[l] # <<>>
    /\ UNCHANGED <<program, inflight, failure, readyState, backlog, results, scheduler_rx,
                   relays, ids, queueVars, runnerVars, mailbox, over, stranded>>

\* The runner forgets a socket whose end the object took.
Taken(e) ==
    /\ runner' = IF e.kind = "end" THEN [runner EXCEPT ![e.socket].open = FALSE] ELSE runner
    /\ mailbox' = Tail(mailbox)

\* The constructor throws, and the event it was for is lost.
NotBuilt ==
    /\ ~alive /\ mailbox # <<>> /\ Taken(Head(mailbox))
    /\ UNCHANGED <<program, life, alive, inflight, failure, guestVars, backlog, results,
                   scheduler_rx, relays, ids, queueVars, client, history>>

\* The life ends, with what its event loop had not taken.
Drop ==
    /\ alive' = FALSE /\ inflight' = 0 /\ failure' = FALSE
    /\ mode' = [s \in Sockets |-> "none"] /\ readyState' = [s \in Sockets |-> "open"]
    /\ attachment' = [s \in Sockets |-> None] /\ sockets' = {}
    /\ backlog' = 0 /\ results' = <<>> /\ scheduler_rx' = <<>> /\ relays' = {}
    /\ UNCHANGED <<program, life, ids, queue, failed, runnerVars, mailbox, over, overlap>>

BytesOf(works, ops) ==
    FoldLeft(LAMBDA sum, w : IF w.op \in ops THEN sum + w.bytes ELSE sum, 0, works)

\* The count of the frames that go with the channel is given back.
Uncounts == frames' = [frames EXCEPT ![life] = @ - BytesOf(scheduler_rx, {"send"})]

Pinned_Never == FALSE

\* A socket with listeners is open: they live in this life.
Pinned == \E s \in sockets : mode[s] = "listeners"

\* A read closes the gate, and events wait.
Reading == \E i \in DOMAIN queue[life] : queue[life][i].op \in {"get", "list"}

\* No event was admitted for the idle time, in which the event loop took what was sent.
Idle ==
    /\ alive /\ inflight = 0 /\ ~Pinned /\ ~failure /\ scheduler_rx = <<>>
    /\ mailbox = <<>> \/ Reading
    /\ Drop /\ Uncounts /\ UNCHANGED stranded

\* A turn goes over a limit, a write failed, or the mailbox is closed.
Stopped ==
    /\ alive
    /\ stranded' = stranded \cup {s \in sockets : mode[s] = "listeners"}
    /\ Drop /\ Uncounts

-----------------------------------------------------------------------------
(* The guest: durable_object.js *)

Room == Len(scheduler_rx) + Len(queue[life]) + Len(results) < MaxWork

Calls(name) == alive /\ name \in program.calls /\ Room

Sends(work) == scheduler_rx' = Append(scheduler_rx, work)

\* What no call of the guest changes.
Guest == UNCHANGED <<program, life, alive, inflight, failure, results, relays, queue, failed,
                     runner, mailbox, stranded, overlap>>

\* new WebSocketPair().
NewPair(s) ==
    /\ alive /\ s \in program.sockets \ ids /\ ids' = ids \cup {s}
    /\ mode' = [mode EXCEPT ![s] = "null"]
    /\ Guest /\ UNCHANGED <<readyState, attachment, sockets, backlog, scheduler_rx, frames,
                            client, over>>

\* accept() and acceptWebSocket().
Accepts(s, m) ==
    /\ Calls(m) /\ mode[s] = "null"
    /\ mode' = [mode EXCEPT ![s] = m] /\ sockets' = sockets \cup {s}
    /\ Sends([op |-> "accept", socket |-> s, mode |-> m])
    /\ Guest /\ UNCHANGED <<ids, readyState, attachment, backlog, frames, client, over>>

Accept(s) == Accepts(s, "listeners")

AcceptWebSocket(s) == Accepts(s, "handlers")

\* The frames are past the limit, and a send throws.
Full == frames[life] >= MAX_WAITING_FRAMES

Send(s, bytes) ==
    /\ Calls("send") /\ mode[s] \in {"handlers", "listeners"} /\ readyState[s] = "open" /\ ~Full
    /\ frames' = [frames EXCEPT ![life] = @ + bytes]
    /\ Sends([op |-> "send", socket |-> s, bytes |-> bytes])
    /\ Guest /\ UNCHANGED <<ids, guestVars, backlog, client, over>>

Close(s) ==
    /\ Calls("close") /\ mode[s] # "none" /\ readyState[s] = "open"
    /\ readyState' = [readyState EXCEPT ![s] = "closed"] /\ sockets' = sockets \ {s}
    /\ over' = over \cup {s}
    /\ Sends([op |-> "close", socket |-> s])
    /\ Guest /\ UNCHANGED <<ids, mode, attachment, backlog, frames, client>>

\* The native throws on what is too large, and the guest keeps what it had.
Attached_First(s, value, fits) == [attachment EXCEPT ![s] = value]

Attached(s, value, fits) == IF fits THEN [attachment EXCEPT ![s] = value] ELSE attachment

SerializeAttachment(s, value, fits) ==
    /\ Calls("attachment") /\ mode[s] # "none" /\ (value = None => fits)
    /\ attachment' = Attached(s, value, fits)
    /\ IF fits THEN Sends([op |-> "attachment", socket |-> s, value |-> value])
               ELSE UNCHANGED scheduler_rx
    /\ Guest /\ UNCHANGED <<ids, mode, readyState, sockets, backlog, frames, client, over>>

\* A storage op, whose bytes the host holds until it ends. Past the limit only those
\* that bring no bytes still run; sync() is a get of no keys, as a list here.
StorageOps == [get |-> 1..MaxBytes, write |-> 0..MaxBytes, list |-> {0}, setAlarm |-> {0}]

Limited(kind) == kind \in {"get", "write"} /\ backlog >= MAX_BACKLOG

Storage(kind, bytes) ==
    /\ Calls(kind) /\ ~Limited(kind)
    /\ backlog' = backlog + bytes
    /\ Sends([op |-> kind, bytes |-> bytes])
    /\ Guest /\ UNCHANGED <<ids, guestVars, frames, client, over>>

\* The result of a storage op: a write that failed breaks the object.
StorageEnds ==
    /\ alive /\ results # <<>>
    /\ backlog' = backlog - Head(results).bytes
    /\ failure' = (failure \/ Head(results).broken)
    /\ results' = Tail(results)
    /\ UNCHANGED <<program, life, alive, inflight, guestVars, scheduler_rx, relays, ids,
                   queueVars, runnerVars, mailbox, history>>

-----------------------------------------------------------------------------
(* The events of the sockets: admit_socket and answer *)

\* socket() of durable_object.js. An event of a socket that this life does not have
\* has no handler to run.
Hears(e) ==
    LET ends == e.kind = "end"
    IN  /\ readyState' = IF ends /\ e.socket \in sockets
                         THEN [readyState EXCEPT ![e.socket] = "closed"] ELSE readyState
        /\ sockets' = IF ends THEN sockets \ {e.socket} ELSE sockets

AdmitSocket ==
    /\ alive /\ ~failure /\ mailbox # <<>> /\ inflight' = inflight + 1
    /\ LET e == Head(mailbox)
       IN  /\ Hears(e) /\ Taken(e)
           /\ over' = IF e.kind = "end" THEN over \cup {e.socket} ELSE over
    /\ UNCHANGED <<program, life, alive, failure, mode, attachment, backlog, results,
                   scheduler_rx, relays, ids, queueVars, client, stranded, overlap>>

\* The handlers that are done leave, one at a time.
HandlerEnds ==
    /\ alive /\ inflight > 0 /\ inflight' = inflight - 1
    /\ UNCHANGED <<program, life, alive, failure, guestVars, backlog, results, scheduler_rx,
                   relays, ids, queueVars, runnerVars, mailbox, history>>

\* A binding of the guest answers with a socket, which only a response can pass on.
BindingUpgrade(s) ==
    /\ Calls("binding") /\ s \in program.sockets \ ids /\ ids' = ids \cup {s}
    /\ relays' = relays \cup {s}
    /\ UNCHANGED <<program, life, alive, inflight, failure, guestVars, backlog, results,
                   scheduler_rx, queueVars, runnerVars, mailbox, history>>

\* answer() gives the client end of a pair, or a socket of a binding, to the caller.
Respond(s) ==
    /\ Calls("respond") /\ client[s] = "none" /\ (mode[s] # "none" \/ s \in relays)
    /\ client' = [client EXCEPT ![s] = "handed"]
    /\ Sends([op |-> "upgrade", socket |-> s])
    /\ Guest /\ UNCHANGED <<ids, guestVars, backlog, frames, over>>

-----------------------------------------------------------------------------
(* The event loop and the queue of the object *)

\* The loop takes the next message. The socket of a binding goes on to the object it
\* came from; everything else is work of the queue.
Enqueue ==
    /\ alive /\ scheduler_rx # <<>>
    /\ LET w == Head(scheduler_rx)
           relayed == w.op = "upgrade" /\ w.socket \in relays
       IN  /\ queue' = IF relayed THEN queue ELSE [queue EXCEPT ![life] = Append(@, w)]
           /\ relays' = IF relayed THEN relays \ {w.socket} ELSE relays
    /\ scheduler_rx' = Tail(scheduler_rx)
    /\ UNCHANGED <<program, life, alive, inflight, failure, guestVars, backlog, results, ids,
                   failed, frames, runnerVars, mailbox, history>>

\* What the runner makes of an op.
Applies(r, w) ==
    CASE w.op = "accept"     -> [r EXCEPT !.accepted = w.mode]
      [] w.op = "attachment" -> [r EXCEPT !.attachment = w.value]
      [] w.op = "close"      -> [r EXCEPT !.open = FALSE]
      [] OTHER               -> r

SocketOps == {"accept", "attachment", "send", "close", "upgrade"}

\* What was counted for the frame that leaves the queue is given back, sent or not.
GivesBack_Sent(l, w) ==
    frames' = IF w.op = "send" /\ ~failed[l] THEN [frames EXCEPT ![l] = @ - w.bytes] ELSE frames

GivesBack(l, w) == frames' = IF w.op = "send" THEN [frames EXCEPT ![l] = @ - w.bytes] ELSE frames

\* run_object_queue: a socket op goes to the runner, unless a write failed.
RunSocketOp(l) ==
    /\ queue[l] # <<>> /\ Head(queue[l]).op \in SocketOps
    /\ LET w == Head(queue[l])
       IN  /\ GivesBack(l, w)
           /\ runner' = IF failed[l] THEN runner
                                     ELSE [runner EXCEPT ![w.socket] = Applies(@, w)]
           /\ client' = IF failed[l] \/ w.op # "upgrade" THEN client
                                                         ELSE [client EXCEPT ![w.socket] = "up"]
    /\ queue' = [queue EXCEPT ![l] = Tail(@)]
    /\ UNCHANGED <<program, life, alive, inflight, failure, guestVars, backlog, results,
                   scheduler_rx, relays, ids, failed, mailbox, history>>

\* A storage op ends; the guest hears of it if its life lasts.
RunStorageOp(l) ==
    /\ queue[l] # <<>> /\ Head(queue[l]).op \notin SocketOps
    /\ LET w == Head(queue[l])
           writes == w.op \in {"write", "setAlarm"}
       IN  \E ok \in BOOLEAN :
              /\ failed[l] => ~ok
              /\ failed' = [failed EXCEPT ![l] = @ \/ (writes /\ ~ok)]
              /\ results' = IF l = life /\ alive
                            THEN Append(results, [bytes |-> w.bytes, broken |-> writes /\ ~ok])
                            ELSE results
    /\ queue' = [queue EXCEPT ![l] = Tail(@)]
    /\ UNCHANGED <<program, life, alive, inflight, failure, guestVars, backlog, scheduler_rx,
                   relays, ids, frames, runnerVars, mailbox, history>>

-----------------------------------------------------------------------------
(* The clients of the runner *)

Arrives(s, kind) ==
    /\ runner[s].accepted # "no" /\ runner[s].open /\ client[s] = "up"
    /\ Len(mailbox) + inflight < MaxMailbox
    /\ mailbox' = Append(mailbox, [socket |-> s, kind |-> kind])
    /\ UNCHANGED <<program, life, alive, inflight, failure, guestVars, backlog, results,
                   scheduler_rx, relays, ids, queueVars, runner, history>>

ClientSends(s) == Arrives(s, "message") /\ UNCHANGED client

ClientLeaves(s) == Arrives(s, "end") /\ client' = [client EXCEPT ![s] = "left"]

-----------------------------------------------------------------------------
Next ==
    \/ Build \/ NotBuilt \/ Idle \/ Stopped
    \/ \E s \in Sockets :
          \/ NewPair(s) \/ Accept(s) \/ AcceptWebSocket(s) \/ Close(s)
          \/ \E bytes \in 1..MaxBytes : Send(s, bytes)
          \/ \E value \in Attachments \cup {None}, fits \in BOOLEAN :
                SerializeAttachment(s, value, fits)
          \/ BindingUpgrade(s) \/ Respond(s) \/ ClientSends(s) \/ ClientLeaves(s)
    \/ \E kind \in DOMAIN StorageOps : \E bytes \in StorageOps[kind] : Storage(kind, bytes)
    \/ StorageEnds \/ AdmitSocket \/ HandlerEnds \/ Enqueue
    \/ \E l \in Lives : RunSocketOp(l) \/ RunStorageOp(l)

Spec == Init /\ [][Next]_vars

-----------------------------------------------------------------------------
(* Properties *)

\* The ops of a life that have yet to run.
Work(l) == queue[l] \o (IF alive /\ l = life THEN scheduler_rx ELSE <<>>)

\* What the runner will know of a socket, once it has the ops that are on their way.
Coming(s) ==
    FoldLeft(LAMBDA r, w : IF w.op \in SocketOps /\ w.socket = s THEN Applies(r, w) ELSE r,
             runner[s], Work(life))

Hibernates(s) == s \in sockets /\ mode[s] = "handlers" /\ readyState[s] = "open"

\* The instance and the runner agree on the hibernatable sockets and on what is
\* attached to them, but for the ops on their way: what a later life finds is what
\* this one leaves. It holds whatever throws, as long as no write failed, and unless
\* this life was built before the ops of an earlier one had run.
SocketsAgree ==
    (alive /\ ~overlap /\ ~failed[life]) =>
        \A s \in Sockets :
            LET r == Coming(s)
            IN  /\ Hibernates(s) <=> (r.accepted = "handlers" /\ r.open)
                /\ Hibernates(s) => attachment[s] = r.attachment

\* The counters are what is on its way: the frames that wait stay below the limit
\* and one frame more, so do the storage ops, and both are given back in the end,
\* also by what a failed write keeps from running.
WaitingBounded ==
    /\ \A l \in Lives : /\ frames[l] = BytesOf(Work(l), {"send"})
                        /\ frames[l] < MAX_WAITING_FRAMES + MaxBytes
    /\ alive => /\ backlog = BytesOf(Work(life), DOMAIN StorageOps)
                             + FoldLeft(LAMBDA sum, r : sum + r.bytes, 0, results)
                /\ backlog < MAX_BACKLOG + MaxBytes

\* "its listeners live in this instance, so it must stay": an event always finds its
\* socket, in the life that accepted it or, for a hibernatable one, in a later life,
\* unless the guest closed it or heard its end, a stop took its listeners, or the life
\* was built before the ops of an earlier one had run.
EventFindsSocket ==
    [][\A s \in Sockets :
          (alive /\ mailbox # <<>> /\ mailbox' = Tail(mailbox) /\ Head(mailbox).socket = s)
             => (s \in sockets \/ s \in over \cup stranded \/ overlap)]_vars
=============================================================================
