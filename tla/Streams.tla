------------------------------ MODULE Streams -------------------------------
(***************************************************************************)
(* The bodies of the requests one context serves, one request after the    *)
(* other: StreamManager (runtime/stream_manager.rs) and the tasks that     *)
(* share it by stream id. A request has up to three streams:               *)
(*                                                                         *)
(*   upload  its own body, written by pump_request_body                    *)
(*   fetch   the body of a fetch it made, written by spawn_stream_reader   *)
(*   guest   the body of a Response the guest makes, written by the pump   *)
(*           of js/stream_body.js in the turns of the event loop           *)
(*                                                                         *)
(* The guest answers with one of them, whose receiver the forwarder of     *)
(* read_response_object takes for the client; it reads the upload through  *)
(* the scheduler otherwise. The tasks run on their own, and outlive the    *)
(* request unless something stops them.                                    *)
(*                                                                         *)
(* A channel is named by the producer it was made for, a chunk by its      *)
(* producer and its place in the body. Where the chunks come from and the  *)
(* client of the response are external. A definition named X_Variant is a  *)
(* plausible mistake in X; no specification uses one.                      *)
(***************************************************************************)
EXTENDS Integers, Sequences

CONSTANTS
    N,                \* bound: requests the context serves
    high_water_mark,
    MaxChunks,        \* bound: chunks of a body
    MaxStreams,       \* bound: streams each request opens
    Nil

ASSUME StreamsAssumption ==
    /\ {N, high_water_mark, MaxChunks} \subseteq Nat \ {0}
    /\ MaxStreams \in [1..N -> 0..3]

Requests  == 1..N
Kinds     == {"upload", "fetch", "guest"}
Producers == Requests \X Kinds

ASSUME NilAssumption == Nil \notin Producers

StreamIds == 1..3

\* StreamChunk: data, by its place in the body, Done or Error.
Done  == 0
Error == -1
Ends  == {Done, Error}
Items == [from : Producers, what : (1..MaxChunks) \cup Ends]

VARIABLES
    request,    \* the request the context serves
    stage,      \* it serves it, is kept for the next, or was dropped
    scope,      \* the request of the scheduler's request_cancel
    aborted,    \* requests whose abort token was cancelled
    failed,     \* requests whose event failed: their context was dropped
    senders,    \* StreamManager.senders: the channel of an id
    receivers,  \* StreamManager.receivers
    next_id,    \* StreamManager.next_id
    woken,      \* StreamManager.waker woke the event loop
    queue,      \* what a channel holds
    pc,         \* where the producer of a stream stands
    id,         \* the id it writes to
    tx,         \* the sender it cloned from the map and waits on
    item,       \* what it writes
    made,       \* history: the chunks its source gave, and whether it ended well
    answer,     \* the stream a request answered with
    forward,    \* where the forwarder of a response stands
    rx,         \* the receiver it took
    got,        \* what the client received
    client,     \* whether the client reads, left, or saw the body end or fail
    reading,    \* where a read of the upload by the guest stands
    read        \* what the guest read of it

mapVars    == <<senders, receivers, next_id>>
contextVars == <<request, stage, scope, aborted, failed>>
writeVars  == <<pc, id, tx, item, made>>
clientVars == <<answer, forward, rx, got, client>>
guestVars  == <<reading, read>>
vars == <<contextVars, mapVars, woken, queue, writeVars, clientVars, guestVars>>

Init ==
    /\ request = 1 /\ stage = "serving" /\ scope = 1 /\ aborted = {} /\ failed = {}
    /\ senders = [i \in StreamIds |-> Nil] /\ receivers = [i \in StreamIds |-> Nil]
    /\ next_id = 1 /\ woken = FALSE
    /\ queue = [c \in Producers |-> <<>>]
    /\ pc = [p \in Producers |-> "off"] /\ id = [p \in Producers |-> 0]
    /\ tx = [p \in Producers |-> Nil]
    /\ item = [p \in Producers |-> [from |-> p, what |-> Done]]
    /\ made = [p \in Producers |-> [chunks |-> 0, whole |-> FALSE]]
    /\ answer = [r \in Requests |-> Nil]
    /\ forward = [r \in Requests |-> "off"] /\ rx = [r \in Requests |-> Nil]
    /\ got = [r \in Requests |-> <<>>] /\ client = [r \in Requests |-> "reading"]
    /\ reading = [r \in Requests |-> "off"] /\ read = [r \in Requests |-> <<>>]

-----------------------------------------------------------------------------
(* StreamManager and its channels *)

Capacity == high_water_mark + 1

InRead(r) == reading[r] \in {"recv", "drain"}

\* Someone holds the receiver of c: the map, a forwarder or a read.
Open(c) ==
    \/ \E i \in StreamIds : receivers[i] = c
    \/ \E r \in Requests : rx[r] = c \/ (InRead(r) /\ c = <<r, "upload">>)

\* Someone holds a sender of c.
Fed(c) == (\E i \in StreamIds : senders[i] = c) \/ (\E p \in Producers : tx[p] = c)

create_stream(p) ==
    /\ next_id <= MaxStreams[p[1]]
    /\ senders' = [senders EXCEPT ![next_id] = p]
    /\ receivers' = [receivers EXCEPT ![next_id] = p]
    /\ id' = [id EXCEPT ![p] = next_id]
    /\ next_id' = next_id + 1

CloseWakes_Never == woken

CloseWakes == TRUE

close_stream(i) ==
    /\ senders' = [senders EXCEPT ![i] = Nil]
    /\ receivers' = [receivers EXCEPT ![i] = Nil]
    /\ woken' = CloseWakes
    /\ UNCHANGED next_id

\* try_write_chunk has room for a chunk: data stops at the high water mark.
HasRoom_LastSlot(c, what) == Len(queue[c]) < Capacity

HasRoom(c, what) == Len(queue[c]) < IF what \in Ends THEN Capacity ELSE Capacity - 1

Put(c, it) == queue' = [queue EXCEPT ![c] = Append(@, it)]

-----------------------------------------------------------------------------
(* The context, the scheduler's scope and the guest *)

\* The cancellation token of a request's tasks.
Cancelled(r) == r < scope \/ r \in aborted \/ stage = "dropped"

Serving(r) == request = r /\ stage = "serving"

Become(p, state) == pc' = [pc EXCEPT ![p] = state]

Hold(p, what) == item' = [item EXCEPT ![p].what = what]

\* trigger_fetch_event: a request that streams its body has it pumped.
StartUpload(r) ==
    LET p == <<r, "upload">>
    IN  /\ Serving(r) /\ pc[p] = "off" /\ next_id = 1 /\ forward[r] = "off"
        /\ create_stream(p) /\ Become(p, "recv")
        /\ UNCHANGED <<contextVars, woken, queue, tx, item, made, clientVars, guestVars>>

\* The scheduler opens the scope of the request.
BeginRequest ==
    /\ scope # request
    /\ scope' = request
    /\ UNCHANGED <<request, stage, aborted, failed>>
    /\ UNCHANGED <<mapVars, woken, queue, writeVars, clientVars, guestVars>>

\* convert_fetch_result_to_stream, for a fetch of the request.
StartFetch(r) ==
    LET p == <<r, "fetch">>
    IN  /\ Serving(r) /\ scope = r /\ pc[p] = "off" /\ forward[r] = "off" /\ ~Cancelled(r)
        /\ create_stream(p) /\ Become(p, "recv")
        /\ UNCHANGED <<contextVars, woken, queue, tx, item, made, clientVars, guestVars>>

\* streamBody, for a body that is not native: the pump starts.
StartGuest(r) ==
    LET p == <<r, "guest">>
    IN  /\ Serving(r) /\ answer[r] = Nil /\ forward[r] = "off" /\ pc[p] = "off"
        /\ create_stream(p) /\ Become(p, "read")
        /\ answer' = [answer EXCEPT ![r] = p]
        /\ UNCHANGED <<contextVars, woken, queue, tx, item, made, forward, rx, got, client, guestVars>>

\* streamBody, for a native body: a fetch, or an upload that nobody read, passed on.
PassOn(r) ==
    /\ Serving(r) /\ answer[r] = Nil /\ forward[r] = "off"
    /\ \E p \in {<<r, "upload">>, <<r, "fetch">>} :
          /\ pc[p] # "off"
          /\ p[2] = "upload" => reading[r] = "off" /\ read[r] = <<>>
          /\ answer' = [answer EXCEPT ![r] = p]
    /\ UNCHANGED <<contextVars, mapVars, woken, queue, writeVars, forward, rx, got, client, guestVars>>

\* A response whose body is in memory, or that has none.
RespondInMemory(r) ==
    /\ Serving(r) /\ answer[r] = Nil /\ forward[r] = "off"
    /\ forward' = [forward EXCEPT ![r] = "over"]
    /\ UNCHANGED <<contextVars, mapVars, woken, queue, writeVars, answer, rx, got, client, guestVars>>

\* read_response_object takes the receiver and starts the forwarder; a stream
\* that has none is a response without a body.
ReadResponse(r) ==
    /\ Serving(r) /\ answer[r] # Nil /\ forward[r] = "off"
    /\ LET i == id[answer[r]]
       IN  IF receivers[i] = Nil
           THEN /\ forward' = [forward EXCEPT ![r] = "over"]
                /\ client' = [client EXCEPT ![r] = "ended"]
                /\ UNCHANGED <<receivers, rx>>
           ELSE /\ forward' = [forward EXCEPT ![r] = "recv"]
                /\ rx' = [rx EXCEPT ![r] = receivers[i]]
                /\ receivers' = [receivers EXCEPT ![i] = Nil]
                /\ UNCHANGED client
    /\ woken' = TRUE
    /\ UNCHANGED <<contextVars, senders, next_id, queue, writeVars, answer, got, guestVars>>

\* exec and drain_waituntil end once the body is `streamed`, which a native body
\* is at once. keep_context says whether the context is kept for the next request.
RequestEnds(r) ==
    /\ Serving(r) /\ forward[r] # "off"
    /\ answer[r] = <<r, "guest">> => pc[answer[r]] = "over"
    /\ stage' \in {"kept", "dropped"}
    /\ UNCHANGED <<request, scope, aborted, failed>>
    /\ UNCHANGED <<mapVars, woken, queue, writeVars, clientVars, guestVars>>

\* A limit ends the event: its context is dropped, which cancels its tasks.
RequestFails(r) ==
    /\ Serving(r)
    /\ stage' = "dropped" /\ failed' = failed \cup {r}
    /\ UNCHANGED <<request, scope, aborted>>
    /\ UNCHANGED <<mapVars, woken, queue, writeVars, clientVars, guestVars>>

\* A context that was kept is evicted, superseded by a newer deployment, or cannot be
\* reset: it is dropped.
ContextGoes ==
    /\ stage = "kept"
    /\ stage' = "dropped"
    /\ UNCHANGED <<request, scope, aborted, failed>>
    /\ UNCHANGED <<mapVars, woken, queue, writeVars, clientVars, guestVars>>

Abort(r) ==
    /\ Serving(r) /\ scope = r
    /\ aborted' = aborted \cup {r}
    /\ UNCHANGED <<request, stage, scope, failed>>
    /\ UNCHANGED <<mapVars, woken, queue, writeVars, clientVars, guestVars>>

\* The context is reused: reset() clears the streams, and their ids.
NextRequest ==
    /\ stage = "kept" /\ request < N
    /\ request' = request + 1 /\ stage' = "serving"
    /\ senders' = [i \in StreamIds |-> Nil] /\ receivers' = [i \in StreamIds |-> Nil]
    /\ next_id' = 1
    /\ UNCHANGED <<scope, aborted, failed, woken, queue, writeVars, clientVars, guestVars>>

-----------------------------------------------------------------------------
(* pump_request_body and spawn_stream_reader *)

\* What the source of p may give next.
Given(p) == Ends \cup ({made[p].chunks + 1} \cap (1..MaxChunks))

Reads(p, what) ==
    /\ Hold(p, what)
    /\ made' = [made EXCEPT ![p] =
                  IF what \in Ends THEN [@ EXCEPT !.whole = (what = Done)] ELSE [@ EXCEPT !.chunks = what]]

\* The source gives a chunk, ends or fails. A cancelled reader of a fetch does
\* not take what it gives, and ends the stream.
TaskReceives(p) ==
    /\ p[2] \in {"upload", "fetch"} /\ pc[p] = "recv"
    /\ IF p[2] = "fetch" /\ Cancelled(p[1])
       THEN Hold(p, Done) /\ UNCHANGED made
       ELSE \E what \in Given(p) : Reads(p, what)
    /\ Become(p, "write")
    /\ UNCHANGED <<contextVars, mapVars, woken, queue, id, tx, clientVars, guestVars>>

\* What a write that failed leads to: the end of the stream is still written, but
\* by a reader whose source failed.
Broken(p) ==
    IF item[p].what = Done \/ (item[p].what = Error /\ p[2] = "fetch")
    THEN Become(p, "over") /\ UNCHANGED item
    ELSE Become(p, "write") /\ Hold(p, Done)

\* write_chunk clones the sender of the id, if it has one ...
TaskLooksUp(p) ==
    /\ p[2] # "guest" /\ pc[p] = "write"
    /\ IF senders[id[p]] = Nil
       THEN Broken(p) /\ UNCHANGED tx
       ELSE /\ tx' = [tx EXCEPT ![p] = senders[id[p]]]
            /\ Become(p, "send") /\ UNCHANGED item
    /\ UNCHANGED <<contextVars, mapVars, woken, queue, id, made, clientVars, guestVars>>

Accept_OrDrop(p) ==
    IF Len(queue[tx[p]]) < Capacity THEN Put(tx[p], item[p]) ELSE UNCHANGED queue

Accept(p) == Len(queue[tx[p]]) < Capacity /\ Put(tx[p], item[p])

\* ... and waits for room in its channel.
TaskSends(p) ==
    /\ p[2] # "guest" /\ pc[p] = "send" /\ Open(tx[p])
    /\ Accept(p)
    /\ tx' = [tx EXCEPT ![p] = Nil]
    /\ IF item[p].what \in Ends THEN Broken(p) ELSE Become(p, "recv") /\ UNCHANGED item
    /\ UNCHANGED <<contextVars, mapVars, woken, id, made, clientVars, guestVars>>

\* The receiver was dropped: the sender of the id is removed.
TaskFindsClosed(p) ==
    /\ p[2] # "guest" /\ pc[p] = "send" /\ ~Open(tx[p])
    /\ senders' = [senders EXCEPT ![id[p]] = Nil]
    /\ tx' = [tx EXCEPT ![p] = Nil]
    /\ Broken(p)
    /\ UNCHANGED <<contextVars, receivers, next_id, woken, queue, id, made, clientVars, guestVars>>

-----------------------------------------------------------------------------
(* The body pump of js/stream_body.js, in turns of the event loop *)

\* The body gives a chunk, ends or fails.
PumpReads(r) ==
    LET p == <<r, "guest">>
    IN  /\ Serving(r) /\ pc[p] = "read"
        /\ \E what \in Given(p) :
              /\ Reads(p, what)
              /\ Become(p, IF what \in Ends THEN "end" ELSE "write")
        /\ UNCHANGED <<contextVars, mapVars, woken, queue, id, tx, clientVars, guestVars>>

\* __responseStreamWrite: a full channel makes the pump wait for room, a closed
\* one cancels the body and ends it.
PumpWrites(r) ==
    LET p == <<r, "guest">>
        c == senders[id[p]]
    IN  /\ Serving(r) /\ pc[p] = "write"
        /\ IF c = Nil \/ ~Open(c)
           THEN /\ senders' = [senders EXCEPT ![id[p]] = Nil]
                /\ Become(p, "end") /\ Hold(p, Done) /\ UNCHANGED queue
           ELSE IF HasRoom(c, item[p].what)
                THEN Put(c, item[p]) /\ Become(p, "read") /\ UNCHANGED <<senders, item>>
                ELSE Become(p, "wait") /\ UNCHANGED <<senders, item, queue>>
        /\ UNCHANGED <<contextVars, receivers, next_id, woken, id, tx, made, clientVars, guestVars>>

Writable_OnlyRoom(c) == c # Nil /\ Len(queue[c]) + 2 <= Capacity

Writable(c) == (c # Nil /\ Open(c)) => Len(queue[c]) + 2 <= Capacity

\* ScheduleWritable: room for a chunk and the end, a reader that is gone, or a
\* cancellation, which closes the stream, call the pump back.
PumpResumes(r) ==
    LET p == <<r, "guest">>
        c == senders[id[p]]
    IN  /\ Serving(r) /\ pc[p] = "wait"
        /\ IF Cancelled(r) /\ c # Nil
           THEN close_stream(id[p])
           ELSE /\ Writable(c)
                /\ UNCHANGED <<mapVars, woken>>
        /\ Become(p, "write")
        /\ UNCHANGED <<contextVars, queue, id, tx, item, made, clientVars, guestVars>>

Terminal_AlwaysDone(p) == [item[p] EXCEPT !.what = Done]

Terminal(p) == item[p]

\* __responseStreamEnd or __responseStreamError, which cannot wait for room.
PumpEnds(r) ==
    LET p == <<r, "guest">>
        c == senders[id[p]]
    IN  /\ Serving(r) /\ pc[p] = "end"
        /\ IF c # Nil /\ Open(c) /\ HasRoom(c, Terminal(p).what) THEN Put(c, Terminal(p)) ELSE UNCHANGED queue
        /\ senders' = IF c # Nil /\ ~Open(c) THEN [senders EXCEPT ![id[p]] = Nil] ELSE senders
        /\ Become(p, "over")
        /\ UNCHANGED <<contextVars, receivers, next_id, woken, id, tx, item, made, clientVars, guestVars>>

\* A turn of the loop that waits for the body sees that the client hung up, and
\* cancels the read the pump waits on (check_exit_with_abort).
LoopTurn(r) ==
    LET p == <<r, "guest">>
    IN  /\ Serving(r) /\ woken /\ forward[r] # "off"
        /\ woken' = FALSE
        /\ IF answer[r] = p /\ pc[p] = "read" /\ senders[id[p]] = Nil
           THEN Become(p, "end") /\ Hold(p, Done)
           ELSE UNCHANGED <<pc, item>>
        /\ UNCHANGED <<contextVars, mapVars, queue, id, tx, made, clientVars, guestVars>>

-----------------------------------------------------------------------------
(* The forwarder of read_response_object and its client *)

ForwardTo(r, state) == forward' = [forward EXCEPT ![r] = state]

\* The forwarder is over: the client sees how.
ForwardOver(r, seen) ==
    /\ ForwardTo(r, "over")
    /\ rx' = [rx EXCEPT ![r] = Nil]
    /\ client' = [client EXCEPT ![r] = IF @ = "reading" THEN seen ELSE @]

ForwardReceives(r) ==
    /\ forward[r] = "recv" /\ queue[rx[r]] # <<>>
    /\ queue' = [queue EXCEPT ![rx[r]] = Tail(@)]
    /\ LET it == Head(queue[rx[r]])
       IN  IF it.what \in Ends
           THEN ForwardOver(r, IF it.what = Done THEN "ended" ELSE "failed") /\ UNCHANGED got
           ELSE /\ ForwardTo(r, "send") /\ UNCHANGED <<rx, client>>
                /\ got' = IF client[r] = "reading" THEN [got EXCEPT ![r] = Append(@, it)] ELSE got
    /\ UNCHANGED <<contextVars, mapVars, woken, writeVars, answer, guestVars>>

\* Every sender is gone: the forwarder ends as if the body had.
ForwardFindsNone(r) ==
    /\ forward[r] = "recv" /\ queue[rx[r]] = <<>> /\ ~Fed(rx[r])
    /\ ForwardOver(r, "ended")
    /\ UNCHANGED <<contextVars, mapVars, woken, queue, writeVars, answer, got, guestVars>>

\* The client took the chunk.
ForwardSends(r) ==
    /\ forward[r] = "send" /\ client[r] = "reading"
    /\ ForwardTo(r, "recv")
    /\ UNCHANGED <<contextVars, mapVars, woken, queue, writeVars, answer, rx, got, client, guestVars>>

ForwardClosed(r) ==
    /\ forward[r] \in {"recv", "send"} /\ client[r] = "left"
    /\ ForwardOver(r, "left")
    /\ close_stream(id[answer[r]])
    /\ UNCHANGED <<contextVars, queue, writeVars, answer, got, guestVars>>

ClientLeaves(r) ==
    /\ forward[r] \in {"recv", "send"} /\ client[r] = "reading"
    /\ client' = [client EXCEPT ![r] = "left"]
    /\ UNCHANGED <<contextVars, mapVars, woken, queue, writeVars, answer, forward, rx, got, guestVars>>

-----------------------------------------------------------------------------
(* The guest reads its upload: native_stream_read, StreamRead, read_chunk *)

\* The scheduler's task takes the receiver out of the map.
ReadStarts(r) ==
    LET p == <<r, "upload">>
    IN  /\ Serving(r) /\ scope = r /\ pc[p] # "off" /\ answer[r] # p
        /\ reading[r] = "off" /\ receivers[id[p]] = p
        /\ reading' = [reading EXCEPT ![r] = "recv"]
        /\ receivers' = [receivers EXCEPT ![id[p]] = Nil]
        /\ UNCHANGED <<contextVars, senders, next_id, woken, queue, writeVars, clientVars, read>>

\* It puts it back after data, under the id the stream had, and drops it after
\* the end.
ReadEnds(r) ==
    LET p == <<r, "upload">>
        it == Head(queue[p])
    IN  /\ InRead(r) /\ queue[p] # <<>>
        /\ queue' = [queue EXCEPT ![p] = Tail(@)]
        /\ read' = IF reading[r] = "recv" THEN [read EXCEPT ![r] = Append(@, it)] ELSE read
        /\ receivers' = IF it.what \in Ends THEN receivers ELSE [receivers EXCEPT ![id[p]] = p]
        /\ reading' = [reading EXCEPT ![r] = IF @ = "recv" /\ it.what \notin Ends THEN "off" ELSE "over"]
        /\ UNCHANGED <<contextVars, senders, next_id, woken, writeVars, clientVars>>

\* A cancellation, or a stream without senders, drops the receiver.
ReadStops(r) ==
    LET p == <<r, "upload">>
    IN  /\ InRead(r)
        /\ Cancelled(r) \/ (queue[p] = <<>> /\ ~Fed(p))
        /\ reading' = [reading EXCEPT ![r] = "over"]
        /\ UNCHANGED <<contextVars, mapVars, woken, queue, writeVars, clientVars, read>>

\* native_stream_cancel: the scheduler closes the upload. A read that is under way
\* goes on, but nobody waits for it.
CancelUpload(r) ==
    LET p == <<r, "upload">>
    IN  /\ Serving(r) /\ scope = r /\ pc[p] # "off" /\ answer[r] # p
        /\ reading[r] \in {"off", "recv"}
        /\ reading' = [reading EXCEPT ![r] = IF @ = "recv" THEN "drain" ELSE "over"]
        /\ close_stream(id[p])
        /\ UNCHANGED <<contextVars, queue, writeVars, clientVars, read>>

-----------------------------------------------------------------------------
Task(p) == TaskLooksUp(p) \/ TaskSends(p) \/ TaskFindsClosed(p)

EventLoop(r) ==
    \/ ReadResponse(r)
    \/ PumpWrites(r) \/ PumpResumes(r) \/ PumpEnds(r) \/ LoopTurn(r)

Forwarder(r) == ForwardReceives(r) \/ ForwardFindsNone(r) \/ ForwardSends(r) \/ ForwardClosed(r)

Guest(r) ==
    \/ StartUpload(r) \/ StartFetch(r) \/ StartGuest(r) \/ PassOn(r) \/ RespondInMemory(r)
    \/ ReadStarts(r) \/ ReadEnds(r) \/ ReadStops(r) \/ CancelUpload(r)
    \/ RequestEnds(r) \/ RequestFails(r) \/ Abort(r)

Next ==
    \/ BeginRequest \/ ContextGoes \/ NextRequest
    \/ \E p \in Producers : TaskReceives(p) \/ Task(p)
    \/ \E r \in Requests :
          Guest(r) \/ PumpReads(r) \/ EventLoop(r) \/ Forwarder(r) \/ ClientLeaves(r)

Spec == Init /\ [][Next]_vars

\* Tasks, forwarders and the event loop run when they can, and a client that has
\* not left goes on reading. Sources and guests need not go on.
Fairness ==
    /\ \A p \in Producers : WF_vars(Task(p))
    /\ \A r \in Requests : WF_vars(EventLoop(r)) /\ WF_vars(Forwarder(r))

-----------------------------------------------------------------------------
(* Properties *)

\* The whole body of p, as its source gave it.
Body(p) == [k \in 1..made[p].chunks |-> [from |-> p, what |-> k]]

\* A client that sees its response end has the whole of the body the guest
\* answered with, unless the request was aborted or its event failed: what is
\* cut short reads as an error (stream_body.js, response_stream_error).
CleanEndIsWhole ==
    \A r \in Requests :
        (client[r] = "ended" /\ r \notin aborted \cup failed) =>
            made[answer[r]].whole /\ got[r] = Body(answer[r])

\* The reader of a fetch is cancelled once its context is dropped, and ends the stream.
Cut(p) == p[2] = "fetch" /\ stage = "dropped"

\* As long as no other request uses the context, such a client has all that was taken
\* from the source of the body, in order and without a gap, and the source had ended
\* well: all but a fetch passed on whose reader a dropped context cut short
\* (spawn_stream_reader writes Done, not Error, when it is cancelled).
WholeUntilReuse ==
    request = 1 => \A r \in Requests :
        (client[r] = "ended" /\ r \notin aborted \cup failed) =>
            /\ got[r] = Body(answer[r])
            /\ made[answer[r]].whole \/ Cut(answer[r])

\* What a guest reads of its request is what the client sent, in order, and it
\* sees the end only after all of it, whoever takes the receiver out of the map
\* and puts it back meanwhile. As long as the context serves its first request.
ReadsAreUpload ==
    request = 1 => \A r \in Requests :
        LET p == <<r, "upload">>
        IN  \A i \in DOMAIN read[r] :
              \/ i \in DOMAIN Body(p) /\ read[r][i] = Body(p)[i]
              \/ /\ i = Len(read[r]) /\ read[r][i].what \in Ends
                 /\ read[r][i].what = Done => made[p].whole /\ i = made[p].chunks + 1

\* A warm context keeps its requests apart (tests/warm_reuse_leftover_op_test.rs):
\* a stream holds only what the task it was made for wrote.
StreamsApart ==
    \A c \in Producers : \A i \in DOMAIN queue[c] : queue[c][i].from = c

\* A body that ended reaches a client that reads it: the end always finds room,
\* even in a channel that is full (create_stream's slot beyond the mark).
BodyEnds ==
    \A r \in Requests :
        (answer[r] # Nil /\ forward[r] # "off" /\ pc[answer[r]] = "over") ~>
            (client[r] # "reading" \/ r \in failed)

\* The pump never waits for good: room, a client that hangs up or a cancellation
\* calls it back, and the worker does not hang.
PumpGoesOn ==
    \A r \in Requests : (pc[<<r, "guest">>] = "wait") ~> (pc[<<r, "guest">>] # "wait" \/ r \in failed)

\* A client that hangs up ends the pump, also one that waits for a guest that
\* has nothing to give: the forwarder closes the stream and wakes the loop.
HangUpEndsPump ==
    \A r \in Requests :
        (client[r] = "left" /\ pc[<<r, "guest">>] = "read") ~>
            (pc[<<r, "guest">>] # "read" \/ r \in failed)

=============================================================================
