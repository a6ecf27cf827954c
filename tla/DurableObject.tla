--------------------------- MODULE DurableObject ----------------------------
(***************************************************************************)
(* A Durable Object (execution_context/durable_object.rs, with             *)
(* js/durable_object.js) and the queue its storage ops, frames and         *)
(* barriers go through (run_object_queue, runtime/scheduler.rs).           *)
(*                                                                         *)
(* The object is built for an event, serves the events of its mailbox,     *)
(* which interleave at their awaits, and is dropped when it is idle,       *)
(* stopped or broken; the next event builds its next life. The queue of a  *)
(* life outlives it, until what it holds has run.                          *)
(*                                                                         *)
(* The guest is a counter: the handler of every event may make an          *)
(* outbound call, reads the count, writes it back one higher, may send a   *)
(* frame, may make another call, and answers with what it wrote. It awaits *)
(* its write or does not. Whether a write commits, and when a call         *)
(* returns, is up to the host, which is external. A turn is taken          *)
(* apart into what it admits, runs and answers, one event at a time.       *)
(*                                                                         *)
(* A definition named X_Variant is a plausible mistake in X; no            *)
(* specification uses one.                                                 *)
(***************************************************************************)
EXTENDS Integers, Sequences

CONSTANTS
    Events,
    MaxLives,   \* bound: times the object is built
    Nil

ASSUME ObjectAssumption == MaxLives \in Nat \ {0} /\ Nil \notin Events /\ Nil \notin Nat

Lives == 1..MaxLives

VARIABLES
    mailbox,    \* the events the host sent
    closed,     \* the host closed the mailbox
    saw,        \* the loop of the object saw it closed
    life,       \* the life of the object, 0 before the first
    alive,      \* it is built and serves
    first,      \* the event it was built for, until it is admitted
    blocked,    \* a blockConcurrencyWhile callback of the constructor runs
    failure,    \* a write failed and the guest knows: the gate is Broken
    ev,         \* where the handler of an event stands
    wrote,      \* what it wrote, Nil before
    inflight,   \* events taken whose callers wait
    gate,       \* the barrier an event waits at, if any
    callbacks,  \* callback_rx and `pending`
    queue,      \* the work of each life
    failed,     \* the `failed` of each queue
    issued,     \* writes made by each life ...
    committed,  \* ... and committed, in order
    stamp,      \* history: the writes made before what an event holds back
    stored,     \* the count in the storage
    early,      \* history: something left before a write made before it
    overlap     \* history: a life was built before the work of an earlier one ended

storeVars == <<queue, failed, issued, committed, stored>>
hostVars  == <<mailbox, closed, saw>>
lifeVars  == <<life, alive, first, blocked>>
vars == <<hostVars, lifeVars, failure, ev, wrote, inflight, gate, callbacks, storeVars,
          stamp, early, overlap>>

Init ==
    /\ mailbox = <<>> /\ closed = FALSE /\ saw = FALSE
    /\ life = 0 /\ alive = FALSE /\ first = Nil /\ blocked = FALSE /\ failure = FALSE
    /\ ev = [e \in Events |-> "new"] /\ wrote = [e \in Events |-> Nil]
    /\ inflight = {} /\ gate = [e \in Events |-> "none"]
    /\ callbacks = <<>>
    /\ queue = [l \in Lives |-> <<>>] /\ failed = [l \in Lives |-> FALSE]
    /\ issued = [l \in Lives |-> 0] /\ committed = [l \in Lives |-> 0]
    /\ stamp = [e \in Events |-> 0]
    /\ stored = 0 /\ early = FALSE /\ overlap = FALSE

-----------------------------------------------------------------------------
(* The host: the mailbox, the callers *)

Send(e) ==
    /\ ev[e] = "new" /\ ~closed
    /\ mailbox' = Append(mailbox, e)
    /\ ev' = [ev EXCEPT ![e] = "sent"]
    /\ UNCHANGED <<closed, saw, lifeVars, failure, wrote, inflight, gate, callbacks, storeVars,
                   stamp, early, overlap>>

Close ==
    /\ ~closed /\ closed' = TRUE
    /\ UNCHANGED <<mailbox, saw, lifeVars, failure, ev, wrote, inflight, gate, callbacks, storeVars,
                   stamp, early, overlap>>

\* A caller hangs up: its event no longer keeps the object, but its code runs on.
CallerLeaves(e) ==
    /\ alive /\ e \in inflight
    /\ inflight' = inflight \ {e}
    /\ UNCHANGED <<hostVars, lifeVars, failure, ev, wrote, gate, callbacks, storeVars,
                   stamp, early, overlap>>

-----------------------------------------------------------------------------
(* run and DurableObject::new *)

Build ==
    /\ ~alive /\ mailbox # <<>> /\ life < MaxLives
    /\ life' = life + 1 /\ alive' = TRUE
    /\ first' = Head(mailbox) /\ mailbox' = Tail(mailbox)
    /\ blocked' \in BOOLEAN
    /\ failure' = FALSE /\ callbacks' = <<>>
    /\ overlap' = (overlap \/ \E l \in 1..life : queue[l] # <<>>)
    /\ saw' = FALSE
    /\ UNCHANGED <<closed, ev, wrote, inflight, gate, storeVars, stamp, early>>

\* The constructor throws or goes over a limit: the event is dropped.
BuildFails ==
    /\ ~alive /\ mailbox # <<>>
    /\ mailbox' = Tail(mailbox)
    /\ ev' = [ev EXCEPT ![Head(mailbox)] = "failed"]
    /\ UNCHANGED <<closed, saw, lifeVars, failure, wrote, inflight, gate, callbacks, storeVars,
                   stamp, early, overlap>>

Waiting(e) == ev[e] \in {"call", "kv", "get", "put", "ready"}

\* The object is dropped, with the event it did not admit and all that runs in it.
Drop ==
    /\ alive' = FALSE /\ first' = Nil /\ blocked' = FALSE
    /\ ev' = [e \in Events |-> IF e = first \/ Waiting(e) THEN "failed" ELSE ev[e]]
    /\ inflight' = {} /\ callbacks' = <<>>
    /\ gate' = [e \in Events |-> "none"]
    /\ UNCHANGED <<hostVars, life, failure, wrote, storeVars, stamp, early, overlap>>

-----------------------------------------------------------------------------
(* The guest *)

\* What the guest asks of the scheduler when it goes on to s.
Asks(e, s) ==
    CASE s = "get"  -> <<[kind |-> "get", by |-> e]>>
      [] s = "call" -> <<[kind |-> "barrier", by |-> e]>>
      [] OTHER      -> <<>>

\* The handler of e goes on to s, after the work it made on the way: nothing, or a
\* write with what came after it. A call is a fetch, a binding fetch or a call of a
\* worker or an object, which wait at the output gate; a kv op, like the other
\* binding ops, leaves at once.
GoesOn(e, s, work) ==
    /\ ev' = [ev EXCEPT ![e] = s]
    /\ queue' = [queue EXCEPT ![life] = @ \o work \o Asks(e, s)]
    /\ LET made == IF work = <<>> THEN issued[life] ELSE issued[life] + 1
       IN  /\ issued' = [issued EXCEPT ![life] = made]
           /\ stamp' = IF s \in {"call", "ready"} THEN [stamp EXCEPT ![e] = made] ELSE stamp
    /\ gate' = [gate EXCEPT ![e] = CASE s = "call" -> "shut" [] s = "kv" -> "open" [] OTHER -> "none"]

\* A read result: the guest writes the count back, one higher.
Writes(e, count) ==
    /\ wrote' = [wrote EXCEPT ![e] = count + 1]
    /\ LET put   == [kind |-> "put", by |-> e, count |-> count + 1, stamp |-> issued[life] + 1]
           frame == [kind |-> "frame", by |-> e, stamp |-> issued[life] + 1]
       IN  \E s \in {"put", "call", "kv", "ready"}, work \in {<<put>>, <<put, frame>>} : GoesOn(e, s, work)

-----------------------------------------------------------------------------
(* turn: admit, drain_gated, answer *)

Reading == \E e \in Events : ev[e] = "get"

\* The gate lets an event in.
GateOpen_WhileReading == ~failure /\ ~blocked

GateOpen == ~failure /\ ~blocked /\ ~Reading

Admit ==
    /\ alive /\ GateOpen
    /\ LET e == IF first # Nil THEN first ELSE Head(mailbox)
       IN  /\ first # Nil \/ mailbox # <<>>
           /\ inflight' = inflight \cup {e}
           /\ \E s \in {"call", "kv", "get"} : GoesOn(e, s, <<>>)
    /\ IF first # Nil
       THEN first' = Nil /\ UNCHANGED mailbox
       ELSE mailbox' = Tail(mailbox) /\ UNCHANGED first
    /\ UNCHANGED <<closed, saw, life, alive, blocked, failure, wrote, callbacks, failed, committed, stored,
                   early, overlap>>

\* The gate is open, and the mailbox is empty and closed.
SeesClose ==
    /\ alive /\ GateOpen /\ first = Nil /\ mailbox = <<>> /\ closed /\ ~saw
    /\ saw' = TRUE
    /\ UNCHANGED <<mailbox, closed, lifeVars, failure, ev, wrote, inflight, gate, callbacks, storeVars,
                   stamp, early, overlap>>

\* drain_gated runs a callback now: while the object reads, only a storage result.
Fits(c) == (Reading /\ ~failure) => c.kind # "call"

NextCallback_HeadOnly == {i \in DOMAIN callbacks : i = 1 /\ Fits(callbacks[i])}

\* Where the callback it runs next is, if there is one: the first that fits.
NextCallback == {i \in DOMAIN callbacks : Fits(callbacks[i]) /\ \A j \in 1..(i - 1) : ~Fits(callbacks[j])}

Without(s, i) == SubSeq(s, 1, i - 1) \o SubSeq(s, i + 1, Len(s))

\* The guest learns how its op ended, and its handler goes on. One that goes on
\* without awaiting its write has nothing to do with the result, unless it failed.
RunCallback ==
    /\ alive
    /\ \E i \in NextCallback :
          LET c == callbacks[i]
              e == c.by
          IN  /\ callbacks' = Without(callbacks, i)
              /\ failure' = (failure \/ (c.kind = "put" /\ ~c.ok))
              /\ CASE c.kind = "get" /\ c.ok -> Writes(e, c.count)
                   [] c.kind = "call" /\ wrote[e] = Nil -> GoesOn(e, "get", <<>>) /\ UNCHANGED wrote
                   [] c.kind = "put" /\ ev[e] = "put" /\ c.ok ->
                         (\E s \in {"call", "kv", "ready"} : GoesOn(e, s, <<>>)) /\ UNCHANGED wrote
                   [] c.kind = "put" /\ ev[e] # "put" ->
                         UNCHANGED <<ev, queue, issued, stamp, gate, wrote>>
                   [] OTHER -> GoesOn(e, "ready", <<>>) /\ UNCHANGED wrote
    /\ UNCHANGED <<hostVars, lifeVars, inflight, failed, committed, stored, early, overlap>>

\* answer() holds the response that is ready behind a barrier ...
Holds(e) ==
    /\ gate' = [gate EXCEPT ![e] = "shut"]
    /\ queue' = [queue EXCEPT ![life] = Append(@, [kind |-> "barrier", by |-> e])]

Hold(e) ==
    /\ alive /\ ~failure /\ e \in inflight /\ ev[e] = "ready" /\ gate[e] = "none"
    /\ Holds(e)
    /\ UNCHANGED <<hostVars, lifeVars, failure, ev, wrote, inflight, callbacks, failed, issued, committed,
                   stored, stamp, early, overlap>>

\* ... and sends it once the barrier opens, or drops it if a write failed.
Answer(e) ==
    /\ alive /\ ~failure /\ e \in inflight /\ ev[e] = "ready" /\ gate[e] \in {"open", "closed"}
    /\ ev' = [ev EXCEPT ![e] = IF gate[e] = "open" THEN "answered" ELSE "failed"]
    /\ early' = (early \/ (gate[e] = "open" /\ stamp[e] > committed[life]))
    /\ inflight' = inflight \ {e}
    /\ gate' = [gate EXCEPT ![e] = "none"]
    /\ UNCHANGED <<hostVars, lifeVars, failure, wrote, callbacks, storeVars, stamp, overlap>>

\* The callback of the constructor's blockConcurrencyWhile ends, or fails.
Unblock ==
    /\ alive /\ blocked /\ blocked' = FALSE
    /\ failure' \in {failure, TRUE}
    /\ UNCHANGED <<hostVars, life, alive, first, ev, wrote, inflight, gate, callbacks, storeVars,
                   stamp, early, overlap>>

-----------------------------------------------------------------------------
(* serve: what ends the life *)

\* A blockConcurrencyWhile callback or a write failed.
Broken == alive /\ failure /\ Drop

\* A turn goes over a limit.
Stopped == alive /\ Drop

\* The callback of the constructor held the object for GATE_TIMEOUT.
GateTimesOut == alive /\ blocked /\ Drop

\* No event was in flight for the idle time, or the loop saw the mailbox closed.
\* A turn takes what the gate lets in before it looks.
Idle ==
    /\ alive /\ inflight = {}
    /\ (first # Nil \/ mailbox # <<>>) => ~GateOpen
    /\ Drop

\* The mailbox closed, and the events in flight did not end in time.
DrainEnds == alive /\ saw /\ inflight # {} /\ Drop

-----------------------------------------------------------------------------
(* run_object_queue *)

\* A result for the guest, if its life lasts.
Tells(l, c) == callbacks' = IF l = life /\ alive THEN Append(callbacks, c) ELSE callbacks

\* The barrier an event waits at opens or closes; that of a life that is over
\* has nobody behind it.
Opens(l, e, open) ==
    gate' = IF l = life /\ alive /\ gate[e] = "shut" THEN [gate EXCEPT ![e] = open] ELSE gate

\* A failed write keeps every later op of the life from running.
Sticks_Never(l, ok) == FALSE

Sticks(l, ok) == ~ok

Popped(l) == Tail(queue[l])

RunQueue(l) ==
    /\ queue[l] # <<>>
    /\ queue' = [queue EXCEPT ![l] = Popped(l)]
    /\ LET w == Head(queue[l])
       IN  \/ /\ w.kind = "get"
              /\ Tells(l, [kind |-> "get", by |-> w.by, ok |-> ~failed[l], count |-> stored])
              /\ UNCHANGED <<failed, committed, stored, gate, early>>
           \/ /\ w.kind = "put" /\ failed[l]
              /\ Tells(l, [kind |-> "put", by |-> w.by, ok |-> FALSE])
              /\ UNCHANGED <<failed, committed, stored, gate, early>>
           \/ /\ w.kind = "put" /\ ~failed[l]
              /\ \E ok \in BOOLEAN :
                    /\ failed' = [failed EXCEPT ![l] = Sticks(l, ok)]
                    /\ stored' = IF ok THEN w.count ELSE stored
                    /\ committed' = IF ok THEN [committed EXCEPT ![l] = @ + 1] ELSE committed
                    /\ Tells(l, [kind |-> "put", by |-> w.by, ok |-> ok])
              /\ UNCHANGED <<gate, early>>
           \/ /\ w.kind = "frame"
              /\ early' = (early \/ (~failed[l] /\ w.stamp > committed[l]))
              /\ UNCHANGED <<failed, committed, stored, gate, callbacks>>
           \/ /\ w.kind = "barrier"
              /\ Opens(l, w.by, IF failed[l] THEN "closed" ELSE "open")
              /\ early' = (early \/ (l = life /\ alive /\ ev[w.by] = "call" /\ ~failed[l]
                                     /\ stamp[w.by] > committed[l]))
              /\ UNCHANGED <<failed, committed, stored, callbacks>>
    /\ UNCHANGED <<hostVars, lifeVars, failure, ev, wrote, inflight, issued, stamp, overlap>>

\* The outbound call whose gate opened returns; one whose gate closed fails.
CallReturns(e) ==
    /\ alive /\ ev[e] \in {"call", "kv"} /\ gate[e] \in {"open", "closed"}
    /\ gate' = [gate EXCEPT ![e] = "none"]
    /\ callbacks' = Append(callbacks, [kind |-> "call", by |-> e, ok |-> gate[e] = "open"])
    /\ UNCHANGED <<hostVars, lifeVars, failure, ev, wrote, inflight, storeVars, stamp, early, overlap>>

-----------------------------------------------------------------------------
Turn ==
    \/ Build \/ BuildFails \/ Admit \/ SeesClose \/ RunCallback \/ Broken
    \/ \E e \in Events : Hold(e) \/ Answer(e)

Next ==
    \/ \E e \in Events : Send(e) \/ CallerLeaves(e) \/ CallReturns(e)
    \/ Turn \/ Unblock \/ Close \/ Stopped \/ GateTimesOut \/ Idle \/ DrainEnds
    \/ \E l \in Lives : RunQueue(l)

Spec == Init /\ [][Next]_vars

\* The object takes its turns, its queue runs, calls return, and
\* blockConcurrencyWhile ends or holds the object for too long.
Fairness ==
    /\ WF_vars(Turn) /\ WF_vars(Unblock \/ GateTimesOut)
    /\ \A l \in Lives : WF_vars(RunQueue(l))
    /\ \A e \in Events : WF_vars(CallReturns(e))

-----------------------------------------------------------------------------
(* Properties *)

Answered == {e \in Events : ev[e] = "answered" /\ wrote[e] # Nil}

\* What the object answered stays in its storage: two events never answer with
\* the same count, and the stored count never falls behind an answer. The input
\* gate keeps the read and the write of an event together, whatever timers,
\* calls and other events come meanwhile (gates of durable_object_gates_test.rs).
CountKept ==
    /\ \A e, f \in Answered : e # f => wrote[e] # wrote[f]
    /\ \A e \in Answered : stored >= wrote[e]

\* The same, when no life of the object is built before the queue of an earlier
\* one is empty.
CountKeptInOrder == ~overlap => CountKept

\* Nothing that takes the gate leaves the object before the writes made before it
\* are committed: no response, no alarm outcome, no frame and no call (the comment
\* on Held). The binding ops that take no gate are left out.
OutputGate == ~early

\* An event the object took is answered or fails: the gates never leave it
\* waiting for good.
EventSettles ==
    \A e \in Events : (e \in inflight) ~> (e \notin inflight)

=============================================================================
