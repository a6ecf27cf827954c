------------------------------ MODULE Scheduler -----------------------------
(***************************************************************************)
(* The event loop of a context (run_event_loop, runtime/scheduler.rs), the *)
(* natives that feed it (runtime/bindings/fetch.rs, timers.rs, streams.rs) *)
(* and the dispatch of its answers to the guest (runtime/dispatch.rs,      *)
(* runtime/mod.rs), across the requests that reuse the context.            *)
(*                                                                         *)
(* A native registers a callback under the next id and sends a message;    *)
(* the loop spawns a task for it in the cancellation scope of the request; *)
(* the task answers once, on the channel the request drains in rounds. The *)
(* loop, its tasks and its timers go on between requests: what the         *)
(* previous one left behind lands in the next.                             *)
(*                                                                         *)
(* The script of the guest is a program: the ops it makes, in order, and   *)
(* how many timers it sets and clears. When it makes them, and when it     *)
(* answers, is open. A native that throws on its arguments registers and   *)
(* sends nothing, so it is no step. The host that runs the ops is          *)
(* external; it may answer, fail, panic or never answer.                   *)
(*                                                                         *)
(* A definition named X_Variant is a plausible mistake in X; no            *)
(* specification uses one.                                                 *)
(***************************************************************************)
EXTENDS Integers, Sequences

CONSTANTS
    N,                  \* bound: requests the context serves
    Programs,           \* what the guest may ask for
    MAX_INLINE_CALLS,   \* invoke calls settled inline in a round
    MaxInbox            \* bound: an interval ticks while fewer callbacks wait

ASSUME SchedulerAssumption ==
    /\ N \in Nat \ {0} /\ MaxInbox \in Nat \ {0} /\ MAX_INLINE_CALLS \in Nat
    /\ \A p \in Programs :
          /\ Len(p.ops) \in Nat /\ p.timers \in Nat /\ p.clears \in Nat

VARIABLES
    program,        \* the script of the worker
    stage,          \* "idle" between requests, "serving", or "gone" with its context
    request,        \* the request it serves, or served last
    answered,       \* the guest gave its answer
    hungUp,         \* requests whose abort token was cancelled
    round,          \* a round of callbacks, or the dispatch of the event, is under way
    js,             \* guest code runs in it
    batch,          \* the callbacks it has yet to run
    inline_calls,
    next_id,
    owner,          \* history: the request that made the op
    promise,        \* what the guest knows of the op
    fetch_callbacks, fetch_error_callbacks, stream_callbacks,
    unanswered,     \* history: ops that got no answer although they were run
    scheduler_rx, callback_rx,
    scope,          \* request_cancel: the scope of this request ...
    cancelled_scopes,
    tasks,          \* ops under way, with the scope they run in
    relays,         \* sockets a binding handed over, by the op that brought them
    next_timer,
    timer_owner,    \* history: the request that set the timer
    timer_callbacks, interval_ids,  \* __timerCallbacks and __intervalIds
    timers, cancelled,
    cleared,        \* history: timers the guest cleared after it had set them
    clears,         \* history: calls of clearTimeout
    ran             \* history: times the callback of a timer ran, 2 for more

reqVars   == <<program, stage, request, answered, hungUp>>
turnVars  == <<round, js, batch, inline_calls>>
tables    == <<fetch_callbacks, fetch_error_callbacks, stream_callbacks>>
opVars    == <<next_id, owner, promise, tables, unanswered>>
scopeVars == <<scope, cancelled_scopes>>
guestTimerVars == <<next_timer, timer_owner, timer_callbacks, interval_ids, cleared, clears, ran>>
loopTimerVars  == <<timers, cancelled>>
timerVars == <<guestTimerVars, loopTimerVars>>
vars == <<reqVars, turnVars, opVars, scheduler_rx, callback_rx, scopeVars, tasks, relays, timerVars>>

\* The ids the programs can use.
Ops    == UNION {1..Len(p.ops) : p \in Programs}
Timers == UNION {1..p.timers : p \in Programs}

Init ==
    /\ program \in Programs
    /\ stage = "idle" /\ request = 0 /\ answered = FALSE /\ hungUp = {}
    /\ round = FALSE /\ js = FALSE /\ batch = <<>> /\ inline_calls = 0
    /\ next_id = 1
    /\ owner = [i \in Ops |-> 0] /\ promise = [i \in Ops |-> "none"]
    /\ fetch_callbacks = {} /\ fetch_error_callbacks = {} /\ stream_callbacks = {}
    /\ unanswered = {}
    /\ scheduler_rx = <<>> /\ callback_rx = <<>>
    /\ scope = 0 /\ cancelled_scopes = {} /\ tasks = {} /\ relays = {}
    /\ next_timer = 1 /\ timer_owner = [i \in Timers |-> 0]
    /\ timer_callbacks = {} /\ interval_ids = {}
    /\ timers = {} /\ cancelled = {} /\ cleared = {} /\ clears = 0
    /\ ran = [i \in Timers |-> 0]

-----------------------------------------------------------------------------
(* The requests of the context *)

\* What reset() leaves of the callbacks of the guest, and of its id counters.
ClearTables_CountsAgain ==
    /\ fetch_callbacks' = {} /\ fetch_error_callbacks' = {} /\ stream_callbacks' = {}
    /\ next_id' = 1

ClearTables ==
    /\ fetch_callbacks' = {} /\ fetch_error_callbacks' = {} /\ stream_callbacks' = {}
    /\ UNCHANGED next_id

ClearGuestState_KeepsTimers == UNCHANGED <<timer_callbacks, interval_ids>>

ClearGuestState == timer_callbacks' = {} /\ interval_ids' = {}

\* A request starts: reset() of a context that was used, begin_request, and exec,
\* which dispatches the event to the guest. What the guest had asked for and does
\* not have by now, it never gets.
Start ==
    /\ stage = "idle" /\ request < N
    /\ stage' = "serving" /\ request' = request + 1 /\ answered' = FALSE
    /\ callback_rx' = <<>>
    /\ ClearTables /\ ClearGuestState
    /\ promise' = [i \in Ops |-> IF promise[i] = "pending" THEN "dropped" ELSE promise[i]]
    /\ scheduler_rx' = Append(scheduler_rx, [type |-> "BeginRequest", by |-> request + 1])
    /\ round' = TRUE /\ js' = TRUE /\ batch' = <<>> /\ inline_calls' = 0
    /\ UNCHANGED <<program, hungUp, owner, unanswered, scopeVars, tasks, relays,
                   next_timer, timer_owner, cleared, clears, ran, loopTimerVars>>

\* The caller goes away, which cancels the abort token of the request.
HangUp ==
    /\ stage = "serving" /\ hungUp' = hungUp \cup {request} /\ hungUp' # hungUp
    /\ UNCHANGED <<program, stage, request, answered, turnVars, opVars, scheduler_rx, callback_rx,
                   scopeVars, tasks, relays, timerVars>>

\* The guest answers, and has no work left that the event waits for.
Respond ==
    /\ js /\ ~answered /\ answered' = TRUE
    /\ UNCHANGED <<program, stage, request, hungUp, turnVars, opVars, scheduler_rx, callback_rx,
                   scopeVars, tasks, relays, timerVars>>

\* The event is over and its context is kept ...
End ==
    /\ stage = "serving" /\ ~round /\ answered
    /\ stage' = "idle"
    /\ UNCHANGED <<program, request, answered, hungUp, turnVars, opVars, scheduler_rx, callback_rx,
                   scopeVars, tasks, relays, timerVars>>

\* ... or dropped, as one that failed, or that the pool does not keep: its loop is
\* aborted and its ops are cancelled.
Gone ==
    /\ stage # "gone" /\ ~round /\ request > 0
    /\ stage' = "gone"
    /\ scheduler_rx' = <<>> /\ callback_rx' = <<>> /\ tasks' = {} /\ relays' = {} /\ timers' = {}
    /\ promise' = [i \in Ops |-> IF promise[i] = "pending" THEN "dropped" ELSE promise[i]]
    /\ fetch_callbacks' = {} /\ fetch_error_callbacks' = {} /\ stream_callbacks' = {}
    /\ UNCHANGED <<program, request, answered, hungUp, turnVars, next_id, owner, unanswered,
                   scopeVars, guestTimerVars, cancelled>>

-----------------------------------------------------------------------------
(* The ops of the guest: fetch.rs, streams.rs *)

FetchKinds   == {"fetch", "assets"}
BindingKinds == {"storage", "kv", "database"}
RequestKinds == {"worker", "object"}
OpKinds      == FetchKinds \cup BindingKinds \cup RequestKinds \cup {"d1", "invoke", "read"}

\* The guest makes the next op of its program, of this kind.
Makes(kind) == js /\ next_id <= Len(program.ops) /\ program.ops[next_id] = kind

\* register_callbacks_with_error.
Registers ==
    /\ fetch_callbacks' = fetch_callbacks \cup {next_id}
    /\ fetch_error_callbacks' = fetch_error_callbacks \cup {next_id}
    /\ UNCHANGED stream_callbacks

Asks ==
    /\ next_id' = next_id + 1
    /\ owner' = [owner EXCEPT ![next_id] = request]
    /\ UNCHANGED <<reqVars, round, js, batch, callback_rx, scopeVars, tasks, relays, timerVars>>

Sends(kind) ==
    /\ scheduler_rx' = Append(scheduler_rx, [type |-> kind, id |-> next_id, by |-> request])
    /\ promise' = [promise EXCEPT ![next_id] = "pending"]
    /\ UNCHANGED <<inline_calls, unanswered>>

NativeFetchStreaming == Makes("fetch") /\ Registers /\ Asks /\ Sends("fetch")

\* setup_binding_fetch_helper, for the assets and the worker bindings.
NativeBindingRequest(kind) == Makes(kind) /\ Registers /\ Asks /\ Sends(kind)

NativeBindingStorage == Makes("storage") /\ Registers /\ Asks /\ Sends("storage")

NativeBindingKv == Makes("kv") /\ Registers /\ Asks /\ Sends("kv")

NativeBindingDatabase == Makes("database") /\ Registers /\ Asks /\ Sends("database")

NativeBindingD1 == Makes("d1") /\ Registers /\ Asks /\ Sends("d1")

NativeBindingDurableObject == Makes("object") /\ Registers /\ Asks /\ Sends("object")

\* A read of a stream has no reject: its errors are chunks.
NativeStreamRead ==
    /\ Makes("read") /\ Asks /\ Sends("read")
    /\ stream_callbacks' = stream_callbacks \cup {next_id}
    /\ UNCHANGED <<fetch_callbacks, fetch_error_callbacks>>

\* A call that is settled inline counts, and so does one that panics.
Counts(panicked) == inline_calls' = inline_calls + 1

\* setup_invoke: a call is polled at once, and settled if it is ready. One that
\* waits, or is past the budget, goes through the scheduler.
NativeBindingInvoke ==
    /\ Makes("invoke") /\ Asks
    /\ \/ Registers /\ Sends("invoke")
       \/ /\ inline_calls < MAX_INLINE_CALLS
          /\ \E panicked \in BOOLEAN, outcome \in {"resolved", "rejected"} :
                /\ panicked => outcome = "rejected"
                /\ Counts(panicked)
                /\ promise' = [promise EXCEPT ![next_id] = outcome]
          /\ UNCHANGED <<scheduler_rx, tables, unanswered>>

GuestOps ==
    \/ NativeFetchStreaming \/ NativeBindingStorage \/ NativeBindingKv \/ NativeBindingDatabase
    \/ NativeBindingD1 \/ NativeBindingDurableObject \/ NativeStreamRead \/ NativeBindingInvoke
    \/ \E kind \in {"assets", "worker"} : NativeBindingRequest(kind)

-----------------------------------------------------------------------------
(* The timers of the guest: timers.rs *)

GuestTimer ==
    UNCHANGED <<reqVars, turnVars, opVars, callback_rx, scopeVars, tasks, relays, loopTimerVars>>

\* setTimeout and setInterval.
SetTimer(interval) ==
    /\ js /\ next_timer <= program.timers
    /\ next_timer' = next_timer + 1
    /\ timer_owner' = [timer_owner EXCEPT ![next_timer] = request]
    /\ timer_callbacks' = timer_callbacks \cup {next_timer}
    /\ interval_ids' = IF interval THEN interval_ids \cup {next_timer} ELSE interval_ids
    /\ scheduler_rx' = Append(scheduler_rx, [type |-> "Schedule", id |-> next_timer, interval |-> interval])
    /\ GuestTimer /\ UNCHANGED <<cleared, clears, ran>>

\* clearTimeout and clearInterval: the id is the guest's, and may be one that was
\* cleared, has fired, or is not given out yet.
ClearTimeout(i) ==
    /\ js /\ clears < program.clears /\ clears' = clears + 1
    /\ timer_callbacks' = timer_callbacks \ {i} /\ interval_ids' = interval_ids \ {i}
    /\ scheduler_rx' = Append(scheduler_rx, [type |-> "ClearTimer", id |-> i])
    /\ cleared' = IF i < next_timer THEN cleared \cup {i} ELSE cleared
    /\ GuestTimer /\ UNCHANGED <<next_timer, timer_owner, ran>>

-----------------------------------------------------------------------------
(* run_event_loop *)

\* A message of these types is next; handling it leaves the guest alone.
IsNext(types) == stage # "gone" /\ scheduler_rx # <<>> /\ Head(scheduler_rx).type \in types

Handled ==
    /\ scheduler_rx' = Tail(scheduler_rx)
    /\ UNCHANGED <<reqVars, turnVars, opVars, callback_rx, relays, guestTimerVars>>

\* A task is spawned for an op, in the scope of the request.
Spawn ==
    /\ IsNext(OpKinds)
    /\ LET m == Head(scheduler_rx)
       IN  tasks' = tasks \cup {[kind |-> m.type, id |-> m.id, by |-> m.by, scope |-> scope]}
    /\ Handled /\ UNCHANGED <<scopeVars, loopTimerVars>>

\* The scope a request opens ends that of the one before.
OpensScope_KeepsOld == UNCHANGED cancelled_scopes

OpensScope == cancelled_scopes' = cancelled_scopes \cup {scope}

BeginRequest ==
    /\ IsNext({"BeginRequest"})
    /\ scope' = Head(scheduler_rx).by /\ OpensScope
    /\ Handled /\ UNCHANGED <<tasks, loopTimerVars>>

\* The scope that the abort token of the request is linked to.
Linked_Before == scope - 1

Linked == scope

Abort ==
    /\ stage # "gone" /\ scope \in hungUp \ cancelled_scopes
    /\ cancelled_scopes' = cancelled_scopes \cup {Linked}
    /\ UNCHANGED <<reqVars, turnVars, opVars, scheduler_rx, callback_rx, scope, tasks, relays, timerVars>>

\* A clear that came before its timer is set does not stop it.
Forgets(i) == cancelled \ {i}

Schedule ==
    /\ IsNext({"Schedule"})
    /\ LET m == Head(scheduler_rx)
       IN  /\ cancelled' = Forgets(m.id)
           /\ timers' = timers \cup {[id |-> m.id, interval |-> m.interval]}
    /\ Handled /\ UNCHANGED <<scopeVars, tasks>>

ClearTimer ==
    /\ IsNext({"ClearTimer"})
    /\ cancelled' = cancelled \cup {Head(scheduler_rx).id}
    /\ Handled /\ UNCHANGED <<scopeVars, tasks, timers>>

\* A timer is due. The loop looks at its messages first, but runs on a thread of
\* its own: one may come in after it looked. An interval sets itself again.
Fire(t) ==
    /\ stage # "gone" /\ t \in timers
    /\ IF t.id \in cancelled
       THEN /\ cancelled' = cancelled \ {t.id} /\ timers' = timers \ {t}
            /\ UNCHANGED callback_rx
       ELSE /\ t.interval => Len(callback_rx) < MaxInbox
            /\ callback_rx' = Append(callback_rx, [type |-> "ExecuteTimer", id |-> t.id])
            /\ timers' = IF t.interval THEN timers ELSE timers \ {t}
            /\ UNCHANGED cancelled
    /\ UNCHANGED <<reqVars, turnVars, opVars, scheduler_rx, scopeVars, tasks, relays, guestTimerVars>>

-----------------------------------------------------------------------------
(* The tasks of the ops, and the host *)

Ended(t) == t.scope \in cancelled_scopes

Tells(t, type) ==
    /\ tasks' = tasks \ {t}
    /\ callback_rx' = Append(callback_rx, [type |-> type, id |-> t.id, by |-> t.by])
    /\ UNCHANGED <<reqVars, turnVars, opVars, scheduler_rx, scopeVars, timerVars>>

\* What an op ends with when it fails.
FailureOf(kind) ==
    CASE kind \in FetchKinds \cup RequestKinds -> "FetchError"
      [] kind = "read" -> "StreamChunk"
      [] OTHER -> "Error"

\* The scope of an op ended: it answers in place of the host.
Cancelled(t) == t \in tasks /\ Ended(t) /\ Tells(t, FailureOf(t.kind)) /\ UNCHANGED relays

\* FetchStreaming and BindingFetch: the response, or an error.
FetchEnds(t) ==
    /\ t \in tasks /\ t.kind \in FetchKinds /\ ~Ended(t)
    /\ \E type \in {"FetchStreamingSuccess", "FetchError"} : Tells(t, type)
    /\ UNCHANGED relays

\* BindingStorage, BindingKv, BindingDatabase: a result or an error.
BindingEnds(t) ==
    /\ t \in tasks /\ t.kind \in BindingKinds /\ ~Ended(t)
    /\ \E type \in {"Result", "Error"} : Tells(t, type)
    /\ UNCHANGED relays

D1Ends(t) ==
    /\ t \in tasks /\ t.kind = "d1" /\ ~Ended(t)
    /\ \E type \in {"Result", "Error"} : Tells(t, type)
    /\ UNCHANGED relays

\* BindingInvoke: a panic is an error.
InvokeEnds(t) ==
    /\ t \in tasks /\ t.kind = "invoke" /\ ~Ended(t)
    /\ \E type \in {"Result", "Error"} : Tells(t, type)
    /\ UNCHANGED relays

\* answer_binding_request: a response, an error, or a 101 that hands over a socket.
AnswerBindingRequest(t) ==
    \/ \E type \in {"FetchStreamingSuccess", "FetchError"} : Tells(t, type) /\ UNCHANGED relays
    \/ Tells(t, "BindingUpgrade") /\ relays' = relays \cup {t.id}

\* BindingWorker and BindingDurableObject.
RequestEnds(t) ==
    t \in tasks /\ t.kind \in RequestKinds /\ ~Ended(t) /\ AnswerBindingRequest(t)

StreamRead(t) ==
    /\ t \in tasks /\ t.kind = "read" /\ ~Ended(t)
    /\ Tells(t, "StreamChunk") /\ UNCHANGED relays

\* The host panics in any other op: its task goes without an answer.
Panics(t) ==
    /\ t \in tasks /\ t.kind \notin {"invoke", "read"} /\ ~Ended(t)
    /\ tasks' = tasks \ {t}
    /\ unanswered' = IF promise[t.id] = "pending" THEN unanswered \cup {t.id} ELSE unanswered
    /\ UNCHANGED <<reqVars, turnVars, next_id, owner, promise, tables, scheduler_rx, callback_rx,
                   scopeVars, relays, timerVars>>

-----------------------------------------------------------------------------
(* drain_and_process: a round of callbacks *)

\* The round takes the callbacks that came, and a whole inline budget.
TakeRound ==
    /\ stage = "serving" /\ ~round /\ callback_rx # <<>>
    /\ round' = TRUE /\ batch' = callback_rx /\ callback_rx' = <<>>
    /\ inline_calls' = 0
    /\ UNCHANGED <<reqVars, js, opVars, scheduler_rx, scopeVars, tasks, relays, timerVars>>

EndRound ==
    /\ round /\ batch = <<>>
    /\ round' = FALSE /\ js' = FALSE
    /\ UNCHANGED <<reqVars, batch, inline_calls, opVars, scheduler_rx, callback_rx, scopeVars,
                   tasks, relays, timerVars>>

\* The next callback of the round is one of these.
Due(types) == round /\ batch # <<>> /\ Head(batch).type \in types

\* It runs: its callback, if it is still there, is called.
Dispatched(called) ==
    /\ batch' = Tail(batch) /\ js' = (js \/ called)
    /\ UNCHANGED <<reqVars, round, inline_calls, scheduler_rx, callback_rx, scopeVars, tasks,
                   relays, loopTimerVars, next_timer, timer_owner, cleared, clears>>

\* Both callbacks of the op are taken out, and one of them is called, if it was there.
TakesBoth_KeepsReject(i) ==
    /\ fetch_callbacks' = fetch_callbacks \ {i}
    /\ UNCHANGED <<fetch_error_callbacks, stream_callbacks>>

TakesBoth(i) ==
    /\ fetch_callbacks' = fetch_callbacks \ {i}
    /\ fetch_error_callbacks' = fetch_error_callbacks \ {i}
    /\ UNCHANGED stream_callbacks

Settles(i, table, outcomes) ==
    \E o \in outcomes : promise' = IF i \in table THEN [promise EXCEPT ![i] = o] ELSE promise

\* FetchStreamingSuccess: a resolve that throws rejects.
DispatchFetchSuccess ==
    /\ Due({"FetchStreamingSuccess"})
    /\ LET i == Head(batch).id
       IN  /\ TakesBoth(i) /\ Dispatched(i \in fetch_callbacks)
           /\ Settles(i, fetch_callbacks, {"resolved", "rejected"})
    /\ UNCHANGED <<next_id, owner, unanswered, timer_callbacks, interval_ids, ran>>

DispatchFetchError ==
    /\ Due({"FetchError"})
    /\ LET i == Head(batch).id
       IN  /\ TakesBoth(i) /\ Dispatched(i \in fetch_error_callbacks)
           /\ Settles(i, fetch_error_callbacks, {"rejected"})
    /\ UNCHANGED <<next_id, owner, unanswered, timer_callbacks, interval_ids, ran>>

\* BindingUpgrade: the reject is dropped first, so a resolve that throws leaves
\* the promise as it is.
DispatchBindingUpgrade ==
    /\ Due({"BindingUpgrade"})
    /\ LET i == Head(batch).id
       IN  /\ TakesBoth(i) /\ Dispatched(i \in fetch_callbacks)
           /\ \/ Settles(i, fetch_callbacks, {"resolved"}) /\ UNCHANGED unanswered
              \/ /\ i \in fetch_callbacks /\ unanswered' = unanswered \cup {i}
                 /\ UNCHANGED promise
    /\ UNCHANGED <<next_id, owner, timer_callbacks, interval_ids, ran>>

\* dispatch_binding_callbacks, which every other result goes through.
DispatchBinding ==
    /\ Due({"Result", "Error"})
    /\ LET i == Head(batch).id
           ok == Head(batch).type = "Result"
       IN  /\ TakesBoth(i) /\ Dispatched(i \in fetch_callbacks)
           /\ Settles(i, fetch_callbacks, IF ok THEN {"resolved", "rejected"} ELSE {"rejected"})
    /\ UNCHANGED <<next_id, owner, unanswered, timer_callbacks, interval_ids, ran>>

DispatchStreamChunk ==
    /\ Due({"StreamChunk"})
    /\ LET i == Head(batch).id
       IN  /\ stream_callbacks' = stream_callbacks \ {i}
           /\ Dispatched(i \in stream_callbacks)
           /\ Settles(i, stream_callbacks, {"resolved"})
    /\ UNCHANGED <<next_id, owner, unanswered, fetch_callbacks, fetch_error_callbacks,
                   timer_callbacks, interval_ids, ran>>

\* __executeTimer: a callback that throws stays in the map.
ExecuteTimer ==
    /\ Due({"ExecuteTimer"})
    /\ LET i == Head(batch).id
       IN  /\ Dispatched(i \in timer_callbacks)
           /\ ran' = IF i \in timer_callbacks THEN [ran EXCEPT ![i] = IF @ = 2 THEN 2 ELSE @ + 1]
                                             ELSE ran
           /\ \E throws \in BOOLEAN :
                 timer_callbacks' = IF throws \/ i \in interval_ids THEN timer_callbacks
                                                                    ELSE timer_callbacks \ {i}
    /\ UNCHANGED <<opVars, interval_ids>>

Dispatch ==
    \/ DispatchFetchSuccess \/ DispatchFetchError \/ DispatchBindingUpgrade \/ DispatchBinding
    \/ DispatchStreamChunk \/ ExecuteTimer

LoopStep == Spawn \/ BeginRequest \/ Schedule \/ ClearTimer

Next ==
    \/ Start \/ HangUp \/ Respond \/ End \/ Gone
    \/ GuestOps
    \/ \E interval \in BOOLEAN : SetTimer(interval)
    \/ \E i \in Timers : ClearTimeout(i)
    \/ LoopStep \/ Abort
    \/ \E t \in timers : Fire(t)
    \/ \E t \in tasks : Cancelled(t) \/ FetchEnds(t) \/ BindingEnds(t) \/ D1Ends(t)
                         \/ InvokeEnds(t) \/ RequestEnds(t) \/ StreamRead(t) \/ Panics(t)
    \/ TakeRound \/ Dispatch \/ EndRound

Spec == Init /\ [][Next]_vars

\* The loop and the link to the abort token are tasks of the runtime, which polls
\* what is woken; so is a task whose scope ended. A request with callbacks is woken
\* by the sender of each. A timer that is due fires. The host owes nothing.
Fairness ==
    /\ WF_vars(LoopStep) /\ WF_vars(Abort)
    /\ WF_vars(\E t \in tasks : Cancelled(t))
    /\ WF_vars(TakeRound \/ Dispatch \/ EndRound)
    /\ \A i \in Timers : WF_vars(Fire([id |-> i, interval |-> FALSE]))

-----------------------------------------------------------------------------
(* Properties *)

\* What carries an op to its answer: its message, its task, or the answer itself.
IsAnswerTo(m, i) == m.type # "ExecuteTimer" /\ m.id = i

Carried(i) ==
    \/ \E k \in DOMAIN scheduler_rx : scheduler_rx[k].type \in OpKinds /\ scheduler_rx[k].id = i
    \/ \E t \in tasks : t.id = i
    \/ \E k \in DOMAIN callback_rx : IsAnswerTo(callback_rx[k], i)
    \/ \E k \in DOMAIN batch : IsAnswerTo(batch[k], i)

\* No answer is lost on its way: an op the guest waits for has its callbacks, both or
\* neither, and something that carries it, unless its host panicked or the guest
\* refused the socket it got. One it no longer waits for has no callback left.
NoAnswerLost ==
    \A i \in Ops :
       /\ (i \in fetch_callbacks) = (i \in fetch_error_callbacks)
       /\ (promise[i] = "pending" /\ i \notin unanswered)
             => Carried(i) /\ i \in fetch_callbacks \cup stream_callbacks
       /\ promise[i] # "pending" => i \notin fetch_callbacks \cup stream_callbacks

\* A promise is settled by the answer to its own op, in the request that made it: an
\* answer to an earlier request that lands late finds no callback, since the id
\* counter keeps counting across requests.
AnswersOwn ==
    [][\A i \in Ops :
          (promise[i] = "pending" /\ promise'[i] \in {"resolved", "rejected"})
             => /\ batch # <<>> /\ Head(batch).id = i
                /\ Head(batch).by = owner[i] /\ owner[i] = request]_vars

\* A promise is settled once the caller goes away, unless its host panicked or its
\* request is over: "a promise that is never settled parks the event loop".
CancelSettles ==
    \A i \in Ops :
       (promise[i] = "pending" /\ owner[i] \in hungUp)
          ~> (promise[i] # "pending" \/ i \in unanswered \/ stage # "serving" \/ request # owner[i])

\* An op the previous request left behind does not outlive the start of the next for
\* good, although its host never answers.
LeftoversStop ==
    \A i \in Ops :
       (\E t \in tasks : t.id = i /\ t.by < scope) ~> ~(\E t \in tasks : t.id = i /\ t.by < scope)

\* A timer callback runs only in the request that set it, never once it is cleared,
\* and more than once only if it is an interval, although the loop lets the timers
\* of an earlier request tick on.
TimerOwn ==
    [][\A i \in Timers :
          ran'[i] > ran[i]
             => /\ timer_owner[i] = request /\ i \notin cleared
                /\ ran[i] > 0 => i \in interval_ids]_vars
=============================================================================
