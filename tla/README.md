# A TLA+ verification of the V8 worker runtime

The runtime runs the JavaScript of many tenants: one thread keeps a pool of V8
isolates, an isolate is shared by the requests of one owner, a context is built
for a request and kept warm for the next, and the requests on an isolate take
turns at it under its lock. Around that are threads that stop a request over a
limit and threads of V8 itself, an event loop per context whose ops, timers and
sockets outlive the request that made them, tasks that move bodies, and Durable
Objects, whose events interleave inside one context and whose sockets and storage
outlive it. What can go wrong is in the orders of these steps. The modules here
model that: all of the control of the code, with requests, chunks and values as
small sets.

`PROJECT.json` has, for every definition, the lines it is translated from, and,
for every property, a mutant (a definition `X_Variant` kept next to `X`: a
plausible mistake in `X`) that breaks it.

## The system and what is modelled

| part | source (under `src/src/`) | modules |
|---|---|---|
| isolate pool, context cache | `pool.rs`, `pool_policy.rs`, `pool_common.rs` | `Pool`, `PoolProofs`, `MCPool` |
| what the pool promises | the same | `Admission` (abstract), `PoolAdmission` (the mapping), `PoolProofs` |
| foreground tasks of V8 | `platform.rs`, `execution_context.rs` | `ForegroundTasks`, `IsolateProofs` |
| memory of `ArrayBuffer`s | `security/array_buffer_allocator.rs` | `BufferAllocator`, `IsolateProofs` |
| memory reported to V8 | `gc/external_memory.rs`, `gc/js_lock.rs` | `ExternalMemory` |
| turns, wall clock, CPU, memory, the phases of an event | `security/*`, `execution_context.rs` | `Guards`, `GuardsProofs`, `MCGuards`, `MCLimits` |
| event loop, ops, timers, dispatch | `runtime/scheduler.rs`, `runtime/dispatch.rs`, `runtime/mod.rs`, `runtime/bindings/{fetch,timers,streams}.rs` | `Scheduler`, `SchedulerProofs` |
| WebSockets | `runtime/bindings/websocket.rs`, `runtime/scheduler.rs`, `execution_context.rs` | `WebSocket`, `WebSocketProofs`, `MCWebSocket` |
| env bindings | `js/env.js`, `runtime/bindings/fetch.rs`, `runtime/callback_handlers.rs` | `Bindings` |
| streams, bodies, warm reuse of a context | `runtime/stream_manager.rs`, `js/stream_body.js`, `runtime/bindings/streams.rs`, `execution_helpers.rs`, parts of `runtime/scheduler.rs` and `execution_context.rs` | `Streams`, `StreamsProofs`, `MCStreams` |
| Durable Objects: gates, queue, lives | `execution_context/durable_object.rs`, `js/durable_object.js`, `run_object_queue` of `runtime/scheduler.rs` | `DurableObject`, `DurableObjectProofs`, `MCDurableObject` |
| their sockets | the same, `runtime/bindings/durable_object.rs` | `ObjectSockets` |
| their storage and transactions | `js/durable_object.js`, `runtime/bindings/durable_object.rs` | `ObjectStorage`, `StorageProofs` |

`MCIsolates`, `MCBodies`, `MCEventLoop`, `MCObjects` check components of one part of
the system in one run, side by side: a variable `part` says which of them a
behaviour is of, and the others stay in an initial state of theirs. They do not
interact there. Where components do interact, each has the other as part of its
environment, taken as broadly as the code allows.

How they interact. `execute_pinned` (`Pool`) takes a slot, finds or builds a
context, calls `exec` and `drain_waituntil`, and keeps the context if both
answered Ok. What `exec` does in its turns, and whether it answers Ok, is `Guards`;
`Pool` takes either answer, so it covers whatever `Guards` says. What the JS of a
turn asks for goes through the context's event loop, `Scheduler`, which goes on
between requests; what is asked and answered is `Bindings`, and the sockets, which
have tasks of their own, are `WebSocket`. The bodies that move during and after
`exec` are `Streams`, where a request that ended leaves the context to be reset, as
`Pool`'s warm hit does. The loop also runs the tasks that V8 posts
(`ForegroundTasks`), under a lock that settles what guards reported meanwhile
(`ExternalMemory`). `DurableObject` is the other way to run a context, with its own
loop in place of `exec`; `ObjectSockets` and `ObjectStorage` are what its guest
holds.

### Pool

State: the isolates (a Vec ordered by the ids of `build`), their owner, slot
counter, `last_used` and cached contexts; per request, where `execute_pinned`
stands, the isolate it holds a slot of and the context it runs in. An action is
what runs between two awaits; the pool is local to a thread, so nothing comes in
between. `Acquire*` and `Refuse*` are the arms of `pool_policy::acquire` with what
`acquire_from_local_pool` does for each. `StartWarm`, `StartCold` and `StartFails`
are the lookup, the dropping of superseded contexts and the outcome of the set-up.
`ExecOk`, `Fail`, `DrainDrop`, `DrainKeep` and `Save` are the rest; `Release`, with
the reclaim it does, is part of every step that ends a request. `clock` stands for
`Instant::now()`. `tainted` is a history variable: the contexts that failed.

`Admission` says the same with no isolates: at most so many requests at once, per
owner and in total, and a refusal only when the owner has all its slots or when
every isolate may be in use. `PoolAdmission` maps `Pool` to it.

### ForegroundTasks, BufferAllocator, ExternalMemory

`ForegroundTasks`: isolates come and go, and V8 uses the address of one that went
again. `Register`, `Forget`, `ForgetTasks` and `Dispose` are the steps of making and
dropping a `LockerManagedIsolate`; `TasksAt`, `Post` or `PostDelayed`, and `Wake` are
the three critical sections of a post on any of V8's threads, by address; `StartLoop`,
`Poll`, `RunReady`, `RunDelayed`, `RunEnds`, `Park` and `EndLoop` are
`await_event_loop`, whose waker is in the list of the queue while it waits.
`BufferAllocator`: `allocate` adds, reads back, and takes its part out again past the
limit, and V8's sweeper frees between any two of these. `ExternalMemory`: nested
locks per thread, guards that report at once or by a delta for the next lock. A guard
captures the first isolate under whose lock it is made or changed. Any thread may make,
change or drop it, under any lock or none, and the code then reports to the isolate that
is locked, to the delta of the one captured, or to nobody. Two history variables say what
that does: `untold`, the bytes reported to nobody, and `astray`, the isolates that a report
under a lock put out of balance, because the guard had captured another isolate or had
bytes from before it captured one.

### Guards

State: the turn of one isolate (`holder`, the stage the thread is at), V8's
pending termination, the memory flag, the watchdog's deadlines and what it took
out, the CPU clock, the timer, and the signals under way. Three threads
interleave: the isolate's, the watchdog and the signal thread. Each of
`Turn::begin`, `Turn::end`, `Turn::terminate`, the arming, disarming and accounting
of the CPU timer, and the two steps of the watchdog (flag, then terminate) is an
action of its own. Around the turns are the phases of an event: load or reset,
trigger, respond, read, stream, socket, drain, with the checks and verdicts of
`exec` and `drain_waituntil`. Between two turns of a request any other may have
its turns. V8 is external: a termination stops running JS at some later point, or
the next turn cancels it. Wall-clock time is abstract: the first deadline may pass
at any moment. The CPU back end is the Linux one.

### Scheduler, WebSocket, Bindings

`Scheduler`: one context that serves requests in sequence, over the three actors
that share it: the guest, in a round of callbacks (`TakeRound`, a `Dispatch*` per
kind of answer, `EndRound`); the event loop, which takes messages off
`scheduler_rx` (`Spawn`, `BeginRequest`, `Schedule`, `ClearTimer`); and the tasks,
which answer, fail, panic or are cancelled with the scope of their request. The
callback tables, the id counters and the timers are the code's. What the guest asks
for is a program, a sequence of ops and a number of timers; when it asks is open.
`owner`, `unanswered`, `cleared` and `ran` are history variables.

`WebSocket`: the sockets of such a context. A pair or a client goes through the
natives, the messages of the loop (`Loop*`), the task of the socket (`Upgraded`,
`Attach`, `Accept`, `Send`, `Close`, `Receive`, `Cancelled`) and the dispatch of its
events; `ReadResponse`, `StreamsComplete`, `SocketClosed` and `Drained` are what `exec`
waits for. A frame is the number it was sent as and 0 is a close, so order and loss
show on the wire.

`Bindings`: a call of the guest goes through `env.js` and a native, which throw or
send an op; the host runs ops in any order, against a store per binding, and may
fail; the answer is converted back. Values stand for the cases the conversions tell
apart: empty and missing, null, text, bytes, booleans, numbers, dates, blobs. The host
keeps a SQL value as it was bound.

### Streams

One context that serves requests in sequence. A request has up to three streams:
its upload, a fetch, and a body the guest makes. State: the two maps of
`StreamManager`, `next_id`, its waker, the channels with what they hold; where each
writer stands (`pump_request_body`, `spawn_stream_reader`, the pump of
`stream_body.js`); the forwarder of each response and its client; a guest's read of
its upload; the request whose scope the scheduler has open. A channel and a chunk
are named by the producer they belong to, so a chunk in the wrong place is seen.
`NextRequest` is the reset of a kept context. A context that is not kept after its
request (`RequestEnds`), or goes later (`ContextGoes`), cancels the reader of a fetch. The sources of chunks and the client
are external. A guest's own read of a fetch goes the way its read of the upload
does, and is not repeated.

### DurableObject

The object is built for an event, admits events while its gate is open, runs the
callbacks that come, and ends when idle, broken, stopped, or drained after its
mailbox closed; the next event builds its next life. Each life has a queue of
storage ops, frames and barriers, which goes on after the life ended, as
`run_object_queue` does. The guest is a counter: it may call out, reads the count,
writes it one higher, may send a frame, may call out again, and answers with what
it wrote; it awaits its write or does not. A call waits at the output gate; a KV
op, like the other binding ops, does not.

### ObjectSockets, ObjectStorage

`ObjectSockets`: a socket is accepted for the handlers of the class, where the
runner keeps it over the lives of the object, or for listeners of this life. What
the guest does to it is an op that goes from the channel of the loop to the queue of
the life, behind its storage ops, and then to the runner; the bytes of frames and
storage ops on that way are counted against the two limits. `ObjectStorage`: tasks of
the guest make plain calls or run the closure of a transaction, whose puts and
deletes stay in JS until one write at its end. `made` and `due` are history variables:
what the calls of the closure make, and what a read of it should give. `raced` marks a
closure that did not await a call it depended on.

## What is checked

Deadlock is checked in every run. The `Terminating` step of an MC module says when
the system may stop; any other state without a successor is an error.

| run | instance | shows |
|---|---|---|
| `isolates` | 4 requests, 3 owners and 3 deployments on 2 isolates of 2 slots with overcommit, or on 1 without; 2 isolates at one address, 2 loops, 2 posts; a limit of 4 bytes | `SlotsAccounted`, `PastCeilingAllBusy`, `PerOwnerLimit`, `OwnerIsolation`, `ContextExclusive`, `RunsInFitContext`, `ImplementsAdmission`; `QueueOwn`, `NoWakeMissed`; `WithinLimit` |
| `guards` | 2 requests, one in a warm context, under the wall clock; or a socket and a request with a budget of 1 of 2 CPU units; 2 memory guards, 2 isolates, 2 threads | `MemoryBlameInTurns`, `CpuLimitExact`, `CutByOwnLimit`, `CutEventFails`; `Balanced` |
| `guards_liveness` | 2 requests, one guard each, fair | `RunawayIsCut` |
| `guards_set_up` | 2 cold starts | violates `SetUpNotStopped` |
| `guards_socket_cut` | 1 socket | violates `CutEventFails` |
| `streams_served` | a body of up to 3 chunks through a channel of 1, then a second request or the end of the context, fair; 2 calls to the bindings | `WholeUntilReuse`, `ReadsAreUpload`, `BodyEnds`, `PumpGoesOn`, `HangUpEndsPump`; `ReadsWhatItWrote` |
| `streams_truncated` | 2 requests with a stream each | violates `CleanEndIsWhole` |
| `streams_apart` | the same | violates `StreamsApart` |
| `event_loop` | 2 requests, 2 ops of every kind or a timer; a socket of either kind, fair | `NoAnswerLost`, `AnswersOwn`, `TimerOwn`, `CancelSettles`, `LeftoversStop`; `WireOrder`, `EventsOwn`, `PeerTold`, `CancelIsHeard`, `PairsEnd`, `HeardSocketEnds` |
| `socket_left_open` | 1 request, 1 pair, fair | violates `SocketEventEnds` |
| `object_gates` | 2 events, 2 lives, fair; 2 sockets, 2 lives; a transaction of 2 calls beside a plain call, 2 keys | `OutputGate`, `CountKeptInOrder`, `EventSettles`; `SocketsAgree`, `WaitingBounded`, `EventFindsSocket`; `TransactionAsMade` |
| `object_straggler` | 3 events, 2 lives | violates `CountKept` |

### Where the code and its comments or tests disagree

- `guards_set_up`: the JS that sets a context up runs before its first turn, and
  nothing cancels a termination that another request left (`turn.rs:4`).
- `guards_socket_cut`: JS of a socket turn that the wall clock cut can end in an
  event that answers Ok and keeps its context
  (`tests/inbound_websocket_test.rs:220` asserts a timeout).
- `streams_truncated`: a body passed on is not waited for; resetting the context
  for the next request cuts it short, and the client sees a clean end. Dropping the
  context, when it is not kept, evicted or superseded, does so to a fetch passed on
  (`execution_context.rs:860`, `tests/response_stream_test.rs:186`).
- `streams_apart`: stream ids start at 1 again after a reset, and the upload pump
  of the last request is not stopped, so it writes into the next one's stream
  (`stream_manager.rs:74`).
- `object_straggler`: the queue of a stopped object goes on beside that of its
  next life (`scheduler.rs:755`, `tests/durable_object_storage_test.rs:1`).
- `socket_left_open`: the event of a 101 that the runner does not upgrade, and whose
  guest accepts its socket only after the close was dispatched, waits for an event
  that has been dropped (`execution_context.rs:804`,
  `tests/inbound_websocket_test.rs:297`).

The passing runs state the properties that these break with the condition under
which they hold: `CutEventFails` without sockets, `WholeUntilReuse` (but
for a fetch that a dropped context passed on, of which the client has a beginning without
a gap) and `ReadsAreUpload` for the first request, `CountKeptInOrder` and `SocketsAgree` when no
queue overlaps the next life, `HeardSocketEnds` when the guest was there to hear.

### Bounds

- Pool: four requests make every arm of acquire happen, and, with one slot per
  isolate, pass the ceiling and come back; three deployments are enough for a
  newer version and a newer environment. States that differ only in the readings
  of the clock but not in their order are one (`View`); requests and owners are
  interchangeable.
- ForegroundTasks: two isolates, one after the other at one address, are what a late
  post can mix up; two loops share a queue, as two contexts of an isolate do.
  `MaxTasks` and `MaxQueues` bound posts and registrations.
- BufferAllocator, ExternalMemory: buffers go past the limit alone and together; two
  guards on two isolates and two threads, with locks nested twice; `MaxTold` and
  `MaxOff` bound what an isolate was told, what waits for it and what it is short of, which
  reports to the wrong isolate would let grow.
- Guards: two requests are the one that is cut and the one that must not be.
  `MaxGuards` bounds the wall-clock guards per request (one per load, reset, event
  and socket turn), `MaxCpu` the CPU spent. `View` drops guards, flags and
  outcomes that nothing reads again.
- Streams: the channel holds one chunk and the slot for the end, so a body of
  three fills it and waits. The second request of `streams_served` opens no stream:
  it is there for what the reset does to the first one's tasks.
- Bindings: two calls, so that the second reads what the first wrote, or both are on
  their way at once and answered out of order.
- Scheduler: two ops out at once, an interval and a one-shot timer, and a second
  request in the same context; the programs have every kind of op once.
  `MAX_INLINE_CALLS` is 1, so that the second invoke waits.
- WebSocket: one socket, two frames one way and one the other, a second request where
  a socket is left over; `MaxInbox` bounds the events not yet dispatched.
- DurableObject: two events overlap in every way two handlers can; two lives give
  a queue that outlives its object. `object_straggler` needs a third event to see
  the loss.
- ObjectSockets: both limits are two bytes, which one frame or write reaches. Each
  program of `MCObjects` has the calls that bear on one another.
- ObjectStorage: a closure beside a plain task, two calls each, two keys, so that a
  list is not a get.

### Fairness

`Guards`: the watchdog and the isolate thread are OS threads that run, and V8 stops
JS it was asked to stop. JS need not end by itself. `Streams`: tasks, forwarders
and the event loop are polled when woken, and a client that has not left goes on
reading; sources and guests may stall. `Scheduler`: the loop takes its messages, a
hang-up that was seen cancels the scope, cancelled tasks end, rounds of callbacks
run, a one-shot timer fires; whether a host answers is open. `WebSocket`: the loop,
the dispatch of events, the wait for the socket, and each socket's task, which is
polled when a command or an event is there; the peer may stay silent. `DurableObject`:
the loop takes its turns, the queue runs, the host answers calls and storage ops, and
a blocking constructor ends or meets `GATE_TIMEOUT`. All of it is weak fairness:
nothing that is enabled only now and then is counted on.

## What is proved

The theorems are for every value of the constants, from the assumptions of the
modules, which TLC evaluates on the runs of each:

- `Pool`: finitely many requests, any owners, keys and limits; `max_concurrent` is
  not 0, which `init_pinned_pool` asserts, and ids are positive (`KeysAssumption`,
  `LimitsAssumption`).
- `Guards`: any requests, budget and bounds; some requests are sockets, and `None` is
  not a request (`GuardsAssumption`).
- `Scheduler`: any programs of finitely many ops, timers and clears, any number of
  requests and any inline budget (`SchedulerAssumption`).
- `Streams`: any number of requests, any high water mark but 0 and bodies of any bounded
  length; a request opens up to three streams, and `Nil` is not one (`StreamsAssumption`,
  `NilAssumption`).
- `DurableObject`: any events and any number of lives; `Nil` is neither an event nor
  a count (`ObjectAssumption`).
- `WebSocket`: any scripts, hence any number of sockets, frames, messages and requests.
  It assumes nothing.
- `ObjectStorage`: any tasks, keys and values; the theorem says that what marks an untouched
  key (`Kept`) is not a value.
- `ForegroundTasks` and `BufferAllocator`: any values; the theorems say that the
  bounds are numbers.

| theorem | module | states |
|---|---|---|
| `TypeCorrect` | `PoolProofs` | `TypeOK`: no slot counter falls below zero, so the `usize` of `release` does not wrap |
| `SlotSafety` | | `SlotsAccounted`: a counter is the number of requests on its isolate, and no isolate is dropped under one |
| `CeilingSafety` | | `PastCeilingAllBusy` |
| `OwnerLimitSafety` | | `PerOwnerLimit` |
| `OwnersApart` | | `OwnerIsolation` |
| `ContextsApart` | | `ContextExclusive`: a context is cached once or used by one request |
| `FitContexts` | | `RunsInFitContext`: a request runs in a context of its deployment that has not failed and is not worn out |
| `PoolImplementsAdmission` | | `Spec => A!Spec`: `Pool` implements `Admission` |
| `MemoryBlame` | `GuardsProofs` | `MemoryBlameInTurns`: who ends for memory went over it |
| `CpuExact` | | `CpuLimitExact`: who is out of CPU used a whole budget |
| `OwnLimitCuts` | | `CutByOwnLimit`: JS is cut only for a limit of the load, reset or event it is of |
| `CutFails` | | `CutEventFails`: an event that was cut does not answer Ok, if it has one wall-clock guard (`OneGuard`) |
| `AnswersArrive` | `SchedulerProofs` | `NoAnswerLost`: an op the guest waits for has callbacks, and its answer is on its way |
| `AnswersReachTheirOp` | | `AnswersOwn`: an answer settles the op it is of, in its request |
| `TimersStayOwn` | | `TimerOwn`: a timer runs in its request, not once cleared, and once if it is a timeout |
| `FramesInOrder` | `WebSocketProofs` | `WireOrder`: the frames of a socket are on the wire in order and without a gap |
| `PeersTold` | | `PeerTold`: a connected socket that ends tells its peer, if its context lives |
| `OwnEvents` | | `EventsOwn`: the events of a socket reach the request that accepted it, and its end once |
| `OutputHeld` | `DurableObjectProofs` | `OutputGate`: what takes the output gate leaves after the writes made before it |
| `CountStays` | | `CountKeptInOrder`: no update is lost and no answer undone while no queue overlaps a later life |
| `EndsWhole` | `StreamsProofs` | `WholeUntilReuse`: a client that sees its response end has the whole body, or a beginning without a gap of a fetch that a dropped context passed on |
| `ReadsUpload` | | `ReadsAreUpload`: a guest reads what its client sent, in order, and the end after all of it |
| `ApartUntilReuse` | | `StreamsApart` while the context serves its first request |
| `TransactionsAsMade` | `StorageProofs` | `TransactionAsMade`: a transaction writes and reads what its closure made, if it awaits the calls it depends on |
| `QueueSafety` | `IsolateProofs` | `QueueOwn`: a queue has the tasks of its own isolate only, also after the address is used again |
| `WakeSafety` | | `NoWakeMissed`: no loop sleeps on a task that is ready |
| `LimitSafety` | | `WithinLimit`: the buffers of an isolate stay within its limit |
| `CountSafety` | | `CountExact`: the counter is what is allocated and what is being decided |

The arguments:

- Pool: none of the five is inductive alone. That eviction and reclaim spare
  isolates in use needs the counter to be exact. That it stays exact when an isolate
  is built needs ids never given before (`FreshIds`), and when a slot is released
  needs a request to have a slot exactly between acquire and release (`SlotPhase`).
  `IInv` conjoins these. Two counting lemmas (`TakeSlot`, `GiveSlot`) carry the
  cardinalities; then there is one lemma per kind of step: `BuildKeeps` and
  `AcquireBuilds`, `ReleaseKeeps`, `ReuseKeeps`, `RunKeeps`, `StepKeeps`, `RefuseKeeps`.
- Contexts are named by the request that built them. `CInv` says where a name may be:
  nowhere before that request starts (`Unbuilt`), then in one place (`OnePlace`), and
  cached only while it may serve once more (`Servable`). It builds on `IInv`.
- Admission counts requests, and the pool counts isolates. Things on shelves are at
  most (`AtMost`), or at least, as many as the shelves times what each holds; with
  `IInv` that bounds the requests with a slot (`ServedFits`), and says that all the
  slots are taken where the pool refuses.
- Guards: a turn belongs to one request, and holds the isolate for its id (`Turns`).
  The memory flag is set in a turn of the request that went over, which takes it at
  its end (`MemoryOwed`). What a request used and what remains to it cover its budget
  (`Accounts`), for ids that are new when an enforcer gets them (`FreshIds`) and a
  timer that is never armed for less than what remains (`Clock`). The two threads
  terminate the holder of the turn only if a limit of its own was reached
  (`OwnTerminations`). A termination of an event has set a flag before
  (`Watches`), which is the one the event reads (`EventGuards`) and which remembers
  the cut until it ends (`CutsSeen`). `EventGuards` fails where a socket has a guard per
  turn, hence `OneGuard`; `guards_socket_cut` shows what happens then.
- Scheduler: a message, a task or an answer says what is so of its op (`Carriers`): ids
  are not used again within a context, so what is left of the last request finds no
  callback. An op that is pending has its callbacks and is carried (`Waiting`); each
  step but its dispatch hands it on (`CarriedOn`). A timeout has one shot, which is in
  one place at a time: asked for, armed, in the inbox, or in the round (`Shots`).
- WebSocket, frames: what is on the wire, what waits for the client, what the task is
  told and what the loop is told are, one after the other, the frames the guest sent
  (`Line`), as long as the loop has the channel of the socket. `InOrder` says this of
  a queue with other messages in between, by a function that counts the frames along
  it, so that no induction is needed. It starts with the message that makes the socket, which
  comes before its frames (`Ready`, `Unmade`).
- WebSocket, ends: a socket that is connected, or will be, has a loop that commands it, a
  close command on its way, or a scope that is cancelled (`Held`). Hence the task never
  finds its channel closed under a connected socket, but when the context goes. That needs
  the pairs the response can carry to have no client yet.
- WebSocket, events: a socket has a callback only in the request that accepted it, and
  none once it was told of its end (`Heard`).
- Streams: what a reader took, what its channel holds and what the producer has in hand
  are, one after the other, the body as far as its source gave it (`Carries`,
  `Continues`), as long as the reader goes on and nothing cut the request short
  (`Intact`). This needs both ends of the channel to be held all that time (`Linked`),
  hence that no id of the maps is of two streams (`Wired`), that a stream not yet made
  is empty (`New`) and that the response is one of the streams of its request and no
  upload that was read (`Answered`). A clean end is put into a channel only after the last chunk,
  or after an error that is read first; the reader of a fetch that a dropped context cancelled
  puts one after the chunks it had (`Due`). There is one lemma per kind of step:
  `MovesInv` for producers, `StartsKeeps` for new streams, `ContextKeeps` and `ContextGoesKeeps` for the context, `ReaderKeeps`,
  `ForwardKeeps` and `ReadKeeps` for readers. `IInv` claims all of it for the first request only, as
  the reset of the maps breaks `Wired` and `Linked` for a task that goes on.
- Durable objects, output gate: the queue of a life has the writes that it made and did
  not commit, in order and without a gap (`Order`), so what is at its head has all the
  writes before it committed. An event waits for one thing at a time (`OneAtATime`), so
  the barrier of an event is the last thing it asked for, and is open only once the
  writes made before it are committed (`HeldBack`).
- Durable objects, input gate: `CountKept` speaks of answered events only, and is far
  from inductive. `InputGate` says what holds while the object runs: one event reads
  at a time, a result that was read is still the count stored, and the queue has at
  most one write, one higher than it. A broken gate no longer keeps this, so what was
  answered needs an invariant of its own: no write in a queue and no result on its way
  undercuts it (`Beneath`), which every step of whatever life keeps (`BeneathStep`).
  The two meet where an event answers: what it wrote is committed, as its barrier was
  open.
- Storage: a transaction has what its calls made, but for the deletes that wait for an
  answer (`AsMade`), and what a get or a list looked up in it has not changed since
  (`Waiting`); a closure that did not await a call it depended on is let off (`Own`). A call
  goes on with the first answer that comes for its task, so each call that waits has its read in the
  queue or its answer on the way, in the order of the calls, and the read is of the keys that
  call left to the store (`Turns`). `InTurn` says this of two queues with the ops of other
  tasks in between, by a function that counts along them. The write of a closure that
  ended has what it made, and the closure makes nothing more (`Commits`).
- Tasks: a queue is of one isolate for good (`Numbered`), the map has it under the
  address of an isolate that lives (`Mapped`), and a post on its way holds a queue
  of the isolate of its task (`TasksOwn`). For the wake-ups, a loop that waits is in
  the list of wakers or woken, and in the list outside of a poll only if the queue is
  empty (`Registered`). A loop that ends leaves the list, as its waiter knows the waker
  that it put there (`Known`).
- Buffers: an allocation decides on a count it read earlier. Frees only lower the
  count, so what it read bounds the present one (`LoadedBounds`).

The inductive invariants were model-checked before they were proved. The proof
modules say `USE Zenon` at their head, so that a leaf goes to Zenon unless it cites `SMT`,
which is for numbers, sequences and records.

Only model-checked:

- Liveness, as the prover has no rules for fairness: `RunawayIsCut`, `BodyEnds`,
  `PumpGoesOn`, `HangUpEndsPump`, `CancelSettles`, `LeftoversStop`,
  `CancelIsHeard`, `PairsEnd`, `HeardSocketEnds`, `EventSettles`.
- `Balanced`, which is stated with a fold over the guards: what a fold computes takes an
  induction over data.
- The safety of `Bindings` and `ObjectSockets`. `ObjectSockets` folds over the sockets of an
  object, and `Bindings` is about what calls compute.

## What is not modelled

- `AsyncWaiter`: its holders take it and give it back within one poll on one thread,
  so nobody is ever queued on it.
- `Worker`, one context on an isolate of its own: its events run through `exec`, as in
  `Guards`, and nothing is shared.
- In a Durable Object: the gated chunks of response bodies, and alarms as distinct
  from other events of the loop.
- Relays between two sockets of a context. The macOS CPU watchdog. Counters for
  statistics.
- A host that drops the future of `execute_pinned`: the slot would stay taken, since
  the release is a call at its end (`pool.rs:527`). Whether one does is outside this
  repository.
- Making and freeing V8 isolates, GC tracing, start-up data and binding glue: V8's
  own state, or none.
- Pure conversions: requests and responses to and from V8, console, URL patterns,
  text encoding, compression, crypto. They have no state of their own, and their data
  is out of a model checker's reach.

KV, storage, database, D1, invoke and WebSocket-connect ops of an object take no output gate,
although `durable_object.rs:127` says every way out does (`scheduler.rs:356`).
`DurableObject` has such an op (`kv`), and `OutputGate` is stated of what takes the gate: whether the
comment means these ops too is for the authors to say.
