-------------------------- MODULE ForegroundTasks --------------------------
(***************************************************************************)
(* The foreground tasks of the isolates (platform.rs). V8 posts them from  *)
(* any thread, by the address of the isolate. FOREGROUND finds the queue   *)
(* of an address; the event loops of the isolate wait on the queue, and    *)
(* run its tasks when they are polled. A post looks the queue up under one *)
(* lock, pushes under another, and wakes the loops under none, so that the *)
(* loops, the end of the isolate and the next isolate at its address come  *)
(* in between.                                                             *)
(***************************************************************************)
EXTENDS Integers, Sequences

CONSTANTS
    Isolates,   \* LockerManagedIsolate, one after the other or side by side
    Addresses,  \* where V8 puts them; it uses an address again
    Loops,      \* calls of await_event_loop, each in a task of its own
    Threads,    \* that post
    MaxTasks,   \* bound: tasks that V8 posts
    MaxQueues,  \* bound: queues that are made
    None

Tasks == 1..MaxTasks
Queues == 1..MaxQueues

VARIABLES
    life,       \* of an isolate: unborn, made, live, forgetting, forgotten, disposed
    key,        \* ForegroundTasks.key of its queue: its address
    foreground, \* LockerManagedIsolate.foreground: its queue
    FOREGROUND, \* the queue of each address
    queues,     \* how many queues are made
    ready, delayed, wakers,  \* Queue
    posting,    \* what each thread is about: its task, the queue it found, whom it wakes
    posted,     \* how many tasks are posted
    task_of,    \* history: the isolate of a task
    on,         \* the isolate whose loop this is
    state,      \* of a loop: unborn, parked, polling, ran, done
    notified,   \* the loops whose task is woken
    waker       \* Waiter.waker: the loops that have registered

isolateVars == <<life, key, foreground>>
postVars == <<posting, posted, task_of>>
loopVars == <<on, state, notified, waker>>
vars == <<isolateVars, FOREGROUND, queues, ready, delayed, wakers, postVars, loopVars>>

Exists(i) == life[i] \in {"made", "live", "forgetting", "forgotten"}

\* The loops of the isolate that have not ended.
LoopsOn(i) == {l \in Loops : on[l] = i /\ state[l] \in {"parked", "polling", "ran"}}

Idle == [stage |-> "idle", task |-> 0, queue |-> 0, wakes |-> {}]

Init ==
    /\ life = [i \in Isolates |-> "unborn"]
    /\ key = [i \in Isolates |-> None] /\ foreground = [i \in Isolates |-> 0]
    /\ FOREGROUND = [a \in Addresses |-> 0] /\ queues = 0
    /\ ready = [q \in Queues |-> <<>>] /\ delayed = [q \in Queues |-> {}]
    /\ wakers = [q \in Queues |-> {}]
    /\ posting = [t \in Threads |-> Idle] /\ posted = 0
    /\ task_of = [k \in Tasks |-> None]
    /\ on = [l \in Loops |-> None] /\ state = [l \in Loops |-> "unborn"]
    /\ notified = {} /\ waker = {}

-----------------------------------------------------------------------------
(* The isolate: LockerManagedIsolate::new, its drop, and V8's disposal *)

\* V8 makes the isolate at an address that no other has. It may post from now on.
NewIsolate(i, a) ==
    /\ life[i] = "unborn" /\ \A j \in Isolates : Exists(j) => key[j] # a
    /\ life' = [life EXCEPT ![i] = "made"] /\ key' = [key EXCEPT ![i] = a]
    /\ UNCHANGED <<foreground, FOREGROUND, queues, ready, delayed, wakers, postVars, loopVars>>

\* The queue of a new isolate is a new one: a dead isolate can have left tasks at
\* the address.
QueueFor_Found(a) == IF FOREGROUND[a] # 0 THEN FOREGROUND[a] ELSE queues + 1

QueueFor(a) == queues + 1

Register(i) ==
    /\ life[i] = "made" /\ queues < MaxQueues
    /\ life' = [life EXCEPT ![i] = "live"]
    /\ foreground' = [foreground EXCEPT ![i] = QueueFor(key[i])]
    /\ FOREGROUND' = [FOREGROUND EXCEPT ![key[i]] = QueueFor(key[i])]
    /\ queues' = queues + 1
    /\ UNCHANGED <<key, ready, delayed, wakers, postVars, loopVars>>

\* forget: the map lets go of the queue, if it is still this one ...
Forget(i) ==
    /\ life[i] = "live" /\ LoopsOn(i) = {}
    /\ life' = [life EXCEPT ![i] = "forgetting"]
    /\ FOREGROUND' = [FOREGROUND EXCEPT ![key[i]] = IF @ = foreground[i] THEN 0 ELSE @]
    /\ UNCHANGED <<key, foreground, queues, ready, delayed, wakers, postVars, loopVars>>

\* ... and the tasks are dropped.
ForgetTasks(i) ==
    /\ life[i] = "forgetting"
    /\ life' = [life EXCEPT ![i] = "forgotten"]
    /\ ready' = [ready EXCEPT ![foreground[i]] = <<>>]
    /\ delayed' = [delayed EXCEPT ![foreground[i]] = {}]
    /\ UNCHANGED <<key, foreground, FOREGROUND, queues, wakers, postVars, loopVars>>

\* V8 waits for its own threads, then the address is free.
Dispose(i) ==
    /\ life[i] = "forgotten"
    /\ \A t \in Threads : posting[t].stage # "idle" => task_of[posting[t].task] # i
    /\ life' = [life EXCEPT ![i] = "disposed"]
    /\ UNCHANGED <<key, foreground, FOREGROUND, queues, ready, delayed, wakers, postVars, loopVars>>

-----------------------------------------------------------------------------
(* A post *)

\* tasks_at: an address without a queue gets one.
TasksAt(t, i) ==
    /\ Exists(i) /\ posting[t].stage = "idle" /\ posted < MaxTasks
    /\ FOREGROUND[key[i]] = 0 => queues < MaxQueues
    /\ LET q == IF FOREGROUND[key[i]] = 0 THEN queues + 1 ELSE FOREGROUND[key[i]]
       IN  /\ FOREGROUND' = [FOREGROUND EXCEPT ![key[i]] = q]
           /\ queues' = IF q > queues THEN q ELSE queues
           /\ posting' = [posting EXCEPT ![t] =
                             [stage |-> "found", task |-> posted + 1, queue |-> q, wakes |-> {}]]
    /\ posted' = posted + 1 /\ task_of' = [task_of EXCEPT ![posted + 1] = i]
    /\ UNCHANGED <<isolateVars, ready, delayed, wakers, loopVars>>

\* post, without a delay: the task is queued, and the wakers are taken.
Post(t) ==
    /\ posting[t].stage = "found"
    /\ LET q == posting[t].queue
       IN  /\ ready' = [ready EXCEPT ![q] = Append(@, posting[t].task)]
           /\ posting' = [posting EXCEPT ![t].stage = "pushed", ![t].wakes = wakers[q]]
           /\ wakers' = [wakers EXCEPT ![q] = {}]
    /\ UNCHANGED <<isolateVars, FOREGROUND, queues, delayed, posted, task_of, loopVars>>

\* With a delay, it wakes nobody.
PostDelayed(t) ==
    /\ posting[t].stage = "found"
    /\ delayed' = [delayed EXCEPT ![posting[t].queue] = @ \cup {posting[t].task}]
    /\ posting' = [posting EXCEPT ![t] = Idle]
    /\ UNCHANGED <<isolateVars, FOREGROUND, queues, ready, wakers, posted, task_of, loopVars>>

\* The wakers wake their loops, outside of the lock.
Wake(t) ==
    /\ posting[t].stage = "pushed"
    /\ notified' = notified \cup {l \in posting[t].wakes : state[l] # "done"}
    /\ posting' = [posting EXCEPT ![t] = Idle]
    /\ UNCHANGED <<isolateVars, FOREGROUND, queues, ready, delayed, wakers, posted, task_of,
                   on, state, waker>>

-----------------------------------------------------------------------------
(* An event loop *)

Polls == UNCHANGED <<isolateVars, FOREGROUND, queues, postVars, on>>

\* await_event_loop makes its waiter, and is polled for the first time.
StartLoop(l, i) ==
    /\ state[l] = "unborn" /\ life[i] = "live"
    /\ on' = [on EXCEPT ![l] = i] /\ state' = [state EXCEPT ![l] = "parked"]
    /\ notified' = notified \cup {l}
    /\ UNCHANGED <<isolateVars, FOREGROUND, queues, ready, delayed, wakers, postVars, waker>>

\* Waiter::register: the waker is in the list after every poll.
Registers(l) == wakers' = [wakers EXCEPT ![foreground[on[l]]] = @ \cup {l}]

\* A poll registers first. One loop of an isolate is polled at a time.
Poll(l) ==
    /\ state[l] = "parked" /\ l \in notified
    /\ \A m \in LoopsOn(on[l]) : state[m] = "parked"
    /\ state' = [state EXCEPT ![l] = "polling"] /\ notified' = notified \ {l}
    /\ Registers(l) /\ waker' = waker \cup {l}
    /\ Polls /\ UNCHANGED <<ready, delayed>>

\* run: the ready tasks in their order, then those whose delay is over.
RunReady(l) ==
    /\ state[l] = "polling"
    /\ LET q == foreground[on[l]]
       IN  ready[q] # <<>> /\ ready' = [ready EXCEPT ![q] = Tail(@)]
    /\ Polls /\ UNCHANGED <<delayed, wakers, state, notified, waker>>

RunDelayed(l) ==
    /\ state[l] = "polling"
    /\ LET q == foreground[on[l]]
       IN  /\ ready[q] = <<>>
           /\ \E k \in delayed[q] : delayed' = [delayed EXCEPT ![q] = @ \ {k}]
    /\ Polls /\ UNCHANGED <<ready, wakers, state, notified, waker>>

\* next finds no task: the poll goes on without the lock of the queue.
RunEnds(l) ==
    /\ state[l] = "polling" /\ ready[foreground[on[l]]] = <<>>
    /\ state' = [state EXCEPT ![l] = "ran"]
    /\ Polls /\ UNCHANGED <<ready, delayed, wakers, notified, waker>>

\* The poll is pending.
Park(l) ==
    /\ state[l] = "ran" /\ state' = [state EXCEPT ![l] = "parked"]
    /\ Polls /\ UNCHANGED <<ready, delayed, wakers, notified, waker>>

\* A timer, I/O or the caller wakes the loop.
WakeIo(l) ==
    /\ state[l] = "parked" /\ l \notin notified /\ notified' = notified \cup {l}
    /\ Polls /\ UNCHANGED <<ready, delayed, wakers, state, waker>>

\* Waiter::drop: the waker that the waiter knows leaves the list.
Leaves_All(l) == wakers' = [wakers EXCEPT ![foreground[on[l]]] = {}]

Leaves(l) == wakers' = [wakers EXCEPT ![foreground[on[l]]] = @ \ ({l} \cap waker)]

\* The loop ends at the end of a poll, or its caller drops it while it waits.
EndLoop(l) ==
    /\ state[l] \in {"ran", "parked"} /\ state' = [state EXCEPT ![l] = "done"]
    /\ Leaves(l) /\ notified' = notified \ {l} /\ waker' = waker \ {l}
    /\ Polls /\ UNCHANGED <<ready, delayed>>

-----------------------------------------------------------------------------
LoopStep(l) == Poll(l) \/ RunReady(l) \/ RunDelayed(l) \/ RunEnds(l) \/ Park(l)

Next ==
    \/ \E i \in Isolates : (\E a \in Addresses : NewIsolate(i, a))
    \/ \E i \in Isolates : Register(i) \/ Forget(i) \/ ForgetTasks(i) \/ Dispose(i)
    \/ \E t \in Threads : (\E i \in Isolates : TasksAt(t, i)) \/ Post(t) \/ PostDelayed(t) \/ Wake(t)
    \/ \E l \in Loops : (\E i \in Isolates : StartLoop(l, i)) \/ LoopStep(l) \/ WakeIo(l) \/ EndLoop(l)

Spec == Init /\ [][Next]_vars

-----------------------------------------------------------------------------
(* Properties *)

\* The tasks of an isolate that are ready to run.
Ready(i) ==
    IF foreground[i] = 0
    THEN {}
    ELSE {ready[foreground[i]][n] : n \in DOMAIN ready[foreground[i]]}

\* Posts for an isolate that lives reach its queue, and nothing else is in it: no
\* task of a dead isolate that had the same address runs in this one.
QueueOwn ==
    \A i \in Isolates : life[i] = "live" =>
       /\ FOREGROUND[key[i]] = foreground[i]
       /\ \A k \in delayed[foreground[i]] \cup Ready(i) : task_of[k] = i

\* While a task is ready and loops wait, one of them looks at the queue, is about to,
\* or is being woken: no task is missed between the last look of a poll and its end.
NoWakeMissed ==
    \A i \in Isolates : life[i] = "live" /\ Ready(i) # {} /\ LoopsOn(i) # {} =>
       \E l \in LoopsOn(i) :
          l \in notified \/ state[l] = "polling" \/ \E t \in Threads : l \in posting[t].wakes
=============================================================================
