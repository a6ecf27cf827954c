----------------------------- MODULE MCIsolates -----------------------------
(* The isolates for TLC: the pool that lends them, and side by side what other    *)
(* threads do to one: the foreground tasks that V8 posts and the buffers that its *)
(* sweeper frees.                                                                 *)
EXTENDS MCPool

VARIABLES
    part,       \* what moves: "pool", "tasks" or "buffers"
    life, key, foreground, FOREGROUND, queues, ready, delayed, wakers, posting, posted, task_of,
    on, state, notified, waker,
    count, memory_limit_hit, stage, n, count_loaded, held

T == INSTANCE ForegroundTasks WITH
        Isolates <- {1, 2}, Addresses <- {1}, Loops <- {1, 2}, Threads <- {1}, MaxTasks <- 2,
        MaxQueues <- 4, None <- NoIsolate

tVars ==
    <<life, key, foreground, FOREGROUND, queues, ready, delayed, wakers, posting, posted, task_of,
      on, state, notified, waker>>

B == INSTANCE BufferAllocator WITH max <- 4, MaxBytes <- 5

bVars == <<count, memory_limit_hit, stage, n, count_loaded, held>>

\* The pool has one initial state where it does not move.
MCIsolatesInit ==
    /\ part \in {"pool", "tasks", "buffers"}
    /\ MCInit /\ T!Init /\ B!Init
    /\ part # "pool" =>
          limits = "overcommit" /\ \A q, r \in Requests : request[q].owner = request[r].owner

MCIsolatesNext ==
    \/ part = "pool" /\ MCNext /\ UNCHANGED <<limits, tVars, bVars>>
    \/ part = "tasks" /\ T!Next /\ UNCHANGED <<limits, vars, bVars>>
    \/ part = "buffers" /\ B!Next /\ UNCHANGED <<limits, vars, tVars>>

isolatesVars == <<part, limits, vars, tVars, bVars>>

\* The isolates are disposed of: nothing more happens to them.
Disposed ==
    /\ part = "tasks" /\ \A i \in {1, 2} : life[i] = "disposed"
    /\ UNCHANGED isolatesVars

MCIsolatesSpec ==
    MCIsolatesInit /\ [][(MCIsolatesNext /\ UNCHANGED part) \/ Disposed]_isolatesVars

IsolatesView == <<part, View, tVars, bVars>>

-----------------------------------------------------------------------------
(* The properties of ForegroundTasks and BufferAllocator *)

\* Posts for an isolate that lives reach its queue, and nothing else is in it.
QueueOwn == T!QueueOwn

\* While a task is ready and loops wait, one of them looks at the queue, is about to,
\* or is being woken.
NoWakeMissed == T!NoWakeMissed

\* The buffers of an isolate are never past the limit.
WithinLimit == B!WithinLimit
=============================================================================
