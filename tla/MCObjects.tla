------------------------------ MODULE MCObjects -----------------------------
(* DurableObject, ObjectSockets and ObjectStorage for TLC. They are checked side  *)
(* by side: a behaviour is one of the events that an object counts, one of its    *)
(* sockets, or one of a transaction and the calls beside it.                      *)
EXTENDS MCDurableObject

VARIABLES
    part,       \* what moves: "gates", "sockets" or "storage"
    program, s_life, s_alive, s_inflight, s_failure, mode, readyState, attachment, sockets, backlog,
    results, scheduler_rx, relays, ids, s_queue, s_failed, frames, runner, client, s_mailbox,
    over, stranded, s_overlap,
    t_stored, t_queue, t_results, t_failed, phase, puts, deletes, rolledBack, pending, answer, calls,
    made, due, raced

sVars ==
    <<program, s_life, s_alive, s_inflight, s_failure, mode, readyState, attachment, sockets, backlog,
      results, scheduler_rx, relays, ids, s_queue, s_failed, frames, runner, client, s_mailbox,
      over, stranded, s_overlap>>

tVars ==
    <<t_stored, t_queue, t_results, t_failed, phase, puts, deletes, rolledBack, pending, answer, calls,
      made, due, raced>>

Guest(does, own) == [calls |-> does, sockets |-> own]

MCPrograms ==
    {Guest({"handlers", "listeners", "respond"}, {1, 2}),
     Guest({"handlers", "listeners", "respond", "close"}, {1}),
     Guest({"handlers", "attachment", "respond", "close"}, {1}),
     Guest({"handlers", "attachment", "write"}, {1}),
     Guest({"listeners", "binding", "respond"}, {1}),
     Guest({"handlers", "send", "write"}, {1}),
     Guest({"write", "get", "list", "setAlarm"}, {})}

S == INSTANCE ObjectSockets WITH
        Sockets <- {1, 2}, Attachments <- {"a"}, None <- Nil, Programs <- MCPrograms,
        MAX_WAITING_FRAMES <- 2, MAX_BACKLOG <- 2, MaxBytes <- 2, MaxWork <- 2, MaxMailbox <- 2,
        life <- s_life, alive <- s_alive, inflight <- s_inflight, failure <- s_failure,
        queue <- s_queue, failed <- s_failed, mailbox <- s_mailbox, overlap <- s_overlap

T == INSTANCE ObjectStorage WITH
        Keys <- {1, 2}, Tasks <- {"closure", "plain"}, Closures <- {"closure"}, Values <- {"v"},
        Absent <- Nil, Kept <- "kept", MaxCalls <- 2,
        stored <- t_stored, queue <- t_queue, results <- t_results, failed <- t_failed

\* A part has one initial state where it does not move.
MCObjectsInit ==
    /\ part \in {"gates", "sockets", "storage"}
    /\ Init /\ S!Init /\ T!Init
    /\ part # "storage" => t_stored = [k \in {1, 2} |-> Nil]
    /\ part # "sockets" => program = Guest({"write", "get", "list", "setAlarm"}, {})

MCObjectsNext ==
    \/ part = "gates" /\ (Next \/ Terminating) /\ UNCHANGED <<sVars, tVars>>
    \/ part = "sockets" /\ S!Next /\ UNCHANGED <<vars, tVars>>
    \/ part = "storage" /\ T!Next /\ UNCHANGED <<vars, sVars>>

objectsVars == <<part, vars, sVars, tVars>>

\* The last life is over and its queue done.
SocketsEnd ==
    /\ part = "sockets" /\ s_life = MaxLives /\ ~s_alive
    /\ UNCHANGED objectsVars

\* Every task is over, and every op and answer done.
StorageEnds ==
    /\ part = "storage" /\ t_queue = <<>> /\ t_results = <<>>
    /\ \A t \in DOMAIN phase : phase[t] = "over"
    /\ UNCHANGED objectsVars

MCObjectsSpec ==
    /\ MCObjectsInit
    /\ [][(MCObjectsNext /\ UNCHANGED part) \/ SocketsEnd \/ StorageEnds]_objectsVars
    /\ Fairness

-----------------------------------------------------------------------------
(* The properties of ObjectSockets and of ObjectStorage *)

\* The instance and the runner agree on the hibernatable sockets and on what is
\* attached to them, but for the ops on their way.
SocketsAgree == S!SocketsAgree

\* The frames and the storage ops that wait are counted exactly, and limited.
WaitingBounded == S!WaitingBounded

\* An event finds its socket, in the life that accepted it or in a later one.
EventFindsSocket == S!EventFindsSocket

\* A transaction writes once or not at all, and what its calls made in their order.
TransactionAsMade == T!TransactionAsMade
=============================================================================
