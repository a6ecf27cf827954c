---------------------------- MODULE ObjectStorage ---------------------------
(***************************************************************************)
(* The storage of a Durable Object as its guest uses it, with transactions *)
(* (js/durable_object.js, over the ops of runtime/bindings/                *)
(* durable_object.rs that run_object_queue runs one at a time).            *)
(*                                                                         *)
(* Several tasks of the guest use it at once: a task either makes a plain  *)
(* call or runs the closure of a transaction. A transaction keeps its puts *)
(* and deletes in JS and sends them in one write when its closure ends. A  *)
(* delete in it first reads, so that it can say what it deleted, and only  *)
(* then takes effect: the guest may make other calls before it does.       *)
(*                                                                         *)
(* The host that stores is external: it runs a write whole or not at all,  *)
(* and which of a put and a delete of one key in one write wins is open.   *)
(*                                                                         *)
(* A definition named X_Variant is a plausible mistake in X; no            *)
(* specification uses one.                                                 *)
(***************************************************************************)
EXTENDS Naturals, Sequences, Functions

CONSTANTS
    Keys, Tasks,
    Closures,       \* bound: the tasks that run a transaction; the others make one plain call
    Values,
    Absent,         \* what a get gives for a key that is not stored
    Kept,           \* history: a key that a transaction leaves alone
    MaxCalls        \* bound: calls of a task

VARIABLES
    stored,         \* what the host stores
    queue,          \* storage ops in the order the guest made them
    results,        \* answers of reads on their way to the guest
    failed,         \* a write failed: nothing more runs
    phase,          \* of a task: "new", "open" (in its closure) or "over"
    puts, deletes, rolledBack,      \* of the transaction of a task
    pending,        \* calls of a task that wait for a read, oldest first
    answer,         \* what the last get of a transaction gave
    calls,          \* calls a task made
    made,           \* history: what the transaction does to each key, by the order of its calls
    due,            \* history: what that get should give
    raced           \* history: a transaction did not await a call that its next calls depend on

txnVars == <<puts, deletes, rolledBack, pending, answer>>
history == <<made, due, raced>>
hostVars == <<stored, queue, results, failed>>
vars == <<hostVars, phase, txnVars, calls, history>>

Empty == [k \in {} |-> Absent]

\* What f says, and what g says where f says nothing.
Over(f, g) == [k \in DOMAIN f \cup DOMAIN g |-> IF k \in DOMAIN f THEN f[k] ELSE g[k]]

Init ==
    /\ stored \in [Keys -> {Absent} \cup Values]
    /\ queue = <<>> /\ results = <<>> /\ failed = FALSE
    /\ phase = [t \in Tasks |-> "new"] /\ calls = [t \in Tasks |-> 0]
    /\ puts = [t \in Tasks |-> Empty] /\ deletes = [t \in Tasks |-> {}]
    /\ rolledBack = [t \in Tasks |-> FALSE] /\ pending = [t \in Tasks |-> <<>>]
    /\ answer = [t \in Tasks |-> Empty] /\ due = [t \in Tasks |-> Empty]
    /\ made = [t \in Tasks |-> [k \in Keys |-> Kept]] /\ raced = [t \in Tasks |-> FALSE]

-----------------------------------------------------------------------------
(* Plain calls *)

\* An op: the puts and the deletes of a write, or the keys that a get reads.
WriteOp(t, kind, p, ds) == [task |-> t, kind |-> kind, puts |-> p, deletes |-> ds, keys |-> {}]

ReadOp(t, kind, ks) == [task |-> t, kind |-> kind, puts |-> Empty, deletes |-> {}, keys |-> ks]

\* One op, and the task is over; past the backlog limit the call rejects instead.
Plain(t, op) ==
    /\ phase[t] = "new" /\ t \notin Closures
    /\ phase' = [phase EXCEPT ![t] = "over"]
    /\ queue' \in {queue, Append(queue, op)}
    /\ UNCHANGED <<stored, results, failed, txnVars, calls, history>>

Put(t, p) == Plain(t, WriteOp(t, "write", p, {}))

Delete(t, keys) == Plain(t, WriteOp(t, "write", Empty, keys))

DeleteAll(t) == Plain(t, WriteOp(t, "write", Empty, Keys))

\* setAlarm and deleteAlarm: tracked like a write, and no key changes.
SetAlarm(t) == Plain(t, WriteOp(t, "write", Empty, {}))

\* get, list, getAlarm and sync.
Read(t) == Plain(t, ReadOp(t, "plain", {}))

-----------------------------------------------------------------------------
(* A transaction: transaction(closure) and the methods of txn *)

Transaction(t) ==
    /\ phase[t] = "new" /\ t \in Closures
    /\ phase' = [phase EXCEPT ![t] = "open"]
    /\ UNCHANGED <<hostVars, txnVars, calls, history>>

Calls(t) == phase[t] = "open" /\ calls[t] < MaxCalls /\ calls' = [calls EXCEPT ![t] = @ + 1]

Local(t) == DOMAIN puts[t] \cup deletes[t]

\* history: a call that the guest did not await, of one of these kinds, is about one
\* of these keys.
Overtakes(t, kinds, keys) ==
    raced' = [raced EXCEPT ![t] = @ \/ \E i \in DOMAIN pending[t] :
                                          pending[t][i].kind \in kinds /\ pending[t][i].keys \cap keys # {}]

Undeletes_Not(t, keys) == deletes[t]

\* A put takes back a delete.
Undeletes(t, keys) == deletes[t] \ keys

TxnPut(t, p) ==
    /\ Calls(t)
    /\ puts' = [puts EXCEPT ![t] = Over(p, @)]
    /\ deletes' = [deletes EXCEPT ![t] = Undeletes(t, DOMAIN p)]
    /\ made' = [made EXCEPT ![t] = Over(p, @)]
    /\ Overtakes(t, {"delete", "list"}, DOMAIN p)
    /\ UNCHANGED <<hostVars, phase, rolledBack, pending, answer, due>>

\* The call reads the keys that the transaction has no value of, and goes on with the
\* answer.
Asks(t, kind, keys) ==
    /\ Calls(t)
    /\ queue' = Append(queue, ReadOp(t, "get", keys \ Local(t)))
    /\ pending' = [pending EXCEPT ![t] = Append(@, [kind |-> kind, keys |-> keys, made |-> made[t]])]
    /\ UNCHANGED <<stored, results, failed, phase, puts, deletes, rolledBack, answer, due>>

\* get of one key gives the transaction's own value at once, or the stored one.
TxnGet(t, k) ==
    \/ /\ k \in Local(t) /\ Calls(t)
       /\ answer' = [answer EXCEPT ![t] = [j \in {k} |-> IF k \in DOMAIN puts[t] THEN puts[t][k] ELSE Absent]]
       /\ due' = [due EXCEPT ![t] = [j \in {k} |-> made[t][k]]]
       /\ Overtakes(t, {"delete"}, {k})
       /\ UNCHANGED <<hostVars, phase, puts, deletes, rolledBack, pending, made>>
    \/ k \notin Local(t) /\ Asks(t, "get", {k}) /\ Overtakes(t, {"delete"}, {k}) /\ UNCHANGED made

\* get of a list of keys always reads.
TxnGetList(t, keys) == Asks(t, "list", keys) /\ Overtakes(t, {"delete"}, keys) /\ UNCHANGED made

TxnDelete(t, keys) ==
    /\ Asks(t, "delete", keys) /\ Overtakes(t, {"delete", "list"}, keys)
    /\ made' = [made EXCEPT ![t] = Over([k \in keys |-> Absent], @)]

Rollback(t) ==
    /\ Calls(t)
    /\ rolledBack' = [rolledBack EXCEPT ![t] = TRUE]
    /\ UNCHANGED <<hostVars, phase, puts, deletes, pending, answer, history>>

\* The closure throws, and its puts and deletes go.
Throw(t) ==
    /\ phase[t] = "open"
    /\ phase' = [phase EXCEPT ![t] = "over"]
    /\ UNCHANGED <<hostVars, txnVars, calls, history>>

\* All of it goes out in one write.
Commit(t) == <<WriteOp(t, "commit", puts[t], deletes[t])>>

\* The closure ends, and what it wrote goes out unless it rolled back or the backlog is
\* full. A delete that it did not await is not in the write.
End(t) ==
    /\ phase[t] = "open"
    /\ phase' = [phase EXCEPT ![t] = "over"]
    /\ queue' \in {queue} \cup (IF rolledBack[t] \/ Local(t) = {} THEN {} ELSE {queue \o Commit(t)})
    /\ Overtakes(t, {"delete"}, Keys)
    /\ UNCHANGED <<stored, results, failed, txnVars, calls, made, due>>

-----------------------------------------------------------------------------
(* The host, and what its answers do *)

\* What a write makes of the storage: a key it both puts and deletes ends either way.
Written(op) ==
    {new \in [Keys -> {Absent} \cup Values] :
        \A k \in Keys : IF k \in DOMAIN op.puts \cup op.deletes
                        THEN \/ k \in DOMAIN op.puts /\ new[k] = op.puts[k]
                             \/ k \in op.deletes /\ new[k] = Absent
                        ELSE new[k] = stored[k]}

\* A write: once one failed, nothing more runs.
RunWrite ==
    /\ queue # <<>> /\ Head(queue).kind \in {"write", "commit"}
    /\ \/ ~failed /\ stored' \in Written(Head(queue)) /\ UNCHANGED failed
       \/ failed' = TRUE /\ UNCHANGED stored
    /\ queue' = Tail(queue)
    /\ UNCHANGED <<results, phase, txnVars, calls, history>>

\* A read: its values, or an error, go to the guest.
RunRead ==
    /\ queue # <<>> /\ Head(queue).kind \in {"get", "plain"}
    /\ LET op == Head(queue)
           Result(ok) == [task |-> op.task, ok |-> ok, found |-> [k \in op.keys |-> stored[k]], all |-> stored]
       IN  results' \in IF op.kind = "plain" THEN {results}
                        ELSE {Append(results, Result(ok)) : ok \in {FALSE, ~failed}}
    /\ queue' = Tail(queue)
    /\ UNCHANGED <<stored, failed, phase, txnVars, calls, history>>

\* What the get of a transaction gives: a list, the puts there are by now and then what
\* was read.
Gives(t, call, found) ==
    [k \in call.keys |-> IF call.kind = "list" /\ k \in DOMAIN puts[t] THEN puts[t][k]
                         ELSE IF k \in DOMAIN found THEN found[k] ELSE Absent]

\* The call that waited for the read goes on: a get answers, a delete takes effect. When
\* the read failed the call rejects and does neither.
Answered ==
    /\ results # <<>>
    /\ LET result == Head(results)
           t      == result.task
           call   == Head(pending[t])
       IN  /\ pending' = [pending EXCEPT ![t] = Tail(@)]
           /\ IF result.ok /\ call.kind = "delete"
              THEN /\ puts' = [puts EXCEPT ![t] = Restrict(@, DOMAIN @ \ call.keys)]
                   /\ deletes' = [deletes EXCEPT ![t] = @ \cup call.keys]
              ELSE UNCHANGED <<puts, deletes>>
           /\ IF result.ok /\ call.kind # "delete"
              THEN /\ answer' = [answer EXCEPT ![t] = Gives(t, call, result.found)]
                   /\ due' = [due EXCEPT ![t] = [k \in call.keys |-> IF call.made[k] = Kept THEN result.all[k]
                                                                     ELSE call.made[k]]]
              ELSE UNCHANGED <<answer, due>>
           /\ raced' = [raced EXCEPT ![t] = @ \/ (~result.ok /\ call.kind = "delete")]
    /\ results' = Tail(results)
    /\ UNCHANGED <<stored, queue, failed, phase, rolledBack, calls, made>>

-----------------------------------------------------------------------------
KeySets == SUBSET Keys \ {{}}

Puts == UNION {[ks -> Values] : ks \in KeySets}

Next ==
    \/ \E t \in Tasks :
          \/ Transaction(t) \/ DeleteAll(t) \/ SetAlarm(t) \/ Read(t) \/ Rollback(t) \/ Throw(t) \/ End(t)
          \/ \E p \in Puts : Put(t, p) \/ TxnPut(t, p)
          \/ \E ks \in KeySets : Delete(t, ks) \/ TxnGetList(t, ks) \/ TxnDelete(t, ks)
          \/ \E k \in Keys : TxnGet(t, k)
    \/ RunWrite \/ RunRead \/ Answered

Spec == Init /\ [][Next]_vars

-----------------------------------------------------------------------------
(* Properties *)

\* "a transaction writes once or not at all": when a write of a transaction runs, what it
\* makes of the storage is, in that one step, what the puts and deletes of the closure
\* make of it in the order it called them; and a get of the closure gives what the calls
\* before it put or deleted, or else what was stored when the host read it. Both hold
\* provided the closure awaited the calls it depends on, and whatever other tasks of the
\* object put and delete meanwhile.
TransactionAsMade ==
    [][/\ (stored' # stored /\ Head(queue).kind = "commit") =>
             LET t == Head(queue).task
             IN  raced[t] \/ (/\ ~rolledBack[t]
                              /\ stored' = [k \in Keys |-> IF made[t][k] = Kept THEN stored[k] ELSE made[t][k]])
       /\ \A t \in Tasks : (answer'[t] # answer[t] /\ ~raced'[t]) => answer'[t] = due'[t]]_vars
=============================================================================
