--------------------------- MODULE ExternalMemory ---------------------------
(***************************************************************************)
(* What V8 is told of the memory outside of its heap (gc/js_lock.rs and    *)
(* gc/external_memory.rs). A guard captures the first isolate under whose  *)
(* lock it is made or changed. Under a lock it reports its bytes at once,  *)
(* to the isolate that is locked, be it the one it captured or not;        *)
(* without a lock by a delta that the next lock of the isolate it captured *)
(* applies, or to nobody if it has captured none. Guards are changed and   *)
(* dropped on any thread, locks nest.                                      *)
(***************************************************************************)
EXTENDS Integers, Sequences, SequencesExt, FiniteSetsExt

CONSTANTS
    Isolates,
    Threads,
    Guards,     \* ExternalMemoryGuard
    MaxAmount,  \* bound: the bytes of a guard
    MaxNested,  \* bound: locks a thread holds
    MaxTold,    \* bound: bytes that an isolate was told
    MaxOff,     \* bound: bytes that wait for a lock, either way, or that it is short of
    None

VARIABLES
    locks,          \* the JsLocks of a thread; the last is CURRENT_STATE
    external,       \* V8's amount of external allocated memory
    pending,        \* LockerManagedIsolate.pending_memory_delta
    guards,         \* the guards that exist
    amount,         \* of a guard
    pending_delta,  \* the isolate whose delta the guard captured, or None without one
    untold,         \* history: the bytes of guards that were reported to nobody
    astray          \* history: isolates that a report put out of balance

toldVars == <<external, pending, untold, astray>>
vars == <<locks, guards, amount, pending_delta, toldVars>>

Init ==
    /\ locks = [t \in Threads |-> <<>>]
    /\ external = [i \in Isolates |-> 0] /\ pending = [i \in Isolates |-> 0]
    /\ guards = {} /\ amount = [g \in Guards |-> 0] /\ pending_delta = [g \in Guards |-> None]
    /\ untold = 0 /\ astray = {}

\* JsLock::try_current.
TryCurrent(t) == IF locks[t] = <<>> THEN None ELSE Last(locks[t])

\* The swap takes the pending delta out as it reads it.
Applied_Load(i) == pending

Applied(i) == [pending EXCEPT ![i] = 0]

\* JsLock::new, under the v8::Locker of the isolate, which one thread has at a time.
Lock(t, i) ==
    /\ Len(locks[t]) < MaxNested
    /\ \A u \in Threads \ {t} : i \notin ToSet(locks[u])
    /\ external' = [external EXCEPT ![i] = @ + pending[i]] /\ pending' = Applied(i)
    /\ locks' = [locks EXCEPT ![t] = Append(@, i)]
    /\ UNCHANGED <<guards, amount, pending_delta, untold, astray>>

\* JsLock::drop puts the lock around it back.
Unlock(t) ==
    /\ locks[t] # <<>> /\ locks' = [locks EXCEPT ![t] = Front(@)]
    /\ UNCHANGED <<guards, amount, pending_delta, toldVars>>

\* The isolates that a report under the lock of `here` puts out of balance: that one
\* and the one the guard captured, if they differ; that one, if it is the first to
\* hear of a guard that has bytes already.
Strays(g, here) ==
    CASE pending_delta[g] = here                   -> {}
      [] pending_delta[g] = None /\ amount[g] = 0  -> {}
      [] pending_delta[g] = None /\ amount[g] # 0  -> {here}
      [] OTHER                                     -> {here, pending_delta[g]}

\* No more than the bounds was told, waits, or is missing.
Bounded ==
    \A i \in Isolates : /\ pending'[i] \in (0 - MaxOff)..MaxOff
                        /\ external'[i] + pending'[i] \in (0 - MaxOff)..MaxTold

\* Where a change of a guard goes: to the isolate that is locked, to the delta of the
\* one it captured, or nowhere.
Report(t, g, delta) ==
    LET here == TryCurrent(t)
        captured == pending_delta[g]
    IN  /\ external' = IF here = None THEN external ELSE [external EXCEPT ![here] = @ + delta]
        /\ pending' = IF here # None \/ captured = None THEN pending ELSE [pending EXCEPT ![captured] = @ + delta]
        /\ untold' = IF here = None /\ captured = None THEN untold + delta ELSE untold
        /\ astray' = IF here = None \/ delta = 0 THEN astray ELSE astray \cup Strays(g, here)
        /\ Bounded

\* ExternalMemoryGuard::new, empty: without a lock it captures none.
New(t, g, bytes) ==
    /\ g \notin guards /\ guards' = guards \cup {g}
    /\ amount' = [amount EXCEPT ![g] = bytes]
    /\ pending_delta' = [pending_delta EXCEPT ![g] = TryCurrent(t)]
    /\ Report(t, g, bytes)
    /\ UNCHANGED locks

\* adjust, set: a guard that has captured none captures the isolate that is locked.
Adjust(t, g, bytes) ==
    /\ g \in guards /\ bytes # amount[g]
    /\ amount' = [amount EXCEPT ![g] = bytes]
    /\ pending_delta' = [pending_delta EXCEPT ![g] = IF @ = None THEN TryCurrent(t) ELSE @]
    /\ Report(t, g, bytes - amount[g])
    /\ UNCHANGED <<locks, guards>>

Drop(t, g) ==
    /\ g \in guards /\ guards' = guards \ {g}
    /\ amount' = [amount EXCEPT ![g] = 0]
    /\ pending_delta' = [pending_delta EXCEPT ![g] = None]
    /\ Report(t, g, 0 - amount[g])
    /\ UNCHANGED locks

Next ==
    \E t \in Threads :
       \/ Unlock(t)
       \/ \E i \in Isolates : Lock(t, i)
       \/ \E g \in Guards : Drop(t, g) \/ \E bytes \in 0..MaxAmount : New(t, g, bytes) \/ Adjust(t, g, bytes)

Spec == Init /\ [][Next]_vars

-----------------------------------------------------------------------------
(* Properties *)

\* The bytes of a set of guards.
Bytes(gs) == MapThenSumSet(LAMBDA g : amount[g], gs)

\* "This ensures that deferred drops (without the lock held) go to the correct
\* isolate": whichever threads changed and dropped the guards, and in whatever order,
\* what V8 was told of an isolate and what it will be told at the next lock are the
\* bytes of the guards that captured it. Two kinds of report put an isolate out of
\* balance, and nothing else does: one of a guard that captured another isolate, and
\* the first of a guard that has bytes from before. And over all isolates no bytes
\* are told twice or forgotten, but for those of guards that captured none.
Balanced ==
    /\ \A i \in Isolates \ astray :
          external[i] + pending[i] = Bytes({g \in Guards : pending_delta[g] = i})
    /\ MapThenSumSet(LAMBDA i : external[i] + pending[i], Isolates) + untold = Bytes(Guards)
=============================================================================
