---------------------------- MODULE StorageProofs ----------------------------
(***************************************************************************)
(* What ObjectStorage guarantees of the transactions of any number of      *)
(* tasks, over any keys and values: a commit writes what the closure made, *)
(* and a get gives what it should. A call of a closure that reads goes on  *)
(* when its answer comes. Own says what the transaction has by then, Turns *)
(* that the answers come in the order of the calls, and Commits what the   *)
(* write of a closure that ended has in it.                                *)
(***************************************************************************)
EXTENDS ObjectStorage, TLAPS

\* Zenon proves the leaves, but for those that cite SMT: numbers, sequences, records.
USE Zenon

-----------------------------------------------------------------------------
(* The inductive invariant *)

Given == UNION {[ks -> Values] : ks \in SUBSET Keys}

Held == {Absent} \cup Values

Made == [Keys -> Held \cup {Kept}]

Ops == [task : Tasks, kind : {"write", "plain", "get", "commit"}, puts : Given, deletes : SUBSET Keys,
        keys : SUBSET Keys]

Found == UNION {[ks -> Held] : ks \in SUBSET Keys}

Results == [task : Tasks, ok : BOOLEAN, found : Found, all : [Keys -> Held]]

Asked == [kind : {"get", "list", "delete"}, keys : SUBSET Keys, made : Made]

Types ==
    /\ stored \in [Keys -> Held] /\ queue \in Seq(Ops) /\ results \in Seq(Results)
    /\ phase \in [Tasks -> {"new", "open", "over"}]
    /\ puts \in [Tasks -> Given] /\ deletes \in [Tasks -> SUBSET Keys] /\ rolledBack \in [Tasks -> BOOLEAN]
    /\ pending \in [Tasks -> Seq(Asked)] /\ made \in [Tasks -> Made] /\ raced \in [Tasks -> BOOLEAN]
    /\ DOMAIN answer = Tasks /\ DOMAIN due = Tasks

\* A call of t that waits, of one of these kinds, is about k.
Awaits(t, kinds, k) == \E i \in DOMAIN pending[t] : pending[t][i].kind \in kinds /\ k \in pending[t][i].keys

\* What puts p and deletes ds do to a key.
Does(p, ds, k) == IF k \in DOMAIN p THEN p[k] ELSE IF k \in ds THEN Absent ELSE Kept

\* A transaction has what its calls made, but for the deletes that wait.
AsMade(t) ==
    \A k \in Keys : /\ ~(k \in DOMAIN puts[t] /\ k \in deletes[t])
                    /\ made[t][k] = IF Awaits(t, {"delete"}, k) THEN Absent ELSE Does(puts[t], deletes[t], k)

\* What made a get read, or a list, is as it was.
Waiting(t) ==
    \A i \in DOMAIN pending[t] : \A k \in pending[t][i].keys :
        /\ pending[t][i].kind = "get" => pending[t][i].made[k] = Kept
        /\ pending[t][i].kind = "list" => ~Awaits(t, {"delete"}, k) /\ made[t][k] = pending[t][i].made[k]

Own(t) == raced[t] \/ (AsMade(t) /\ Waiting(t))

\* The items of q at the places P go with the calls that are hi - 1, hi - 2 and so on to
\* lo before the last one, as R says: c counts them along q.
InTurn(q, P, R, hi, lo) ==
    \E c \in [0..Len(q) -> Nat] :
        /\ c[0] = hi /\ c[Len(q)] = lo
        /\ \A k \in 1..Len(q) : IF k \in P THEN c[k - 1] = c[k] + 1 /\ <<q[k], c[k]>> \in R
                                           ELSE c[k - 1] = c[k]

ReadsOf(q, t) == {k \in DOMAIN q : q[k].kind = "get" /\ q[k].task = t}

AnswersOf(q, t) == {k \in DOMAIN q : q[k].task = t}

\* A call reads the keys of which the transaction has nothing.
Fits(t, ks, call) == raced[t] \/ call.kind = "delete" \/ ks = {k \in call.keys : call.made[k] = Kept}

\* The reads, and the answers, that a call of t may wait for: x[2] calls came after it.
Going(t) == {x \in Ops \X Nat : x[2] < Len(pending[t]) => Fits(t, x[1].keys, pending[t][Len(pending[t]) - x[2]])}

Coming(t) ==
    {x \in Results \X Nat : x[2] < Len(pending[t]) =>
                               Fits(t, DOMAIN x[1].found, pending[t][Len(pending[t]) - x[2]])}

\* Each call of t that waits has its read in the queue or its answer on the way, in order.
Turns(t) ==
    \E mid \in Nat : /\ InTurn(results, AnswersOf(results, t), Coming(t), Len(pending[t]), mid)
                     /\ InTurn(queue, ReadsOf(queue, t), Going(t), mid, 0)

\* An answer is what was stored.
Answers == \A i \in DOMAIN results : \A k \in DOMAIN results[i].found : results[i].found[k] = results[i].all[k]

\* The write of a transaction of t is what its closure made, which is over.
Sealed(t, op) ==
    /\ phase[t] = "over"
    /\ raced[t] \/ /\ ~rolledBack[t]
                   /\ \A k \in Keys : /\ ~(k \in DOMAIN op.puts /\ k \in op.deletes)
                                      /\ made[t][k] = Does(op.puts, op.deletes, k)

Commits(t) == \A i \in DOMAIN queue : (queue[i].kind = "commit" /\ queue[i].task = t) => Sealed(t, queue[i])

IInv == Types /\ Answers /\ \A t \in Tasks : Own(t) /\ Turns(t) /\ Commits(t)

-----------------------------------------------------------------------------
(* Items in turn *)

\* No item is a run of none.
LEMMA InTurnNone ==
    ASSUME NEW M, NEW q \in Seq(M), NEW R, NEW n \in Nat
    PROVE  InTurn(q, {}, R, n, n)
<1> DEFINE c == [k \in 0..Len(q) |-> n]
<1>1. c \in [0..Len(q) -> Nat] /\ c[0] = n /\ c[Len(q)] = n /\ \A k \in 1..Len(q) : c[k - 1] = c[k]
  BY SMT
<1> QED
  BY <1>1 DEF InTurn

\* What goes with the calls in one way goes with them in another.
LEMMA InTurnSame ==
    ASSUME NEW M, NEW q \in Seq(M), NEW P, NEW R, NEW S, NEW hi, NEW lo, InTurn(q, P, R, hi, lo),
           \A x \in M, d \in Nat : <<x, d>> \in R => <<x, d>> \in S
    PROVE  InTurn(q, P, S, hi, lo)
<1>1. PICK c \in [0..Len(q) -> Nat] :
        /\ c[0] = hi /\ c[Len(q)] = lo
        /\ \A k \in 1..Len(q) : IF k \in P THEN c[k - 1] = c[k] + 1 /\ <<q[k], c[k]>> \in R
                                           ELSE c[k - 1] = c[k]
  BY DEF InTurn
<1>2. \A k \in 1..Len(q) : q[k] \in M /\ k \in 0..Len(q)
  BY SMT
<1>3. \A k \in 1..Len(q) : <<q[k], c[k]>> \in R => <<q[k], c[k]>> \in S
  BY <1>1, <1>2
<1> QED
  BY <1>1, <1>3 DEF InTurn

\* One more call came.
LEMMA InTurnMore ==
    ASSUME NEW M, NEW q \in Seq(M), NEW P, NEW R, NEW S, NEW hi \in Nat, NEW lo \in Nat, InTurn(q, P, R, hi, lo),
           \A x \in M, d \in Nat : <<x, d>> \in R => <<x, d + 1>> \in S
    PROVE  InTurn(q, P, S, hi + 1, lo + 1)
<1>1. PICK c \in [0..Len(q) -> Nat] :
        /\ c[0] = hi /\ c[Len(q)] = lo
        /\ \A k \in 1..Len(q) : IF k \in P THEN c[k - 1] = c[k] + 1 /\ <<q[k], c[k]>> \in R
                                           ELSE c[k - 1] = c[k]
  BY DEF InTurn
<1> DEFINE d == [k \in 0..Len(q) |-> c[k] + 1]
<1>2. \A k \in 1..Len(q) : q[k] \in M /\ k \in 0..Len(q) /\ k - 1 \in 0..Len(q)
  BY SMT
<1>3. 0 \in 0..Len(q) /\ Len(q) \in 0..Len(q)
  BY SMT
<1>4. d \in [0..Len(q) -> Nat]
  BY SMT, <1>1
<1>5. d[0] = hi + 1 /\ d[Len(q)] = lo + 1
  BY <1>1, <1>3
<1>6. \A k \in 1..Len(q) : d[k] = c[k] + 1 /\ d[k - 1] = c[k - 1] + 1
  BY <1>2
<1> HIDE DEF d
<1>7. ASSUME NEW k \in 1..Len(q)
      PROVE  IF k \in P THEN d[k - 1] = d[k] + 1 /\ <<q[k], d[k]>> \in S ELSE d[k - 1] = d[k]
  <2>1. q[k] \in M /\ c[k] \in Nat
    BY <1>1, <1>2
  <2>2. <<q[k], c[k]>> \in R => <<q[k], d[k]>> \in S
    BY <1>6, <2>1
  <2> QED
    BY <1>1, <1>6, <2>2
<1> QED
  BY <1>4, <1>5, <1>7 DEF InTurn

\* The item that comes is of no call, or of the next one.
LEMMA InTurnPut ==
    ASSUME NEW M, NEW q \in Seq(M), NEW m \in M, NEW P \in SUBSET DOMAIN q, NEW R,
           NEW hi \in Nat, NEW lo \in Nat, InTurn(q, P, R, hi, lo)
    PROVE  /\ InTurn(Append(q, m), P, R, hi, lo)
           /\ \A n \in Nat : (lo = n + 1 /\ <<m, n>> \in R) => InTurn(Append(q, m), P \cup {Len(q) + 1}, R, hi, n)
<1>1. PICK c \in [0..Len(q) -> Nat] :
        /\ c[0] = hi /\ c[Len(q)] = lo
        /\ \A k \in 1..Len(q) : IF k \in P THEN c[k - 1] = c[k] + 1 /\ <<q[k], c[k]>> \in R
                                           ELSE c[k - 1] = c[k]
  BY DEF InTurn
<1>2. /\ Len(q) \in Nat /\ Len(Append(q, m)) = Len(q) + 1 /\ DOMAIN q = 1..Len(q) /\ Append(q, m)[Len(q) + 1] = m
      /\ \A k \in 1..Len(q) : Append(q, m)[k] = q[k]
  BY SMT
<1> DEFINE D(h) == [k \in 0..(Len(q) + 1) |-> IF k = Len(q) + 1 THEN h ELSE c[k]]
<1>3. ASSUME NEW h \in Nat
      PROVE  /\ D(h) \in [0..(Len(q) + 1) -> Nat] /\ D(h)[0] = hi /\ D(h)[Len(q) + 1] = h
             /\ D(h)[(Len(q) + 1) - 1] = lo /\ \A k \in 1..Len(q) : D(h)[k] = c[k] /\ D(h)[k - 1] = c[k - 1]
  <2>1. D(h) \in [0..(Len(q) + 1) -> Nat]
    <3>1. ASSUME NEW k \in 0..(Len(q) + 1), k # Len(q) + 1 PROVE k \in 0..Len(q)
      BY SMT, <1>2, <3>1
    <3> QED
      BY <1>1, <3>1
  <2>2. D(h)[0] = hi /\ D(h)[Len(q) + 1] = h /\ D(h)[(Len(q) + 1) - 1] = lo
    <3>1. \A n \in Nat : 0 \in 0..(n + 1) /\ 0 # n + 1 /\ n + 1 \in 0..(n + 1)
                         /\ (n + 1) - 1 = n /\ n \in 0..(n + 1) /\ n # n + 1
      BY SMT
    <3> QED
      BY <1>1, <1>2, <3>1
  <2>3. \A k \in 1..Len(q) : D(h)[k] = c[k] /\ D(h)[k - 1] = c[k - 1]
    BY SMT, <1>2
  <2> QED
    BY <2>1, <2>2, <2>3
<1> HIDE DEF D
<1>4. \A k \in 1..(Len(q) + 1) : k \in 1..Len(q) \/ k = Len(q) + 1
  BY SMT, <1>2
<1>5. Len(q) + 1 \notin P
  BY SMT, <1>2
<1>6. InTurn(Append(q, m), P, R, hi, lo)
  <2> DEFINE d == D(lo)
  <2>1. /\ d \in [0..(Len(q) + 1) -> Nat] /\ d[0] = hi /\ d[Len(q) + 1] = lo /\ d[(Len(q) + 1) - 1] = lo
        /\ \A k \in 1..Len(q) : d[k] = c[k] /\ d[k - 1] = c[k - 1]
    BY <1>3
  <2> HIDE DEF d
  <2>2. ASSUME NEW k \in 1..(Len(q) + 1)
        PROVE  IF k \in P THEN d[k - 1] = d[k] + 1 /\ <<Append(q, m)[k], d[k]>> \in R ELSE d[k - 1] = d[k]
    <3>1. CASE k \in 1..Len(q)
      BY <1>1, <1>2, <2>1, <3>1
    <3>2. CASE k = Len(q) + 1
      BY <1>5, <2>1, <3>2
    <3> QED
      BY <1>4, <3>1, <3>2
  <2>3. \E e \in [0..(Len(q) + 1) -> Nat] :
          /\ e[0] = hi /\ e[Len(q) + 1] = lo
          /\ \A k \in 1..(Len(q) + 1) : IF k \in P THEN e[k - 1] = e[k] + 1 /\ <<Append(q, m)[k], e[k]>> \in R
                                                   ELSE e[k - 1] = e[k]
    BY <2>1, <2>2
  <2> QED
    BY <1>2, <2>3 DEF InTurn
<1>7. ASSUME NEW n \in Nat, lo = n + 1, <<m, n>> \in R PROVE InTurn(Append(q, m), P \cup {Len(q) + 1}, R, hi, n)
  <2> DEFINE Q == P \cup {Len(q) + 1}
             d == D(n)
  <2>1. /\ d \in [0..(Len(q) + 1) -> Nat] /\ d[0] = hi /\ d[Len(q) + 1] = n /\ d[(Len(q) + 1) - 1] = lo
        /\ \A k \in 1..Len(q) : d[k] = c[k] /\ d[k - 1] = c[k - 1]
    BY <1>3
  <2> HIDE DEF d
  <2>2. \A k \in 1..Len(q) : k \in Q <=> k \in P
    BY SMT, <1>2
  <2>3. Len(q) + 1 \in Q
    OBVIOUS
  <2> HIDE DEF Q
  <2>4. ASSUME NEW k \in 1..(Len(q) + 1)
        PROVE  IF k \in Q THEN d[k - 1] = d[k] + 1 /\ <<Append(q, m)[k], d[k]>> \in R ELSE d[k - 1] = d[k]
    <3>1. CASE k \in 1..Len(q)
      BY <1>1, <1>2, <2>1, <2>2, <3>1
    <3>2. CASE k = Len(q) + 1
      BY <1>2, <1>7, <2>1, <2>3, <3>2
    <3> QED
      BY <1>4, <3>1, <3>2
  <2>5. \E e \in [0..(Len(q) + 1) -> Nat] :
          /\ e[0] = hi /\ e[Len(q) + 1] = n
          /\ \A k \in 1..(Len(q) + 1) : IF k \in Q THEN e[k - 1] = e[k] + 1 /\ <<Append(q, m)[k], e[k]>> \in R
                                                   ELSE e[k - 1] = e[k]
    BY <2>1, <2>4
  <2>6. InTurn(Append(q, m), Q, R, hi, n)
    BY <1>2, <2>5 DEF InTurn
  <2> QED
    BY <2>6 DEF Q
<1> QED
  BY <1>6, <1>7

\* The item that goes is of no call, or of the first one that waits.
LEMMA InTurnTail ==
    ASSUME NEW M, NEW q \in Seq(M), q # <<>>, NEW P \in SUBSET DOMAIN q, NEW R,
           NEW hi \in Nat, NEW lo \in Nat, InTurn(q, P, R, hi, lo)
    PROVE  /\ 1 \notin P => InTurn(Tail(q), {k \in DOMAIN Tail(q) : k + 1 \in P}, R, hi, lo)
           /\ 1 \in P => \E n \in Nat : /\ hi = n + 1 /\ <<Head(q), n>> \in R
                                        /\ InTurn(Tail(q), {k \in DOMAIN Tail(q) : k + 1 \in P}, R, n, lo)
<1> DEFINE u == Tail(q)
           Q == {k \in DOMAIN u : k + 1 \in P}
<1>1. PICK c \in [0..Len(q) -> Nat] :
        /\ c[0] = hi /\ c[Len(q)] = lo
        /\ \A k \in 1..Len(q) : IF k \in P THEN c[k - 1] = c[k] + 1 /\ <<q[k], c[k]>> \in R
                                           ELSE c[k - 1] = c[k]
  BY DEF InTurn
<1>2. /\ Len(q) \in Nat /\ Len(u) \in Nat /\ Len(q) = Len(u) + 1 /\ 1 \in 1..Len(q) /\ Head(q) = q[1] /\ 1 - 1 = 0
      /\ 1 \in 0..Len(q) /\ DOMAIN u = 1..Len(u)
      /\ \A k \in 1..Len(u) : k + 1 \in 1..Len(q) /\ u[k] = q[k + 1] /\ (k + 1) - 1 = k
  BY SMT
<1>3. /\ c[1] \in Nat
      /\ 1 \notin P => c[1] = hi
      /\ 1 \in P => hi = c[1] + 1 /\ <<Head(q), c[1]>> \in R
  BY <1>1, <1>2
<1> DEFINE d == [k \in 0..Len(u) |-> c[k + 1]]
<1>4. /\ d \in [0..Len(u) -> Nat] /\ d[0] = c[1] /\ d[Len(u)] = lo
      /\ \A k \in 1..Len(u) : d[k] = c[k + 1] /\ d[k - 1] = c[k]
  BY SMT, <1>1, <1>2
<1>5. \A k \in 1..Len(u) : k \in Q <=> k + 1 \in P
  BY <1>2
<1> HIDE DEF d, u, Q
<1>6. ASSUME NEW k \in 1..Len(u)
      PROVE  IF k \in Q THEN d[k - 1] = d[k] + 1 /\ <<u[k], d[k]>> \in R ELSE d[k - 1] = d[k]
  <2>1. /\ k + 1 \in 1..Len(q) /\ u[k] = q[k + 1] /\ (k + 1) - 1 = k /\ d[k] = c[k + 1] /\ d[k - 1] = c[k]
        /\ k \in Q <=> k + 1 \in P
    BY <1>2, <1>4, <1>5
  <2>2. IF k + 1 \in P THEN c[(k + 1) - 1] = c[k + 1] + 1 /\ <<q[k + 1], c[k + 1]>> \in R
                       ELSE c[(k + 1) - 1] = c[k + 1]
    BY <1>1, <2>1
  <2> QED
    BY <2>1, <2>2
<1>7. InTurn(u, Q, R, c[1], lo)
  BY <1>4, <1>6 DEF InTurn
<1> QED
  BY <1>3, <1>7 DEF u, Q

-----------------------------------------------------------------------------
(* An op or an answer comes, or goes *)

\* An op that comes.
LEMMA ReadsOfPut ==
    ASSUME NEW q \in Seq(Ops), NEW m \in Ops, NEW t
    PROVE  /\ ~(m.kind = "get" /\ m.task = t) => ReadsOf(Append(q, m), t) = ReadsOf(q, t)
           /\ (m.kind = "get" /\ m.task = t) => ReadsOf(Append(q, m), t) = ReadsOf(q, t) \cup {Len(q) + 1}
<1>1. /\ DOMAIN Append(q, m) = DOMAIN q \cup {Len(q) + 1} /\ Len(q) + 1 \notin DOMAIN q
      /\ Append(q, m)[Len(q) + 1] = m /\ \A k \in DOMAIN q : Append(q, m)[k] = q[k]
  BY SMT
<1> HIDE DEF Ops
<1> QED
  BY <1>1 DEF ReadsOf

\* An op that goes.
LEMMA ReadsOfTail ==
    ASSUME NEW q \in Seq(Ops), q # <<>>, NEW t
    PROVE  /\ ReadsOf(Tail(q), t) = {k \in DOMAIN Tail(q) : k + 1 \in ReadsOf(q, t)}
           /\ 1 \in ReadsOf(q, t) <=> Head(q).kind = "get" /\ Head(q).task = t
<1>1. /\ 1 \in DOMAIN q /\ Head(q) = q[1]
      /\ \A k \in DOMAIN Tail(q) : k + 1 \in DOMAIN q /\ Tail(q)[k] = q[k + 1]
  BY SMT
<1> QED
  BY <1>1 DEF ReadsOf

\* An answer that comes.
LEMMA AnswersOfPut ==
    ASSUME NEW q \in Seq(Results), NEW m \in Results, NEW t
    PROVE  /\ m.task # t => AnswersOf(Append(q, m), t) = AnswersOf(q, t)
           /\ m.task = t => AnswersOf(Append(q, m), t) = AnswersOf(q, t) \cup {Len(q) + 1}
<1>1. /\ DOMAIN Append(q, m) = DOMAIN q \cup {Len(q) + 1} /\ Len(q) + 1 \notin DOMAIN q
      /\ Append(q, m)[Len(q) + 1] = m /\ \A k \in DOMAIN q : Append(q, m)[k] = q[k]
  BY SMT
<1> HIDE DEF Results
<1> QED
  BY <1>1 DEF AnswersOf

\* An answer that goes.
LEMMA AnswersOfTail ==
    ASSUME NEW q \in Seq(Results), q # <<>>, NEW t
    PROVE  /\ AnswersOf(Tail(q), t) = {k \in DOMAIN Tail(q) : k + 1 \in AnswersOf(q, t)}
           /\ 1 \in AnswersOf(q, t) <=> Head(q).task = t
<1>1. /\ 1 \in DOMAIN q /\ Head(q) = q[1]
      /\ \A k \in DOMAIN Tail(q) : k + 1 \in DOMAIN q /\ Tail(q)[k] = q[k + 1]
  BY SMT
<1> QED
  BY <1>1 DEF AnswersOf

\* A read that comes is of no call of t, or of its next one.
LEMMA ReadComes ==
    ASSUME NEW q \in Seq(Ops), NEW m \in Ops, NEW t, NEW R, NEW hi \in Nat, NEW lo \in Nat,
           InTurn(q, ReadsOf(q, t), R, hi, lo)
    PROVE  /\ ~(m.kind = "get" /\ m.task = t) => InTurn(Append(q, m), ReadsOf(Append(q, m), t), R, hi, lo)
           /\ (m.kind = "get" /\ m.task = t) => \A n \in Nat : (lo = n + 1 /\ <<m, n>> \in R) =>
                                   InTurn(Append(q, m), ReadsOf(Append(q, m), t), R, hi, n)
<1> DEFINE P == ReadsOf(q, t)
           w == Append(q, m)
<1>1. P \in SUBSET DOMAIN q
  BY DEF ReadsOf
<1>2. /\ ~(m.kind = "get" /\ m.task = t) => ReadsOf(w, t) = P
      /\ (m.kind = "get" /\ m.task = t) => ReadsOf(w, t) = P \cup {Len(q) + 1}
  BY ReadsOfPut
<1>3. /\ InTurn(w, P, R, hi, lo)
      /\ \A n \in Nat : (lo = n + 1 /\ <<m, n>> \in R) => InTurn(w, P \cup {Len(q) + 1}, R, hi, n)
  BY <1>1, InTurnPut
<1> HIDE DEF P, w
<1>4. CASE ~(m.kind = "get" /\ m.task = t)
  BY <1>2, <1>3, <1>4 DEF w
<1>5. CASE (m.kind = "get" /\ m.task = t)
  BY <1>2, <1>3, <1>5 DEF w
<1> QED
  BY <1>4, <1>5

\* One that goes is of no call of t, or of the first one that waits.
LEMMA ReadGoes ==
    ASSUME NEW q \in Seq(Ops), q # <<>>, NEW t, NEW R, NEW hi \in Nat, NEW lo \in Nat,
           InTurn(q, ReadsOf(q, t), R, hi, lo)
    PROVE  /\ ~(Head(q).kind = "get" /\ Head(q).task = t) => InTurn(Tail(q), ReadsOf(Tail(q), t), R, hi, lo)
           /\ (Head(q).kind = "get" /\ Head(q).task = t) => \E n \in Nat : /\ hi = n + 1 /\ <<Head(q), n>> \in R
                                               /\ InTurn(Tail(q), ReadsOf(Tail(q), t), R, n, lo)
<1> DEFINE P == ReadsOf(q, t)
           Q == {k \in DOMAIN Tail(q) : k + 1 \in P}
<1>1. P \in SUBSET DOMAIN q
  BY DEF ReadsOf
<1>2. ReadsOf(Tail(q), t) = Q /\ (1 \in P <=> (Head(q).kind = "get" /\ Head(q).task = t))
  BY ReadsOfTail
<1>3. /\ 1 \notin P => InTurn(Tail(q), Q, R, hi, lo)
      /\ 1 \in P => \E n \in Nat : hi = n + 1 /\ <<Head(q), n>> \in R /\ InTurn(Tail(q), Q, R, n, lo)
  BY <1>1, InTurnTail
<1> HIDE DEF P, Q
<1> QED
  BY <1>2, <1>3

\* An answer that comes is of no call of t, or of its next one.
LEMMA AnswerComes ==
    ASSUME NEW q \in Seq(Results), NEW m \in Results, NEW t, NEW R, NEW hi \in Nat, NEW lo \in Nat,
           InTurn(q, AnswersOf(q, t), R, hi, lo)
    PROVE  /\ m.task # t => InTurn(Append(q, m), AnswersOf(Append(q, m), t), R, hi, lo)
           /\ m.task = t => \A n \in Nat : (lo = n + 1 /\ <<m, n>> \in R) =>
                                   InTurn(Append(q, m), AnswersOf(Append(q, m), t), R, hi, n)
<1> DEFINE P == AnswersOf(q, t)
           w == Append(q, m)
<1>1. P \in SUBSET DOMAIN q
  BY DEF AnswersOf
<1>2. /\ m.task # t => AnswersOf(w, t) = P
      /\ m.task = t => AnswersOf(w, t) = P \cup {Len(q) + 1}
  BY AnswersOfPut
<1>3. /\ InTurn(w, P, R, hi, lo)
      /\ \A n \in Nat : (lo = n + 1 /\ <<m, n>> \in R) => InTurn(w, P \cup {Len(q) + 1}, R, hi, n)
  BY <1>1, InTurnPut
<1> HIDE DEF P, w
<1>4. CASE m.task # t
  BY <1>2, <1>3, <1>4 DEF w
<1>5. CASE m.task = t
  BY <1>2, <1>3, <1>5 DEF w
<1> QED
  BY <1>4, <1>5

\* One that goes is of no call of t, or of the first one that waits.
LEMMA AnswerGoes ==
    ASSUME NEW q \in Seq(Results), q # <<>>, NEW t, NEW R, NEW hi \in Nat, NEW lo \in Nat,
           InTurn(q, AnswersOf(q, t), R, hi, lo)
    PROVE  /\ Head(q).task # t => InTurn(Tail(q), AnswersOf(Tail(q), t), R, hi, lo)
           /\ Head(q).task = t => \E n \in Nat : /\ hi = n + 1 /\ <<Head(q), n>> \in R
                                               /\ InTurn(Tail(q), AnswersOf(Tail(q), t), R, n, lo)
<1> DEFINE P == AnswersOf(q, t)
           Q == {k \in DOMAIN Tail(q) : k + 1 \in P}
<1>1. P \in SUBSET DOMAIN q
  BY DEF AnswersOf
<1>2. AnswersOf(Tail(q), t) = Q /\ (1 \in P <=> Head(q).task = t)
  BY AnswersOfTail
<1>3. /\ 1 \notin P => InTurn(Tail(q), Q, R, hi, lo)
      /\ 1 \in P => \E n \in Nat : hi = n + 1 /\ <<Head(q), n>> \in R /\ InTurn(Tail(q), Q, R, n, lo)
  BY <1>1, InTurnTail
<1> HIDE DEF P, Q
<1> QED
  BY <1>2, <1>3

-----------------------------------------------------------------------------
(* A task that makes no call, and gets no answer *)

\* It waits for what it did; that it raced is not forgotten.
Waits(t) == pending'[t] = pending[t] /\ (raced[t] => raced'[t])

\* What it has stays, too.
Same(t) == Waits(t) /\ puts'[t] = puts[t] /\ deletes'[t] = deletes[t] /\ made'[t] = made[t]

\* What its transaction has is as it was.
LEMMA OwnSame ==
    ASSUME NEW t, Own(t), Same(t)
    PROVE  Own(t)'
<1>1. CASE raced'[t]
  BY <1>1 DEF Own
<1>2. CASE ~raced'[t]
  <2>1. AsMade(t) /\ Waiting(t)
    BY <1>2 DEF Own, Same, Waits
  <2>2. \A kinds, k : Awaits(t, kinds, k)' <=> Awaits(t, kinds, k)
    BY DEF Awaits, Same, Waits
  <2>3. puts'[t] = puts[t] /\ deletes'[t] = deletes[t] /\ made'[t] = made[t] /\ pending'[t] = pending[t]
    BY DEF Same, Waits
  <2>4. AsMade(t)'
    <3>1. \A k \in Keys : /\ ~(k \in DOMAIN puts'[t] /\ k \in deletes'[t])
                         /\ made'[t][k] = IF Awaits(t, {"delete"}, k) THEN Absent ELSE Does(puts'[t], deletes'[t], k)
      BY <2>1, <2>3 DEF AsMade
    <3> QED
      BY <2>2, <3>1 DEF AsMade, Does
  <2>5. Waiting(t)'
    <3>1. \A i \in DOMAIN pending'[t] : \A k \in pending'[t][i].keys :
            /\ pending'[t][i].kind = "get" => pending'[t][i].made[k] = Kept
            /\ pending'[t][i].kind = "list" => ~Awaits(t, {"delete"}, k) /\ made'[t][k] = pending'[t][i].made[k]
      BY SMT, <2>1, <2>3 DEF Waiting
    <3> QED
      BY <2>2, <3>1 DEF Waiting
  <2> QED
    BY <2>4, <2>5 DEF Own
<1> QED
  BY <1>1, <1>2

\* What its calls wait for still goes with them.
LEMMA FitsSame ==
    ASSUME NEW t, Waits(t)
    PROVE  /\ \A x \in Ops, d \in Nat : <<x, d>> \in Going(t) => <<x, d>> \in Going(t)'
           /\ \A x \in Results, d \in Nat : <<x, d>> \in Coming(t) => <<x, d>> \in Coming(t)'
<1>1. \A ks, c : Fits(t, ks, c) => Fits(t, ks, c)'
  BY DEF Fits, Waits
<1> QED
  BY <1>1 DEF Going, Coming, Waits

\* The calls of a task wait in turn, for what there is then.
LEMMA TurnsNext ==
    ASSUME NEW t, NEW mid \in Nat,
           InTurn(results', AnswersOf(results', t), Coming(t)', Len(pending'[t]), mid),
           InTurn(queue', ReadsOf(queue', t), Going(t)', mid, 0)
    PROVE  Turns(t)'
BY DEF Turns, InTurn, AnswersOf, ReadsOf

\* Its calls wait on when the answers stay, and ops that are not its reads come or go.
LEMMA TurnsSame ==
    ASSUME Types, NEW t, Turns(t), Waits(t), results' = results,
           \/ queue' = queue
           \/ \E op \in Ops : queue' = Append(queue, op) /\ ~(op.kind = "get" /\ op.task = t)
           \/ queue # <<>> /\ queue' = Tail(queue) /\ ~(Head(queue).kind = "get" /\ Head(queue).task = t)
    PROVE  Turns(t)'
<1>1. PICK mid \in Nat : /\ InTurn(results, AnswersOf(results, t), Coming(t), Len(pending[t]), mid)
                         /\ InTurn(queue, ReadsOf(queue, t), Going(t), mid, 0)
  BY DEF Turns
<1>2. results \in Seq(Results) /\ queue \in Seq(Ops)
  BY DEF Types
<1>3. InTurn(results, AnswersOf(results, t), Coming(t)', Len(pending[t]), mid)
  BY <1>1, <1>2, FitsSame, InTurnSame
<1>4. InTurn(queue, ReadsOf(queue, t), Going(t)', mid, 0)
  BY <1>1, <1>2, FitsSame, InTurnSame
<1>5. InTurn(queue', ReadsOf(queue', t), Going(t)', mid, 0)
  <2>1. 0 \in Nat
    BY SMT
  <2>2. CASE queue' = queue
    BY <1>4, <2>2
  <2>3. ASSUME NEW op \in Ops, queue' = Append(queue, op), ~(op.kind = "get" /\ op.task = t)
        PROVE  InTurn(queue', ReadsOf(queue', t), Going(t)', mid, 0)
    BY <1>2, <1>4, <2>1, <2>3, ReadComes
  <2>4. CASE queue # <<>> /\ queue' = Tail(queue) /\ ~(Head(queue).kind = "get" /\ Head(queue).task = t)
    BY <1>2, <1>4, <2>1, <2>4, ReadGoes
  <2> QED
    BY <2>2, <2>3, <2>4
<1> QED
  BY <1>3, <1>5, TurnsNext DEF Waits

-----------------------------------------------------------------------------
(* The writes of the transactions *)

\* The closure of t, which is over, is as it was.
Stays(t) ==
    /\ phase[t] = "over" => phase'[t] = "over" /\ rolledBack'[t] = rolledBack[t] /\ made'[t] = made[t]
    /\ raced[t] => raced'[t]

\* Then so are the writes in the queue, and no other comes but one that is right.
LEMMA CommitsSame ==
    ASSUME Types, NEW t, Commits(t), Stays(t),
           \/ queue' = queue
           \/ \E op \in Ops : queue' = Append(queue, op) /\ ((op.kind = "commit" /\ op.task = t) => Sealed(t, op)')
           \/ queue # <<>> /\ queue' = Tail(queue)
    PROVE  Commits(t)'
<1>1. queue \in Seq(Ops)
  BY DEF Types
<1> DEFINE After(op) ==
             /\ phase'[t] = "over"
             /\ raced'[t] \/ /\ ~rolledBack'[t]
                             /\ \A k \in Keys : /\ ~(k \in DOMAIN op.puts /\ k \in op.deletes)
                                                /\ made'[t][k] = Does(op.puts, op.deletes, k)
<1>2. \A op : (Sealed(t, op) => After(op)) /\ (Sealed(t, op)' => After(op))
  BY DEF Sealed, Stays, Does
<1>3. (\A i \in DOMAIN queue' : (queue'[i].kind = "commit" /\ queue'[i].task = t) => After(queue'[i])) => Commits(t)'
  BY DEF Commits, Sealed, Does
<1> HIDE DEF After
<1>4. CASE queue' = queue
  BY <1>2, <1>3, <1>4 DEF Commits
<1>5. ASSUME NEW op \in Ops, queue' = Append(queue, op), (op.kind = "commit" /\ op.task = t) => Sealed(t, op)'
      PROVE  Commits(t)'
  <2>1. /\ DOMAIN Append(queue, op) = DOMAIN queue \cup {Len(queue) + 1}
        /\ Append(queue, op)[Len(queue) + 1] = op /\ \A k \in DOMAIN queue : Append(queue, op)[k] = queue[k]
    BY SMT, <1>1
  <2>2. ASSUME NEW i \in DOMAIN queue', queue'[i].kind = "commit", queue'[i].task = t PROVE After(queue'[i])
    <3>1. CASE i \in DOMAIN queue
      BY <1>2, <1>5, <2>1, <2>2, <3>1 DEF Commits
    <3>2. CASE i = Len(queue) + 1
      BY <1>2, <1>5, <2>1, <2>2, <3>2
    <3> QED
      BY <1>5, <2>1, <2>2, <3>1, <3>2
  <2> QED
    BY <1>3, <2>2
<1>6. CASE queue # <<>> /\ queue' = Tail(queue)
  <2>1. \A k \in DOMAIN Tail(queue) : k + 1 \in DOMAIN queue /\ Tail(queue)[k] = queue[k + 1]
    BY SMT, <1>1, <1>6
  <2>2. ASSUME NEW i \in DOMAIN queue', queue'[i].kind = "commit", queue'[i].task = t PROVE After(queue'[i])
    BY <1>2, <1>6, <2>1, <2>2 DEF Commits
  <2> QED
    BY <1>3, <2>2
<1> QED
  BY <1>4, <1>5, <1>6

-----------------------------------------------------------------------------
(* Types *)

\* What a put gives has values of its keys.
LEMMA GivenIs == \A p : p \in Given <=> DOMAIN p \in SUBSET Keys /\ p \in [DOMAIN p -> Values]
BY DEF Given

\* What is kept is not put.
LEMMA GivenNotKept == ASSUME Kept \notin Held PROVE \A p \in Given : \A k \in DOMAIN p : p[k] # Kept
<1>1. ASSUME NEW p \in Given, NEW k \in DOMAIN p PROVE p[k] \in Values
  BY <1>1, GivenIs
<1> QED
  BY <1>1 DEF Held

\* Puts and deletes, one over the other.
LEMMA GivenOver ==
    /\ Empty \in Given /\ \A p \in Puts : p \in Given
    /\ \A p \in Given : \A g \in Given : Over(p, g) \in Given
    /\ \A p \in Given : \A ks : Restrict(p, DOMAIN p \ ks) \in Given
    /\ \A p \in Given : \A m \in Made : Over(p, m) \in Made
    /\ \A ks \in SUBSET Keys : \A m \in Made : Over([k \in ks |-> Absent], m) \in Made
<1>1. Empty \in Given
  BY DEF Given, Empty
<1>2. \A p \in Puts : p \in Given
  BY DEF Given, Puts, KeySets
<1>3. ASSUME NEW p \in Given, NEW g \in Given PROVE Over(p, g) \in Given
  <2>1. DOMAIN p \in SUBSET Keys /\ p \in [DOMAIN p -> Values] /\ DOMAIN g \in SUBSET Keys /\ g \in [DOMAIN g -> Values]
    BY GivenIs
  <2>2. DOMAIN Over(p, g) = DOMAIN p \cup DOMAIN g
    BY DEF Over
  <2>3. Over(p, g) \in [DOMAIN p \cup DOMAIN g -> Values]
    BY <2>1 DEF Over
  <2> QED
    BY <2>1, <2>2, <2>3, GivenIs
<1>4. ASSUME NEW p \in Given, NEW ks PROVE Restrict(p, DOMAIN p \ ks) \in Given
  <2>1. DOMAIN p \in SUBSET Keys /\ p \in [DOMAIN p -> Values]
    BY GivenIs
  <2>2. DOMAIN Restrict(p, DOMAIN p \ ks) = DOMAIN p \ ks
    BY DEF Restrict
  <2>3. Restrict(p, DOMAIN p \ ks) \in [DOMAIN p \ ks -> Values]
    BY <2>1 DEF Restrict
  <2> QED
    BY <2>1, <2>2, <2>3, GivenIs
<1>5. ASSUME NEW p \in Given, NEW m \in Made PROVE Over(p, m) \in Made
  <2>1. DOMAIN p \in SUBSET Keys /\ p \in [DOMAIN p -> Values] /\ DOMAIN m = Keys /\ DOMAIN p \cup DOMAIN m = Keys
    BY GivenIs DEF Made
  <2> QED
    BY <2>1 DEF Over, Made, Held
<1>6. ASSUME NEW ks \in SUBSET Keys, NEW m \in Made PROVE Over([k \in ks |-> Absent], m) \in Made
  <2>1. DOMAIN m = Keys /\ DOMAIN [k \in ks |-> Absent] = ks /\ ks \cup Keys = Keys
    BY DEF Made
  <2> QED
    BY <2>1 DEF Over, Made, Held
<1> QED
  BY <1>1, <1>2, <1>3, <1>4, <1>5, <1>6

\* What ops have.
LEMMA OpHas ==
    /\ \A t, kind, p, ds : /\ WriteOp(t, kind, p, ds).task = t /\ WriteOp(t, kind, p, ds).kind = kind
                          /\ WriteOp(t, kind, p, ds).puts = p /\ WriteOp(t, kind, p, ds).deletes = ds
    /\ \A t, kind, ks : /\ ReadOp(t, kind, ks).task = t /\ ReadOp(t, kind, ks).kind = kind
                       /\ ReadOp(t, kind, ks).keys = ks
BY SMT DEF WriteOp, ReadOp

\* They are ops.
LEMMA OpTyped ==
    ASSUME NEW t \in Tasks
    PROVE  /\ \A kind \in {"write", "commit"}, p \in Given, ds \in SUBSET Keys : WriteOp(t, kind, p, ds) \in Ops
           /\ \A kind \in {"get", "plain"}, ks \in SUBSET Keys : ReadOp(t, kind, ks) \in Ops
<1>1. Empty \in Given
  BY GivenOver
<1> QED
  BY SMT, <1>1 DEF Ops, WriteOp, ReadOp

\* A call that waits is about keys.
LEMMA AskedKeys ==
    ASSUME Types, NEW t \in Tasks
    PROVE  \A i \in DOMAIN pending[t] : /\ pending[t][i] \in Asked /\ pending[t][i].keys \in SUBSET Keys
                                        /\ pending[t][i].kind \in {"get", "list", "delete"}
<1>1. pending[t] \in Seq(Asked)
  BY DEF Types
<1>2. \A i \in DOMAIN pending[t] : pending[t][i] \in Asked
  BY SMT, <1>1
<1>3. \A c \in Asked : c.keys \in SUBSET Keys /\ c.kind \in {"get", "list", "delete"}
  BY SMT DEF Asked
<1> QED
  BY <1>2, <1>3

-----------------------------------------------------------------------------
(* Steps of a task *)

\* A step of t that touches no transaction: a plain call, the start of a closure, its
\* rollback or its throw.
LEMMA QuietKeeps ==
    ASSUME IInv, NEW t \in Tasks, phase[t] # "over", phase' \in [Tasks -> {"new", "open", "over"}],
           rolledBack' \in [Tasks -> BOOLEAN],
           \A u \in Tasks : u # t => phase'[u] = phase[u] /\ rolledBack'[u] = rolledBack[u],
           UNCHANGED <<stored, results, puts, deletes, pending, answer, history>>,
           \/ queue' = queue
           \/ \E op \in Ops : op.kind \in {"write", "plain"} /\ queue' = Append(queue, op)
    PROVE  IInv'
<1>1. Types'
  <2>1. queue \in Seq(Ops)
    BY DEF IInv, Types
  <2>2. \A op \in Ops : Append(queue, op) \in Seq(Ops)
    BY SMT, <2>1
  <2>3. queue' \in Seq(Ops)
    BY <2>1, <2>2
  <2> QED
    BY <2>3 DEF IInv, Types, history
<1>2. Answers'
  BY DEF IInv, Answers
<1>3. ASSUME NEW u \in Tasks PROVE Own(u)' /\ Turns(u)' /\ Commits(u)'
  <2>1. Own(u) /\ Turns(u) /\ Commits(u) /\ Types
    BY DEF IInv
  <2>2. Same(u) /\ Waits(u) /\ results' = results
    BY DEF Same, Waits, history
  <2>3. Stays(u)
    BY DEF Stays, history
  <2>4. \/ queue' = queue
        \/ \E op \in Ops : queue' = Append(queue, op) /\ op.kind # "get" /\ op.kind # "commit"
    OBVIOUS
  <2>5. Turns(u)'
    BY <2>1, <2>2, <2>4, TurnsSame
  <2>6. Commits(u)'
    BY <2>1, <2>3, <2>4, CommitsSame
  <2> QED
    BY <2>1, <2>2, <2>5, <2>6, OwnSame
<1> QED
  BY <1>1, <1>2, <1>3 DEF IInv

\* A plain call, which sends one op or is past the backlog.
LEMMA PlainKeeps ==
    ASSUME IInv, NEW t \in Tasks, NEW op \in Ops, op.kind \in {"write", "plain"}, Plain(t, op)
    PROVE  IInv'
<1>1. phase[t] # "over" /\ phase' \in [Tasks -> {"new", "open", "over"}] /\ \A u \in Tasks : u # t => phase'[u] = phase[u]
  BY DEF Plain, IInv, Types
<1>2. rolledBack' = rolledBack /\ rolledBack \in [Tasks -> BOOLEAN]
  BY DEF Plain, IInv, Types, txnVars
<1>3. UNCHANGED <<stored, results, puts, deletes, pending, answer, history>> /\ queue' \in {queue, Append(queue, op)}
  BY DEF Plain, txnVars
<1> QED
  BY <1>1, <1>2, <1>3, QuietKeeps

\* The closure starts, throws, or rolls back.
LEMMA ClosureKeeps ==
    ASSUME IInv, NEW t \in Tasks, Transaction(t) \/ Throw(t) \/ Rollback(t)
    PROVE  IInv'
<1>1. phase[t] # "over" /\ phase' \in [Tasks -> {"new", "open", "over"}] /\ \A u \in Tasks : u # t => phase'[u] = phase[u]
  BY DEF Transaction, Throw, Rollback, Calls, IInv, Types
<1>2. rolledBack' \in [Tasks -> BOOLEAN] /\ \A u \in Tasks : u # t => rolledBack'[u] = rolledBack[u]
  BY DEF Transaction, Throw, Rollback, IInv, Types, txnVars
<1>3. UNCHANGED <<stored, results, puts, deletes, pending, answer, history>> /\ queue' = queue
  BY DEF Transaction, Throw, Rollback, txnVars, hostVars
<1> QED
  BY <1>1, <1>2, <1>3, QuietKeeps

\* The tasks that a step is not of go on as they were.
LEMMA OthersKeep ==
    ASSUME IInv, NEW u \in Tasks, Same(u), Stays(u), results' = results,
           \/ queue' = queue
           \/ \E op \in Ops : queue' = Append(queue, op) /\ op.task # u
    PROVE  Own(u)' /\ Turns(u)' /\ Commits(u)'
<1>1. Own(u) /\ Turns(u) /\ Commits(u) /\ Types /\ Waits(u)
  BY DEF IInv, Same
<1>2. Own(u)'
  BY <1>1, OwnSame
<1>3. Turns(u)'
  BY <1>1, TurnsSame
<1>4. Commits(u)'
  BY <1>1, CommitsSame
<1> QED
  BY <1>2, <1>3, <1>4

\* Whether t raced is set for t only, and never taken back.
LEMMA OvertakesOne ==
    ASSUME Types, NEW t \in Tasks, NEW kinds, NEW keys, Overtakes(t, kinds, keys)
    PROVE  /\ raced' \in [Tasks -> BOOLEAN] /\ \A u \in Tasks : (raced[u] => raced'[u]) /\ (u # t => raced'[u] = raced[u])
           /\ ~raced'[t] => \A k \in keys : ~Awaits(t, kinds, k)
<1> DEFINE late == \E i \in DOMAIN pending[t] : pending[t][i].kind \in kinds /\ pending[t][i].keys \cap keys # {}
<1>1. raced' = [raced EXCEPT ![t] = raced[t] \/ late] /\ raced \in [Tasks -> BOOLEAN]
  BY DEF Overtakes, Types
<1>2. ASSUME NEW k \in keys, Awaits(t, kinds, k) PROVE late
  BY <1>2 DEF Awaits
<1> HIDE DEF late
<1>3. raced'[t] <=> (raced[t] \/ late)
  BY <1>1
<1>4. \A u \in Tasks : u # t => raced'[u] = raced[u]
  BY <1>1
<1>5. raced' \in [Tasks -> BOOLEAN]
  <2>1. (raced[t] \/ late) \in BOOLEAN
    OBVIOUS
  <2> QED
    BY <1>1, <2>1
<1> QED
  BY <1>2, <1>3, <1>4, <1>5

\* A put of a transaction, which takes back deletes.
LEMMA TxnPutOwn ==
    ASSUME Types, NEW t \in Tasks, Own(t), NEW p \in Given, TxnPut(t, p)
    PROVE  Own(t)'
<1>1. CASE raced'[t]
  BY <1>1 DEF Own
<1>2. CASE ~raced'[t]
  <2>1. AsMade(t) /\ Waiting(t) /\ \A k \in DOMAIN p : ~Awaits(t, {"delete", "list"}, k)
    BY <1>2, OvertakesOne DEF Own, TxnPut
  <2>2. /\ puts'[t] = Over(p, puts[t]) /\ deletes'[t] = deletes[t] \ DOMAIN p /\ made'[t] = Over(p, made[t])
        /\ pending' = pending
    BY DEF TxnPut, Undeletes, Types
  <2>3. DOMAIN made[t] = Keys /\ DOMAIN p \in SUBSET Keys
    BY GivenIs DEF Types, Made
  <2>4. /\ DOMAIN puts'[t] = DOMAIN p \cup DOMAIN puts[t]
        /\ \A k \in DOMAIN p : puts'[t][k] = p[k] /\ made'[t][k] = p[k] /\ k \notin deletes'[t]
        /\ \A k \in DOMAIN puts[t] : k \notin DOMAIN p => puts'[t][k] = puts[t][k]
        /\ \A k \in Keys : k \notin DOMAIN p => made'[t][k] = made[t][k] /\ (k \in deletes'[t] <=> k \in deletes[t])
    BY <2>2, <2>3 DEF Over
  <2>5. \A kinds, k : Awaits(t, kinds, k)' <=> Awaits(t, kinds, k)
    BY <2>2 DEF Awaits
  <2>6. \A k \in DOMAIN p : ~Awaits(t, {"delete"}, k) /\ ~Awaits(t, {"list"}, k)
    BY <2>1 DEF Awaits
  <2>7. ASSUME NEW k \in Keys
        PROVE  /\ ~(k \in DOMAIN puts'[t] /\ k \in deletes'[t])
               /\ made'[t][k] = IF Awaits(t, {"delete"}, k) THEN Absent ELSE Does(puts'[t], deletes'[t], k)
    <3>1. CASE k \in DOMAIN p
      BY <2>4, <2>6, <3>1 DEF Does
    <3>2. CASE k \notin DOMAIN p
      <4>1. k \in DOMAIN puts'[t] <=> k \in DOMAIN puts[t]
        BY <2>4, <3>2
      <4>2. Does(puts'[t], deletes'[t], k) = Does(puts[t], deletes[t], k)
        BY <2>4, <3>2, <4>1 DEF Does
      <4> QED
        BY <2>1, <2>4, <3>2, <4>1, <4>2 DEF AsMade
    <3> QED
      BY <3>1, <3>2
  <2>8. AsMade(t)'
    BY <2>5, <2>7 DEF AsMade, Does
  <2>9. ASSUME NEW i \in DOMAIN pending[t], NEW k \in pending[t][i].keys
        PROVE  /\ pending[t][i].kind = "get" => pending[t][i].made[k] = Kept
               /\ pending[t][i].kind = "list" => ~Awaits(t, {"delete"}, k) /\ made'[t][k] = pending[t][i].made[k]
    <3>1. k \in Keys
      BY AskedKeys
    <3>2. pending[t][i].kind = "list" => k \notin DOMAIN p
      BY <2>6 DEF Awaits
    <3> QED
      BY <2>1, <2>4, <3>1, <3>2 DEF Waiting
  <2>10. Waiting(t)'
    BY <2>2, <2>5, <2>9 DEF Waiting
  <2> QED
    BY <2>8, <2>10 DEF Own
<1> QED
  BY <1>1, <1>2

\* It keeps the invariant.
LEMMA TxnPutKeeps ==
    ASSUME IInv, NEW t \in Tasks, NEW p \in Given, TxnPut(t, p)
    PROVE  IInv'
<1>1. Types /\ Answers /\ Own(t) /\ Turns(t) /\ Commits(t)
  BY DEF IInv
<1>2. /\ raced' \in [Tasks -> BOOLEAN] /\ \A u \in Tasks : (raced[u] => raced'[u]) /\ (u # t => raced'[u] = raced[u])
      /\ UNCHANGED <<stored, queue, results, phase, rolledBack, pending, answer, due>> /\ phase[t] = "open"
  BY <1>1, OvertakesOne DEF TxnPut, hostVars, Calls
<1>3. /\ puts' = [puts EXCEPT ![t] = Over(p, puts[t])] /\ made' = [made EXCEPT ![t] = Over(p, made[t])]
      /\ deletes' = [deletes EXCEPT ![t] = deletes[t] \ DOMAIN p]
  BY DEF TxnPut, Undeletes
<1>4. puts \in [Tasks -> Given] /\ made \in [Tasks -> Made] /\ deletes \in [Tasks -> SUBSET Keys]
  BY <1>1 DEF Types
<1>5. Over(p, puts[t]) \in Given /\ Over(p, made[t]) \in Made
  BY <1>4, GivenOver
<1>6. puts' \in [Tasks -> Given] /\ made' \in [Tasks -> Made] /\ deletes' \in [Tasks -> SUBSET Keys]
  BY <1>3, <1>4, <1>5
<1>7. Types'
  BY <1>1, <1>2, <1>6 DEF Types
<1>8. Answers'
  BY <1>1, <1>2 DEF Answers
<1>9. ASSUME NEW u \in Tasks, u # t PROVE Own(u)' /\ Turns(u)' /\ Commits(u)'
  <2>1. Same(u) /\ Stays(u) /\ results' = results /\ queue' = queue
    BY <1>2, <1>3, <1>4, <1>9 DEF Same, Waits, Stays
  <2> QED
    BY <2>1, OthersKeep
<1>10. Waits(t) /\ Stays(t) /\ results' = results /\ queue' = queue
  BY <1>2 DEF Waits, Stays
<1>11. Own(t)' /\ Turns(t)' /\ Commits(t)'
  BY <1>1, <1>10, TxnPutOwn, TurnsSame, CommitsSame
<1> QED
  BY <1>7, <1>8, <1>9, <1>11 DEF IInv

\* A get that the transaction answers itself.
LEMMA TxnGetKeeps ==
    ASSUME IInv, NEW t \in Tasks, NEW keys, Overtakes(t, {"delete"}, keys), DOMAIN answer' = Tasks, DOMAIN due' = Tasks,
           UNCHANGED <<hostVars, phase, puts, deletes, rolledBack, pending, made>>
    PROVE  IInv'
<1>1. Types /\ Answers
  BY DEF IInv
<1>2. /\ raced' \in [Tasks -> BOOLEAN] /\ \A u \in Tasks : raced[u] => raced'[u]
      /\ UNCHANGED <<stored, queue, results>>
  BY <1>1, OvertakesOne DEF hostVars
<1>3. Types'
  BY <1>1, <1>2 DEF Types
<1>4. Answers'
  BY <1>1, <1>2 DEF Answers
<1>5. ASSUME NEW u \in Tasks PROVE Own(u)' /\ Turns(u)' /\ Commits(u)'
  <2>1. Same(u) /\ Stays(u)
    BY <1>2 DEF Same, Waits, Stays
  <2> QED
    BY <1>2, <2>1, OthersKeep
<1> QED
  BY <1>3, <1>4, <1>5 DEF IInv

-----------------------------------------------------------------------------
(* A call of a transaction that reads *)

\* What the call keeps until its answer comes.
CallOf(t, kind, keys) == [kind |-> kind, keys |-> keys, made |-> made[t]]

\* The call as a get, a list or a delete makes it.
Reads(t, kind, keys) ==
    /\ Asks(t, kind, keys) /\ keys \in SUBSET Keys /\ kind \in {"get", "list", "delete"}
    /\ kind = "get" => keys \cap Local(t) = {}
    /\ Overtakes(t, IF kind = "delete" THEN {"delete", "list"} ELSE {"delete"}, keys)
    /\ kind = "delete" => made' = [made EXCEPT ![t] = Over([k \in keys |-> Absent], made[t])]
    /\ kind # "delete" => made' = made

\* What it has.
LEMMA CallHas ==
    \A t, kind, keys : /\ CallOf(t, kind, keys).kind = kind /\ CallOf(t, kind, keys).keys = keys
                      /\ CallOf(t, kind, keys).made = made[t]
BY SMT DEF CallOf

\* The call comes last.
LEMMA ReadsPends ==
    ASSUME Types, NEW t \in Tasks, NEW kind, NEW keys, Reads(t, kind, keys)
    PROVE  /\ CallOf(t, kind, keys) \in Asked /\ pending[t] \in Seq(Asked)
           /\ pending'[t] = Append(pending[t], CallOf(t, kind, keys)) /\ pending' \in [Tasks -> Seq(Asked)]
           /\ \A u \in Tasks : u # t => pending'[u] = pending[u]
<1> DEFINE call == CallOf(t, kind, keys)
<1>1. pending' = [pending EXCEPT ![t] = Append(pending[t], call)] /\ kind \in {"get", "list", "delete"} /\ keys \in SUBSET Keys
  BY DEF Reads, Asks, CallOf
<1>2. pending \in [Tasks -> Seq(Asked)] /\ made[t] \in Made
  BY DEF Types
<1>3. call \in Asked
  BY SMT, <1>1, <1>2 DEF Asked, CallOf
<1> HIDE DEF call
<1>4. Append(pending[t], call) \in Seq(Asked)
  BY SMT, <1>2, <1>3
<1> QED
  BY <1>1, <1>2, <1>3, <1>4 DEF call

\* A delete has been made when it waits, and what it did not await it does not upset.
LEMMA ReadsOwn ==
    ASSUME Types, NEW t \in Tasks, Own(t), NEW kind, NEW keys, Reads(t, kind, keys)
    PROVE  Own(t)'
<1> DEFINE call == CallOf(t, kind, keys)
<1>1. CASE raced'[t]
  BY <1>1 DEF Own
<1>2. CASE ~raced'[t]
  <2>1. /\ AsMade(t) /\ Waiting(t) /\ \A k \in keys : ~Awaits(t, {"delete"}, k)
        /\ kind = "delete" => \A k \in keys : ~Awaits(t, {"list"}, k)
    <3>1. ~raced[t] /\ \A k \in keys : ~Awaits(t, IF kind = "delete" THEN {"delete", "list"} ELSE {"delete"}, k)
      BY <1>2, OvertakesOne DEF Reads
    <3> QED
      BY <3>1 DEF Own, Awaits
  <2>a. call \in Asked /\ pending[t] \in Seq(Asked) /\ pending'[t] = Append(pending[t], call)
    BY ReadsPends
  <2>3. call.kind = kind /\ call.keys = keys /\ call.made = made[t]
    BY SMT, CallHas
  <2> HIDE DEF call
  <2>2. /\ DOMAIN pending'[t] = DOMAIN pending[t] \cup {Len(pending[t]) + 1} /\ pending'[t][Len(pending[t]) + 1] = call
        /\ \A i \in DOMAIN pending[t] : pending'[t][i] = pending[t][i]
    BY SMT, <2>a
  <2>4. /\ puts'[t] = puts[t] /\ deletes'[t] = deletes[t] /\ keys \in SUBSET Keys /\ kind \in {"get", "list", "delete"}
        /\ kind = "get" => keys \cap Local(t) = {}
        /\ made[t] \in Made
        /\ kind # "delete" => made'[t] = made[t]
    BY DEF Reads, Asks, Types
  <2>5. kind = "delete" => /\ \A k \in keys : made'[t][k] = Absent
                           /\ \A k \in Keys : k \notin keys => made'[t][k] = made[t][k]
    <3>1. kind = "delete" => made'[t] = Over([k \in keys |-> Absent], made[t])
      BY DEF Reads, Types
    <3> QED
      BY <2>4, <3>1 DEF Over, Made
  <2>6. \A k : Awaits(t, {"delete"}, k)' <=> Awaits(t, {"delete"}, k) \/ (kind = "delete" /\ k \in keys)
    BY <2>2, <2>3 DEF Awaits
  <2>7. AsMade(t)'
    <3>1. ASSUME NEW k \in Keys
          PROVE  made'[t][k] = IF Awaits(t, {"delete"}, k)' THEN Absent ELSE Does(puts'[t], deletes'[t], k)
      <4>1. CASE kind = "delete" /\ k \in keys
        BY <2>5, <2>6, <4>1
      <4>2. CASE ~(kind = "delete" /\ k \in keys)
        <5>1. made'[t][k] = made[t][k]
          BY <2>4, <2>5, <4>2
        <5> QED
          BY <2>1, <2>4, <2>6, <4>2, <5>1 DEF AsMade
      <4> QED
        BY <4>1, <4>2
    <3>2. \A k \in Keys : ~(k \in DOMAIN puts'[t] /\ k \in deletes'[t])
      BY <2>1, <2>4 DEF AsMade
    <3> QED
      BY <3>1, <3>2 DEF AsMade, Does
  <2>8. ASSUME NEW i \in DOMAIN pending'[t], NEW k \in pending'[t][i].keys
        PROVE  /\ pending'[t][i].kind = "get" => pending'[t][i].made[k] = Kept
               /\ pending'[t][i].kind = "list" => ~Awaits(t, {"delete"}, k)' /\ made'[t][k] = pending'[t][i].made[k]
    <3>1. CASE i \in DOMAIN pending[t]
      <4>1. pending'[t][i] = pending[t][i] /\ k \in pending[t][i].keys
        BY <2>2, <3>1
      <4>2. k \in Keys
        BY <3>1, <4>1, AskedKeys
      <4>3. pending[t][i].kind = "list" => ~(kind = "delete" /\ k \in keys)
        BY <2>1, <3>1, <4>1 DEF Awaits
      <4>4. pending[t][i].kind = "list" => made'[t][k] = made[t][k]
        BY <2>4, <2>5, <4>2, <4>3
      <4> QED
        BY <2>1, <2>6, <3>1, <4>1, <4>3, <4>4 DEF Waiting
    <3>2. CASE i = Len(pending[t]) + 1
      <4>1. pending'[t][i] = call /\ k \in keys /\ k \in Keys
        BY <2>2, <2>3, <2>4, <3>2
      <4>2. kind = "get" => made[t][k] = Kept
        <5>1. ASSUME kind = "get" PROVE k \notin DOMAIN puts[t] /\ k \notin deletes[t]
          BY <2>4, <4>1, <5>1 DEF Local
        <5> QED
          BY <2>1, <4>1, <5>1 DEF AsMade, Does
      <4>3. kind = "list" => ~Awaits(t, {"delete"}, k)' /\ made'[t][k] = made[t][k]
        BY <2>1, <2>4, <2>6, <4>1
      <4> QED
        BY <2>3, <4>1, <4>2, <4>3
    <3> QED
      BY <2>2, <3>1, <3>2
  <2>9. Waiting(t)'
    BY <2>8 DEF Waiting
  <2> QED
    BY <2>7, <2>9 DEF Own
<1> QED
  BY <1>1, <1>2

\* Its read has the keys that it does not know.
LEMMA ReadsFit ==
    ASSUME Kept \notin Held, Types, NEW t \in Tasks, Own(t), NEW kind, NEW keys, Reads(t, kind, keys),
           ~raced'[t], kind # "delete"
    PROVE  keys \ Local(t) = {k \in keys : made[t][k] = Kept}
<1>1. ~raced[t] /\ \A k \in keys : ~Awaits(t, {"delete"}, k)
  BY OvertakesOne DEF Reads
<1>2. AsMade(t) /\ keys \in SUBSET Keys /\ puts[t] \in Given
  BY <1>1 DEF Own, Reads, Types
<1>3. \A k \in DOMAIN puts[t] : puts[t][k] # Kept
  BY <1>2, GivenNotKept
<1>4. ASSUME NEW k \in keys PROVE k \notin Local(t) <=> made[t][k] = Kept
  <2>1. made[t][k] = Does(puts[t], deletes[t], k)
    BY <1>1, <1>2 DEF AsMade
  <2> QED
    BY <1>3, <2>1 DEF Does, Local, Held
<1> QED
  BY <1>4

\* Counted from the end, w is the calls q and one more, m.
Grown(w, q, m) ==
    /\ w[Len(w) - 0] = m /\ Len(w) = Len(q) + 1
    /\ \A d \in Nat : d + 1 < Len(w) => d < Len(q) /\ w[Len(w) - (d + 1)] = q[Len(q) - d]

\* Counted from the end, w is n of the calls q.
Shrunk(w, q, n) ==
    Len(w) = n /\ \A d \in Nat : d < Len(w) => d < Len(q) /\ w[Len(w) - d] = q[Len(q) - d]

\* The calls after one that came.
LEMMA CallComes ==
    ASSUME NEW M, NEW q \in Seq(M), NEW m \in M
    PROVE  Grown(Append(q, m), q, m)
<1>1. Len(q) \in Nat /\ Len(Append(q, m)) = Len(q) + 1 /\ Append(q, m)[Len(q) + 1] = m
  BY SMT
<1>2. ASSUME NEW d \in Nat, d + 1 < Len(q) + 1 PROVE d < Len(q) /\ Append(q, m)[(Len(q) + 1) - (d + 1)] = q[Len(q) - d]
  <2>1. d < Len(q) /\ Len(q) - d \in 1..Len(q) /\ (Len(q) + 1) - (d + 1) = Len(q) - d
    BY SMT, <1>1, <1>2
  <2>2. \A i \in 1..Len(q) : Append(q, m)[i] = q[i]
    BY SMT
  <2> QED
    BY <2>1, <2>2
<1>3. (Len(q) + 1) - 0 = Len(q) + 1
  BY SMT, <1>1
<1> QED
  BY <1>1, <1>2, <1>3 DEF Grown

\* The read goes into the queue behind those of the calls before.
LEMMA ReadsTurns ==
    ASSUME Kept \notin Held, Types, NEW t \in Tasks, Own(t), Turns(t), NEW kind, NEW keys, Reads(t, kind, keys)
    PROVE  Turns(t)'
<1> DEFINE call == CallOf(t, kind, keys)
           op == ReadOp(t, "get", keys \ Local(t))
<1>1. PICK mid \in Nat : /\ InTurn(results, AnswersOf(results, t), Coming(t), Len(pending[t]), mid)
                         /\ InTurn(queue, ReadsOf(queue, t), Going(t), mid, 0)
  BY DEF Turns
<1>2. /\ results \in Seq(Results) /\ queue \in Seq(Ops) /\ ReadsOf(queue, t) \in SUBSET DOMAIN queue
      /\ results' = results /\ queue' = Append(queue, op) /\ keys \ Local(t) \in SUBSET Keys
  BY DEF Types, ReadsOf, Reads, Asks
<1>3. op \in Ops /\ op.kind = "get" /\ op.task = t /\ op.keys = keys \ Local(t)
  BY SMT, <1>2, OpHas, OpTyped
<1>4. /\ call \in Asked /\ pending[t] \in Seq(Asked) /\ call.kind = kind /\ call.keys = keys /\ call.made = made[t]
      /\ pending'[t] = Append(pending[t], call)
  BY SMT, CallHas, ReadsPends
<1>5. raced'[t] \/ call.kind = "delete" \/ op.keys = {k \in call.keys : call.made[k] = Kept}
  <2>1. raced'[t] \/ kind = "delete" \/ op.keys = {k \in keys : made[t][k] = Kept}
    BY <1>3, ReadsFit
  <2> HIDE DEF call, op
  <2> QED
    BY <1>4, <2>1
<1>6. raced[t] => raced'[t]
  BY OvertakesOne DEF Reads
<1> HIDE DEF call, op
<1>7. /\ pending'[t][Len(pending'[t]) - 0] = call /\ Len(pending'[t]) = Len(pending[t]) + 1
      /\ \A d \in Nat : d + 1 < Len(pending'[t]) =>
                           d < Len(pending[t]) /\ pending'[t][Len(pending'[t]) - (d + 1)] = pending[t][Len(pending[t]) - d]
  <2>1. Grown(Append(pending[t], call), pending[t], call)
    BY <1>4, CallComes
  <2>2. Grown(pending'[t], pending[t], call)
    BY <1>4, <2>1
  <2> QED
    BY <2>2 DEF Grown
<1>8. 0 \in Nat /\ 0 + 1 \in Nat /\ mid + 1 \in Nat /\ Len(pending[t]) \in Nat /\ \A d \in Nat : d + 1 \in Nat
  BY SMT, <1>4
<1>9. \A ks, c : Fits(t, ks, c) => Fits(t, ks, c)'
  BY <1>6 DEF Fits
<1>10. \A x \in Ops, d \in Nat : <<x, d>> \in Going(t) => <<x, d + 1>> \in Going(t)'
  BY <1>7, <1>8, <1>9 DEF Going
<1>11. \A x \in Results, d \in Nat : <<x, d>> \in Coming(t) => <<x, d + 1>> \in Coming(t)'
  BY <1>7, <1>8, <1>9 DEF Coming
<1>12. <<op, 0>> \in Going(t)'
  <2> DEFINE last == pending'[t][Len(pending'[t]) - 0]
  <2>1. raced'[t] \/ last.kind = "delete" \/ op.keys = {k \in last.keys : last.made[k] = Kept}
    BY <1>5, <1>7
  <2> QED
    BY <1>3, <1>8, <2>1 DEF Going, Fits
<1>13. InTurn(results, AnswersOf(results, t), Coming(t)', Len(pending[t]) + 1, mid + 1)
  BY <1>1, <1>2, <1>8, <1>11, InTurnMore
<1>14. InTurn(queue, ReadsOf(queue, t), Going(t)', mid + 1, 0 + 1)
  BY <1>1, <1>2, <1>8, <1>10, InTurnMore
<1>16. InTurn(queue', ReadsOf(queue', t), Going(t)', mid + 1, 0)
  BY <1>2, <1>3, <1>8, <1>12, <1>14, ReadComes
<1>17. InTurn(results', AnswersOf(results', t), Coming(t)', Len(pending'[t]), mid + 1)
  BY <1>2, <1>7, <1>13
<1> QED
  BY <1>8, <1>16, <1>17, TurnsNext

\* The call keeps the invariant.
LEMMA ReadsKeeps ==
    ASSUME Kept \notin Held, IInv, NEW t \in Tasks, NEW kind, NEW keys, Reads(t, kind, keys)
    PROVE  IInv'
<1> DEFINE op == ReadOp(t, "get", keys \ Local(t))
<1>1. Types /\ Answers /\ Own(t) /\ Turns(t) /\ Commits(t)
  BY DEF IInv
<1>2. /\ raced' \in [Tasks -> BOOLEAN] /\ \A u \in Tasks : (raced[u] => raced'[u]) /\ (u # t => raced'[u] = raced[u])
      /\ UNCHANGED <<stored, results, phase, puts, deletes, rolledBack, answer, due>> /\ phase[t] = "open"
      /\ queue' = Append(queue, op) /\ keys \in SUBSET Keys
  BY <1>1, OvertakesOne DEF Reads, Asks, Calls
<1>3. op \in Ops /\ op.kind = "get" /\ op.task = t
  BY SMT, <1>2, OpHas, OpTyped
<1> HIDE DEF op
<1>4. queue' \in Seq(Ops)
  <2>1. queue \in Seq(Ops)
    BY <1>1 DEF Types
  <2> QED
    BY SMT, <1>2, <1>3, <2>1
<1>5. made' \in [Tasks -> Made] /\ \A u \in Tasks : u # t => made'[u] = made[u]
  <2>1. made \in [Tasks -> Made] /\ Over([k \in keys |-> Absent], made[t]) \in Made
    BY <1>1, <1>2, GivenOver DEF Types
  <2> QED
    BY <2>1 DEF Reads
<1>6. pending' \in [Tasks -> Seq(Asked)] /\ \A u \in Tasks : u # t => pending'[u] = pending[u]
  BY <1>1, ReadsPends
<1>7. Types'
  BY <1>1, <1>2, <1>4, <1>5, <1>6 DEF Types
<1>8. Answers'
  BY <1>1, <1>2 DEF Answers
<1>9. ASSUME NEW u \in Tasks, u # t PROVE Own(u)' /\ Turns(u)' /\ Commits(u)'
  <2>1. Same(u) /\ Stays(u)
    BY <1>2, <1>5, <1>6, <1>9 DEF Same, Waits, Stays
  <2> QED
    BY <1>2, <1>3, <1>9, <2>1, OthersKeep
<1>10. Commits(t)'
  <2>1. Stays(t)
    BY <1>2 DEF Stays
  <2> QED
    BY <1>1, <1>2, <1>3, <2>1, CommitsSame
<1>11. Own(t)' /\ Turns(t)'
  BY <1>1, ReadsOwn, ReadsTurns
<1> QED
  BY <1>7, <1>8, <1>9, <1>10, <1>11 DEF IInv

-----------------------------------------------------------------------------
(* The end of a closure *)

\* What goes out is what the closure made, if it awaited its deletes.
LEMMA EndSealed ==
    ASSUME Types, NEW t \in Tasks, Own(t), End(t), ~rolledBack[t]
    PROVE  Sealed(t, WriteOp(t, "commit", puts[t], deletes[t]))'
<1>1. phase'[t] = "over" /\ rolledBack' = rolledBack /\ puts' = puts /\ deletes' = deletes /\ made' = made
  BY DEF End, Types, txnVars
<1>2. CASE raced'[t]
  BY <1>1, <1>2 DEF Sealed
<1>3. CASE ~raced'[t]
  <2>1. ~raced[t] /\ \A k \in Keys : ~Awaits(t, {"delete"}, k)
    BY <1>3, OvertakesOne DEF End
  <2>2. \A k \in Keys : ~(k \in DOMAIN puts[t] /\ k \in deletes[t]) /\ made[t][k] = Does(puts[t], deletes[t], k)
    BY <2>1 DEF Own, AsMade
  <2> DEFINE op == WriteOp(t, "commit", puts[t], deletes[t])
  <2>3. op'.puts = puts[t] /\ op'.deletes = deletes[t]
    BY SMT, <1>1 DEF WriteOp
  <2> HIDE DEF op
  <2>4. \A k \in Keys : ~(k \in DOMAIN op'.puts /\ k \in op'.deletes) /\ made'[t][k] = Does(op'.puts, op'.deletes, k)
    BY <1>1, <2>2, <2>3
  <2>5. Sealed(t, op)'
    BY <1>1, <2>4 DEF Sealed, Does
  <2> QED
    BY <2>5 DEF op
<1> QED
  BY <1>2, <1>3

\* It keeps the invariant.
LEMMA EndKeeps ==
    ASSUME IInv, NEW t \in Tasks, End(t)
    PROVE  IInv'
<1> DEFINE op == WriteOp(t, "commit", puts[t], deletes[t])
<1>1. Types /\ Answers /\ Own(t) /\ Turns(t) /\ Commits(t)
  BY DEF IInv
<1>2. /\ raced' \in [Tasks -> BOOLEAN] /\ \A u \in Tasks : (raced[u] => raced'[u]) /\ (u # t => raced'[u] = raced[u])
      /\ UNCHANGED <<stored, results, puts, deletes, rolledBack, pending, answer, made, due>>
      /\ phase[t] = "open" /\ phase' \in [Tasks -> {"new", "open", "over"}]
      /\ phase'[t] = "over" /\ \A u \in Tasks : u # t => phase'[u] = phase[u]
  BY <1>1, OvertakesOne DEF End, txnVars, Types
<1>3. op \in Ops /\ op.kind = "commit" /\ op.task = t
  BY SMT, <1>1, OpHas, OpTyped DEF Types
<1>4. queue' = queue \/ (queue' = Append(queue, op) /\ ~rolledBack[t])
  <2>1. queue \o <<op>> = Append(queue, op)
    BY SMT, <1>1 DEF Types
  <2> QED
    BY <2>1 DEF End, Commit
<1>5. ~rolledBack[t] => Sealed(t, op)'
  BY <1>1, EndSealed
<1>6. op' = op
  BY <1>2 DEF WriteOp
<1>7. queue' \in Seq(Ops)
  <2>1. queue \in Seq(Ops)
    BY <1>1 DEF Types
  <2> HIDE DEF op
  <2> QED
    BY SMT, <1>3, <1>4, <2>1
<1>8. Types'
  BY <1>1, <1>2, <1>7 DEF Types
<1>9. Answers'
  BY <1>1, <1>2 DEF Answers
<1>10. ASSUME NEW u \in Tasks, u # t PROVE Own(u)' /\ Turns(u)' /\ Commits(u)'
  <2>1. Same(u) /\ Stays(u)
    BY <1>2, <1>10 DEF Same, Waits, Stays
  <2> QED
    BY <1>2, <1>3, <1>4, <1>10, <2>1, OthersKeep
<1>11. Same(t) /\ Waits(t) /\ Stays(t)
  BY <1>2 DEF Same, Waits, Stays
<1>12. Own(t)' /\ Turns(t)'
  <2>1. Own(t)'
    BY <1>1, <1>11, OwnSame
  <2>2. op.kind # "get"
    BY <1>3
  <2> HIDE DEF op
  <2>3. Turns(t)'
    BY <1>1, <1>2, <1>3, <1>4, <1>11, <2>2, TurnsSame
  <2> QED
    BY <2>1, <2>3
<1>13. Commits(t)'
  <2>1. ASSUME NEW x, x = op, ~rolledBack[t] PROVE Sealed(t, x)'
    BY <1>5, <1>6, <2>1 DEF Sealed, Does
  <2> HIDE DEF op
  <2> QED
    BY <1>1, <1>3, <1>4, <1>11, <2>1, CommitsSame
<1> QED
  BY <1>8, <1>9, <1>10, <1>12, <1>13 DEF IInv

-----------------------------------------------------------------------------
(* The host *)

\* A write runs, or fails.
LEMMA RunWriteKeeps ==
    ASSUME IInv, RunWrite
    PROVE  IInv'
<1>1. Types /\ Answers
  BY DEF IInv
<1>2. /\ queue # <<>> /\ queue' = Tail(queue) /\ Head(queue).kind # "get"
      /\ UNCHANGED <<results, phase, puts, deletes, rolledBack, pending, answer, made, due, raced>>
  BY DEF RunWrite, txnVars, history
<1>3. stored' \in [Keys -> Held]
  BY <1>1 DEF RunWrite, Written, Types, Held
<1>4. queue' \in Seq(Ops)
  BY SMT, <1>1, <1>2 DEF Types
<1>5. Types'
  BY <1>1, <1>2, <1>3, <1>4 DEF Types
<1>6. Answers'
  BY <1>1, <1>2 DEF Answers
<1>7. ASSUME NEW u \in Tasks PROVE Own(u)' /\ Turns(u)' /\ Commits(u)'
  <2>1. Own(u) /\ Turns(u) /\ Commits(u)
    BY DEF IInv
  <2>2. Same(u) /\ Waits(u) /\ Stays(u)
    BY <1>2 DEF Same, Waits, Stays
  <2>3. Own(u)'
    BY <2>1, <2>2, OwnSame
  <2>4. Turns(u)'
    BY <1>1, <1>2, <2>1, <2>2, TurnsSame
  <2>5. Commits(u)'
    BY <1>1, <1>2, <2>1, <2>2, CommitsSame
  <2> QED
    BY <2>3, <2>4, <2>5
<1> QED
  BY <1>5, <1>6, <1>7 DEF IInv

\* What a read answers.
ResultOf(op, ok) == [task |-> op.task, ok |-> ok, found |-> [k \in op.keys |-> stored[k]], all |-> stored]

\* It is an answer, and says what is stored.
LEMMA ResultTyped ==
    ASSUME Types, NEW op \in Ops, NEW ok \in BOOLEAN
    PROVE  /\ ResultOf(op, ok) \in Results /\ ResultOf(op, ok).task = op.task
           /\ DOMAIN ResultOf(op, ok).found = op.keys
           /\ \A k \in DOMAIN ResultOf(op, ok).found : ResultOf(op, ok).found[k] = ResultOf(op, ok).all[k]
<1>1. stored \in [Keys -> Held] /\ op.task \in Tasks /\ op.keys \in SUBSET Keys
  BY SMT DEF Types, Ops
<1> DEFINE f == [k \in op.keys |-> stored[k]]
<1>2. f \in [op.keys -> Held]
  BY <1>1
<1>3. f \in Found
  BY <1>1, <1>2 DEF Found
<1>4. DOMAIN f = op.keys /\ \A k \in DOMAIN f : f[k] = stored[k]
  OBVIOUS
<1> HIDE DEF f
<1>5. ResultOf(op, ok) = [task |-> op.task, ok |-> ok, found |-> f, all |-> stored]
  BY DEF ResultOf, f
<1>6. /\ ResultOf(op, ok) \in Results /\ ResultOf(op, ok).task = op.task
      /\ ResultOf(op, ok).found = f /\ ResultOf(op, ok).all = stored
  BY SMT, <1>1, <1>3, <1>5 DEF Results
<1> QED
  BY <1>4, <1>6

\* The read of a call becomes its answer.
LEMMA RunReadTurns ==
    ASSUME Types, NEW t \in Tasks, Turns(t), Waits(t), queue # <<>>, queue' = Tail(queue),
           Head(queue).kind = "get", NEW r \in Results, r.task = Head(queue).task,
           DOMAIN r.found = Head(queue).keys, results' = Append(results, r)
    PROVE  Turns(t)'
<1>1. PICK mid \in Nat : /\ InTurn(results, AnswersOf(results, t), Coming(t), Len(pending[t]), mid)
                         /\ InTurn(queue, ReadsOf(queue, t), Going(t), mid, 0)
  BY DEF Turns
<1>2. /\ results \in Seq(Results) /\ queue \in Seq(Ops) /\ pending[t] \in Seq(Asked)
  BY DEF Types
<1>3. 0 \in Nat /\ Len(pending[t]) \in Nat
  BY SMT, <1>2
<1>4. InTurn(results, AnswersOf(results, t), Coming(t)', Len(pending'[t]), mid)
  BY <1>1, <1>2, FitsSame, InTurnSame DEF Waits
<1>5. InTurn(queue, ReadsOf(queue, t), Going(t)', mid, 0)
  BY <1>1, <1>2, FitsSame, InTurnSame
<1>6. Len(pending'[t]) \in Nat
  BY <1>3 DEF Waits
<1>7. CASE Head(queue).task # t
  <2>1. InTurn(queue', ReadsOf(queue', t), Going(t)', mid, 0)
    BY <1>2, <1>3, <1>5, <1>7, ReadGoes
  <2>2. InTurn(results', AnswersOf(results', t), Coming(t)', Len(pending'[t]), mid)
    BY <1>2, <1>4, <1>6, <1>7, AnswerComes
  <2> QED
    BY <2>1, <2>2, TurnsNext
<1>8. CASE Head(queue).task = t
  <2>1. PICK n \in Nat : /\ mid = n + 1 /\ <<Head(queue), n>> \in Going(t)'
                         /\ InTurn(queue', ReadsOf(queue', t), Going(t)', n, 0)
    BY <1>2, <1>3, <1>5, <1>8, ReadGoes
  <2>2. <<r, n>> \in Coming(t)'
    BY <2>1 DEF Going, Coming
  <2>3. InTurn(results', AnswersOf(results', t), Coming(t)', Len(pending'[t]), n)
    BY <1>2, <1>4, <1>6, <1>8, <2>1, <2>2, AnswerComes
  <2> QED
    BY <2>1, <2>3, TurnsNext
<1> QED
  BY <1>7, <1>8

\* A read runs, or fails.
LEMMA RunReadKeeps ==
    ASSUME IInv, RunRead
    PROVE  IInv'
<1> DEFINE op == Head(queue)
<1>1. Types /\ Answers
  BY DEF IInv
<1>2. /\ queue # <<>> /\ queue' = Tail(queue) /\ op.kind \in {"get", "plain"}
      /\ UNCHANGED <<stored, phase, puts, deletes, rolledBack, pending, answer, made, due, raced>>
  BY DEF RunRead, txnVars, history
<1>3. op \in Ops /\ queue' \in Seq(Ops)
  BY SMT, <1>1, <1>2 DEF Types
<1>4. \/ op.kind = "plain" /\ results' = results
      \/ op.kind = "get" /\ \E ok \in BOOLEAN : results' = Append(results, ResultOf(op, ok))
  <2>1. results' \in IF op.kind = "plain" THEN {results}
                     ELSE {Append(results, ResultOf(op, ok)) : ok \in {FALSE, ~failed}}
    BY DEF RunRead, ResultOf
  <2>2. \A ok \in {FALSE, ~failed} : ok \in BOOLEAN
    OBVIOUS
  <2> HIDE DEF op
  <2> QED
    BY <1>2, <2>1, <2>2
<1>5. \/ op.kind = "plain" /\ results' = results
      \/ op.kind = "get" /\ \E r \in Results : /\ results' = Append(results, r) /\ r.task = op.task
                                               /\ DOMAIN r.found = op.keys
                                               /\ \A k \in DOMAIN r.found : r.found[k] = r.all[k]
  <2> HIDE DEF op
  <2> QED
    BY <1>1, <1>3, <1>4, ResultTyped
<1> HIDE DEF op
<1>6. results' \in Seq(Results) /\ Answers'
  <2>1. CASE results' = results
    BY <1>1, <2>1 DEF Types, Answers
  <2>2. ASSUME NEW r \in Results, results' = Append(results, r), \A k \in DOMAIN r.found : r.found[k] = r.all[k]
        PROVE  results' \in Seq(Results) /\ Answers'
    <3>1. results \in Seq(Results)
      BY <1>1 DEF Types
    <3>2. /\ Append(results, r) \in Seq(Results) /\ DOMAIN Append(results, r) = DOMAIN results \cup {Len(results) + 1}
          /\ Append(results, r)[Len(results) + 1] = r /\ \A i \in DOMAIN results : Append(results, r)[i] = results[i]
      BY SMT, <3>1
    <3>3. ASSUME NEW i \in DOMAIN results' PROVE \A k \in DOMAIN results'[i].found : results'[i].found[k] = results'[i].all[k]
      <4>1. CASE i \in DOMAIN results
        <5>1. results'[i] = results[i]
          BY <2>2, <3>2, <4>1
        <5> QED
          BY <1>1, <4>1, <5>1 DEF Answers
      <4>2. CASE i = Len(results) + 1
        <5>1. results'[i] = r
          BY <2>2, <3>2, <4>2
        <5> QED
          BY <2>2, <5>1
      <4> QED
        BY <2>2, <3>2, <3>3, <4>1, <4>2
    <3> QED
      BY <2>2, <3>2, <3>3 DEF Answers
  <2> QED
    BY <1>5, <2>1, <2>2
<1>7. Types'
  BY <1>1, <1>2, <1>3, <1>6 DEF Types
<1>8. ASSUME NEW u \in Tasks PROVE Own(u)' /\ Turns(u)' /\ Commits(u)'
  <2>1. Own(u) /\ Turns(u) /\ Commits(u)
    BY DEF IInv
  <2>2. Same(u) /\ Waits(u) /\ Stays(u)
    BY <1>2 DEF Same, Waits, Stays
  <2>3. Own(u)'
    BY <2>1, <2>2, OwnSame
  <2>4. ASSUME op.kind = "plain", results' = results PROVE Turns(u)'
    <3>1. queue # <<>> /\ queue' = Tail(queue) /\ ~(Head(queue).kind = "get" /\ Head(queue).task = u) /\ results' = results
      BY <1>2, <2>4 DEF op
    <3> QED
      BY <1>1, <2>1, <2>2, <3>1, TurnsSame
  <2>5. ASSUME NEW r \in Results, op.kind = "get", results' = Append(results, r), r.task = op.task,
               DOMAIN r.found = op.keys
        PROVE  Turns(u)'
    BY <1>1, <1>2, <2>1, <2>2, <2>5, RunReadTurns DEF op
  <2>6. Commits(u)'
    BY <1>1, <1>2, <2>1, <2>2, CommitsSame
  <2> QED
    BY <1>5, <2>3, <2>4, <2>5, <2>6
<1> QED
  BY <1>6, <1>7, <1>8 DEF IInv

-----------------------------------------------------------------------------
(* An answer comes *)

\* The first call, and the others.
LEMMA FirstCall ==
    ASSUME NEW M, NEW q \in Seq(M), q # <<>>
    PROVE  /\ 1 \in DOMAIN q /\ Head(q) = q[1] /\ Head(q) \in M /\ Tail(q) \in Seq(M)
           /\ \A i \in DOMAIN Tail(q) : i + 1 \in DOMAIN q /\ Tail(q)[i] = q[i + 1]
           /\ \A i \in DOMAIN q : i = 1 \/ \E j \in DOMAIN Tail(q) : i = j + 1
<1>1. 1 \in DOMAIN q /\ Head(q) = q[1] /\ Head(q) \in M /\ Tail(q) \in Seq(M)
  BY SMT
<1>2. \A i \in DOMAIN Tail(q) : i + 1 \in DOMAIN q /\ Tail(q)[i] = q[i + 1]
  BY SMT
<1>3. ASSUME NEW i \in DOMAIN q, i # 1 PROVE \E j \in DOMAIN Tail(q) : i = j + 1
  <2>1. i - 1 \in DOMAIN Tail(q) /\ i = (i - 1) + 1
    BY SMT, <1>3
  <2> QED
    BY <2>1
<1> QED
  BY <1>1, <1>2, <1>3

\* The first call came n calls before the last one, and the others as many as before.
LEMMA CallGoes ==
    ASSUME NEW M, NEW q \in Seq(M), NEW n \in Nat, Len(q) = n + 1
    PROVE  /\ q # <<>> /\ q[Len(q) - n] = Head(q) /\ n < Len(q)
           /\ Shrunk(Tail(q), q, n)
<1> DEFINE w == Tail(q)
<1>1. q # <<>> /\ Len(q) - n = 1 /\ n < Len(q) /\ Len(w) = n /\ Head(q) = q[1]
  BY SMT
<1>2. \A i \in 1..n : w[i] = q[i + 1]
  BY SMT
<1>3. ASSUME NEW d \in Nat, d < n PROVE d < n + 1 /\ w[n - d] = q[(n + 1) - d]
  <2>1. d < n + 1 /\ n - d \in 1..n /\ (n - d) + 1 = (n + 1) - d
    BY SMT, <1>3
  <2> QED
    BY <1>2, <2>1
<1> QED
  BY <1>1, <1>3 DEF Shrunk

\* Its call is the first of its task, and reads what the answer has.
LEMMA AnsweredHead ==
    ASSUME IInv, results # <<>>, NEW t, t = Head(results).task
    PROVE  /\ t \in Tasks /\ Head(results) \in Results
           /\ pending[t] # <<>> /\ Fits(t, DOMAIN Head(results).found, Head(pending[t]))
           /\ \A k \in DOMAIN Head(results).found : Head(results).found[k] = Head(results).all[k]
<1>1. Types /\ Answers /\ results \in Seq(Results)
  BY DEF IInv, Types
<1>2. Head(results) \in Results /\ 1 \in DOMAIN results /\ Head(results) = results[1]
  BY SMT, <1>1
<1>3. t \in Tasks
  BY SMT, <1>2 DEF Results
<1>4. PICK mid \in Nat : InTurn(results, AnswersOf(results, t), Coming(t), Len(pending[t]), mid)
  BY <1>3 DEF IInv, Turns
<1>5. pending[t] \in Seq(Asked) /\ AnswersOf(results, t) \in SUBSET DOMAIN results
  BY <1>1, <1>3 DEF Types, AnswersOf
<1>6. Len(pending[t]) \in Nat
  BY SMT, <1>5
<1>8. PICK n \in Nat : Len(pending[t]) = n + 1 /\ <<Head(results), n>> \in Coming(t)
  BY <1>1, <1>4, <1>5, <1>6, AnswerGoes
<1>9. pending[t] # <<>> /\ n < Len(pending[t]) /\ pending[t][Len(pending[t]) - n] = Head(pending[t])
  BY <1>5, <1>8, CallGoes
<1>10. Fits(t, DOMAIN Head(results).found, Head(pending[t]))
  BY <1>8, <1>9 DEF Coming
<1> QED
  BY <1>1, <1>2, <1>3, <1>9, <1>10 DEF Answers

\* The calls that wait on wait in turn.
LEMMA AnsweredTurns ==
    ASSUME IInv, Answered, NEW u \in Tasks, raced[u] => raced'[u]
    PROVE  Turns(u)'
<1> DEFINE t == Head(results).task
<1>1. PICK mid \in Nat : /\ InTurn(results, AnswersOf(results, u), Coming(u), Len(pending[u]), mid)
                         /\ InTurn(queue, ReadsOf(queue, u), Going(u), mid, 0)
  BY DEF IInv, Turns
<1>2. /\ results # <<>> /\ results' = Tail(results) /\ queue' = queue
      /\ pending' = [pending EXCEPT ![t] = Tail(pending[t])]
  BY DEF Answered
<1>3. /\ results \in Seq(Results) /\ queue \in Seq(Ops) /\ pending \in [Tasks -> Seq(Asked)]
      /\ pending[u] \in Seq(Asked) /\ AnswersOf(results, u) \in SUBSET DOMAIN results
  BY DEF IInv, Types, AnswersOf
<1>4. Len(pending[u]) \in Nat
  BY SMT, <1>3
<1>5. CASE u # t
  <2>1. Waits(u)
    BY <1>2, <1>3, <1>5 DEF Waits
  <2>2. InTurn(results', AnswersOf(results', u), Coming(u), Len(pending[u]), mid)
    BY <1>1, <1>2, <1>3, <1>4, <1>5, AnswerGoes
  <2>3. results' \in Seq(Results)
    BY SMT, <1>2, <1>3
  <2>4. InTurn(results', AnswersOf(results', u), Coming(u)', Len(pending'[u]), mid)
    BY <2>1, <2>2, <2>3, FitsSame, InTurnSame DEF Waits
  <2>5. InTurn(queue', ReadsOf(queue', u), Going(u)', mid, 0)
    BY <1>1, <1>2, <1>3, <2>1, FitsSame, InTurnSame
  <2> QED
    BY <2>4, <2>5, TurnsNext
<1>6. CASE u = t
  <2>2. PICK n \in Nat : Len(pending[u]) = n + 1 /\ InTurn(results', AnswersOf(results', u), Coming(u), n, mid)
    BY <1>1, <1>2, <1>3, <1>4, <1>6, AnswerGoes
  <2>3. pending'[u] = Tail(pending[u])
    BY <1>2, <1>3, <1>6
  <2>4. /\ Len(pending'[u]) = n
        /\ \A d \in Nat : d < Len(pending'[u]) =>
                             d < Len(pending[u]) /\ pending'[u][Len(pending'[u]) - d] = pending[u][Len(pending[u]) - d]
    <3>1. Shrunk(Tail(pending[u]), pending[u], n)
      BY <1>3, <2>2, CallGoes
    <3>2. Shrunk(pending'[u], pending[u], n)
      BY <2>3, <3>1
    <3> QED
      BY <3>2 DEF Shrunk
  <2>5. \A ks, c : Fits(u, ks, c) => Fits(u, ks, c)'
    BY DEF Fits
  <2>6. \A x \in Ops, d \in Nat : <<x, d>> \in Going(u) => <<x, d>> \in Going(u)'
    BY <2>4, <2>5 DEF Going
  <2>7. \A x \in Results, d \in Nat : <<x, d>> \in Coming(u) => <<x, d>> \in Coming(u)'
    BY <2>4, <2>5 DEF Coming
  <2>8. results' \in Seq(Results)
    BY SMT, <1>2, <1>3
  <2>9. InTurn(results', AnswersOf(results', u), Coming(u)', Len(pending'[u]), mid)
    BY <2>2, <2>4, <2>7, <2>8, InTurnSame
  <2>10. InTurn(queue', ReadsOf(queue', u), Going(u)', mid, 0)
    BY <1>1, <1>2, <1>3, <2>6, InTurnSame
  <2> QED
    BY <2>9, <2>10, TurnsNext
<1> QED
  BY <1>5, <1>6

\* A delete whose read succeeded is now what the transaction has.
LEMMA AnsweredOwn ==
    ASSUME IInv, Answered, NEW t, t = Head(results).task
    PROVE  Own(t)'
<1> DEFINE call == Head(pending[t])
<1>1. Types /\ t \in Tasks /\ Own(t) /\ pending[t] # <<>>
  BY AnsweredHead DEF IInv, Answered
<1>2. /\ puts \in [Tasks -> Given] /\ deletes \in [Tasks -> SUBSET Keys] /\ pending \in [Tasks -> Seq(Asked)]
      /\ pending[t] \in Seq(Asked) /\ raced \in [Tasks -> BOOLEAN]
  BY <1>1 DEF Types
<1>3. /\ 1 \in DOMAIN pending[t] /\ call = pending[t][1] /\ call \in Asked
      /\ \A i \in DOMAIN Tail(pending[t]) : i + 1 \in DOMAIN pending[t] /\ Tail(pending[t])[i] = pending[t][i + 1]
      /\ \A i \in DOMAIN pending[t] : i = 1 \/ \E j \in DOMAIN Tail(pending[t]) : i = j + 1
  BY <1>1, <1>2, FirstCall
<1>4. pending'[t] = Tail(pending[t]) /\ made' = made
  BY <1>1, <1>2 DEF Answered
<1>5. raced'[t] <=> (raced[t] \/ (~Head(results).ok /\ call.kind = "delete"))
  BY <1>1, <1>2 DEF Answered
<1>6. /\ (Head(results).ok /\ call.kind = "delete") =>
           puts'[t] = Restrict(puts[t], DOMAIN puts[t] \ call.keys) /\ deletes'[t] = deletes[t] \cup call.keys
      /\ ~(Head(results).ok /\ call.kind = "delete") => puts'[t] = puts[t] /\ deletes'[t] = deletes[t]
  BY <1>1, <1>2 DEF Answered
<1>7. CASE raced'[t]
  BY <1>7 DEF Own
<1>8. CASE ~raced'[t]
  <2>1. AsMade(t) /\ Waiting(t)
    BY <1>1, <1>5, <1>8 DEF Own
  <2>2. ASSUME NEW k, Awaits(t, {"delete"}, k)' PROVE Awaits(t, {"delete"}, k)
    <3>1. PICK i \in DOMAIN Tail(pending[t]) : Tail(pending[t])[i].kind = "delete" /\ k \in Tail(pending[t])[i].keys
      BY <1>4, <2>2 DEF Awaits
    <3>2. i + 1 \in DOMAIN pending[t] /\ pending[t][i + 1].kind = "delete" /\ k \in pending[t][i + 1].keys
      BY <1>3, <3>1
    <3> QED
      BY <3>2 DEF Awaits
  <2>3. ASSUME NEW k, Awaits(t, {"delete"}, k), ~(call.kind = "delete" /\ k \in call.keys)
        PROVE  Awaits(t, {"delete"}, k)'
    <3>1. PICK i \in DOMAIN pending[t] : pending[t][i].kind = "delete" /\ k \in pending[t][i].keys
      BY <2>3 DEF Awaits
    <3>2. i # 1
      BY <1>3, <2>3, <3>1
    <3>3. PICK j \in DOMAIN Tail(pending[t]) : i = j + 1
      BY <1>3, <3>2
    <3>4. j \in DOMAIN pending'[t] /\ pending'[t][j] = pending[t][i]
      BY <1>3, <1>4, <3>3
    <3> QED
      BY <3>1, <3>4 DEF Awaits
  <2>4. \A k : (call.kind = "delete" /\ k \in call.keys) => Awaits(t, {"delete"}, k)
    BY <1>3 DEF Awaits
  <2> HIDE DEF call
  <2>5. ASSUME NEW k \in Keys
        PROVE  /\ ~(k \in DOMAIN puts'[t] /\ k \in deletes'[t])
               /\ made[t][k] = IF Awaits(t, {"delete"}, k)' THEN Absent ELSE Does(puts'[t], deletes'[t], k)
    <3>1. /\ ~(k \in DOMAIN puts[t] /\ k \in deletes[t])
          /\ made[t][k] = IF Awaits(t, {"delete"}, k) THEN Absent ELSE Does(puts[t], deletes[t], k)
      BY <2>1 DEF AsMade
    <3>2. CASE call.kind # "delete"
      <4>1. Awaits(t, {"delete"}, k)' <=> Awaits(t, {"delete"}, k)
        BY <2>2, <2>3, <3>2
      <4> QED
        BY <1>6, <3>1, <3>2, <4>1
    <3>3. CASE call.kind = "delete"
      <4>1. puts'[t] = Restrict(puts[t], DOMAIN puts[t] \ call.keys) /\ deletes'[t] = deletes[t] \cup call.keys
        BY <1>5, <1>6, <1>8, <3>3
      <4>2. /\ DOMAIN puts'[t] = DOMAIN puts[t] \ call.keys
            /\ \A j \in DOMAIN puts[t] : j \notin call.keys => puts'[t][j] = puts[t][j]
        BY <4>1 DEF Restrict
      <4>3. CASE k \in call.keys
        BY <2>4, <3>1, <3>3, <4>1, <4>2, <4>3 DEF Does
      <4>4. CASE k \notin call.keys
        <5>1. Awaits(t, {"delete"}, k)' <=> Awaits(t, {"delete"}, k)
          BY <2>2, <2>3, <4>4
        <5>2. (k \in DOMAIN puts'[t] <=> k \in DOMAIN puts[t]) /\ (k \in deletes'[t] <=> k \in deletes[t])
          BY <4>1, <4>2, <4>4
        <5>3. Does(puts'[t], deletes'[t], k) = Does(puts[t], deletes[t], k)
          BY <4>2, <4>4, <5>2 DEF Does
        <5> QED
          BY <3>1, <5>1, <5>2, <5>3
      <4> QED
        BY <4>3, <4>4
    <3> QED
      BY <3>2, <3>3
  <2>6. AsMade(t)'
    BY <1>4, <2>5 DEF AsMade, Does
  <2>7. Waiting(t)'
    <3>1. ASSUME NEW i \in DOMAIN pending'[t], NEW k \in pending'[t][i].keys
          PROVE  /\ pending'[t][i].kind = "get" => pending'[t][i].made[k] = Kept
                 /\ pending'[t][i].kind = "list" => ~Awaits(t, {"delete"}, k)' /\ made'[t][k] = pending'[t][i].made[k]
      <4>1. i + 1 \in DOMAIN pending[t] /\ pending'[t][i] = pending[t][i + 1]
        BY <1>3, <1>4
      <4>2. k \in pending[t][i + 1].keys
        BY <4>1
      <4>3. /\ pending[t][i + 1].kind = "get" => pending[t][i + 1].made[k] = Kept
            /\ pending[t][i + 1].kind = "list" => ~Awaits(t, {"delete"}, k) /\ made[t][k] = pending[t][i + 1].made[k]
        BY <2>1, <4>1, <4>2 DEF Waiting
      <4>4. ~Awaits(t, {"delete"}, k) => ~Awaits(t, {"delete"}, k)'
        BY <2>2
      <4> QED
        BY <1>4, <4>1, <4>3, <4>4
    <3> QED
      BY <3>1 DEF Waiting
  <2> QED
    BY <2>6, <2>7 DEF Own
<1> QED
  BY <1>7, <1>8

\* It keeps the invariant.
LEMMA AnsweredKeeps ==
    ASSUME IInv, Answered
    PROVE  IInv'
<1> DEFINE t == Head(results).task
           call == Head(pending[t])
<1>1. Types /\ Answers /\ t \in Tasks /\ pending[t] # <<>>
  BY AnsweredHead DEF IInv, Answered
<1>2. /\ puts \in [Tasks -> Given] /\ deletes \in [Tasks -> SUBSET Keys] /\ pending \in [Tasks -> Seq(Asked)]
      /\ pending[t] \in Seq(Asked) /\ raced \in [Tasks -> BOOLEAN] /\ results \in Seq(Results)
      /\ DOMAIN answer = Tasks /\ DOMAIN due = Tasks
  BY <1>1 DEF Types
<1>3. call \in Asked /\ Tail(pending[t]) \in Seq(Asked)
  BY <1>1, <1>2, FirstCall
<1>4. /\ results # <<>> /\ results' = Tail(results) /\ UNCHANGED <<stored, queue, phase, rolledBack, made>>
      /\ pending' = [pending EXCEPT ![t] = Tail(pending[t])]
  BY DEF Answered
<1>5. raced' = [raced EXCEPT ![t] = raced[t] \/ (~Head(results).ok /\ call.kind = "delete")]
  BY DEF Answered
<1>6. \/ UNCHANGED <<puts, deletes>>
      \/ /\ puts' = [puts EXCEPT ![t] = Restrict(puts[t], DOMAIN puts[t] \ call.keys)]
         /\ deletes' = [deletes EXCEPT ![t] = deletes[t] \cup call.keys]
  BY DEF Answered
<1>7. DOMAIN answer' = Tasks /\ DOMAIN due' = Tasks
  BY <1>2 DEF Answered
<1>8. call.keys \in SUBSET Keys
  BY SMT, <1>3 DEF Asked
<1> HIDE DEF call, t
<1>9. puts' \in [Tasks -> Given] /\ deletes' \in [Tasks -> SUBSET Keys]
  <2>1. Restrict(puts[t], DOMAIN puts[t] \ call.keys) \in Given /\ deletes[t] \cup call.keys \in SUBSET Keys
    BY <1>1, <1>2, <1>8, GivenOver
  <2> QED
    BY <1>2, <1>6, <2>1
<1>10. pending' \in [Tasks -> Seq(Asked)]
  BY <1>2, <1>3, <1>4
<1>11. raced' \in [Tasks -> BOOLEAN] /\ \A u \in Tasks : (raced[u] => raced'[u])
  <2>1. (raced[t] \/ (~Head(results).ok /\ call.kind = "delete")) \in BOOLEAN
    OBVIOUS
  <2> QED
    BY <1>1, <1>2, <1>5, <2>1
<1>12. results' \in Seq(Results) /\ \A i \in DOMAIN results' : \E j \in DOMAIN results : results'[i] = results[j]
  <2>1. Tail(results) \in Seq(Results) /\ \A i \in DOMAIN Tail(results) : i + 1 \in DOMAIN results /\ Tail(results)[i] = results[i + 1]
    BY SMT, <1>2, <1>4
  <2> QED
    BY <1>4, <2>1
<1>13. Types'
  BY <1>1, <1>4, <1>7, <1>9, <1>10, <1>11, <1>12 DEF Types
<1>14. Answers'
  <2>1. ASSUME NEW i \in DOMAIN results' PROVE \A k \in DOMAIN results'[i].found : results'[i].found[k] = results'[i].all[k]
    <3>1. PICK j \in DOMAIN results : results'[i] = results[j]
      BY <1>12
    <3> QED
      BY <1>1, <3>1 DEF Answers
  <2> QED
    BY <2>1 DEF Answers
<1>15. ASSUME NEW u \in Tasks PROVE Own(u)' /\ Turns(u)' /\ Commits(u)'
  <2>1. Own(u) /\ Commits(u)
    BY DEF IInv
  <2>2. Turns(u)'
    BY <1>11, AnsweredTurns
  <2>3. Stays(u)
    BY <1>4, <1>11 DEF Stays
  <2>4. Commits(u)'
    BY <1>1, <1>4, <2>1, <2>3, CommitsSame
  <2>5. CASE u = t
    BY <2>2, <2>4, <2>5, AnsweredOwn DEF t
  <2>6. CASE u # t
    <3>1. Same(u)
      BY <1>2, <1>4, <1>6, <1>11, <2>6 DEF Same, Waits
    <3> QED
      BY <2>1, <2>2, <2>4, <3>1, OwnSame
  <2> QED
    BY <2>5, <2>6
<1> QED
  BY <1>13, <1>14, <1>15 DEF IInv

-----------------------------------------------------------------------------
(* The invariant *)

\* It holds at first.
LEMMA InitInv == Init => IInv
<1> SUFFICES ASSUME Init PROVE IInv
  OBVIOUS
<1>1. queue = <<>> /\ results = <<>> /\ <<>> \in Seq(Ops) /\ <<>> \in Seq(Results) /\ <<>> \in Seq(Asked)
  BY SMT DEF Init
<1>2. Empty \in Given /\ [k \in Keys |-> Kept] \in Made
  BY GivenOver DEF Made
<1>3. Types
  BY <1>1, <1>2 DEF Init, Types, Held
<1>4. Answers
  BY SMT, <1>1 DEF Answers
<1>5. ASSUME NEW t \in Tasks PROVE Own(t) /\ Turns(t) /\ Commits(t)
  <2>1. /\ pending[t] = <<>> /\ DOMAIN pending[t] = {} /\ Len(pending[t]) = 0 /\ 0 \in Nat
        /\ DOMAIN queue = {} /\ DOMAIN results = {}
    BY SMT, <1>1, <1>5 DEF Init
  <2>2. puts[t] = Empty /\ DOMAIN puts[t] = {} /\ deletes[t] = {} /\ \A k \in Keys : made[t][k] = Kept
    BY DEF Init, Empty
  <2>3. Own(t)
    BY <2>1, <2>2 DEF Own, AsMade, Waiting, Awaits, Does
  <2>4. AnswersOf(results, t) = {} /\ ReadsOf(queue, t) = {}
    BY <2>1 DEF AnswersOf, ReadsOf
  <2>5. InTurn(results, {}, Coming(t), 0, 0) /\ InTurn(queue, {}, Going(t), 0, 0)
    BY <1>1, <2>1, InTurnNone
  <2>6. Turns(t)
    BY <2>1, <2>4, <2>5 DEF Turns
  <2> QED
    BY <2>1, <2>3, <2>6 DEF Commits
<1> QED
  BY <1>3, <1>4, <1>5 DEF IInv

\* Every call of a task keeps it.
LEMMA TaskKeeps ==
    ASSUME Kept \notin Held, IInv, NEW t \in Tasks,
           \/ Transaction(t) \/ DeleteAll(t) \/ SetAlarm(t) \/ Read(t) \/ Rollback(t) \/ Throw(t) \/ End(t)
           \/ \E p \in Puts : Put(t, p) \/ TxnPut(t, p)
           \/ \E ks \in KeySets : Delete(t, ks) \/ TxnGetList(t, ks) \/ TxnDelete(t, ks)
           \/ \E k \in Keys : TxnGet(t, k)
    PROVE  IInv'
<1>1. CASE Transaction(t) \/ Throw(t) \/ Rollback(t)
  BY <1>1, ClosureKeeps
<1>2. CASE End(t)
  BY <1>2, EndKeeps
<1>3. CASE DeleteAll(t) \/ SetAlarm(t) \/ Read(t)
  <2>1. /\ WriteOp(t, "write", Empty, Keys) \in Ops /\ WriteOp(t, "write", Empty, Keys).kind = "write"
        /\ WriteOp(t, "write", Empty, {}) \in Ops /\ WriteOp(t, "write", Empty, {}).kind = "write"
        /\ ReadOp(t, "plain", {}) \in Ops /\ ReadOp(t, "plain", {}).kind = "plain"
    <3>1. Empty \in Given /\ Keys \in SUBSET Keys /\ {} \in SUBSET Keys
      BY GivenOver
    <3>2. /\ WriteOp(t, "write", Empty, Keys) \in Ops /\ WriteOp(t, "write", Empty, {}) \in Ops
          /\ ReadOp(t, "plain", {}) \in Ops
      BY <3>1, OpTyped
    <3>3. /\ WriteOp(t, "write", Empty, Keys).kind = "write" /\ WriteOp(t, "write", Empty, {}).kind = "write"
          /\ ReadOp(t, "plain", {}).kind = "plain"
      BY SMT DEF WriteOp, ReadOp
    <3> QED
      BY <3>2, <3>3
  <2> QED
    BY <1>3, <2>1, PlainKeeps DEF DeleteAll, SetAlarm, Read
<1>4. ASSUME NEW p \in Puts, Put(t, p) PROVE IInv'
  <2>1. WriteOp(t, "write", p, {}) \in Ops /\ WriteOp(t, "write", p, {}).kind = "write"
    <3>1. p \in Given /\ {} \in SUBSET Keys
      BY GivenOver
    <3>2. WriteOp(t, "write", p, {}) \in Ops
      BY <3>1, OpTyped
    <3>3. WriteOp(t, "write", p, {}).kind = "write"
      BY SMT DEF WriteOp
    <3> QED
      BY <3>2, <3>3
  <2> QED
    BY <1>4, <2>1, PlainKeeps DEF Put
<1>5. ASSUME NEW p \in Puts, TxnPut(t, p) PROVE IInv'
  BY <1>5, GivenOver, TxnPutKeeps
<1>6. ASSUME NEW ks \in KeySets, Delete(t, ks) PROVE IInv'
  <2>1. WriteOp(t, "write", Empty, ks) \in Ops /\ WriteOp(t, "write", Empty, ks).kind = "write"
    <3>1. Empty \in Given /\ ks \in SUBSET Keys
      BY GivenOver DEF KeySets
    <3>2. WriteOp(t, "write", Empty, ks) \in Ops
      BY <3>1, OpTyped
    <3>3. WriteOp(t, "write", Empty, ks).kind = "write"
      BY SMT DEF WriteOp
    <3> QED
      BY <3>2, <3>3
  <2> QED
    BY <1>6, <2>1, PlainKeeps DEF Delete
<1>7. ASSUME NEW ks \in KeySets, TxnGetList(t, ks) PROVE IInv'
  <2>1. Reads(t, "list", ks)
    BY <1>7 DEF Reads, TxnGetList, KeySets
  <2> QED
    BY <2>1, ReadsKeeps
<1>8. ASSUME NEW ks \in KeySets, TxnDelete(t, ks) PROVE IInv'
  <2>1. Reads(t, "delete", ks)
    BY <1>8 DEF Reads, TxnDelete, KeySets
  <2> QED
    BY <2>1, ReadsKeeps
<1>9. ASSUME NEW k \in Keys, TxnGet(t, k) PROVE IInv'
  <2>1. CASE k \in Local(t)
    <3>1. /\ Overtakes(t, {"delete"}, {k}) /\ DOMAIN answer' = DOMAIN answer /\ DOMAIN due' = DOMAIN due
          /\ UNCHANGED <<hostVars, phase, puts, deletes, rolledBack, pending, made>>
      BY <1>9, <2>1 DEF TxnGet
    <3>2. DOMAIN answer = Tasks /\ DOMAIN due = Tasks
      BY DEF IInv, Types
    <3> QED
      BY <3>1, <3>2, TxnGetKeeps
  <2>2. CASE k \notin Local(t)
    <3>1. Reads(t, "get", {k})
      BY <1>9, <2>2 DEF Reads, TxnGet
    <3> QED
      BY <3>1, ReadsKeeps
  <2> QED
    BY <2>1, <2>2
<1> QED
  BY <1>1, <1>2, <1>3, <1>4, <1>5, <1>6, <1>7, <1>8, <1>9

\* Every step keeps it.
LEMMA NextInv ==
    ASSUME Kept \notin Held, IInv, [Next]_vars
    PROVE  IInv'
<1>1. CASE UNCHANGED vars
  <2>1. UNCHANGED <<stored, queue, results, phase, puts, deletes, rolledBack, pending, answer, made, due, raced>>
    BY <1>1 DEF vars, hostVars, txnVars, history
  <2>2. Types' /\ Answers'
    BY <2>1 DEF IInv, Types, Answers
  <2>3. ASSUME NEW u \in Tasks PROVE Own(u)' /\ Turns(u)' /\ Commits(u)'
    <3>1. Same(u) /\ Stays(u)
      BY <2>1 DEF Same, Waits, Stays
    <3> QED
      BY <2>1, <3>1, OthersKeep
  <2> QED
    BY <2>2, <2>3 DEF IInv
<1>2. CASE RunWrite \/ RunRead \/ Answered
  BY <1>2, RunWriteKeeps, RunReadKeeps, AnsweredKeeps
<1> QED
  BY <1>1, <1>2, TaskKeeps DEF Next

\* The transactions of any number of tasks keep the invariant, whatever they call and
\* whatever fails.
THEOREM StorageInvariant ==
    ASSUME Kept \notin Held
    PROVE  Spec => []IInv
BY InitInv, NextInv, PTL DEF Spec

-----------------------------------------------------------------------------
(* What a transaction writes, and what it reads *)

\* What TransactionAsMade says of a step.
WritesAsMade ==
    (stored' # stored /\ Head(queue).kind = "commit") =>
        LET t == Head(queue).task
        IN  raced[t] \/ (/\ ~rolledBack[t]
                         /\ stored' = [k \in Keys |-> IF made[t][k] = Kept THEN stored[k] ELSE made[t][k]])

ReadsAsMade == \A t \in Tasks : (answer'[t] # answer[t] /\ ~raced'[t]) => answer'[t] = due'[t]

\* The host writes a commit as the closure made it.
LEMMA CommitWrites ==
    ASSUME Kept \notin Held, IInv, RunWrite
    PROVE  WritesAsMade
<1> DEFINE op == Head(queue)
           t == op.task
<1> SUFFICES ASSUME stored' # stored, op.kind = "commit", ~raced[t]
             PROVE  ~rolledBack[t] /\ stored' = [k \in Keys |-> IF made[t][k] = Kept THEN stored[k] ELSE made[t][k]]
  BY DEF WritesAsMade
<1>1. queue \in Seq(Ops) /\ queue # <<>> /\ stored' \in Written(op)
  BY DEF IInv, Types, RunWrite
<1>2. op \in Ops /\ 1 \in DOMAIN queue /\ op = queue[1]
  BY SMT, <1>1
<1>3. t \in Tasks /\ op.puts \in Given
  BY SMT, <1>2 DEF Ops
<1>4. Sealed(t, op)
  BY <1>2, <1>3 DEF IInv, Commits
<1>5. ~rolledBack[t] /\ \A k \in Keys : ~(k \in DOMAIN op.puts /\ k \in op.deletes) /\ made[t][k] = Does(op.puts, op.deletes, k)
  BY <1>4 DEF Sealed
<1>6. /\ stored' \in [Keys -> {Absent} \cup Values]
      /\ \A k \in Keys : IF k \in DOMAIN op.puts \cup op.deletes
                         THEN \/ k \in DOMAIN op.puts /\ stored'[k] = op.puts[k]
                              \/ k \in op.deletes /\ stored'[k] = Absent
                         ELSE stored'[k] = stored[k]
  BY <1>1 DEF Written
<1>7. \A k \in DOMAIN op.puts : op.puts[k] # Kept
  BY <1>3, GivenNotKept
<1>8. Absent # Kept
  BY DEF Held
<1> HIDE DEF op, t
<1>9. ASSUME NEW k \in Keys PROVE stored'[k] = IF made[t][k] = Kept THEN stored[k] ELSE made[t][k]
  BY <1>5, <1>6, <1>7, <1>8 DEF Does
<1> QED
  BY <1>5, <1>6, <1>9

\* A get that the transaction answers itself gives what its calls made.
LEMMA GetGives ==
    ASSUME IInv, NEW t \in Tasks, NEW k \in Keys, TxnGet(t, k)
    PROVE  ReadsAsMade
<1>1. Types /\ Own(t)
  BY DEF IInv
<1>2. CASE k \in Local(t)
  <2>1. /\ answer' = [answer EXCEPT ![t] = [j \in {k} |-> IF k \in DOMAIN puts[t] THEN puts[t][k] ELSE Absent]]
        /\ due' = [due EXCEPT ![t] = [j \in {k} |-> made[t][k]]] /\ Overtakes(t, {"delete"}, {k})
    BY <1>2 DEF TxnGet
  <2>2. DOMAIN answer = Tasks /\ DOMAIN due = Tasks
    BY <1>1 DEF Types
  <2>3. \A u \in Tasks : u # t => answer'[u] = answer[u]
    BY <2>1, <2>2
  <2>4. ASSUME ~raced'[t] PROVE made[t][k] = IF k \in DOMAIN puts[t] THEN puts[t][k] ELSE Absent
    <3>1. ~raced[t] /\ ~Awaits(t, {"delete"}, k)
      BY <1>1, <2>1, <2>4, OvertakesOne
    <3>2. made[t][k] = Does(puts[t], deletes[t], k)
      BY <1>1, <3>1 DEF Own, AsMade
    <3> QED
      BY <1>2, <3>2 DEF Does, Local
  <2>5. ~raced'[t] => answer'[t] = due'[t]
    BY <2>1, <2>2, <2>4
  <2> QED
    BY <2>3, <2>5 DEF ReadsAsMade
<1>3. CASE k \notin Local(t)
  BY <1>3 DEF TxnGet, Asks, ReadsAsMade
<1> QED
  BY <1>2, <1>3

\* The answer of a get, or of a list, gives what the calls before it made.
LEMMA AnswerGives ==
    ASSUME Kept \notin Held, IInv, Answered
    PROVE  ReadsAsMade
<1> DEFINE result == Head(results)
           t == result.task
           call == Head(pending[t])
<1>1. /\ Types /\ t \in Tasks /\ Own(t) /\ Fits(t, DOMAIN result.found, call)
      /\ pending[t] # <<>> /\ \A k \in DOMAIN result.found : result.found[k] = result.all[k]
  BY AnsweredHead DEF IInv, Answered
<1>2. /\ pending[t] \in Seq(Asked) /\ raced \in [Tasks -> BOOLEAN] /\ puts[t] \in Given
      /\ DOMAIN answer = Tasks /\ DOMAIN due = Tasks
  BY <1>1 DEF Types
<1>3. 1 \in DOMAIN pending[t] /\ call = pending[t][1] /\ call \in Asked
  BY <1>1, <1>2, FirstCall
<1>4. call.keys \in SUBSET Keys /\ call.kind \in {"get", "list", "delete"}
  BY <1>1, <1>3, AskedKeys
<1>5. raced[t] => raced'[t]
  BY <1>1, <1>2 DEF Answered
<1>6. \/ UNCHANGED <<answer, due>>
      \/ /\ call.kind # "delete"
         /\ answer' = [answer EXCEPT ![t] = Gives(t, call, result.found)]
         /\ due' = [due EXCEPT ![t] = [k \in call.keys |-> IF call.made[k] = Kept THEN result.all[k] ELSE call.made[k]]]
  BY DEF Answered
<1> HIDE DEF result, t, call
<1>7. ASSUME ~raced[t], call.kind # "delete", NEW k \in call.keys
      PROVE  (IF call.kind = "list" /\ k \in DOMAIN puts[t] THEN puts[t][k]
              ELSE IF k \in DOMAIN result.found THEN result.found[k] ELSE Absent)
               = IF call.made[k] = Kept THEN result.all[k] ELSE call.made[k]
  <2>1. DOMAIN result.found = {j \in call.keys : call.made[j] = Kept}
    BY <1>1, <1>7 DEF Fits
  <2>2. call.kind = "get" => call.made[k] = Kept
    BY <1>1, <1>3, <1>7 DEF Own, Waiting
  <2>3. call.kind = "list" => call.made[k] = Does(puts[t], deletes[t], k)
    <3>1. call.kind = "list" => ~Awaits(t, {"delete"}, k) /\ made[t][k] = call.made[k]
      BY <1>1, <1>3, <1>7 DEF Own, Waiting
    <3> QED
      BY <1>1, <1>4, <1>7, <3>1 DEF Own, AsMade
  <2>4. \A j \in DOMAIN puts[t] : puts[t][j] # Kept
    BY <1>2, GivenNotKept
  <2>5. Absent # Kept
    BY DEF Held
  <2>6. CASE call.kind = "get"
    BY <1>1, <1>7, <2>1, <2>2, <2>6
  <2>7. CASE call.kind = "list"
    BY <1>1, <1>7, <2>1, <2>3, <2>4, <2>5, <2>7 DEF Does
  <2> QED
    BY <1>4, <1>7, <2>6, <2>7
<1>8. (~raced[t] /\ call.kind # "delete") =>
        Gives(t, call, result.found)
          = [k \in call.keys |-> IF call.made[k] = Kept THEN result.all[k] ELSE call.made[k]]
  BY <1>7 DEF Gives
<1>9. \A u \in Tasks : u # t => answer'[u] = answer[u]
  BY <1>1, <1>2, <1>6
<1>10. ASSUME answer'[t] # answer[t], ~raced'[t] PROVE answer'[t] = due'[t]
  <2>1. answer'[t] = Gives(t, call, result.found) /\ call.kind # "delete"
    BY <1>1, <1>2, <1>6, <1>10
  <2>2. due'[t] = [k \in call.keys |-> IF call.made[k] = Kept THEN result.all[k] ELSE call.made[k]]
    BY <1>1, <1>2, <1>6, <1>10
  <2> QED
    BY <1>5, <1>8, <1>10, <2>1, <2>2
<1> QED
  BY <1>9, <1>10 DEF ReadsAsMade

\* "a transaction writes once or not at all": for any number of tasks, keys, values and
\* calls, the write of a transaction makes of the storage what its closure made in the
\* order it called, and a get of the closure gives what the calls before it made, provided
\* the closure awaits the calls it depends on.
THEOREM TransactionsAsMade ==
    ASSUME Kept \notin Held
    PROVE  Spec => TransactionAsMade
<1>1. IInv /\ [Next]_vars => [WritesAsMade /\ ReadsAsMade]_vars
  <2> SUFFICES ASSUME IInv, Next PROVE WritesAsMade /\ ReadsAsMade
    OBVIOUS
  <2>1. CASE RunWrite
    <3>1. ReadsAsMade
      BY <2>1 DEF RunWrite, txnVars, ReadsAsMade
    <3> QED
      BY <2>1, <3>1, CommitWrites
  <2>2. CASE Answered
    <3>1. WritesAsMade
      BY <2>2 DEF Answered, WritesAsMade
    <3> QED
      BY <2>2, <3>1, AnswerGives
  <2>3. CASE RunRead
    BY <2>3 DEF RunRead, txnVars, WritesAsMade, ReadsAsMade
  <2>4. ASSUME NEW t \in Tasks, NEW k \in Keys, TxnGet(t, k) PROVE WritesAsMade /\ ReadsAsMade
    <3>1. WritesAsMade
      BY <2>4 DEF TxnGet, Asks, hostVars, WritesAsMade
    <3> QED
      BY <2>4, <3>1, GetGives
  <2>5. ASSUME NEW t \in Tasks,
               \/ Transaction(t) \/ DeleteAll(t) \/ SetAlarm(t) \/ Read(t) \/ Rollback(t) \/ Throw(t) \/ End(t)
               \/ \E p \in Puts : Put(t, p) \/ TxnPut(t, p)
               \/ \E ks \in KeySets : Delete(t, ks) \/ TxnGetList(t, ks) \/ TxnDelete(t, ks)
        PROVE  WritesAsMade /\ ReadsAsMade
    <3>1. stored' = stored /\ answer' = answer
      BY <2>5 DEF Transaction, DeleteAll, SetAlarm, Read, Rollback, Throw, End, Put, TxnPut, Delete, TxnGetList,
                  TxnDelete, Plain, Asks, hostVars, txnVars
    <3> QED
      BY <3>1 DEF WritesAsMade, ReadsAsMade
  <2> QED
    BY <2>1, <2>2, <2>3, <2>4, <2>5 DEF Next
<1>2. [WritesAsMade /\ ReadsAsMade]_vars =>
        [/\ (stored' # stored /\ Head(queue).kind = "commit") =>
               LET t == Head(queue).task
               IN  raced[t] \/ (/\ ~rolledBack[t]
                                /\ stored' = [k \in Keys |-> IF made[t][k] = Kept THEN stored[k] ELSE made[t][k]])
         /\ \A t \in Tasks : (answer'[t] # answer[t] /\ ~raced'[t]) => answer'[t] = due'[t]]_vars
  BY DEF WritesAsMade, ReadsAsMade
<1> QED
  BY <1>1, <1>2, StorageInvariant, PTL DEF Spec, TransactionAsMade
=============================================================================
