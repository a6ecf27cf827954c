------------------------- MODULE DurableObjectProofs -------------------------
(***************************************************************************)
(* What holds of a Durable Object whatever the number of its events and    *)
(* lives.                                                                  *)
(*                                                                         *)
(* OutputHeld: nothing that takes the output gate leaves before the        *)
(* writes made before it. The queue of a life holds the writes it made     *)
(* and did not commit, in order and without a gap (Order), so a frame at   *)
(* its head has them all behind it. An event waits for one thing at a      *)
(* time (OneAtATime), so a barrier has the writes its event knew of ahead  *)
(* of it, and is open only once they committed (HeldBack).                 *)
(*                                                                         *)
(* CountStays: what was answered stays stored. While the gate is not       *)
(* Broken one event reads at a time, the write of one that read is the     *)
(* only one in the queue, and it is one higher than the count stored       *)
(* (InputGate); and what no write or read result undercuts, none ever      *)
(* will, of whatever life (Beneath).                                       *)
(***************************************************************************)
EXTENDS DurableObject, TLAPS

\* Zenon proves the leaves, but for those that cite SMT: numbers, sequences, records.
USE Zenon

-----------------------------------------------------------------------------
(* What the queues hold *)

Items ==
    [kind : {"get", "barrier"}, by : Events]
    \cup [kind : {"put"}, by : Events, count : Nat, stamp : Nat]
    \cup [kind : {"frame"}, by : Events, stamp : Nat]

Results ==
    [kind : {"get"}, by : Events, ok : BOOLEAN, count : Nat]
    \cup [kind : {"put", "call"}, by : Events, ok : BOOLEAN]

\* What an item of a queue is.
LEMMA ItemFields ==
    ASSUME NEW w \in Items
    PROVE  /\ w.by \in Events /\ w.kind \in {"get", "barrier", "put", "frame"}
           /\ w.kind \in {"put", "frame"} => w.stamp \in Nat
           /\ w.kind = "put" => w.count \in Nat
  BY SMT DEF Items

\* What a result for the guest is.
LEMMA ResultFields ==
    ASSUME NEW c \in Results
    PROVE  /\ c.by \in Events /\ c.kind \in {"get", "put", "call"} /\ c.ok \in BOOLEAN
           /\ c.kind = "get" => c.count \in Nat
  BY SMT DEF Results

\* What a sequence holds with one more at its end ...
LEMMA Appended ==
    ASSUME NEW S, NEW s \in Seq(S), NEW x \in S
    PROVE  /\ Append(s, x) \in Seq(S) /\ Len(s) \in Nat
           /\ \A k \in DOMAIN Append(s, x) :
                 (k \in DOMAIN s /\ Append(s, x)[k] = s[k]) \/ (k = Len(s) + 1 /\ Append(s, x)[k] = x)
           /\ \A k \in DOMAIN s : k \in DOMAIN Append(s, x) /\ Append(s, x)[k] = s[k] /\ k < Len(s) + 1 /\ s[k] \in S
           /\ Len(s) + 1 \in DOMAIN Append(s, x) /\ Append(s, x)[Len(s) + 1] = x
           /\ \A k \in DOMAIN s : k \in Nat
  BY SMT

\* ... without its head ...
LEMMA Taken ==
    ASSUME NEW S, NEW s \in Seq(S), s # <<>>
    PROVE  /\ Tail(s) \in Seq(S) /\ Head(s) \in S
           /\ \A k \in DOMAIN Tail(s) : k \in Nat /\ k + 1 \in DOMAIN s /\ Tail(s)[k] = s[k + 1] /\ k + 1 # 1
           /\ \A k \in DOMAIN s : k = 1 \/ (k - 1 \in DOMAIN Tail(s) /\ Tail(s)[k - 1] = s[k])
           /\ 1 \in DOMAIN s /\ Head(s) = s[1]
           /\ \A k \in DOMAIN s : k \in Nat /\ k >= 1 /\ s[k] \in S
  BY SMT

\* ... and without one from its middle.
LEMMA Removed ==
    ASSUME NEW S, NEW s \in Seq(S), NEW i \in DOMAIN s
    PROVE  /\ Without(s, i) \in Seq(S)
           /\ \A k \in DOMAIN Without(s, i) :
                 /\ k \in Nat
                 /\ k < i => k \in DOMAIN s /\ Without(s, i)[k] = s[k]
                 /\ k >= i => k + 1 \in DOMAIN s /\ Without(s, i)[k] = s[k + 1]
<1> DEFINE a == SubSeq(s, 1, i - 1)
           b == SubSeq(s, i + 1, Len(s))
<1>1. i \in 1..Len(s) /\ Len(s) \in Nat
  BY SMT
<1>2. a \in Seq(S) /\ Len(a) = i - 1 /\ \A k \in 1..(i - 1) : a[k] = s[k]
  BY SMT, <1>1
<1>3. b \in Seq(S) /\ Len(b) = Len(s) - i /\ \A k \in 1..(Len(s) - i) : b[k] = s[k + i]
  BY SMT, <1>1
<1> HIDE DEF a, b
<1>4. /\ a \o b \in Seq(S) /\ DOMAIN (a \o b) = 1..(Len(a) + Len(b))
      /\ \A k \in 1..(Len(a) + Len(b)) : (a \o b)[k] = IF k <= Len(a) THEN a[k] ELSE b[k - Len(a)]
  <2>1. a \in Seq(S) /\ b \in Seq(S)
    BY <1>2, <1>3
  <2>2. a \o b \in Seq(S)
    BY SMT, <2>1
  <2>3. DOMAIN (a \o b) = 1..(Len(a) + Len(b))
    BY SMT, <2>1
  <2>4. \A k \in 1..(Len(a) + Len(b)) : (a \o b)[k] = IF k <= Len(a) THEN a[k] ELSE b[k - Len(a)]
    BY SMT, <2>1
  <2> QED
    BY <2>2, <2>3, <2>4
<1>5. Without(s, i) = a \o b
  BY DEF Without, a, b
<1>6. ASSUME NEW k \in DOMAIN Without(s, i)
      PROVE  /\ k \in Nat
             /\ k < i => k \in DOMAIN s /\ Without(s, i)[k] = s[k]
             /\ k >= i => k + 1 \in DOMAIN s /\ Without(s, i)[k] = s[k + 1]
  <2>1. k \in 1..(Len(s) - 1)
    BY SMT, <1>1, <1>2, <1>3, <1>4, <1>5, <1>6
  <2>2. CASE k < i
    <3>0. k \in 1..(i - 1) /\ k \in 1..(Len(a) + Len(b)) /\ k <= Len(a) /\ k \in DOMAIN s
      BY SMT, <1>1, <1>2, <1>3, <2>1, <2>2
    <3>1. (a \o b)[k] = s[k]
      BY <1>2, <1>4, <3>0
    <3> QED
      BY SMT, <1>1, <1>5, <2>1, <2>2, <3>0, <3>1
  <2>3. CASE k >= i
    <3>0. k - Len(a) = k - (i - 1) /\ k - (i - 1) \in 1..(Len(s) - i) /\ (k - (i - 1)) + i = k + 1
      BY SMT, <1>1, <1>2, <2>1, <2>3
    <3>1. (a \o b)[k] = b[k - (i - 1)]
      <4>1. k \in 1..(Len(a) + Len(b)) /\ ~(k <= Len(a))
        BY SMT, <1>1, <1>2, <1>3, <2>1, <2>3
      <4> QED
        BY <1>4, <3>0, <4>1
    <3>2. b[k - (i - 1)] = s[k + 1]
      BY <1>3, <3>0
    <3> QED
      BY SMT, <1>1, <1>5, <2>1, <2>3, <3>1, <3>2
  <2> QED
    BY SMT, <1>1, <2>1, <2>2, <2>3
<1> QED
  BY <1>4, <1>5, <1>6

\* A join with one item appends it ...
LEMMA JoinedOne ==
    ASSUME NEW S, NEW s \in Seq(S), NEW a \in S
    PROVE  s \o <<a>> = Append(s, a)
  BY SMT

\* ... and with two, both.
LEMMA JoinedTwo ==
    ASSUME NEW S, NEW s \in Seq(S), NEW a \in S, NEW b \in S
    PROVE  s \o <<a, b>> = Append(Append(s, a), b)
  BY SMT

-----------------------------------------------------------------------------
(* The order of a queue *)

\* The writes a queue holds are those numbered from lo + 1 to hi, in order, but for
\* those a failed write took away; a frame waits behind the writes up to its own.
InOrder(q, lo, hi, broken) ==
    /\ lo <= hi
    /\ \A k \in DOMAIN q : q[k].kind = "put" => lo < q[k].stamp /\ q[k].stamp <= hi
    /\ \A k \in DOMAIN q : q[k].kind = "frame" => q[k].stamp <= hi
    /\ \A j, k \in DOMAIN q :
          (q[j].kind \in {"put", "frame"} /\ q[k].kind = "put" /\ j < k) => q[j].stamp < q[k].stamp
    /\ ~broken => \A n \in (lo + 1)..hi : \E k \in DOMAIN q : q[k].kind = "put" /\ q[k].stamp = n

\* A queue in order stays so with a read, a barrier, a frame or the next write ...
LEMMA OrderGrows ==
    ASSUME NEW q \in Seq(Items), NEW x \in Items, NEW lo \in Nat, NEW hi \in Nat, NEW broken \in BOOLEAN,
           InOrder(q, lo, hi, broken)
    PROVE  /\ x.kind \in {"get", "barrier"} => InOrder(Append(q, x), lo, hi, broken)
           /\ (x.kind = "frame" /\ x.stamp <= hi) => InOrder(Append(q, x), lo, hi, broken)
           /\ (x.kind = "put" /\ x.stamp = hi + 1) => InOrder(Append(q, x), lo, hi + 1, broken)
<1> DEFINE u == Append(q, x)
<1>1. /\ u \in Seq(Items) /\ Len(q) \in Nat
      /\ \A k \in DOMAIN u : (k \in DOMAIN q /\ u[k] = q[k]) \/ (k = Len(q) + 1 /\ u[k] = x)
      /\ \A k \in DOMAIN q : k \in DOMAIN u /\ u[k] = q[k] /\ k < Len(q) + 1 /\ q[k] \in Items
      /\ Len(q) + 1 \in DOMAIN u /\ u[Len(q) + 1] = x
      /\ \A k \in DOMAIN q : k \in Nat
  BY Appended
<1>2. \A k \in DOMAIN q : q[k].kind \in {"put", "frame"} => q[k].stamp \in Nat
  BY <1>1, ItemFields
<1>3. x.kind \in {"put", "frame"} => x.stamp \in Nat
  BY ItemFields
<1> HIDE DEF u
<1>4. ASSUME x.kind \in {"get", "barrier"} \/ (x.kind = "frame" /\ x.stamp <= hi)
      PROVE  InOrder(u, lo, hi, broken)
  <2>1. \A k \in DOMAIN u : u[k].kind = "put" => k \in DOMAIN q /\ u[k] = q[k]
    BY <1>1, <1>4
  <2>2. \A j, k \in DOMAIN u :
           (u[j].kind \in {"put", "frame"} /\ u[k].kind = "put" /\ j < k) => u[j].stamp < u[k].stamp
    BY SMT, <1>1, <2>1 DEF InOrder
  <2>3. \A k \in DOMAIN u : u[k].kind = "frame" => u[k].stamp <= hi
    BY <1>1, <1>4 DEF InOrder
  <2>4. ~broken => \A n \in (lo + 1)..hi : \E k \in DOMAIN u : u[k].kind = "put" /\ u[k].stamp = n
    BY <1>1 DEF InOrder
  <2> QED
    BY <2>1, <2>2, <2>3, <2>4 DEF InOrder
<1>5. ASSUME x.kind = "put", x.stamp = hi + 1
      PROVE  InOrder(u, lo, hi + 1, broken)
  <2>1. /\ lo <= hi + 1
        /\ \A k \in DOMAIN u : u[k].kind = "put" => lo < u[k].stamp /\ u[k].stamp <= hi + 1
        /\ \A k \in DOMAIN u : u[k].kind = "frame" => u[k].stamp <= hi + 1
    BY SMT, <1>1, <1>2, <1>5 DEF InOrder
  <2>2. \A j, k \in DOMAIN u :
           (u[j].kind \in {"put", "frame"} /\ u[k].kind = "put" /\ j < k) => u[j].stamp < u[k].stamp
    BY SMT, <1>1, <1>2, <1>5 DEF InOrder
  <2>3. ~broken => \A n \in (lo + 1)..(hi + 1) : \E k \in DOMAIN u : u[k].kind = "put" /\ u[k].stamp = n
    <3>1. SUFFICES ASSUME ~broken, NEW n \in (lo + 1)..(hi + 1)
                   PROVE  \E k \in DOMAIN u : u[k].kind = "put" /\ u[k].stamp = n
      OBVIOUS
    <3>2. CASE n = hi + 1
      BY <1>1, <1>5, <3>2
    <3>3. CASE n # hi + 1
      <4>1. n \in (lo + 1)..hi
        BY SMT, <3>3
      <4> QED
        BY <1>1, <3>1, <4>1 DEF InOrder
    <3> QED
      BY <3>2, <3>3
  <2> QED
    BY <2>1, <2>2, <2>3 DEF InOrder
<1> QED
  BY <1>4, <1>5 DEF u

\* The first write of a queue is the next to commit; what is first and is not a write
\* has no write left to wait for, unless one failed.
LEMMA OrderHead ==
    ASSUME NEW q \in Seq(Items), q # <<>>, NEW lo \in Nat, NEW hi \in Nat, InOrder(q, lo, hi, FALSE)
    PROVE  /\ Head(q).kind = "put" => Head(q).stamp = lo + 1
           /\ Head(q).kind = "frame" => Head(q).stamp <= lo
           /\ \A n \in Nat : (n <= hi /\ \A k \in DOMAIN q : q[k].kind = "put" => n < q[k].stamp) => n <= lo
<1>1. 1 \in DOMAIN q /\ Head(q) = q[1] /\ \A k \in DOMAIN q : k \in Nat /\ k >= 1 /\ q[k] \in Items
  BY Taken
<1>2. \A k \in DOMAIN q : q[k].kind \in {"put", "frame"} => q[k].stamp \in Nat
  BY <1>1, ItemFields
<1>3. \A n \in Nat : (n <= hi /\ n > lo) => \E k \in DOMAIN q : q[k].kind = "put" /\ q[k].stamp = n
  <2>1. \A n \in Nat : (n <= hi /\ n > lo) => n \in (lo + 1)..hi
    BY SMT
  <2> QED
    BY <2>1 DEF InOrder
<1>4. ASSUME NEW n \in Nat, n <= hi, \A k \in DOMAIN q : q[k].kind = "put" => n < q[k].stamp
      PROVE  n <= lo
  <2>1. ~(n > lo)
    BY SMT, <1>2, <1>3, <1>4
  <2> QED
    BY SMT, <2>1
<1>5. ASSUME Head(q).kind = "put"
      PROVE  Head(q).stamp = lo + 1
  <2>1. q[1].stamp \in Nat /\ lo < q[1].stamp /\ q[1].stamp <= hi
    BY <1>1, <1>2, <1>5 DEF InOrder
  <2>2. PICK k \in DOMAIN q : q[k].kind = "put" /\ q[k].stamp = lo + 1
    BY SMT, <1>3, <2>1
  <2>3. k = 1 \/ q[1].stamp < q[k].stamp
    BY SMT, <1>1, <1>5, <2>2 DEF InOrder
  <2> QED
    BY SMT, <1>1, <2>1, <2>2, <2>3
<1>6. ASSUME Head(q).kind = "frame"
      PROVE  Head(q).stamp <= lo
  <2>1. q[1].stamp \in Nat /\ q[1].stamp <= hi
    BY <1>1, <1>2, <1>6 DEF InOrder
  <2>2. \A k \in DOMAIN q : q[k].kind = "put" => q[1].stamp < q[k].stamp
    BY SMT, <1>1, <1>6 DEF InOrder
  <2> QED
    BY <1>1, <1>4, <2>1, <2>2
<1> QED
  BY <1>4, <1>5, <1>6

\* ... and when its head has run, and a write at its head committed or failed.
LEMMA OrderShrinks ==
    ASSUME NEW q \in Seq(Items), q # <<>>, NEW lo \in Nat, NEW hi \in Nat, NEW broken \in BOOLEAN,
           InOrder(q, lo, hi, broken)
    PROVE  /\ InOrder(Tail(q), lo, hi, TRUE)
           /\ Head(q).kind # "put" => InOrder(Tail(q), lo, hi, broken)
           /\ (Head(q).kind = "put" /\ ~broken) => lo + 1 <= hi /\ InOrder(Tail(q), lo + 1, hi, FALSE)
<1> DEFINE u == Tail(q)
<1>1. /\ \A k \in DOMAIN u : k \in Nat /\ k + 1 \in DOMAIN q /\ u[k] = q[k + 1] /\ k + 1 # 1
      /\ \A k \in DOMAIN q : k = 1 \/ (k - 1 \in DOMAIN u /\ u[k - 1] = q[k])
      /\ 1 \in DOMAIN q /\ Head(q) = q[1] /\ \A k \in DOMAIN q : k \in Nat /\ k >= 1 /\ q[k] \in Items
  BY Taken
<1>2. \A k \in DOMAIN q : q[k].kind \in {"put", "frame"} => q[k].stamp \in Nat
  BY <1>1, ItemFields
<1> HIDE DEF u
<1>3. /\ \A k \in DOMAIN u : u[k].kind = "put" => lo < u[k].stamp /\ u[k].stamp <= hi
      /\ \A k \in DOMAIN u : u[k].kind = "frame" => u[k].stamp <= hi
  <2>1. \A k \in DOMAIN u : \E j \in DOMAIN q : u[k] = q[j]
    BY <1>1
  <2> QED
    BY SMT, <2>1 DEF InOrder
<1>4. ASSUME NEW j \in DOMAIN u, NEW k \in DOMAIN u, u[j].kind \in {"put", "frame"}, u[k].kind = "put", j < k
      PROVE  u[j].stamp < u[k].stamp
  <2>1. j + 1 \in DOMAIN q /\ k + 1 \in DOMAIN q /\ u[j] = q[j + 1] /\ u[k] = q[k + 1] /\ j + 1 < k + 1
    BY SMT, <1>1, <1>4
  <2> QED
    BY SMT, <1>4, <2>1 DEF InOrder
<1>5. InOrder(u, lo, hi, TRUE)
  BY <1>3, <1>4 DEF InOrder
<1>6. ASSUME Head(q).kind # "put"
      PROVE  InOrder(u, lo, hi, broken)
  <2>1. ~broken => \A n \in (lo + 1)..hi : \E k \in DOMAIN u : u[k].kind = "put" /\ u[k].stamp = n
    <3>1. SUFFICES ASSUME ~broken, NEW n \in (lo + 1)..hi
                   PROVE  \E k \in DOMAIN u : u[k].kind = "put" /\ u[k].stamp = n
      OBVIOUS
    <3>2. PICK k \in DOMAIN q : q[k].kind = "put" /\ q[k].stamp = n
      BY <3>1 DEF InOrder
    <3> QED
      BY <1>1, <1>6, <3>2
  <2> QED
    BY <1>3, <1>4, <2>1 DEF InOrder
<1>7. ASSUME Head(q).kind = "put", ~broken
      PROVE  lo + 1 <= hi /\ InOrder(u, lo + 1, hi, FALSE)
  <2>0. InOrder(q, lo, hi, FALSE)
    BY <1>7 DEF InOrder
  <2>1. q[1].stamp = lo + 1 /\ lo + 1 <= hi
    <3>1. q[1].stamp = lo + 1
      BY <1>1, <1>7, <2>0, OrderHead
    <3> QED
      BY <1>1, <1>7, <3>1 DEF InOrder
  <2>2. ASSUME NEW k \in DOMAIN u, u[k].kind = "put"
        PROVE  lo + 1 < u[k].stamp
    <3>1. k + 1 \in DOMAIN q /\ u[k] = q[k + 1] /\ 1 < k + 1
      BY SMT, <1>1
    <3> QED
      <4>1. q[1].kind = "put" /\ q[k + 1].kind = "put"
        BY <1>1, <1>7, <2>2, <3>1
      <4>2. \A j, m \in DOMAIN q : (q[j].kind = "put" /\ q[m].kind = "put" /\ j < m) => q[j].stamp < q[m].stamp
        BY DEF InOrder
      <4>3. q[1].stamp < q[k + 1].stamp
        BY <1>1, <3>1, <4>1, <4>2
      <4> QED
        BY <2>1, <3>1, <4>3
  <2>3. \A n \in (lo + 1 + 1)..hi : \E k \in DOMAIN u : u[k].kind = "put" /\ u[k].stamp = n
    <3>1. SUFFICES ASSUME NEW n \in (lo + 1 + 1)..hi
                   PROVE  \E k \in DOMAIN u : u[k].kind = "put" /\ u[k].stamp = n
      OBVIOUS
    <3>2. n \in (lo + 1)..hi /\ n # lo + 1
      BY SMT
    <3>3. PICK k \in DOMAIN q : q[k].kind = "put" /\ q[k].stamp = n
      BY <1>7, <3>2 DEF InOrder
    <3> QED
      BY <1>1, <2>1, <3>2, <3>3
  <2> QED
    BY <1>3, <1>4, <2>1, <2>2, <2>3 DEF InOrder
<1> QED
  BY <1>5, <1>6, <1>7 DEF u

-----------------------------------------------------------------------------
(* What an event has in a queue *)

\* The event has an op of this kind in the queue, and it has one at most.
Has(s, kind, e)  == \E k \in DOMAIN s : s[k].kind = kind /\ s[k].by = e
Once(s, kind, e) ==
    \A j, k \in DOMAIN s :
       (s[j].kind = kind /\ s[j].by = e /\ s[k].kind = kind /\ s[k].by = e) => j = k

\* The writes behind a barrier of the event have numbers above n.
Barred(q, e, n) ==
    \A j, k \in DOMAIN q :
       (q[j].kind = "barrier" /\ q[j].by = e /\ q[k].kind = "put" /\ j < k) => n < q[k].stamp

\* What the waits of an event are with one more item ...
LEMMA HasAppended ==
    ASSUME NEW S, NEW s \in Seq(S), NEW x \in S, NEW kind, NEW e
    PROVE  /\ Has(Append(s, x), kind, e) => Has(s, kind, e) \/ (x.kind = kind /\ x.by = e)
           /\ (Once(s, kind, e) /\ ~(x.kind = kind /\ x.by = e)) => Once(Append(s, x), kind, e)
           /\ ~Has(s, kind, e) => Once(Append(s, x), kind, e)
<1> DEFINE u == Append(s, x)
<1>1. \A k \in DOMAIN u : (k \in DOMAIN s /\ u[k] = s[k]) \/ (k = Len(s) + 1 /\ u[k] = x)
  BY Appended
<1> HIDE DEF u
<1>2. /\ Has(u, kind, e) => Has(s, kind, e) \/ (x.kind = kind /\ x.by = e)
      /\ (Once(s, kind, e) /\ ~(x.kind = kind /\ x.by = e)) => Once(u, kind, e)
      /\ ~Has(s, kind, e) => Once(u, kind, e)
  BY <1>1 DEF Has, Once
<1> QED
  BY <1>2 DEF u

\* ... when the head has run ...
LEMMA HasTaken ==
    ASSUME NEW S, NEW s \in Seq(S), s # <<>>, NEW kind, NEW e
    PROVE  /\ Has(Tail(s), kind, e) => Has(s, kind, e)
           /\ Once(s, kind, e) => Once(Tail(s), kind, e)
           /\ (Once(s, kind, e) /\ Head(s).kind = kind /\ Head(s).by = e) => ~Has(Tail(s), kind, e)
           /\ (Head(s).kind = kind /\ Head(s).by = e) => Has(s, kind, e)
<1> DEFINE u == Tail(s)
<1>1. /\ \A k \in DOMAIN u : k \in Nat /\ k + 1 \in DOMAIN s /\ u[k] = s[k + 1] /\ k + 1 # 1
      /\ 1 \in DOMAIN s /\ Head(s) = s[1]
  BY Taken
<1> HIDE DEF u
<1>2. Has(u, kind, e) => Has(s, kind, e)
  BY <1>1 DEF Has
<1>3. Once(s, kind, e) => Once(u, kind, e)
  BY SMT, <1>1 DEF Once
<1>4. (Once(s, kind, e) /\ Head(s).kind = kind /\ Head(s).by = e) => ~Has(u, kind, e)
  BY SMT, <1>1 DEF Has, Once
<1>5. (Head(s).kind = kind /\ Head(s).by = e) => Has(s, kind, e)
  BY <1>1 DEF Has
<1> QED
  BY <1>2, <1>3, <1>4, <1>5 DEF u

\* ... and when one from the middle has.
LEMMA HasRemoved ==
    ASSUME NEW S, NEW s \in Seq(S), NEW i \in DOMAIN s, NEW kind, NEW e
    PROVE  /\ Has(Without(s, i), kind, e) => Has(s, kind, e)
           /\ Once(s, kind, e) => Once(Without(s, i), kind, e)
           /\ (Once(s, kind, e) /\ s[i].kind = kind /\ s[i].by = e) => ~Has(Without(s, i), kind, e)
           /\ (s[i].kind = kind /\ s[i].by = e) => Has(s, kind, e)
<1> DEFINE u == Without(s, i)
<1>0. i \in Nat
  BY SMT
<1>1. \A k \in DOMAIN u :
         /\ k \in Nat
         /\ k < i => k \in DOMAIN s /\ u[k] = s[k]
         /\ k >= i => k + 1 \in DOMAIN s /\ u[k] = s[k + 1]
  BY Removed
<1> HIDE DEF u
<1>2. \A k \in DOMAIN u : \E j \in DOMAIN s : u[k] = s[j] /\ j # i /\ (j = k \/ j = k + 1)
  BY SMT, <1>0, <1>1
<1>3. Has(u, kind, e) => Has(s, kind, e)
  BY <1>2 DEF Has
<1>4. Once(s, kind, e) => Once(u, kind, e)
  <2>1. SUFFICES ASSUME Once(s, kind, e), NEW j \in DOMAIN u, NEW k \in DOMAIN u,
                        u[j].kind = kind, u[j].by = e, u[k].kind = kind, u[k].by = e
                 PROVE  j = k
    BY DEF Once
  <2>2. CASE j < i /\ k < i
    BY <1>1, <2>1, <2>2 DEF Once
  <2>3. CASE j >= i /\ k >= i
    <3>0. u[j] = s[j + 1] /\ u[k] = s[k + 1] /\ j + 1 \in DOMAIN s /\ k + 1 \in DOMAIN s
      BY <1>1, <2>3
    <3>1. j + 1 = k + 1
      BY <2>1, <3>0 DEF Once
    <3> QED
      BY SMT, <1>1, <3>1
  <2>4. CASE j < i /\ k >= i
    <3>1. j = k + 1
      BY <1>1, <2>1, <2>4 DEF Once
    <3> QED
      BY SMT, <1>0, <1>1, <2>4, <3>1
  <2>5. CASE j >= i /\ k < i
    <3>1. j + 1 = k
      BY <1>1, <2>1, <2>5 DEF Once
    <3> QED
      BY SMT, <1>0, <1>1, <2>5, <3>1
  <2> QED
    BY SMT, <1>0, <1>1, <2>2, <2>3, <2>4, <2>5
<1>5. (Once(s, kind, e) /\ s[i].kind = kind /\ s[i].by = e) => ~Has(u, kind, e)
  BY <1>2 DEF Has, Once
<1>6. (s[i].kind = kind /\ s[i].by = e) => Has(s, kind, e)
  BY DEF Has
<1> QED
  BY <1>3, <1>4, <1>5, <1>6 DEF u

\* The writes behind a barrier were made after it: of a queue that grows ...
LEMMA BarredAppended ==
    ASSUME NEW q \in Seq(Items), NEW x \in Items, NEW e, NEW n \in Nat,
           Barred(q, e, n) \/ ~Has(q, "barrier", e), x.kind = "put" => n < x.stamp
    PROVE  Barred(Append(q, x), e, n)
<1> DEFINE u == Append(q, x)
<1>1. /\ \A k \in DOMAIN u : (k \in DOMAIN q /\ u[k] = q[k]) \/ (k = Len(q) + 1 /\ u[k] = x)
      /\ \A k \in DOMAIN q : k \in Nat /\ k < Len(q) + 1
      /\ Len(q) \in Nat
  BY Appended
<1> HIDE DEF u
<1>2. SUFFICES ASSUME NEW j \in DOMAIN u, NEW k \in DOMAIN u,
                      u[j].kind = "barrier", u[j].by = e, u[k].kind = "put", j < k
               PROVE  n < u[k].stamp
  BY DEF Barred, u
<1>3. CASE u[k] = x
  BY <1>2, <1>3
<1>4. CASE k \in DOMAIN q /\ u[k] = q[k]
  <2>1. j \in DOMAIN q /\ u[j] = q[j]
    BY SMT, <1>1, <1>2, <1>4
  <2> QED
    BY <1>2, <1>4, <2>1 DEF Barred, Has
<1> QED
  BY <1>1, <1>3, <1>4

\* ... and of one whose head has run.
LEMMA BarredTaken ==
    ASSUME NEW q \in Seq(Items), q # <<>>, NEW e, NEW n \in Nat, Barred(q, e, n)
    PROVE  /\ Barred(Tail(q), e, n)
           /\ (Head(q).kind = "barrier" /\ Head(q).by = e)
                 => \A k \in DOMAIN q : q[k].kind = "put" => n < q[k].stamp
<1> DEFINE u == Tail(q)
<1>1. /\ \A k \in DOMAIN u : k \in Nat /\ k + 1 \in DOMAIN q /\ u[k] = q[k + 1]
      /\ 1 \in DOMAIN q /\ Head(q) = q[1]
      /\ \A k \in DOMAIN q : k \in Nat /\ k >= 1
  BY Taken
<1> HIDE DEF u
<1>2. ASSUME NEW j \in DOMAIN u, NEW k \in DOMAIN u,
             u[j].kind = "barrier", u[j].by = e, u[k].kind = "put", j < k
      PROVE  n < u[k].stamp
  <2>1. j + 1 < k + 1
    BY SMT, <1>1, <1>2
  <2> QED
    BY <1>1, <1>2, <2>1 DEF Barred
<1>3. ASSUME Head(q).kind = "barrier", Head(q).by = e, NEW k \in DOMAIN q, q[k].kind = "put"
      PROVE  n < q[k].stamp
  <2>1. 1 < k
    BY SMT, <1>1, <1>3
  <2> QED
    BY <1>1, <1>3, <2>1 DEF Barred
<1>4. Barred(u, e, n)
  BY <1>2 DEF Barred
<1> QED
  BY <1>3, <1>4 DEF u

-----------------------------------------------------------------------------
(* What a handler that goes on adds to the queue *)

PutOf(e, c, n) == [kind |-> "put", by |-> e, count |-> c, stamp |-> n]
FrameOf(e, n)  == [kind |-> "frame", by |-> e, stamp |-> n]

\* The work of e when hi writes were made before it, and their number after it.
WorkOf(e, work, hi, made) ==
    \/ work = <<>> /\ made = hi
    \/ /\ made = hi + 1
       /\ \E c \in Nat : work \in {<<PutOf(e, c, made)>>, <<PutOf(e, c, made), FrameOf(e, made)>>}

\* What e asks for as it goes on to s.
Asking(s, kind) == (s = "get" /\ kind = "get") \/ (s = "call" /\ kind = "barrier")

\* What a queue q is once it has the work of a handler that goes on: b.
Worked(q, b, lo, hi, made, broken) ==
    /\ b \in Seq(Items) /\ InOrder(b, lo, made, broken) /\ made \in Nat /\ hi <= made
    /\ \A f, kind : kind \in {"get", "barrier"} =>
          (Has(b, kind, f) => Has(q, kind, f)) /\ (Once(q, kind, f) => Once(b, kind, f))
    /\ \A f : \A n \in Nat : (n <= hi /\ Barred(q, f, n)) => Barred(b, f, n)

\* What the work of a handler does to the queue ...
LEMMA Works ==
    ASSUME NEW q \in Seq(Items), NEW e \in Events, NEW lo \in Nat, NEW hi \in Nat, NEW broken \in BOOLEAN,
           InOrder(q, lo, hi, broken), NEW work, NEW made, WorkOf(e, work, hi, made)
    PROVE  Worked(q, q \o work, lo, hi, made, broken)
<1>1. CASE work = <<>> /\ made = hi
  <2>1. q \o work = q
    BY SMT, <1>1
  <2>2. hi <= made
    BY SMT, <1>1
  <2> QED
    BY <1>1, <2>1, <2>2 DEF Worked
<1>2. ASSUME NEW c \in Nat, made = hi + 1,
             work = <<PutOf(e, c, made)>> \/ work = <<PutOf(e, c, made), FrameOf(e, made)>>
      PROVE  Worked(q, q \o work, lo, hi, made, broken)
  <2> DEFINE p == PutOf(e, c, made)
             x == FrameOf(e, made)
             g == Append(q, p)
  <2>1. made \in Nat /\ hi <= made /\ made <= made /\ \A n \in Nat : n <= hi => n < made
    BY SMT, <1>2
  <2>2. p \in Items /\ p.kind = "put" /\ p.stamp = made
    BY SMT, <2>1 DEF Items, PutOf
  <2>3. x \in Items /\ x.kind = "frame" /\ x.stamp = made
    BY SMT, <2>1 DEF Items, FrameOf
  <2>4. work = <<p>> \/ work = <<p, x>>
    BY <1>2
  <2> HIDE DEF p, x
  <2>5. g \in Seq(Items) /\ Append(g, x) \in Seq(Items)
    BY <2>2, <2>3, Appended
  <2>6. q \o work = g \/ q \o work = Append(g, x)
    <3>1. CASE work = <<p>>
      BY <2>2, <3>1, JoinedOne
    <3>2. CASE work = <<p, x>>
      <4>1. q \o <<p, x>> = Append(Append(q, p), x)
        BY SMT, <2>2, <2>3
      <4> QED
        BY <3>2, <4>1
    <3> QED
      BY <2>4, <3>1, <3>2
  <2>7. /\ InOrder(g, lo, made, broken)
        /\ \A f, kind : kind \in {"get", "barrier"} =>
              (Has(g, kind, f) => Has(q, kind, f)) /\ (Once(q, kind, f) => Once(g, kind, f))
        /\ \A f : \A n \in Nat : (n <= hi /\ Barred(q, f, n)) => Barred(g, f, n)
    <3>1. InOrder(g, lo, made, broken)
      BY <1>2, <2>2, OrderGrows
    <3>2. ASSUME NEW f, NEW kind, kind \in {"get", "barrier"}
          PROVE  (Has(g, kind, f) => Has(q, kind, f)) /\ (Once(q, kind, f) => Once(g, kind, f))
      BY <2>2, <3>2, HasAppended
    <3>3. ASSUME NEW f, NEW n \in Nat, n <= hi, Barred(q, f, n)
          PROVE  Barred(g, f, n)
      BY <2>1, <2>2, <3>3, BarredAppended
    <3> QED
      BY <3>1, <3>2, <3>3
  <2> HIDE DEF g
  <2>8. /\ InOrder(Append(g, x), lo, made, broken)
        /\ \A f, kind : kind \in {"get", "barrier"} =>
              (Has(Append(g, x), kind, f) => Has(q, kind, f)) /\ (Once(q, kind, f) => Once(Append(g, x), kind, f))
        /\ \A f : \A n \in Nat : (n <= hi /\ Barred(q, f, n)) => Barred(Append(g, x), f, n)
    <3>1. InOrder(Append(g, x), lo, made, broken)
      BY <2>1, <2>3, <2>5, <2>7, OrderGrows
    <3>2. ASSUME NEW f, NEW kind, kind \in {"get", "barrier"}
          PROVE  /\ Has(Append(g, x), kind, f) => Has(q, kind, f)
                 /\ Once(q, kind, f) => Once(Append(g, x), kind, f)
      <4>1. ~(x.kind = kind /\ x.by = f)
        BY <2>3, <3>2
      <4>2. /\ Has(Append(g, x), kind, f) => Has(g, kind, f) \/ (x.kind = kind /\ x.by = f)
            /\ (Once(g, kind, f) /\ ~(x.kind = kind /\ x.by = f)) => Once(Append(g, x), kind, f)
        BY <2>3, <2>5, HasAppended
      <4> QED
        BY <2>7, <3>2, <4>1, <4>2
    <3>3. ASSUME NEW f, NEW n \in Nat, n <= hi, Barred(q, f, n)
          PROVE  Barred(Append(g, x), f, n)
      BY <2>3, <2>5, <2>7, <3>3, BarredAppended
    <3> QED
      BY <3>1, <3>2, <3>3
  <2> QED
    BY <2>1, <2>5, <2>6, <2>7, <2>8 DEF Worked
<1> QED
  BY <1>1, <1>2 DEF WorkOf

\* The queue q is u once e went on to s, and the writes made are made, not hi.
Grown(q, u, e, s, lo, hi, made, broken) ==
    /\ u \in Seq(Items) /\ InOrder(u, lo, made, broken) /\ made \in Nat /\ hi <= made
    /\ \A f, kind : kind \in {"get", "barrier"} =>
          /\ Has(u, kind, f) => Has(q, kind, f) \/ (f = e /\ Asking(s, kind))
          /\ (Once(q, kind, f) /\ ~(f = e /\ Asking(s, kind))) => Once(u, kind, f)
          /\ (Once(q, kind, f) /\ ~Has(q, kind, f)) => Once(u, kind, f)
    /\ \A f : \A n \in Nat : (n <= hi /\ Barred(q, f, n)) => Barred(u, f, n)
    /\ ~Has(q, "barrier", e) => Barred(u, e, made)

\* ... and its work with what it asks for.
LEMMA Grows ==
    ASSUME NEW q \in Seq(Items), NEW e \in Events, NEW lo \in Nat, NEW hi \in Nat, NEW broken \in BOOLEAN,
           InOrder(q, lo, hi, broken), NEW work, NEW made, WorkOf(e, work, hi, made), NEW s
    PROVE  Grown(q, q \o work \o Asks(e, s), e, s, lo, hi, made, broken)
<1> DEFINE b == q \o work
<1>1. /\ b \in Seq(Items) /\ InOrder(b, lo, made, broken) /\ made \in Nat /\ hi <= made
      /\ \A f, kind : kind \in {"get", "barrier"} =>
            (Has(b, kind, f) => Has(q, kind, f)) /\ (Once(q, kind, f) => Once(b, kind, f))
      /\ \A f : \A n \in Nat : (n <= hi /\ Barred(q, f, n)) => Barred(b, f, n)
  <2>1. Worked(q, b, lo, hi, made, broken)
    BY Works
  <2> QED
    BY <2>1 DEF Worked
<1> HIDE DEF b
<1>2. CASE s \notin {"get", "call"}
  <2>1. b \o Asks(e, s) = b
    BY SMT, <1>1, <1>2 DEF Asks
  <2>2. ~Has(q, "barrier", e) => Barred(b, e, made)
    BY <1>1 DEF Barred, Has
  <2> QED
    BY <1>1, <1>2, <2>1, <2>2 DEF Asking, b, Grown
<1>3. CASE s \in {"get", "call"}
  <2>1. PICK x \in Items :
           Asks(e, s) = <<x>> /\ x.by = e /\ x.kind \in {"get", "barrier"} /\ Asking(s, x.kind)
           /\ \A kind : Asking(s, kind) => kind = x.kind
    <3>1. CASE s = "get"
      <4>1. [kind |-> "get", by |-> e] \in Items
        BY SMT DEF Items
      <4> QED
        BY SMT, <3>1, <4>1 DEF Asks, Asking
    <3>2. CASE s = "call"
      <4>1. [kind |-> "barrier", by |-> e] \in Items
        BY SMT DEF Items
      <4> QED
        BY SMT, <3>2, <4>1 DEF Asks, Asking
    <3> QED
      BY <1>3, <3>1, <3>2
  <2>2. b \o Asks(e, s) = Append(b, x)
    BY <1>1, <2>1, JoinedOne
  <2>3. Append(b, x) \in Seq(Items) /\ InOrder(Append(b, x), lo, made, broken)
    <3>1. Append(b, x) \in Seq(Items)
      BY <1>1, <2>1, Appended
    <3>2. InOrder(Append(b, x), lo, made, broken)
      BY <1>1, <2>1, OrderGrows
    <3> QED
      BY <3>1, <3>2
  <2>4. ASSUME NEW f, NEW kind, kind \in {"get", "barrier"}
        PROVE  /\ Has(Append(b, x), kind, f) => Has(q, kind, f) \/ (f = e /\ Asking(s, kind))
               /\ (Once(q, kind, f) /\ ~(f = e /\ Asking(s, kind))) => Once(Append(b, x), kind, f)
               /\ (Once(q, kind, f) /\ ~Has(q, kind, f)) => Once(Append(b, x), kind, f)
    <3>1. /\ Has(Append(b, x), kind, f) => Has(b, kind, f) \/ (x.kind = kind /\ x.by = f)
          /\ (Once(b, kind, f) /\ ~(x.kind = kind /\ x.by = f)) => Once(Append(b, x), kind, f)
          /\ ~Has(b, kind, f) => Once(Append(b, x), kind, f)
      BY <1>1, <2>1, HasAppended
    <3> QED
      BY <1>1, <2>1, <2>4, <3>1
  <2>5. ASSUME NEW f, NEW n \in Nat, n <= hi, Barred(q, f, n)
        PROVE  Barred(Append(b, x), f, n)
    BY <1>1, <2>1, <2>5, BarredAppended
  <2>6. ASSUME ~Has(q, "barrier", e)
        PROVE  Barred(Append(b, x), e, made)
    BY <1>1, <2>1, <2>6, BarredAppended
  <2> QED
    BY <1>1, <2>2, <2>3, <2>4, <2>5, <2>6 DEF b, Grown
<1> QED
  BY <1>2, <1>3

-----------------------------------------------------------------------------
(* Types *)

Gates == {"none", "shut", "open", "closed"}

Types ==
    /\ mailbox \in Seq(Events) /\ first \in Events \cup {Nil}
    /\ life \in Nat /\ life <= MaxLives /\ alive \in BOOLEAN /\ (alive => life \in Lives)
    /\ DOMAIN ev = Events /\ wrote \in [Events -> Nat \cup {Nil}]
    /\ gate \in [Events -> Gates] /\ stamp \in [Events -> Nat]
    /\ callbacks \in Seq(Results)
    /\ queue \in [Lives -> Seq(Items)] /\ failed \in [Lives -> BOOLEAN]
    /\ issued \in [Lives -> Nat] /\ committed \in [Lives -> Nat]
    /\ stored \in Nat

\* The state begins well typed.
LEMMA TypesInit == Init => Types
<1> SUFFICES ASSUME Init PROVE Types
  OBVIOUS
<1>1. mailbox \in Seq(Events) /\ callbacks \in Seq(Results) /\ queue \in [Lives -> Seq(Items)]
  BY SMT DEF Init
<1>2. life \in Nat /\ life <= MaxLives /\ alive = FALSE /\ stored \in Nat /\ first = Nil
  BY SMT, ObjectAssumption DEF Init
<1>3. /\ DOMAIN ev = Events /\ wrote \in [Events -> Nat \cup {Nil}]
      /\ gate \in [Events -> Gates] /\ stamp \in [Events -> Nat]
  BY SMT DEF Init, Gates
<1>4. failed \in [Lives -> BOOLEAN] /\ issued \in [Lives -> Nat] /\ committed \in [Lives -> Nat]
  BY SMT DEF Init
<1> QED
  BY <1>1, <1>2, <1>3, <1>4 DEF Types

\* The handler of e goes on to s: it makes work, and asks for what it awaits.
Goes(e, s, work) ==
    /\ GoesOn(e, s, work)
    /\ s \in {"call", "kv", "get", "put", "ready"}
    /\ WorkOf(e, work, issued[life], issued'[life])

\* A read result makes the handler write, and go on to s ...
Writing(c, s, work) ==
    /\ c.kind = "get" /\ c.ok /\ s # "get"
    /\ wrote' = [wrote EXCEPT ![c.by] = c.count + 1]
    /\ issued'[life] = issued[life] + 1
    /\ work \in {<<PutOf(c.by, c.count + 1, issued'[life])>>,
                 <<PutOf(c.by, c.count + 1, issued'[life]), FrameOf(c.by, issued'[life])>>}

\* ... and any other it awaits makes it go on.
Resuming(c, s, work) ==
    /\ work = <<>> /\ UNCHANGED wrote
    /\ c.kind = "put" => ev[c.by] = "put"
    /\ s = "get" => c.kind = "call"

Ignoring(c) ==
    c.kind = "put" /\ ev[c.by] # "put" /\ UNCHANGED <<ev, queue, issued, stamp, gate, wrote>>

Running(c) ==
    \/ Ignoring(c)
    \/ \E s, work : Goes(c.by, s, work) /\ (Writing(c, s, work) \/ Resuming(c, s, work))

\* The event that is admitted goes on, from `first` or from the mailbox.
LEMMA Admits ==
    ASSUME Types, alive, Admit
    PROVE  \E e \in Events, s \in {"call", "kv", "get"} :
              /\ Goes(e, s, <<>>)
              /\ \/ first = e /\ first' = Nil /\ UNCHANGED mailbox
                 \/ first = Nil /\ first' = Nil /\ mailbox # <<>> /\ e = Head(mailbox) /\ mailbox' = Tail(mailbox)
<1> DEFINE e == IF first # Nil THEN first ELSE Head(mailbox)
<1>1. e \in Events
  <2>1. mailbox # <<>> => Head(mailbox) \in Events
    BY SMT DEF Types
  <2> QED
    BY <2>1 DEF Types, Admit
<1>2. PICK s \in {"call", "kv", "get"} : GoesOn(e, s, <<>>)
  BY DEF Admit
<1>3. issued'[life] = issued[life]
  BY SMT, <1>2 DEF GoesOn, Types
<1>4. Goes(e, s, <<>>)
  BY <1>2, <1>3 DEF Goes, WorkOf
<1>5. \/ first = e /\ first' = Nil /\ UNCHANGED mailbox
      \/ first = Nil /\ first' = Nil /\ mailbox # <<>> /\ e = Head(mailbox) /\ mailbox' = Tail(mailbox)
  BY DEF Admit
<1> QED
  BY <1>1, <1>4, <1>5

\* The callback that runs fits, and its handler goes on or ignores it.
LEMMA Runs ==
    ASSUME Types, RunCallback
    PROVE  \E i \in DOMAIN callbacks :
              /\ Fits(callbacks[i]) /\ callbacks[i] \in Results
              /\ callbacks' = Without(callbacks, i)
              /\ failure' = (failure \/ (callbacks[i].kind = "put" /\ ~callbacks[i].ok))
              /\ Running(callbacks[i])
<1>1. PICK i \in NextCallback :
         LET c == callbacks[i]
             e == c.by
         IN  /\ callbacks' = Without(callbacks, i)
             /\ failure' = (failure \/ (c.kind = "put" /\ ~c.ok))
             /\ CASE c.kind = "get" /\ c.ok -> Writes(e, c.count)
                  [] c.kind = "call" /\ wrote[e] = Nil -> GoesOn(e, "get", <<>>) /\ UNCHANGED wrote
                  [] c.kind = "put" /\ ev[e] = "put" /\ c.ok ->
                        (\E s \in {"call", "kv", "ready"} : GoesOn(e, s, <<>>)) /\ UNCHANGED wrote
                  [] c.kind = "put" /\ ev[e] # "put" ->
                        UNCHANGED <<ev, queue, issued, stamp, gate, wrote>>
                  [] OTHER -> GoesOn(e, "ready", <<>>) /\ UNCHANGED wrote
  BY DEF RunCallback
<1> DEFINE c == callbacks[i]
<1>2. i \in DOMAIN callbacks /\ Fits(c) /\ c \in Results
  <2>1. i \in DOMAIN callbacks /\ Fits(c)
    BY DEF NextCallback
  <2> QED
    BY SMT, <2>1 DEF Types
<1>3. c.kind \in {"get", "put", "call"} /\ (c.kind = "get" => c.count + 1 \in Nat)
  BY SMT, <1>2, ResultFields
<1> HIDE DEF c
<1>4. \/ c.kind = "get" /\ c.ok /\ Writes(c.by, c.count)
      \/ c.kind = "call" /\ GoesOn(c.by, "get", <<>>) /\ UNCHANGED wrote
      \/ c.kind = "put" /\ ev[c.by] = "put" /\ (\E s \in {"call", "kv", "ready"} : GoesOn(c.by, s, <<>>)) /\ UNCHANGED wrote
      \/ Ignoring(c)
      \/ (c.kind = "put" => ev[c.by] = "put") /\ GoesOn(c.by, "ready", <<>>) /\ UNCHANGED wrote
  BY <1>1, <1>3 DEF c, Ignoring
<1> SUFFICES Running(c)
  BY <1>1, <1>2 DEF c
<1>10. issued \in [Lives -> Nat] /\ life \in Lives
  BY DEF Types, RunCallback
<1>5. ASSUME NEW s \in {"call", "kv", "get", "put", "ready"}, GoesOn(c.by, s, <<>>)
      PROVE  Goes(c.by, s, <<>>)
  <2>0. issued' = [issued EXCEPT ![life] = issued[life]]
    BY <1>5 DEF GoesOn
  <2>1. issued'[life] = issued[life]
    BY <1>10, <2>0
  <2> QED
    BY <1>5, <2>1 DEF Goes, WorkOf
<1>6. CASE c.kind = "get" /\ c.ok /\ Writes(c.by, c.count)
  <2> DEFINE n == issued[life] + 1
             put == PutOf(c.by, c.count + 1, n)
             frame == FrameOf(c.by, n)
  <2>1. PICK s \in {"put", "call", "kv", "ready"}, work \in {<<put>>, <<put, frame>>} : GoesOn(c.by, s, work)
    BY <1>6 DEF Writes, PutOf, FrameOf
  <2>2. work # <<>>
    <3> HIDE DEF put, frame
    <3> QED
      BY SMT, <2>1
  <2>3. issued'[life] = n
    <3>1. issued' = [issued EXCEPT ![life] = n]
      BY <2>1, <2>2 DEF GoesOn
    <3> QED
      BY <1>10, <3>1
  <2>4. wrote' = [wrote EXCEPT ![c.by] = c.count + 1]
    BY <1>6 DEF Writes
  <2>5. Goes(c.by, s, work)
    BY <1>3, <1>6, <2>1, <2>3 DEF Goes, WorkOf
  <2>6. Writing(c, s, work)
    BY <1>6, <2>1, <2>3, <2>4 DEF Writing
  <2> QED
    BY <2>5, <2>6 DEF Running
<1>7. CASE c.kind = "call" /\ GoesOn(c.by, "get", <<>>) /\ UNCHANGED wrote
  BY <1>5, <1>7 DEF Running, Resuming
<1>8. CASE c.kind = "put" /\ ev[c.by] = "put" /\ (\E s \in {"call", "kv", "ready"} : GoesOn(c.by, s, <<>>)) /\ UNCHANGED wrote
  BY <1>5, <1>8 DEF Running, Resuming
<1>9. CASE (c.kind = "put" => ev[c.by] = "put") /\ GoesOn(c.by, "ready", <<>>) /\ UNCHANGED wrote
  <2>1. Goes(c.by, "ready", <<>>) /\ Resuming(c, "ready", <<>>)
    BY <1>5, <1>9 DEF Resuming
  <2> QED
    BY <2>1 DEF Running
<1> QED
  BY <1>4, <1>6, <1>7, <1>8, <1>9 DEF Running

-----------------------------------------------------------------------------
(* The queues stay in order *)

Order == \A l \in Lives : InOrder(queue[l], committed[l], issued[l], failed[l])

\* What a handler that goes on changes.
LEMMA GoesMakes ==
    ASSUME Types, Order, alive, NEW e \in Events, NEW s, NEW work, Goes(e, s, work), UNCHANGED <<life, failed, committed>>
    PROVE  /\ DOMAIN ev' = Events /\ ev'[e] = s /\ \A f \in Events : f # e => ev'[f] = ev[f]
           /\ gate' \in [Events -> Gates] /\ \A f \in Events : f # e => gate'[f] = gate[f]
           /\ gate'[e] = IF s = "call" THEN "shut" ELSE IF s = "kv" THEN "open" ELSE "none"
           /\ stamp' \in [Events -> Nat] /\ \A f \in Events : f # e => stamp'[f] = stamp[f]
           /\ s \in {"call", "ready"} => stamp'[e] = issued'[life]
           /\ queue' \in [Lives -> Seq(Items)] /\ \A l \in Lives : l # life => queue'[l] = queue[l]
           /\ queue'[life] = queue[life] \o work \o Asks(e, s)
           /\ issued' \in [Lives -> Nat] /\ Order'
           /\ Grown(queue[life], queue'[life], e, s, committed[life], issued[life], issued'[life], failed[life])
<1>1. /\ life \in Lives /\ s \in {"call", "kv", "get", "put", "ready"}
      /\ queue \in [Lives -> Seq(Items)] /\ issued \in [Lives -> Nat] /\ committed \in [Lives -> Nat]
      /\ failed \in [Lives -> BOOLEAN] /\ InOrder(queue[life], committed[life], issued[life], failed[life])
      /\ WorkOf(e, work, issued[life], issued'[life])
  BY DEF Types, Order, Goes
<1>2. PICK made : issued' = [issued EXCEPT ![life] = made]
                  /\ stamp' = IF s \in {"call", "ready"} THEN [stamp EXCEPT ![e] = made] ELSE stamp
  BY DEF Goes, GoesOn
<1>3. made = issued'[life]
  BY <1>1, <1>2
<1> DEFINE q == queue[life]
           u == q \o work \o Asks(e, s)
<1>4. Grown(q, u, e, s, committed[life], issued[life], made, failed[life])
  BY <1>1, <1>3, Grows
<1>5. queue' = [queue EXCEPT ![life] = u]
  BY DEF Goes, GoesOn
<1> HIDE DEF u, q
<1>6. /\ queue' \in [Lives -> Seq(Items)] /\ (\A l \in Lives : l # life => queue'[l] = queue[l])
      /\ queue'[life] = u
  BY <1>1, <1>4, <1>5 DEF Grown
<1>7. /\ issued' \in [Lives -> Nat] /\ (\A l \in Lives : l # life => issued'[l] = issued[l])
      /\ issued'[life] = made
  BY <1>1, <1>2, <1>4 DEF Grown
<1>8. Order'
  BY <1>4, <1>6, <1>7 DEF Order, Grown
<1>9. DOMAIN ev' = Events /\ ev'[e] = s /\ \A f \in Events : f # e => ev'[f] = ev[f]
  BY DEF Goes, GoesOn, Types
<1>10. /\ stamp' \in [Events -> Nat] /\ \A f \in Events : f # e => stamp'[f] = stamp[f]
       /\ s \in {"call", "ready"} => stamp'[e] = made
  BY SMT, <1>2, <1>4 DEF Types, Grown
<1>11. /\ gate' \in [Events -> Gates] /\ \A f \in Events : f # e => gate'[f] = gate[f]
       /\ gate'[e] = IF s = "call" THEN "shut" ELSE IF s = "kv" THEN "open" ELSE "none"
  BY SMT DEF Goes, GoesOn, Types, Gates
<1> QED
  BY <1>3, <1>4, <1>6, <1>7, <1>8, <1>9, <1>10, <1>11 DEF u, q

\* A step that changes no more than the host, `blocked` and `failure`.
Quiet ==
    /\ UNCHANGED <<mailbox, life, alive, first, ev, wrote, gate, callbacks, storeVars, stamp, early, overlap>>
    /\ failure' \in {failure, TRUE}

\* The kinds of steps there are.
LEMMA Steps ==
    ASSUME [Next]_vars
    PROVE  \/ Quiet \/ Build \/ BuildFails \/ (alive /\ Drop) \/ Admit \/ RunCallback
           \/ \E e \in Events : Send(e) \/ Hold(e) \/ Answer(e) \/ CallReturns(e)
           \/ \E l \in Lives : RunQueue(l)
<1>1. CASE Close \/ (\E e \in Events : CallerLeaves(e)) \/ SeesClose \/ Unblock \/ UNCHANGED vars
  BY <1>1 DEF Close, CallerLeaves, SeesClose, Unblock, Quiet, vars, hostVars, lifeVars, storeVars
<1>2. CASE Broken \/ Stopped \/ GateTimesOut \/ Idle \/ DrainEnds
  BY <1>2 DEF Broken, Stopped, GateTimesOut, Idle, DrainEnds
<1> QED
  BY <1>1, <1>2 DEF Next, Turn

\* What the queue of a life runs, and what that changes.
LEMMA QueueMakes ==
    ASSUME Types, Order, NEW l \in Lives, RunQueue(l)
    PROVE  /\ queue[l] \in Seq(Items) /\ queue[l] # <<>> /\ Head(queue[l]) \in Items
           /\ queue' \in [Lives -> Seq(Items)] /\ queue'[l] = Tail(queue[l])
           /\ \A m \in Lives : m # l => queue'[m] = queue[m]
           /\ callbacks' \in Seq(Results) /\ gate' \in [Events -> Gates]
           /\ failed' \in [Lives -> BOOLEAN] /\ committed' \in [Lives -> Nat] /\ stored' \in Nat
           /\ Order'
<1> DEFINE q == queue[l]
           w == Head(q)
<1>1. /\ q \in Seq(Items) /\ q # <<>> /\ l \in Lives
      /\ queue \in [Lives -> Seq(Items)] /\ failed \in [Lives -> BOOLEAN] /\ stored \in Nat
      /\ committed \in [Lives -> Nat] /\ issued \in [Lives -> Nat]
      /\ callbacks \in Seq(Results) /\ gate \in [Events -> Gates]
  BY DEF Types, RunQueue
<1>2. Tail(q) \in Seq(Items) /\ w \in Items
  BY <1>1, Taken
<1>3. w.by \in Events /\ w.kind \in {"get", "barrier", "put", "frame"} /\ (w.kind = "put" => w.count \in Nat)
  BY <1>2, ItemFields
<1>4. /\ queue' \in [Lives -> Seq(Items)] /\ queue'[l] = Tail(q)
      /\ \A m \in Lives : m # l => queue'[m] = queue[m]
  BY <1>1, <1>2 DEF RunQueue, Popped
<1>5. InOrder(q, committed[l], issued[l], failed[l])
  BY DEF Order
<1>6. /\ InOrder(Tail(q), committed[l], issued[l], TRUE)
      /\ w.kind # "put" => InOrder(Tail(q), committed[l], issued[l], failed[l])
      /\ (w.kind = "put" /\ ~failed[l]) => InOrder(Tail(q), committed[l] + 1, issued[l], FALSE)
  BY <1>1, <1>5, OrderShrinks
<1>7. UNCHANGED issued
  BY DEF RunQueue
<1> HIDE DEF q, w
<1>8. ASSUME NEW c \in Results, Tells(l, c)
      PROVE  callbacks' \in Seq(Results)
  BY <1>1, <1>8, Appended DEF Tells
<1>9. CASE w.kind = "get" \/ w.kind = "frame" \/ w.kind = "barrier"
  <2>1. UNCHANGED <<failed, committed, stored>>
    BY <1>9 DEF RunQueue, w, q
  <2>2. callbacks' \in Seq(Results)
    <3>1. CASE w.kind = "get"
      <4>1. Tells(l, [kind |-> "get", by |-> w.by, ok |-> ~failed[l], count |-> stored])
        BY <3>1 DEF RunQueue, w, q
      <4>2. [kind |-> "get", by |-> w.by, ok |-> ~failed[l], count |-> stored] \in Results
        BY SMT, <1>1, <1>3 DEF Results
      <4> QED
        BY <1>8, <4>1, <4>2
    <3>2. CASE w.kind # "get"
      BY <1>1, <1>9, <3>2 DEF RunQueue, w, q
    <3> QED
      BY <3>1, <3>2
  <2>3. gate' \in [Events -> Gates]
    <3>1. UNCHANGED gate \/ gate' = [gate EXCEPT ![w.by] = "closed"] \/ gate' = [gate EXCEPT ![w.by] = "open"]
      BY <1>9 DEF RunQueue, Opens, w, q
    <3>2. "open" \in Gates /\ "closed" \in Gates
      BY DEF Gates
    <3> QED
      BY <1>1, <1>3, <3>1, <3>2
  <2>4. Order'
    BY <1>4, <1>6, <1>7, <1>9, <2>1 DEF Order
  <2> QED
    BY <1>1, <1>2, <1>4, <2>1, <2>2, <2>3, <2>4 DEF q, w
<1>10. CASE w.kind = "put"
  <2>1. PICK ok \in BOOLEAN : Tells(l, [kind |-> "put", by |-> w.by, ok |-> ok])
    BY <1>10 DEF RunQueue, w, q
  <2>2. callbacks' \in Seq(Results)
    <3>1. [kind |-> "put", by |-> w.by, ok |-> ok] \in Results
      BY SMT, <1>3 DEF Results
    <3> QED
      BY <1>8, <2>1, <3>1
  <2>3. UNCHANGED gate
    BY <1>10 DEF RunQueue, w, q
  <2>4. \/ UNCHANGED <<committed, stored>> /\ failed' = [failed EXCEPT ![l] = TRUE]
        \/ /\ ~failed[l] /\ failed' = [failed EXCEPT ![l] = FALSE] /\ stored' = w.count
           /\ committed' = [committed EXCEPT ![l] = @ + 1]
    <3>1. CASE failed[l]
      <4>1. UNCHANGED <<failed, committed, stored>>
        BY <1>10, <3>1 DEF RunQueue, w, q
      <4>2. failed = [failed EXCEPT ![l] = TRUE]
        BY SMT, <1>1, <3>1
      <4> QED
        BY <4>1, <4>2
    <3>2. CASE ~failed[l]
      <4>1. PICK o \in BOOLEAN :
                /\ failed' = [failed EXCEPT ![l] = ~o]
                /\ stored' = IF o THEN w.count ELSE stored
                /\ committed' = IF o THEN [committed EXCEPT ![l] = @ + 1] ELSE committed
        BY <1>10, <3>2 DEF RunQueue, Sticks, w, q
      <4> QED
        BY <3>2, <4>1
    <3> QED
      BY <3>1, <3>2
  <2>5. failed' \in [Lives -> BOOLEAN] /\ committed' \in [Lives -> Nat] /\ stored' \in Nat
    <3>1. committed[l] + 1 \in Nat
      BY SMT, <1>1
    <3> QED
      BY <1>1, <1>3, <1>10, <2>4, <3>1
  <2>6. Order'
    <3>1. CASE UNCHANGED <<committed, stored>> /\ failed' = [failed EXCEPT ![l] = TRUE]
      BY <1>1, <1>4, <1>6, <1>7, <3>1 DEF Order
    <3>2. CASE ~failed[l] /\ failed' = [failed EXCEPT ![l] = FALSE] /\ committed' = [committed EXCEPT ![l] = @ + 1]
      BY <1>1, <1>4, <1>6, <1>7, <1>10, <3>2 DEF Order
    <3> QED
      BY <2>4, <3>1, <3>2
  <2> QED
    BY <1>1, <1>2, <1>4, <2>2, <2>3, <2>5, <2>6 DEF q, w
<1> QED
  BY <1>3, <1>9, <1>10

\* Every step keeps the types and the order of the queues.
LEMMA TypesStep == Types /\ Order /\ [Next]_vars => Types' /\ Order'
<1> SUFFICES ASSUME Types, Order, [Next]_vars
             PROVE  Types' /\ Order'
  OBVIOUS
<1> USE DEF hostVars, lifeVars, storeVars
<1>1. CASE Quiet
  BY <1>1 DEF Quiet, Types, Order
<1>2. CASE Build
  <2>1. mailbox' \in Seq(Events) /\ first' \in Events
    BY <1>2, Taken DEF Build, Types
  <2>2. life' \in Nat /\ life' <= MaxLives /\ life' \in Lives
    BY SMT, <1>2, ObjectAssumption DEF Build, Types, Lives
  <2>3. callbacks' \in Seq(Results)
    BY SMT, <1>2 DEF Build
  <2> QED
    BY <1>2, <2>1, <2>2, <2>3 DEF Build, Types, Order
<1>3. CASE BuildFails
  <2>1. mailbox' \in Seq(Events)
    BY <1>3, Taken DEF BuildFails, Types
  <2> QED
    BY <1>3, <2>1 DEF BuildFails, Types, Order
<1>4. CASE alive /\ Drop
  <2>1. callbacks' \in Seq(Results)
    BY SMT, <1>4 DEF Drop
  <2>2. gate' \in [Events -> Gates]
    BY SMT, <1>4 DEF Drop, Gates
  <2> QED
    BY <1>4, <2>1, <2>2 DEF Drop, Types, Order
<1>5. CASE Admit
  <2>1. alive /\ UNCHANGED <<life, alive, failed, committed, wrote, callbacks, stored>>
    BY <1>5 DEF Admit
  <2>2. PICK e \in Events, s \in {"call", "kv", "get"} :
           /\ Goes(e, s, <<>>)
           /\ \/ first = e /\ first' = Nil /\ UNCHANGED mailbox
              \/ first = Nil /\ first' = Nil /\ mailbox # <<>> /\ e = Head(mailbox) /\ mailbox' = Tail(mailbox)
    BY <1>5, <2>1, Admits
  <2>3. mailbox' \in Seq(Events) /\ first' = Nil
    <3>1. mailbox \in Seq(Events) /\ (mailbox # <<>> => Tail(mailbox) \in Seq(Events))
      BY Taken DEF Types
    <3> QED
      BY <2>2, <3>1
  <2>4. /\ DOMAIN ev' = Events /\ gate' \in [Events -> Gates] /\ stamp' \in [Events -> Nat]
        /\ queue' \in [Lives -> Seq(Items)] /\ issued' \in [Lives -> Nat] /\ Order'
    BY <2>1, <2>2, GoesMakes
  <2> QED
    BY <2>1, <2>3, <2>4 DEF Types
<1>6. CASE RunCallback
  <2>1. alive /\ UNCHANGED <<mailbox, first, life, alive, failed, committed, stored>>
    BY <1>6 DEF RunCallback
  <2>2. PICK i \in DOMAIN callbacks :
           callbacks[i] \in Results /\ callbacks' = Without(callbacks, i) /\ Running(callbacks[i])
    BY <1>6, Runs
  <2>3. callbacks' \in Seq(Results)
    BY <2>2, Removed DEF Types
  <2> DEFINE c == callbacks[i]
  <2>4. c \in Results /\ Running(c)
    BY <2>2
  <2> HIDE DEF c
  <2>5. CASE Ignoring(c)
    BY <2>1, <2>3, <2>5 DEF Ignoring, Types, Order
  <2>6. ASSUME NEW s, NEW work, Goes(c.by, s, work), Writing(c, s, work) \/ Resuming(c, s, work)
        PROVE  Types' /\ Order'
    <3>1. c.by \in Events
      BY <2>4, ResultFields
    <3>2. /\ DOMAIN ev' = Events /\ gate' \in [Events -> Gates] /\ stamp' \in [Events -> Nat]
          /\ queue' \in [Lives -> Seq(Items)] /\ issued' \in [Lives -> Nat] /\ Order'
      BY <2>1, <2>6, <3>1, GoesMakes
    <3>3. wrote' \in [Events -> Nat \cup {Nil}]
      <4>1. CASE Resuming(c, s, work)
        BY <4>1 DEF Resuming, Types
      <4>2. CASE Writing(c, s, work)
        <5>1. c.count + 1 \in Nat
          BY SMT, <2>4, <4>2, ResultFields DEF Writing
        <5> QED
          BY <3>1, <4>2, <5>1 DEF Writing, Types
      <4> QED
        BY <2>6, <4>1, <4>2
    <3> QED
      BY <2>1, <2>3, <3>2, <3>3 DEF Types
  <2> QED
    BY <2>4, <2>5, <2>6 DEF Running
<1>7. ASSUME NEW e \in Events, Send(e)
      PROVE  Types' /\ Order'
  <2>1. mailbox' \in Seq(Events)
    BY <1>7, Appended DEF Send, Types
  <2> QED
    BY <1>7, <2>1 DEF Send, Types, Order
<1>8. ASSUME NEW e \in Events, Hold(e)
      PROVE  Types' /\ Order'
  <2> DEFINE x == [kind |-> "barrier", by |-> e]
  <2>1. x \in Items /\ x.kind = "barrier"
    BY SMT DEF Items
  <2> HIDE DEF x
  <2>2. /\ alive /\ gate' = [gate EXCEPT ![e] = "shut"] /\ queue' = [queue EXCEPT ![life] = Append(@, x)]
        /\ UNCHANGED <<mailbox, first, life, alive, ev, wrote, callbacks, failed, issued, committed, stored, stamp>>
    BY <1>8 DEF Hold, Holds, x
  <2>3. queue[life] \in Seq(Items) /\ life \in Lives /\ InOrder(queue[life], committed[life], issued[life], failed[life])
    BY <2>2 DEF Types, Order
  <2>4. Append(queue[life], x) \in Seq(Items) /\ InOrder(Append(queue[life], x), committed[life], issued[life], failed[life])
    <3>1. Append(queue[life], x) \in Seq(Items)
      BY <2>1, <2>3, Appended
    <3>2. committed[life] \in Nat /\ issued[life] \in Nat /\ failed[life] \in BOOLEAN
      BY <2>3 DEF Types
    <3>3. InOrder(Append(queue[life], x), committed[life], issued[life], failed[life])
      BY <2>1, <2>3, <3>2, OrderGrows
    <3> QED
      BY <3>1, <3>3
  <2>5. queue' \in [Lives -> Seq(Items)] /\ Order'
    BY <2>2, <2>3, <2>4 DEF Types, Order
  <2>6. gate' \in [Events -> Gates]
    BY <2>2 DEF Types, Gates
  <2> QED
    BY <2>2, <2>5, <2>6 DEF Types
<1>9. ASSUME NEW e \in Events, Answer(e)
      PROVE  Types' /\ Order'
  <2>1. gate' \in [Events -> Gates]
    BY <1>9 DEF Answer, Types, Gates
  <2> QED
    BY <1>9, <2>1 DEF Answer, Types, Order
<1>10. ASSUME NEW e \in Events, CallReturns(e)
       PROVE  Types' /\ Order'
  <2>1. gate' \in [Events -> Gates]
    BY <1>10 DEF CallReturns, Types, Gates
  <2> DEFINE c == [kind |-> "call", by |-> e, ok |-> gate[e] = "open"]
  <2>2. c \in Results
    BY SMT DEF Results
  <2>3. callbacks' \in Seq(Results)
    <3>1. callbacks \in Seq(Results) /\ callbacks' = Append(callbacks, c)
      BY <1>10 DEF CallReturns, Types
    <3> HIDE DEF c
    <3> QED
      BY <2>2, <3>1, Appended
  <2> QED
    BY <1>10, <2>1, <2>3 DEF CallReturns, Types, Order
<1>11. ASSUME NEW l \in Lives, RunQueue(l)
       PROVE  Types' /\ Order'
  <2>1. UNCHANGED <<mailbox, first, life, alive, ev, wrote, issued, stamp>>
    BY <1>11 DEF RunQueue
  <2>2. /\ queue' \in [Lives -> Seq(Items)] /\ callbacks' \in Seq(Results) /\ gate' \in [Events -> Gates]
        /\ failed' \in [Lives -> BOOLEAN] /\ committed' \in [Lives -> Nat] /\ stored' \in Nat /\ Order'
    BY <1>11, QueueMakes
  <2> QED
    BY <2>1, <2>2 DEF Types
<1> QED
  BY Steps, <1>1, <1>2, <1>3, <1>4, <1>5, <1>6, <1>7, <1>8, <1>9, <1>10, <1>11

-----------------------------------------------------------------------------
(* What an event waits for *)

\* An event in the mailbox, or the one the object was built for, has not begun.
Mail ==
    /\ \A k \in DOMAIN mailbox : ev[mailbox[k]] = "sent" /\ mailbox[k] # first
    /\ \A j, k \in DOMAIN mailbox : mailbox[j] = mailbox[k] => j = k
    /\ first # Nil => ev[first] = "sent"

\* Nothing waits in an object that is down, and no later life has begun.
Down == ~alive => callbacks = <<>> /\ first = Nil /\ \A e \in Events : gate[e] = "none" /\ ~Waiting(e)

Ahead ==
    \A l \in Lives : l > life =>
       queue[l] = <<>> /\ issued[l] = 0 /\ committed[l] = 0 /\ ~failed[l]

\* An event waits for one thing at a time: a read that runs or its result, a barrier,
\* a call or its result.
AsksOf(e) ==
    /\ gate[e] = "shut" => ev[e] \in {"call", "ready"}
    /\ gate[e] # "none" => ev[e] \in {"call", "kv", "ready"}
    /\ Has(callbacks, "get", e) => ev[e] = "get" /\ ~Has(queue[life], "get", e)
    /\ Has(callbacks, "call", e) => ev[e] \in {"call", "kv"} /\ gate[e] = "none"
    /\ Has(queue[life], "get", e) => ev[e] = "get"
    /\ Has(queue[life], "barrier", e) => gate[e] = "shut"
    /\ Once(queue[life], "get", e) /\ Once(queue[life], "barrier", e)
    /\ Once(callbacks, "get", e) /\ Once(callbacks, "call", e)

OneAtATime == alive => \A e \in Events : AsksOf(e)

\* A barrier has the writes made before it ahead of it, and is open once they committed.
HeldOf(e) ==
    /\ ev[e] \in {"call", "ready"} => stamp[e] <= issued[life]
    /\ Barred(queue[life], e, stamp[e])
    /\ (gate[e] = "open" /\ ev[e] # "kv") => stamp[e] <= committed[life]

HeldBack == alive => \A e \in Events : HeldOf(e)

GateInv == Types /\ Order /\ Mail /\ Down /\ Ahead /\ OneAtATime /\ HeldBack

\* The event has nothing on its way.
Free(e, results) ==
    /\ ~Has(results, "get", e) /\ ~Has(results, "call", e)
    /\ ~Has(queue[life], "get", e) /\ ~Has(queue[life], "barrier", e)

\* An event that is not in its handler waits for nothing.
LEMMA FreeToGo ==
    ASSUME OneAtATime, alive, NEW e \in Events, ev[e] \notin {"call", "kv", "get", "ready"}
    PROVE  Free(e, callbacks) /\ gate[e] = "none"
  BY DEF OneAtATime, AsksOf, Free

\* A callback that makes its handler go on is all that the event waited for.
LEMMA FreeToRun ==
    ASSUME Types, OneAtATime, alive, NEW i \in DOMAIN callbacks, callbacks[i] \in Results,
           callbacks[i].kind = "put" => ev[callbacks[i].by] = "put"
    PROVE  /\ Free(callbacks[i].by, Without(callbacks, i)) /\ gate[callbacks[i].by] = "none"
           /\ ev[callbacks[i].by] \in {"get", "call", "kv", "put"}
           /\ callbacks[i].kind = "get" => ev[callbacks[i].by] = "get"
<1> DEFINE c == callbacks[i]
           e == c.by
<1>1. e \in Events /\ c.kind \in {"get", "put", "call"}
  BY ResultFields
<1>2. AsksOf(e)
  BY <1>1 DEF OneAtATime
<1>3. ASSUME NEW kind
      PROVE  /\ Has(Without(callbacks, i), kind, e) => Has(callbacks, kind, e)
             /\ (Once(callbacks, kind, e) /\ c.kind = kind) => ~Has(Without(callbacks, i), kind, e)
             /\ c.kind = kind => Has(callbacks, kind, e)
  <2>1. callbacks \in Seq(Results)
    BY DEF Types
  <2>2. callbacks[i].kind = c.kind /\ callbacks[i].by = e
    OBVIOUS
  <2> HIDE DEF c, e
  <2>3. /\ Has(Without(callbacks, i), kind, e) => Has(callbacks, kind, e)
        /\ (Once(callbacks, kind, e) /\ callbacks[i].kind = kind /\ callbacks[i].by = e)
              => ~Has(Without(callbacks, i), kind, e)
        /\ (callbacks[i].kind = kind /\ callbacks[i].by = e) => Has(callbacks, kind, e)
    BY <2>1, HasRemoved
  <2> QED
    BY <2>2, <2>3
<1>4. c.kind = "put" => ev[e] = "put"
  OBVIOUS
<1> SUFFICES /\ Free(e, Without(callbacks, i)) /\ gate[e] = "none"
             /\ ev[e] \in {"get", "call", "kv", "put"} /\ (c.kind = "get" => ev[e] = "get")
  OBVIOUS
<1> HIDE DEF c, e
<1>5. CASE c.kind = "get"
  BY <1>2, <1>3, <1>5 DEF AsksOf, Free
<1>6. CASE c.kind = "call"
  BY <1>2, <1>3, <1>6 DEF AsksOf, Free
<1>7. CASE c.kind = "put"
  BY <1>2, <1>3, <1>4, <1>7 DEF AsksOf, Free
<1> QED
  BY <1>1, <1>5, <1>6, <1>7

\* A handler that waited for nothing goes on, and waits for one thing.
LEMMA GoesAsks ==
    ASSUME GateInv, alive, alive', NEW e \in Events, NEW s, NEW work, Goes(e, s, work), Free(e, callbacks'),
           UNCHANGED <<life, failed, committed>>,
           \A f \in Events, kind \in {"get", "call"} :
              /\ Has(callbacks', kind, f) => Has(callbacks, kind, f)
              /\ Once(callbacks, kind, f) => Once(callbacks', kind, f)
    PROVE  OneAtATime' /\ HeldBack'
<1>0. Types /\ Order
  BY DEF GateInv
<1>1. /\ ev'[e] = s /\ \A f \in Events : f # e => ev'[f] = ev[f]
      /\ \A f \in Events : f # e => gate'[f] = gate[f]
      /\ gate'[e] = IF s = "call" THEN "shut" ELSE IF s = "kv" THEN "open" ELSE "none"
      /\ \A f \in Events : f # e => stamp'[f] = stamp[f]
      /\ s \in {"call", "ready"} => stamp'[e] = issued'[life]
      /\ stamp' \in [Events -> Nat]
      /\ Grown(queue[life], queue'[life], e, s, committed[life], issued[life], issued'[life], failed[life])
  BY <1>0, GoesMakes
<1>2. life' = life /\ committed' = committed
  OBVIOUS
<1>3. ASSUME NEW f \in Events, f # e
      PROVE  AsksOf(f)'
  <2>1. AsksOf(f)
    BY DEF GateInv, OneAtATime
  <2>2. ASSUME NEW kind \in {"get", "barrier"}
        PROVE  /\ Has(queue'[life], kind, f) => Has(queue[life], kind, f)
               /\ Once(queue[life], kind, f) => Once(queue'[life], kind, f)
    <3>1. kind \in {"get", "barrier"} /\ f # e
      BY <1>3, <2>2
    <3>2. /\ Has(queue'[life], kind, f) => Has(queue[life], kind, f) \/ (f = e /\ Asking(s, kind))
          /\ (Once(queue[life], kind, f) /\ ~(f = e /\ Asking(s, kind))) => Once(queue'[life], kind, f)
      <4>1. Grown(queue[life], queue'[life], e, s, committed[life], issued[life], issued'[life], failed[life])
        BY <1>1
      <4> QED
        BY <2>2, <4>1 DEF Grown
    <3> QED
      BY <3>1, <3>2
  <2> QED
    BY <1>1, <1>2, <1>3, <2>1, <2>2 DEF AsksOf
<1>4. AsksOf(e)'
  <2>1. AsksOf(e)
    BY DEF GateInv, OneAtATime
  <2>2. ASSUME NEW kind \in {"get", "barrier"}
        PROVE  (Has(queue'[life], kind, e) => Asking(s, kind)) /\ Once(queue'[life], kind, e)
    <3>1. ~Has(queue[life], kind, e) /\ Once(queue[life], kind, e)
      BY <2>1, <2>2 DEF Free, AsksOf
    <3> QED
      BY <1>1, <3>1 DEF Grown
  <2>3. ~Has(callbacks', "get", e) /\ ~Has(callbacks', "call", e)
    BY DEF Free
  <2>4. Once(callbacks', "get", e) /\ Once(callbacks', "call", e)
    BY <2>1 DEF AsksOf
  <2> QED
    BY <1>1, <1>2, <2>2, <2>3, <2>4 DEF AsksOf, Asking
<1>5. ASSUME NEW f \in Events, f # e
      PROVE  HeldOf(f)'
  <2>1. HeldOf(f) /\ AsksOf(f) /\ stamp[f] \in Nat
    BY <1>0 DEF GateInv, HeldBack, OneAtATime, Types
  <2>2. issued[life] <= issued'[life] /\ issued[life] \in Nat /\ issued'[life] \in Nat
    BY <1>0, <1>1 DEF Grown, Types
  <2>3. ev[f] \in {"call", "ready"} => stamp[f] <= issued'[life]
    BY SMT, <2>1, <2>2 DEF HeldOf
  <2>4. Barred(queue'[life], f, stamp[f])
    <3>1. CASE Has(queue[life], "barrier", f)
      <4>1. stamp[f] <= issued[life]
        BY <2>1, <3>1 DEF HeldOf, AsksOf
      <4> QED
        BY <1>1, <2>1, <4>1 DEF Grown, HeldOf
    <3>2. CASE ~Has(queue[life], "barrier", f)
      <4>1. ~Has(queue'[life], "barrier", f)
        BY <1>1, <1>5, <3>2 DEF Grown
      <4> QED
        BY <4>1 DEF Barred, Has
    <3> QED
      BY <3>1, <3>2
  <2> QED
    BY <1>1, <1>2, <1>5, <2>1, <2>3, <2>4 DEF HeldOf
<1>6. HeldOf(e)'
  <2>1. issued'[life] <= issued'[life]
    BY SMT, <1>1 DEF Grown
  <2>2. Barred(queue'[life], e, stamp'[e])
    <3>1. CASE s \in {"call", "ready"}
      BY <1>1, <3>1 DEF Grown, Free
    <3>2. CASE s \notin {"call", "ready"}
      <4>1. ~Has(queue'[life], "barrier", e)
        BY <1>1, <3>2 DEF Grown, Free, Asking
      <4> QED
        BY <4>1 DEF Barred, Has
    <3> QED
      BY <3>1, <3>2
  <2> QED
    BY <1>1, <1>2, <2>1, <2>2 DEF HeldOf
<1> QED
  BY <1>3, <1>4, <1>5, <1>6 DEF OneAtATime, HeldBack

\* The event at the head of the mailbox was sent and not yet taken.
LEMMA HeadSent ==
    ASSUME Types, Mail, mailbox # <<>>
    PROVE  Head(mailbox) \in Events /\ ev[Head(mailbox)] = "sent"
<1>1. mailbox \in Seq(Events)
  BY DEF Types
<1>2. 1 \in DOMAIN mailbox /\ Head(mailbox) = mailbox[1] /\ Head(mailbox) \in Events
  BY <1>1, Taken
<1> QED
  BY <1>2 DEF Mail

\* The mailbox is as it was ...
LEMMA MailKept ==
    ASSUME Types, Mail, UNCHANGED mailbox, first' \in {first, Nil},
           \A f \in Events : (ev[f] = "sent" /\ (f = first => first' = first)) => ev'[f] = "sent"
    PROVE  Mail'
<1>1. \A k \in DOMAIN mailbox : mailbox[k] \in Events
  BY SMT DEF Types
<1>2. \A k \in DOMAIN mailbox : mailbox[k] # Nil
  BY <1>1, ObjectAssumption
<1>3. \A k \in DOMAIN mailbox : ev'[mailbox[k]] = "sent" /\ mailbox[k] # first'
  BY <1>1, <1>2 DEF Mail
<1>4. first' # Nil => ev'[first'] = "sent"
  BY DEF Mail, Types
<1> QED
  BY <1>3, <1>4 DEF Mail

\* ... or its head was taken.
LEMMA MailTaken ==
    ASSUME Types, Mail, mailbox # <<>>, mailbox' = Tail(mailbox), first = Nil,
           \/ first' = Nil
           \/ first' = Head(mailbox) /\ ev'[Head(mailbox)] = "sent",
           \A f \in Events : (f # Head(mailbox) /\ ev[f] = "sent") => ev'[f] = "sent"
    PROVE  Mail'
<1> DEFINE m == mailbox
           t == Tail(mailbox)
<1>1. /\ \A k \in DOMAIN t : k \in Nat /\ k + 1 \in DOMAIN m /\ t[k] = m[k + 1] /\ k + 1 # 1
      /\ 1 \in DOMAIN m /\ Head(mailbox) = m[1] /\ \A k \in DOMAIN m : m[k] \in Events
  BY Taken DEF Types
<1> HIDE DEF m, t
<1>0. /\ \A k \in DOMAIN m : ev[m[k]] = "sent"
      /\ \A j, k \in DOMAIN m : m[j] = m[k] => j = k
  BY DEF Mail, m
<1>2. ASSUME NEW k \in DOMAIN t
      PROVE  t[k] \in Events /\ ev[t[k]] = "sent" /\ t[k] # Head(mailbox)
  <2>1. k + 1 \in DOMAIN m /\ t[k] = m[k + 1] /\ k + 1 # 1
    BY <1>1
  <2> QED
    BY <1>0, <1>1, <2>1
<1>3. \A j, k \in DOMAIN t : t[j] = t[k] => j = k
  <2>1. ASSUME NEW j \in DOMAIN t, NEW k \in DOMAIN t, t[j] = t[k]
        PROVE  j + 1 = k + 1
    <3>1. j + 1 \in DOMAIN m /\ k + 1 \in DOMAIN m /\ m[j + 1] = m[k + 1]
      BY <1>1, <2>1
    <3> QED
      BY <1>0, <3>1
  <2> QED
    BY SMT, <1>1, <2>1
<1>4. \A k \in DOMAIN t : ev'[t[k]] = "sent" /\ t[k] # first'
  BY <1>2, ObjectAssumption
<1>5. first' # Nil => ev'[first'] = "sent"
  OBVIOUS
<1> QED
  BY <1>3, <1>4, <1>5 DEF Mail, t

\* Every step keeps the mailbox to the events sent and not yet taken.
LEMMA MailStep == GateInv /\ [Next]_vars => Mail'
<1> SUFFICES ASSUME GateInv, [Next]_vars
             PROVE  Mail'
  OBVIOUS
<1> USE DEF hostVars, lifeVars, storeVars
<1>0. Types /\ Order /\ Mail /\ Down /\ OneAtATime
  BY DEF GateInv
<1>1. CASE Quiet
  BY <1>0, <1>1, MailKept DEF Quiet
<1>2. CASE Build
  <2>1. first = Nil /\ mailbox # <<>> /\ first' = Head(mailbox) /\ mailbox' = Tail(mailbox) /\ UNCHANGED ev
    BY <1>0, <1>2 DEF Build, Down
  <2>2. ev[Head(mailbox)] = "sent"
    BY <1>0, <2>1, HeadSent
  <2> QED
    BY <1>0, <2>1, <2>2, MailTaken
<1>3. CASE BuildFails
  <2>1. /\ first = Nil /\ mailbox # <<>> /\ first' = Nil /\ mailbox' = Tail(mailbox)
        /\ ev' = [ev EXCEPT ![Head(mailbox)] = "failed"]
    BY <1>0, <1>3 DEF BuildFails, Down
  <2>2. \A f \in Events : (f # Head(mailbox) /\ ev[f] = "sent") => ev'[f] = "sent"
    BY <1>0, <2>1 DEF Types
  <2> QED
    BY <1>0, <2>1, <2>2, MailTaken
<1>4. CASE alive /\ Drop
  <2>1. \A f \in Events : (ev[f] = "sent" /\ (f = first => first' = first)) => ev'[f] = "sent"
    BY <1>4, ObjectAssumption DEF Drop, Waiting
  <2> QED
    BY <1>0, <1>4, <2>1, MailKept DEF Drop
<1>5. CASE Admit
  <2>1. alive /\ UNCHANGED <<life, failed, committed>>
    BY <1>5 DEF Admit
  <2>2. PICK e \in Events, s \in {"call", "kv", "get"} :
           /\ Goes(e, s, <<>>)
           /\ \/ first = e /\ first' = Nil /\ UNCHANGED mailbox
              \/ first = Nil /\ first' = Nil /\ mailbox # <<>> /\ e = Head(mailbox) /\ mailbox' = Tail(mailbox)
    BY <1>0, <1>5, <2>1, Admits
  <2>3. \A f \in Events : f # e => ev'[f] = ev[f]
    BY <1>0, <2>1, <2>2, GoesMakes
  <2>4. CASE first = e /\ first' = Nil /\ UNCHANGED mailbox
    BY <1>0, <2>3, <2>4, MailKept, ObjectAssumption
  <2>5. CASE first = Nil /\ first' = Nil /\ mailbox # <<>> /\ e = Head(mailbox) /\ mailbox' = Tail(mailbox)
    BY <1>0, <2>3, <2>5, MailTaken
  <2> QED
    BY <2>2, <2>4, <2>5
<1>6. CASE RunCallback
  <2>1. alive /\ UNCHANGED <<mailbox, first, life, failed, committed>>
    BY <1>6 DEF RunCallback
  <2>2. PICK i \in DOMAIN callbacks : callbacks[i] \in Results /\ Running(callbacks[i])
    BY <1>0, <1>6, Runs
  <2>3. CASE Ignoring(callbacks[i])
    BY <1>0, <2>1, <2>3, MailKept DEF Ignoring
  <2>4. ASSUME NEW s, NEW work, Goes(callbacks[i].by, s, work),
               Writing(callbacks[i], s, work) \/ Resuming(callbacks[i], s, work)
        PROVE  Mail'
    <3>1. ev[callbacks[i].by] # "sent"
      <4>1. callbacks[i].kind = "put" => ev[callbacks[i].by] = "put"
        BY <2>4 DEF Writing, Resuming
      <4> QED
        BY <1>0, <2>1, <2>2, <4>1, FreeToRun
    <3>2. \A f \in Events : f # callbacks[i].by => ev'[f] = ev[f]
      <4>1. callbacks[i].by \in Events
        BY <2>2, ResultFields
      <4> QED
        BY <1>0, <2>1, <2>4, <4>1, GoesMakes
    <3> QED
      BY <1>0, <2>1, <3>1, <3>2, MailKept
  <2> QED
    BY <2>2, <2>3, <2>4 DEF Running
<1>7. ASSUME NEW e \in Events, Send(e)
      PROVE  Mail'
  <2> DEFINE m == mailbox
             t == Append(mailbox, e)
  <2>1. /\ ev[e] = "new" /\ mailbox' = t /\ first' = first
        /\ ev'[e] = "sent" /\ \A f \in Events : f # e => ev'[f] = ev[f]
    BY <1>0, <1>7 DEF Send, Types
  <2>2. /\ \A k \in DOMAIN t : (k \in DOMAIN m /\ t[k] = m[k]) \/ (k = Len(m) + 1 /\ t[k] = e)
        /\ \A k \in DOMAIN m : m[k] \in Events
    BY <1>0, Appended DEF Types
  <2> HIDE DEF m, t
  <2>3. first # e /\ \A k \in DOMAIN m : m[k] # e /\ ev'[m[k]] = "sent" /\ m[k] # first
    BY <1>0, <2>1, <2>2, ObjectAssumption DEF Mail, m
  <2>4. \A j, k \in DOMAIN t : t[j] = t[k] => j = k
    BY <1>0, <2>2, <2>3 DEF Mail, m
  <2>5. \A k \in DOMAIN t : ev'[t[k]] = "sent" /\ t[k] # first
    BY <2>1, <2>2, <2>3
  <2>6. first # Nil => ev'[first] = "sent"
    BY <1>0, <2>1 DEF Mail, Types
  <2> QED
    BY <2>1, <2>4, <2>5, <2>6 DEF Mail
<1>8. ASSUME NEW e \in Events, Hold(e) \/ CallReturns(e)
      PROVE  Mail'
  BY <1>0, <1>8, MailKept DEF Hold, CallReturns
<1>9. ASSUME NEW e \in Events, Answer(e)
      PROVE  Mail'
  <2>1. \A f \in Events : ev[f] = "sent" => ev'[f] = "sent"
    BY <1>0, <1>9 DEF Answer, Types
  <2> QED
    BY <1>0, <1>9, <2>1, MailKept DEF Answer
<1>10. ASSUME NEW l \in Lives, RunQueue(l)
       PROVE  Mail'
  BY <1>0, <1>10, MailKept DEF RunQueue
<1> QED
  BY Steps, <1>1, <1>2, <1>3, <1>4, <1>5, <1>6, <1>7, <1>8, <1>9, <1>10

\* Every step leaves nothing in an object that is down, and nothing in lives to come.
LEMMA DownStep == GateInv /\ [Next]_vars => Down' /\ Ahead'
<1> SUFFICES ASSUME GateInv, [Next]_vars
             PROVE  Down' /\ Ahead'
  OBVIOUS
<1> USE DEF hostVars, lifeVars, storeVars
<1>0. Types /\ Order /\ Down /\ Ahead /\ \A l \in Lives : ~(life > life)
  BY SMT DEF GateInv, Types
<1>1. CASE Quiet
  BY <1>0, <1>1 DEF Quiet, Down, Ahead, Waiting
<1>2. CASE Build
  <2>1. \A l \in Lives : l > life' => l > life
    BY SMT, <1>0, <1>2 DEF Build, Types, Lives
  <2> QED
    BY <1>0, <1>2, <2>1 DEF Build, Down, Ahead
<1>3. CASE BuildFails
  <2>1. \A e \in Events : ev'[e] \in {ev[e], "failed"}
    BY <1>0, <1>3 DEF BuildFails, Types
  <2> QED
    BY <1>0, <1>3, <2>1 DEF BuildFails, Down, Ahead, Waiting
<1>4. CASE alive /\ Drop
  <2>1. \A e \in Events : gate'[e] = "none" /\ ~Waiting(e)'
    BY <1>4 DEF Drop, Waiting
  <2> QED
    BY <1>0, <1>4, <2>1 DEF Drop, Down, Ahead
<1>5. ASSUME NEW e \in Events, NEW s, NEW work, Goes(e, s, work), alive, alive',
             UNCHANGED <<life, failed, committed>>
      PROVE  Down' /\ Ahead'
  <2>1. /\ \A l \in Lives : l # life => queue'[l] = queue[l]
        /\ \A l \in Lives : l # life => issued'[l] = issued[l]
    <3>1. \A l \in Lives : l # life => queue'[l] = queue[l]
      BY <1>0, <1>5, GoesMakes
    <3>2. \A l \in Lives : l # life => issued'[l] = issued[l]
      BY <1>0, <1>5 DEF Goes, GoesOn, Types
    <3> QED
      BY <3>1, <3>2
  <2>2. \A l \in Lives : l > life => l # life
    BY SMT, <1>0 DEF Types
  <2> QED
    BY <1>0, <1>5, <2>1, <2>2 DEF Down, Ahead
<1>6. CASE Admit
  <2>1. alive /\ alive' /\ UNCHANGED <<life, failed, committed>>
    BY <1>6 DEF Admit
  <2> QED
    BY <1>0, <1>5, <1>6, <2>1, Admits
<1>7. CASE RunCallback
  <2>1. alive /\ alive' /\ UNCHANGED <<life, failed, committed>>
    BY <1>7 DEF RunCallback
  <2>2. PICK i \in DOMAIN callbacks : callbacks[i] \in Results /\ Running(callbacks[i])
    BY <1>0, <1>7, Runs
  <2>3. callbacks[i].by \in Events
    BY <2>2, ResultFields
  <2>4. CASE Ignoring(callbacks[i])
    BY <1>0, <2>1, <2>4 DEF Ignoring, Down, Ahead
  <2> QED
    BY <1>5, <2>1, <2>2, <2>3, <2>4 DEF Running
<1>8. ASSUME NEW e \in Events, Send(e)
      PROVE  Down' /\ Ahead'
  <2>1. \A f \in Events : ev'[f] \in {ev[f], "sent"}
    BY <1>0, <1>8 DEF Send, Types
  <2> QED
    BY <1>0, <1>8, <2>1 DEF Send, Down, Ahead, Waiting
<1>9. ASSUME NEW e \in Events, Hold(e)
      PROVE  Down' /\ Ahead'
  <2>1. \A l \in Lives : l > life => l # life
    BY SMT, <1>0 DEF Types
  <2>2. \A l \in Lives : l # life => queue'[l] = queue[l]
    BY <1>0, <1>9 DEF Hold, Holds, Types
  <2> QED
    BY <1>0, <1>9, <2>1, <2>2 DEF Hold, Down, Ahead
<1>10. ASSUME NEW e \in Events, Answer(e) \/ CallReturns(e)
       PROVE  Down' /\ Ahead'
  BY <1>0, <1>10 DEF Answer, CallReturns, Down, Ahead
<1>11. ASSUME NEW l \in Lives, RunQueue(l)
       PROVE  Down' /\ Ahead'
  <2>1. ~(l > life)
    BY <1>0, <1>11 DEF RunQueue, Ahead
  <2>2. \A m \in Lives : m > life =>
           queue'[m] = queue[m] /\ committed'[m] = committed[m] /\ failed'[m] = failed[m]
    <3>1. /\ \A m \in Lives : m # l => queue'[m] = queue[m]
      BY <1>0, <1>11, QueueMakes
    <3>2. \A m \in Lives : m # l => committed'[m] = committed[m] /\ failed'[m] = failed[m]
      BY <1>0, <1>11 DEF RunQueue, Types
    <3> QED
      BY <2>1, <3>1, <3>2
  <2>3. ~alive => UNCHANGED <<callbacks, gate>>
    BY <1>11 DEF RunQueue, Tells, Opens
  <2>4. UNCHANGED <<life, alive, first, ev, issued>>
    BY <1>11 DEF RunQueue
  <2> QED
    BY <1>0, <2>2, <2>3, <2>4 DEF Down, Ahead, Waiting
<1> QED
  BY Steps, <1>1, <1>2, <1>3, <1>4, <1>6, <1>7, <1>8, <1>9, <1>10, <1>11

\* The queue of the life runs what is first in it.
LEMMA QueueAsks ==
    ASSUME GateInv, alive, RunQueue(life)
    PROVE  OneAtATime' /\ HeldBack'
<1> USE DEF hostVars, lifeVars, storeVars
<1> DEFINE q == queue[life]
           w == Head(q)
<1>0. Types /\ Order /\ life \in Lives
  BY DEF GateInv, Types
<1>1. q \in Seq(Items) /\ q # <<>> /\ w \in Items /\ queue'[life] = Tail(q)
  BY <1>0, QueueMakes
<1>2. w.by \in Events /\ w.kind \in {"get", "barrier", "put", "frame"}
  BY <1>1, ItemFields
<1>3. UNCHANGED <<life, alive, ev, stamp, issued>>
  BY DEF RunQueue
<1>4. ASSUME NEW e \in Events
      PROVE  AsksOf(e) /\ HeldOf(e) /\ stamp[e] \in Nat
  BY <1>0 DEF GateInv, OneAtATime, HeldBack, Types
<1>5. ASSUME NEW kind, NEW e
      PROVE  /\ Has(Tail(q), kind, e) => Has(q, kind, e)
             /\ Once(q, kind, e) => Once(Tail(q), kind, e)
             /\ (Once(q, kind, e) /\ w.kind = kind /\ w.by = e) => ~Has(Tail(q), kind, e)
             /\ (w.kind = kind /\ w.by = e) => Has(q, kind, e)
  BY <1>1, HasTaken
<1>6. ASSUME NEW c \in Results, Tells(life, c), NEW kind, NEW e
      PROVE  /\ Has(callbacks', kind, e) => Has(callbacks, kind, e) \/ (c.kind = kind /\ c.by = e)
             /\ (Once(callbacks, kind, e) /\ ~(c.kind = kind /\ c.by = e)) => Once(callbacks', kind, e)
             /\ ~Has(callbacks, kind, e) => Once(callbacks', kind, e)
  <2>1. callbacks' = Append(callbacks, c) /\ callbacks \in Seq(Results)
    BY <1>0, <1>6 DEF Tells, Types
  <2> QED
    BY <2>1, HasAppended
<1>7. ASSUME NEW e \in Events
      PROVE  Barred(Tail(q), e, stamp[e])
  BY <1>1, <1>4, BarredTaken DEF HeldOf
<1>8. /\ committed[life] \in Nat /\ committed'[life] \in Nat /\ committed[life] <= committed'[life]
      /\ w.kind # "put" => committed' = committed
  <2>1. \/ committed' = committed
        \/ w.kind = "put" /\ committed' = [committed EXCEPT ![life] = @ + 1]
    BY <1>2 DEF RunQueue
  <2> QED
    BY SMT, <1>0, <2>1 DEF Types
<1>9. ASSUME UNCHANGED gate, NEW e \in Events
      PROVE  HeldOf(e)'
  <2>1. (gate[e] = "open" /\ ev[e] # "kv") => stamp[e] <= committed'[life]
    BY SMT, <1>4, <1>8 DEF HeldOf
  <2> QED
    BY <1>1, <1>3, <1>4, <1>7, <1>9, <2>1 DEF HeldOf
<1>10. failed[life] \in BOOLEAN /\ stored \in Nat /\ gate \in [Events -> Gates] /\ issued[life] \in Nat
       /\ InOrder(q, committed[life], issued[life], failed[life])
  BY <1>0 DEF Types, Order
<1>11. CASE w.kind = "get"
  <2> DEFINE c == [kind |-> "get", by |-> w.by, ok |-> ~failed[life], count |-> stored]
  <2>1. c \in Results /\ c.kind = "get" /\ c.by = w.by
    BY SMT, <1>2, <1>10 DEF Results
  <2>2. Tells(life, c) /\ UNCHANGED gate
    BY <1>11 DEF RunQueue
  <2> HIDE DEF c, q, w
  <2>3. ASSUME NEW e \in Events
        PROVE  AsksOf(e)'
    <3>1. CASE e = w.by
      <4>1. ev[e] = "get" /\ ~Has(callbacks, "get", e) /\ ~Has(callbacks, "call", e) /\ ~Has(q, "barrier", e)
        BY <1>4, <1>5, <1>11, <3>1 DEF AsksOf, q
      <4>2. ~Has(callbacks', "call", e) /\ Once(callbacks', "call", e) /\ Once(callbacks', "get", e)
        BY <1>4, <1>6, <2>1, <2>2, <4>1 DEF AsksOf
      <4>3. ~Has(Tail(q), "get", e) /\ ~Has(Tail(q), "barrier", e) /\ Once(Tail(q), "get", e) /\ Once(Tail(q), "barrier", e)
        BY <1>4, <1>5, <1>11, <3>1, <4>1 DEF AsksOf, q
      <4> QED
        BY <1>1, <1>3, <1>4, <2>2, <4>1, <4>2, <4>3 DEF AsksOf
    <3>2. CASE e # w.by
      <4>1. ASSUME NEW kind
            PROVE  /\ Has(callbacks', kind, e) => Has(callbacks, kind, e)
                   /\ Once(callbacks, kind, e) => Once(callbacks', kind, e)
        BY <1>6, <2>1, <2>2, <3>2
      <4> QED
        BY <1>1, <1>3, <1>4, <1>5, <2>2, <4>1 DEF AsksOf, q
    <3> QED
      BY <3>1, <3>2
  <2> QED
    BY <1>9, <2>2, <2>3 DEF OneAtATime, HeldBack
<1>12. CASE w.kind = "put"
  <2>1. PICK ok \in BOOLEAN : Tells(life, [kind |-> "put", by |-> w.by, ok |-> ok])
    BY <1>12 DEF RunQueue
  <2> DEFINE c == [kind |-> "put", by |-> w.by, ok |-> ok]
  <2>2. c \in Results /\ c.kind = "put"
    BY SMT, <1>2 DEF Results
  <2>3. Tells(life, c) /\ UNCHANGED gate
    BY <1>12, <2>1 DEF RunQueue
  <2> HIDE DEF c, q, w
  <2>4. ASSUME NEW e \in Events
        PROVE  AsksOf(e)'
    <3>1. ASSUME NEW kind \in {"get", "call"}
          PROVE  /\ Has(callbacks', kind, e) => Has(callbacks, kind, e)
                 /\ Once(callbacks, kind, e) => Once(callbacks', kind, e)
      BY <1>6, <2>2, <2>3
    <3> QED
      BY <1>1, <1>3, <1>4, <1>5, <2>3, <3>1 DEF AsksOf, q
  <2> QED
    BY <1>9, <2>3, <2>4 DEF OneAtATime, HeldBack
<1>13. CASE w.kind = "frame"
  <2>1. UNCHANGED <<callbacks, gate>>
    BY <1>13 DEF RunQueue
  <2>2. ASSUME NEW e \in Events
        PROVE  AsksOf(e)'
    BY <1>1, <1>3, <1>4, <1>5, <2>1 DEF AsksOf
  <2> QED
    BY <1>9, <2>1, <2>2 DEF OneAtATime, HeldBack
<1>14. CASE w.kind = "barrier"
  <2>1. UNCHANGED callbacks /\ Opens(life, w.by, IF failed[life] THEN "closed" ELSE "open")
    BY <1>14 DEF RunQueue
  <2>2. AsksOf(w.by) /\ HeldOf(w.by)
    BY <1>2, <1>4
  <2>3. gate[w.by] = "shut" /\ ev[w.by] \in {"call", "ready"}
    BY <1>5, <1>14, <2>2 DEF AsksOf
  <2>4. /\ gate'[w.by] = (IF failed[life] THEN "closed" ELSE "open")
        /\ \A e \in Events : e # w.by => gate'[e] = gate[e]
    BY <1>2, <1>10, <2>1, <2>3 DEF Opens
  <2>5. ASSUME NEW e \in Events
        PROVE  AsksOf(e)'
    <3>0. /\ AsksOf(e)
          /\ Has(Tail(q), "get", e) => Has(q, "get", e)
          /\ Has(Tail(q), "barrier", e) => Has(q, "barrier", e)
          /\ Once(Tail(q), "get", e) /\ Once(Tail(q), "barrier", e)
      BY <1>4, <1>5 DEF AsksOf
    <3>1. CASE e = w.by
      <4>1. ~Has(Tail(q), "barrier", e) /\ ~Has(callbacks, "call", e)
        BY <1>5, <1>14, <2>2, <2>3, <3>1 DEF AsksOf
      <4>2. gate'[e] \in {"closed", "open"}
        BY <2>4, <3>1
      <4>3. ev[e] \in {"call", "ready"}
        BY <2>3, <3>1
      <4> QED
        BY <1>1, <1>3, <2>1, <3>0, <4>1, <4>2, <4>3 DEF AsksOf
    <3>2. CASE e # w.by
      <4>1. gate'[e] = gate[e]
        BY <2>4, <3>2
      <4> QED
        BY <1>1, <1>3, <2>1, <3>0, <4>1 DEF AsksOf
    <3> QED
      BY <3>1, <3>2
  <2>6. ASSUME NEW e \in Events
        PROVE  HeldOf(e)'
    <3>1. CASE e = w.by
      <4>1. ~failed[life] => stamp[e] <= committed[life]
        <5>1. SUFFICES ASSUME ~failed[life]
                       PROVE  stamp[e] <= committed[life]
          OBVIOUS
        <5>2. stamp[e] \in Nat /\ stamp[e] <= issued[life] /\ Barred(q, e, stamp[e])
          BY <1>4, <2>3, <3>1 DEF HeldOf
        <5>3. \A k \in DOMAIN q : q[k].kind = "put" => stamp[e] < q[k].stamp
          BY <1>1, <1>14, <3>1, <5>2, BarredTaken
        <5>4. InOrder(q, committed[life], issued[life], FALSE)
          BY <1>10, <5>1 DEF InOrder
        <5> QED
          BY <1>1, <1>8, <1>10, <5>2, <5>3, <5>4, OrderHead
      <4> QED
        BY <1>1, <1>3, <1>4, <1>7, <1>8, <1>14, <2>3, <2>4, <3>1, <4>1 DEF HeldOf
    <3>2. CASE e # w.by
      BY <1>1, <1>3, <1>4, <1>7, <1>8, <1>14, <2>4, <3>2 DEF HeldOf
    <3> QED
      BY <3>1, <3>2
  <2> QED
    BY <2>5, <2>6 DEF OneAtATime, HeldBack
<1> QED
  BY <1>2, <1>11, <1>12, <1>13, <1>14

\* Every step leaves an event waiting for one thing, behind the writes it knew of.
LEMMA AsksStep == GateInv /\ [Next]_vars => OneAtATime' /\ HeldBack'
<1> SUFFICES ASSUME GateInv, [Next]_vars
             PROVE  OneAtATime' /\ HeldBack'
  OBVIOUS
<1> USE DEF hostVars, lifeVars, storeVars
<1>0. Types /\ Order /\ Mail /\ Down /\ Ahead /\ OneAtATime /\ HeldBack
  BY DEF GateInv
<1>1. CASE Quiet
  BY <1>0, <1>1 DEF Quiet, OneAtATime, AsksOf, HeldBack, HeldOf
<1>2. CASE Build
  <2>1. life' \in Lives /\ life' > life
    BY SMT, <1>0, <1>2, ObjectAssumption DEF Build, Types, Lives
  <2>2. queue'[life'] = <<>> /\ callbacks' = <<>> /\ UNCHANGED <<ev, gate, stamp>>
    BY <1>0, <1>2, <2>1 DEF Build, Ahead
  <2>3. \A k : k \notin DOMAIN <<>>
    BY SMT
  <2>4. ASSUME NEW e \in Events
        PROVE  AsksOf(e)' /\ HeldOf(e)'
    <3>1. gate[e] = "none" /\ ev[e] \notin {"call", "ready"}
      BY <1>0, <1>2 DEF Build, Down, Waiting
    <3> QED
      BY <2>2, <2>3, <3>1 DEF AsksOf, HeldOf, Has, Once, Barred
  <2> QED
    BY <2>4 DEF OneAtATime, HeldBack
<1>3. CASE BuildFails \/ (alive /\ Drop)
  <2>1. ~alive'
    BY <1>3 DEF BuildFails, Drop
  <2> QED
    BY <2>1 DEF OneAtATime, HeldBack
<1>4. CASE Admit
  <2>1. alive /\ alive' /\ UNCHANGED <<life, failed, committed, callbacks>>
    BY <1>4 DEF Admit
  <2>2. PICK e \in Events, s \in {"call", "kv", "get"} :
           /\ Goes(e, s, <<>>)
           /\ first = e \/ (mailbox # <<>> /\ e = Head(mailbox))
    BY <1>0, <1>4, <2>1, Admits
  <2>3. ev[e] = "sent"
    BY <1>0, <2>2, HeadSent, ObjectAssumption DEF Mail
  <2>4. Free(e, callbacks')
    BY <1>0, <2>1, <2>3, FreeToGo
  <2> QED
    BY <2>1, <2>2, <2>4, GoesAsks
<1>5. CASE RunCallback
  <2>1. alive /\ alive' /\ UNCHANGED <<life, failed, committed>>
    BY <1>5 DEF RunCallback
  <2>2. PICK i \in DOMAIN callbacks :
           callbacks[i] \in Results /\ callbacks' = Without(callbacks, i) /\ Running(callbacks[i])
    BY <1>0, <1>5, Runs
  <2> DEFINE c == callbacks[i]
  <2>3. ASSUME NEW f, NEW kind
        PROVE  /\ Has(callbacks', kind, f) => Has(callbacks, kind, f)
               /\ Once(callbacks, kind, f) => Once(callbacks', kind, f)
    BY <1>0, <2>2, HasRemoved DEF Types
  <2>4. CASE Ignoring(c)
    <3>1. UNCHANGED <<ev, queue, issued, stamp, gate>>
      BY <2>4 DEF Ignoring
    <3>2. ASSUME NEW e \in Events
          PROVE  AsksOf(e)' /\ HeldOf(e)'
      BY <1>0, <2>1, <2>3, <3>1 DEF OneAtATime, AsksOf, HeldBack, HeldOf
    <3> QED
      BY <3>2 DEF OneAtATime, HeldBack
  <2>5. ASSUME NEW s, NEW work, Goes(c.by, s, work), Writing(c, s, work) \/ Resuming(c, s, work)
        PROVE  OneAtATime' /\ HeldBack'
    <3>1. c.kind = "put" => ev[c.by] = "put"
      BY <2>5 DEF Writing, Resuming
    <3>2. Free(c.by, callbacks') /\ c.by \in Events
      BY <1>0, <2>1, <2>2, <3>1, FreeToRun, ResultFields
    <3> HIDE DEF c
    <3> QED
      BY <2>1, <2>3, <2>5, <3>2, GoesAsks
  <2> QED
    BY <2>2, <2>4, <2>5 DEF Running
<1>6. ASSUME NEW e \in Events, Send(e)
      PROVE  OneAtATime' /\ HeldBack'
  <2>1. ev[e] = "new" /\ ev'[e] = "sent" /\ \A f \in Events : f # e => ev'[f] = ev[f]
    BY <1>0, <1>6 DEF Send, Types
  <2>2. UNCHANGED <<life, alive, gate, callbacks, queue, issued, committed, stamp>>
    BY <1>6 DEF Send
  <2>3. ASSUME alive, NEW f \in Events
        PROVE  AsksOf(f)' /\ HeldOf(f)'
    <3>1. AsksOf(f) /\ HeldOf(f)
      BY <1>0, <2>3 DEF OneAtATime, HeldBack
    <3>2. CASE f = e
      BY <2>1, <2>2, <3>1, <3>2 DEF AsksOf, HeldOf
    <3>3. CASE f # e
      BY <2>1, <2>2, <3>1, <3>3 DEF AsksOf, HeldOf
    <3> QED
      BY <3>2, <3>3
  <2> QED
    BY <2>2, <2>3 DEF OneAtATime, HeldBack
<1>7. ASSUME NEW e \in Events, Hold(e)
      PROVE  OneAtATime' /\ HeldBack'
  <2> DEFINE x == [kind |-> "barrier", by |-> e]
             q == queue[life]
  <2>1. x \in Items /\ x.kind = "barrier" /\ x.kind # "get" /\ x.by = e
    BY SMT DEF Items
  <2> HIDE DEF x
  <2>2. /\ alive /\ ev[e] = "ready" /\ gate[e] = "none" /\ life \in Lives /\ q \in Seq(Items)
        /\ gate'[e] = "shut" /\ \A f \in Events : f # e => gate'[f] = gate[f]
        /\ queue'[life] = Append(q, x)
        /\ UNCHANGED <<life, alive, ev, callbacks, issued, committed, stamp>>
    BY <1>0, <1>7 DEF Hold, Holds, x, Types
  <2> HIDE DEF q
  <2>3. ASSUME NEW kind, NEW f, ~(x.kind = kind /\ x.by = f)
        PROVE  /\ Has(Append(q, x), kind, f) => Has(q, kind, f)
               /\ Once(q, kind, f) => Once(Append(q, x), kind, f)
    <3>1. q \in Seq(Items) /\ x \in Items
      BY <2>1, <2>2
    <3> QED
      BY <2>3, <3>1, HasAppended
  <2>4. ASSUME NEW f \in Events
        PROVE  AsksOf(f)' /\ HeldOf(f)'
    <3>1. AsksOf(f) /\ HeldOf(f) /\ stamp[f] \in Nat
      BY <1>0, <2>2 DEF OneAtATime, HeldBack, Types
    <3>2. /\ Has(Append(q, x), "get", f) => Has(q, "get", f)
          /\ Once(q, "get", f) => Once(Append(q, x), "get", f)
      BY <2>1, <2>3
    <3>3. Barred(Append(q, x), f, stamp[f])
      BY <2>1, <2>2, <3>1, BarredAppended DEF HeldOf, q
    <3>4. CASE f = e
      <4>1. Once(Append(q, x), "barrier", f)
        BY <2>1, <2>2, <3>1, <3>4, HasAppended DEF AsksOf, q
      <4>2. ~Has(callbacks, "call", f)
        BY <2>2, <3>1, <3>4 DEF AsksOf
      <4> QED
        BY <2>2, <3>1, <3>2, <3>3, <3>4, <4>1, <4>2 DEF AsksOf, HeldOf, q
    <3>5. CASE f # e
      <4>1. /\ Has(Append(q, x), "barrier", f) => Has(q, "barrier", f)
            /\ Once(q, "barrier", f) => Once(Append(q, x), "barrier", f)
        BY <2>3, <3>5, <2>1
      <4> QED
        BY <2>2, <3>1, <3>2, <3>3, <3>5, <4>1 DEF AsksOf, HeldOf, q
    <3> QED
      BY <3>4, <3>5
  <2> QED
    BY <2>4 DEF OneAtATime, HeldBack
<1>8. ASSUME NEW e \in Events, Answer(e)
      PROVE  OneAtATime' /\ HeldBack'
  <2>1. /\ alive /\ ev[e] = "ready" /\ gate[e] \in {"open", "closed"}
        /\ gate'[e] = "none" /\ \A f \in Events : f # e => gate'[f] = gate[f] /\ ev'[f] = ev[f]
        /\ ev'[e] \in {"answered", "failed"}
        /\ UNCHANGED <<life, alive, callbacks, queue, issued, committed, stamp>>
    BY <1>0, <1>8 DEF Answer, Types
  <2>2. ASSUME NEW f \in Events
        PROVE  AsksOf(f)' /\ HeldOf(f)'
    <3>1. AsksOf(f) /\ HeldOf(f)
      BY <1>0, <2>1 DEF OneAtATime, HeldBack
    <3>2. CASE f = e
      BY <2>1, <3>1, <3>2 DEF AsksOf, HeldOf
    <3>3. CASE f # e
      BY <2>1, <3>1, <3>3 DEF AsksOf, HeldOf
    <3> QED
      BY <3>2, <3>3
  <2> QED
    BY <2>2 DEF OneAtATime, HeldBack
<1>9. ASSUME NEW e \in Events, CallReturns(e)
      PROVE  OneAtATime' /\ HeldBack'
  <2> DEFINE c == [kind |-> "call", by |-> e, ok |-> gate[e] = "open"]
  <2>1. c \in Results /\ c.kind = "call" /\ c.kind # "get" /\ c.by = e
    BY SMT DEF Results
  <2>2. /\ alive /\ ev[e] \in {"call", "kv"} /\ gate[e] \in {"open", "closed"}
        /\ gate'[e] = "none" /\ \A f \in Events : f # e => gate'[f] = gate[f]
        /\ callbacks' = Append(callbacks, c) /\ callbacks \in Seq(Results)
        /\ UNCHANGED <<life, alive, ev, queue, issued, committed, stamp>>
    BY <1>0, <1>9 DEF CallReturns, Types
  <2> HIDE DEF c
  <2>3. ASSUME NEW kind, NEW f, ~(c.kind = kind /\ c.by = f)
        PROVE  /\ Has(callbacks', kind, f) => Has(callbacks, kind, f)
               /\ Once(callbacks, kind, f) => Once(callbacks', kind, f)
    <3>0. callbacks \in Seq(Results) /\ c \in Results
      BY <2>1, <2>2
    <3>1. /\ Has(Append(callbacks, c), kind, f) => Has(callbacks, kind, f)
          /\ Once(callbacks, kind, f) => Once(Append(callbacks, c), kind, f)
      BY <2>3, <3>0, HasAppended
    <3> QED
      BY <2>2, <3>1
  <2>4. ASSUME NEW f \in Events
        PROVE  AsksOf(f)' /\ HeldOf(f)'
    <3>1. AsksOf(f) /\ HeldOf(f)
      BY <1>0, <2>2 DEF OneAtATime, HeldBack
    <3>2. /\ Has(callbacks', "get", f) => Has(callbacks, "get", f)
          /\ Once(callbacks, "get", f) => Once(callbacks', "get", f)
      BY <2>1, <2>3
    <3>3. CASE f = e
      <4>1. Once(callbacks', "call", f)
        BY <2>1, <2>2, <3>1, <3>3, HasAppended DEF AsksOf
      <4> QED
        BY <2>2, <3>1, <3>2, <3>3, <4>1 DEF AsksOf, HeldOf
    <3>4. CASE f # e
      <4>1. /\ Has(callbacks', "call", f) => Has(callbacks, "call", f)
            /\ Once(callbacks, "call", f) => Once(callbacks', "call", f)
        BY <2>1, <2>3, <3>4
      <4> QED
        BY <2>2, <3>1, <3>2, <3>4, <4>1 DEF AsksOf, HeldOf
    <3> QED
      BY <3>3, <3>4
  <2> QED
    BY <2>4 DEF OneAtATime, HeldBack
<1>10. ASSUME NEW l \in Lives, RunQueue(l)
       PROVE  OneAtATime' /\ HeldBack'
  <2>1. UNCHANGED <<life, alive, ev, stamp, issued>>
    BY <1>10 DEF RunQueue
  <2>2. CASE ~alive
    BY <2>1, <2>2 DEF OneAtATime, HeldBack
  <2>3. CASE alive /\ l = life
    BY <1>10, <2>3, QueueAsks
  <2>4. CASE alive /\ l # life
    <3>1. life \in Lives /\ queue'[life] = queue[life]
      BY <1>0, <1>10, <2>4, QueueMakes DEF Types
    <3>2. UNCHANGED <<callbacks, gate>>
      BY <1>10, <2>4 DEF RunQueue, Tells, Opens
    <3>3. committed'[life] = committed[life]
      BY <1>0, <1>10, <2>4, <3>1 DEF RunQueue, Types
    <3> QED
      BY <1>0, <2>1, <3>1, <3>2, <3>3 DEF OneAtATime, AsksOf, HeldBack, HeldOf
  <2> QED
    BY <2>2, <2>3, <2>4
<1> QED
  BY Steps, <1>1, <1>2, <1>3, <1>4, <1>5, <1>6, <1>7, <1>8, <1>9, <1>10

-----------------------------------------------------------------------------
(* Nothing leaves early *)

\* No step lets anything out early.
LEMMA NothingEarly == GateInv /\ ~early /\ [Next]_vars => ~early'
<1> SUFFICES ASSUME GateInv, ~early, [Next]_vars
             PROVE  ~early'
  OBVIOUS
<1> USE DEF hostVars, lifeVars, storeVars
<1>0. Types /\ Order /\ OneAtATime /\ HeldBack
  BY DEF GateInv
<1>1. CASE Quiet \/ Build \/ BuildFails \/ (alive /\ Drop) \/ Admit \/ RunCallback
  BY <1>1 DEF Quiet, Build, BuildFails, Drop, Admit, RunCallback
<1>2. ASSUME NEW e \in Events, Send(e) \/ Hold(e) \/ CallReturns(e)
      PROVE  ~early'
  BY <1>2 DEF Send, Hold, CallReturns
\* A response waits behind its barrier, which opens once the writes before it committed.
<1>3. ASSUME NEW e \in Events, Answer(e)
      PROVE  ~early'
  <2>1. gate[e] = "open" => stamp[e] <= committed[life]
    BY <1>0, <1>3 DEF Answer, HeldBack, HeldOf
  <2>2. stamp[e] \in Nat /\ committed[life] \in Nat
    BY <1>0, <1>3 DEF Answer, Types
  <2>3. gate[e] = "open" => ~(stamp[e] > committed[life])
    BY SMT, <2>1, <2>2
  <2> QED
    BY <1>3, <2>3 DEF Answer
<1>4. ASSUME NEW l \in Lives, RunQueue(l)
      PROVE  ~early'
  <2> DEFINE q == queue[l]
             w == Head(q)
  <2>1. /\ q \in Seq(Items) /\ q # <<>> /\ w \in Items /\ w.by \in Events
        /\ InOrder(q, committed[l], issued[l], failed[l])
        /\ committed[l] \in Nat /\ issued[l] \in Nat /\ failed[l] \in BOOLEAN
    BY <1>0, <1>4, QueueMakes, ItemFields DEF Types, Order
  <2>2. CASE w.kind = "frame" /\ ~failed[l]
    <3>0. InOrder(q, committed[l], issued[l], FALSE)
      BY <2>1, <2>2
    <3> HIDE DEF q
    <3>1. w.stamp <= committed[l] /\ w.stamp \in Nat
      BY <2>1, <2>2, <3>0, OrderHead, ItemFields
    <3>2. ~(w.stamp > committed[l])
      BY SMT, <2>1, <3>1
    <3> QED
      BY <1>4, <2>2, <3>2 DEF RunQueue, q
  <2>3. CASE w.kind = "barrier" /\ l = life /\ alive /\ ev[w.by] = "call" /\ ~failed[l]
    <3>1. HeldOf(w.by) /\ stamp[w.by] \in Nat
      BY <1>0, <2>1, <2>3 DEF HeldBack, Types
    <3>2. stamp[w.by] <= issued[l] /\ \A k \in DOMAIN q : q[k].kind = "put" => stamp[w.by] < q[k].stamp
      BY <2>1, <2>3, <3>1, BarredTaken DEF HeldOf
    <3>0. InOrder(q, committed[l], issued[l], FALSE)
      BY <2>1, <2>3
    <3> HIDE DEF q
    <3>3. stamp[w.by] <= committed[l]
      BY <2>1, <3>0, <3>1, <3>2, OrderHead
    <3>4. ~(stamp[w.by] > committed[l])
      BY SMT, <2>1, <3>1, <3>3
    <3> QED
      BY <1>4, <2>3, <3>4 DEF RunQueue, q
  <2> QED
    BY <1>4, <2>1, <2>2, <2>3 DEF RunQueue
<1> QED
  BY Steps, <1>1, <1>2, <1>3, <1>4

\* The invariant of the gates holds at first ...
LEMMA GateInit == Init => GateInv /\ ~early
<1> SUFFICES ASSUME Init PROVE GateInv /\ ~early
  OBVIOUS
<1>1. Types
  BY TypesInit
<1>2. \A l \in Lives : queue[l] = <<>> /\ issued[l] = 0 /\ committed[l] = 0 /\ ~failed[l]
  BY DEF Init
<1>3. InOrder(<<>>, 0, 0, FALSE)
  BY SMT DEF InOrder
<1>4. Order
  <2>1. ASSUME NEW l \in Lives
        PROVE  InOrder(queue[l], committed[l], issued[l], failed[l])
    <3>1. failed[l] = FALSE
      BY DEF Init
    <3> QED
      BY <1>2, <1>3, <3>1
  <2> QED
    BY <2>1 DEF Order
<1>5. Mail
  <2>1. \A k : k \notin DOMAIN <<>>
    BY SMT
  <2> QED
    BY <2>1 DEF Mail, Init
<1>6. Down
  BY DEF Down, Init, Waiting
<1> QED
  BY <1>1, <1>2, <1>4, <1>5, <1>6 DEF GateInv, Ahead, OneAtATime, HeldBack, Init

\* ... and every step keeps it.
LEMMA GateStep == GateInv /\ [Next]_vars => GateInv'
  BY TypesStep, MailStep, DownStep, AsksStep DEF GateInv

\* The queue of every life is in order, and an event waits for one thing at a time,
\* behind the writes it knew of.
THEOREM GateInvariant == Spec => []GateInv
  BY GateInit, GateStep, PTL DEF Spec

\* OutputGate for any number of events and lives: whatever order the object's turns, its
\* queue, the callers and the host take their steps in, and whichever writes fail, no
\* response, frame or gated call leaves before the writes made before it are committed.
THEOREM OutputHeld == Spec => []OutputGate
<1>1. Init => ~early
  BY GateInit
<1> QED
  BY <1>1, GateInvariant, NothingEarly, PTL DEF Spec, OutputGate

-----------------------------------------------------------------------------
(* The writes in a queue *)

NoPuts(q) == \A k \in DOMAIN q : q[k].kind # "put"

\* There is at most one, of the count n.
OnePut(q, n) ==
    /\ \A k \in DOMAIN q : q[k].kind = "put" => q[k].count = n
    /\ \A j, k \in DOMAIN q : (q[j].kind = "put" /\ q[k].kind = "put") => j = k

NoGets(q) == \A k \in DOMAIN q : q[k].kind # "get"

\* No write was made after a read that is still to run.
GetsLast(q) == \A j, k \in DOMAIN q : (q[j].kind = "get" /\ q[k].kind = "put") => k < j

\* No write would take the count below n.
Above(q, n) == \A k \in DOMAIN q : q[k].kind = "put" => n <= q[k].count

\* The writes of u are those of q.
SamePuts(q, u) ==
    /\ NoPuts(u) <=> NoPuts(q)
    /\ GetsLast(q) => GetsLast(u)
    /\ \A n : (OnePut(q, n) => OnePut(u, n)) /\ (Above(q, n) => Above(u, n))

\* The writes of u are those of q and one of the count c.
OneMore(q, u, c) ==
    /\ ~NoPuts(u)
    /\ NoPuts(q) => OnePut(u, c)
    /\ NoGets(q) => GetsLast(u)
    /\ \A n : (Above(q, n) /\ n <= c) => Above(u, n)

\* The writes of a queue with one more item ...
LEMMA PutsAppended ==
    ASSUME NEW q \in Seq(Items), NEW x \in Items
    PROVE  /\ x.kind # "put" => SamePuts(q, Append(q, x))
           /\ x.kind = "put" => OneMore(q, Append(q, x), x.count)
<1> DEFINE u == Append(q, x)
           m == Len(q) + 1
<1>1. /\ \A k \in DOMAIN u : (k \in DOMAIN q /\ u[k] = q[k]) \/ (k = m /\ u[k] = x)
      /\ \A k \in DOMAIN q : k \in DOMAIN u /\ u[k] = q[k] /\ k < m
      /\ m \in DOMAIN u /\ u[m] = x
  <2>1. \A k \in DOMAIN u : (k \in DOMAIN q /\ u[k] = q[k]) \/ (k = m /\ u[k] = x)
    BY Appended
  <2>2. ASSUME NEW k \in DOMAIN q
        PROVE  k \in DOMAIN u /\ u[k] = q[k] /\ k < m
    BY SMT
  <2>3. m \in DOMAIN u /\ u[m] = x
    BY Appended
  <2> QED
    BY <2>1, <2>2, <2>3
<1> HIDE DEF u, m
<1>2. CASE x.kind # "put"
  <2>1. NoPuts(u) <=> NoPuts(q)
    BY <1>1, <1>2 DEF NoPuts
  <2>2. GetsLast(q) => GetsLast(u)
    BY <1>1, <1>2 DEF GetsLast
  <2>3. ASSUME NEW n
        PROVE  (OnePut(q, n) => OnePut(u, n)) /\ (Above(q, n) => Above(u, n))
    BY <1>1, <1>2 DEF OnePut, Above
  <2> QED
    BY <1>2, <2>1, <2>2, <2>3 DEF SamePuts, u
<1>3. CASE x.kind = "put"
  <2>1. ~NoPuts(u)
    BY <1>1, <1>3 DEF NoPuts
  <2>2. NoPuts(q) => OnePut(u, x.count)
    BY <1>1, <1>3 DEF NoPuts, OnePut
  <2>3. NoGets(q) => GetsLast(u)
    BY <1>1, <1>3 DEF NoGets, GetsLast
  <2>4. ASSUME NEW n, Above(q, n), n <= x.count
        PROVE  Above(u, n)
    BY <1>1, <2>4 DEF Above
  <2> QED
    BY <1>3, <2>1, <2>2, <2>3, <2>4 DEF OneMore, u
<1> QED
  BY <1>2, <1>3

\* ... and when its head has run.
LEMMA PutsTaken ==
    ASSUME NEW q \in Seq(Items), q # <<>>
    PROVE  /\ NoPuts(q) => NoPuts(Tail(q))
           /\ GetsLast(q) => GetsLast(Tail(q))
           /\ \A n : (OnePut(q, n) => OnePut(Tail(q), n)) /\ (Above(q, n) => Above(Tail(q), n))
           /\ Head(q).kind = "put" =>
                 /\ ~NoPuts(q)
                 /\ \A n : OnePut(q, n) => NoPuts(Tail(q)) /\ Head(q).count = n
                 /\ \A n : Above(q, n) => n <= Head(q).count
           /\ (Head(q).kind # "put" /\ NoPuts(Tail(q))) => NoPuts(q)
           /\ (Head(q).kind = "get" /\ GetsLast(q)) => NoPuts(q)
<1> DEFINE u == Tail(q)
           w == Head(q)
<1>1. /\ \A k \in DOMAIN u : k \in Nat /\ k + 1 \in DOMAIN q /\ u[k] = q[k + 1] /\ k + 1 # 1
      /\ \A k \in DOMAIN q : k = 1 \/ (k - 1 \in DOMAIN u /\ u[k - 1] = q[k])
      /\ 1 \in DOMAIN q /\ w = q[1]
      /\ \A k \in DOMAIN q : k \in Nat /\ k >= 1
  BY Taken
<1> HIDE DEF u, w
<1>2. NoPuts(q) => NoPuts(u)
  <2>1. ASSUME NoPuts(q), NEW k \in DOMAIN u
        PROVE  u[k].kind # "put"
    <3>1. k + 1 \in DOMAIN q /\ u[k] = q[k + 1]
      BY <1>1
    <3> QED
      BY <2>1, <3>1 DEF NoPuts
  <2> QED
    BY <2>1 DEF NoPuts
<1>3. ASSUME GetsLast(q), NEW j \in DOMAIN u, NEW k \in DOMAIN u, u[j].kind = "get", u[k].kind = "put"
      PROVE  k < j
  <2>0. j + 1 \in DOMAIN q /\ k + 1 \in DOMAIN q /\ q[j + 1].kind = "get" /\ q[k + 1].kind = "put"
    BY <1>1, <1>3
  <2>1. k + 1 < j + 1
    BY <1>3, <2>0 DEF GetsLast
  <2> QED
    BY SMT, <1>1, <2>1
<1>4. ASSUME NEW n, OnePut(q, n)
      PROVE  OnePut(u, n)
  <2>1. ASSUME NEW j \in DOMAIN u, NEW k \in DOMAIN u, u[j].kind = "put", u[k].kind = "put"
        PROVE  j = k
    <3>0. j + 1 \in DOMAIN q /\ k + 1 \in DOMAIN q /\ q[j + 1].kind = "put" /\ q[k + 1].kind = "put"
      BY <1>1, <2>1
    <3>1. j + 1 = k + 1
      BY <1>4, <3>0 DEF OnePut
    <3> QED
      BY SMT, <1>1, <3>1
  <2>2. ASSUME NEW k \in DOMAIN u, u[k].kind = "put"
        PROVE  u[k].count = n
    <3>1. k + 1 \in DOMAIN q /\ u[k] = q[k + 1]
      BY <1>1
    <3> QED
      BY <1>4, <2>2, <3>1 DEF OnePut
  <2> QED
    BY <2>1, <2>2 DEF OnePut
<1>5. ASSUME NEW n, Above(q, n)
      PROVE  Above(u, n) /\ (w.kind = "put" => n <= w.count)
  <2>1. ASSUME NEW k \in DOMAIN u, u[k].kind = "put"
        PROVE  n <= u[k].count
    <3>1. k + 1 \in DOMAIN q /\ u[k] = q[k + 1]
      BY <1>1
    <3> QED
      BY <1>5, <2>1, <3>1 DEF Above
  <2>2. w.kind = "put" => n <= w.count
    BY <1>1, <1>5 DEF Above
  <2> QED
    BY <2>1, <2>2 DEF Above
<1>6. ASSUME w.kind = "put", NEW n, OnePut(q, n)
      PROVE  NoPuts(u) /\ w.count = n
  BY <1>1, <1>6 DEF NoPuts, OnePut
<1>7. w.kind = "put" => ~NoPuts(q)
  BY <1>1 DEF NoPuts
<1>8. (w.kind # "put" /\ NoPuts(u)) => NoPuts(q)
  BY <1>1 DEF NoPuts
<1>9. ASSUME w.kind = "get", GetsLast(q), NEW k \in DOMAIN q, q[k].kind = "put"
      PROVE  FALSE
  <2>1. k < 1
    BY <1>1, <1>9 DEF GetsLast
  <2> QED
    BY SMT, <1>1, <2>1
<1>10. (w.kind = "get" /\ GetsLast(q)) => NoPuts(q)
  BY <1>9 DEF NoPuts
<1>11. GetsLast(q) => GetsLast(u)
  BY <1>3 DEF GetsLast
<1> QED
  BY <1>2, <1>4, <1>5, <1>6, <1>7, <1>8, <1>10, <1>11 DEF u, w

\* A handler that goes on without a write adds none to the queue ...
LEMMA GoesPuts ==
    ASSUME NEW q \in Seq(Items), NEW e \in Events, NEW s
    PROVE  SamePuts(q, q \o <<>> \o Asks(e, s))
<1>1. q \o <<>> = q
  BY SMT
<1>2. SamePuts(q, q)
  BY DEF SamePuts
<1>3. CASE s = "get"
  <2> DEFINE x == [kind |-> "get", by |-> e]
  <2>1. x \in Items /\ x.kind # "put" /\ Asks(e, s) = <<x>>
    BY SMT, <1>3 DEF Items, Asks
  <2> HIDE DEF x
  <2>2. q \o <<x>> = Append(q, x)
    BY <2>1, JoinedOne
  <2> QED
    BY <1>1, <2>1, <2>2, PutsAppended
<1>4. CASE s = "call"
  <2> DEFINE x == [kind |-> "barrier", by |-> e]
  <2>1. x \in Items /\ x.kind # "put" /\ Asks(e, s) = <<x>>
    BY SMT, <1>4 DEF Items, Asks
  <2> HIDE DEF x
  <2>2. q \o <<x>> = Append(q, x)
    BY <2>1, JoinedOne
  <2> QED
    BY <1>1, <2>1, <2>2, PutsAppended
<1>5. CASE s \notin {"get", "call"}
  <2>1. Asks(e, s) = <<>>
    BY <1>5 DEF Asks
  <2> QED
    BY <1>1, <1>2, <2>1
<1> QED
  BY <1>3, <1>4, <1>5

\* ... and one that writes adds its write.
LEMMA GoesWrites ==
    ASSUME NEW q \in Seq(Items), NEW e \in Events, NEW s, s # "get", NEW c \in Nat, NEW n \in Nat,
           NEW work \in {<<PutOf(e, c, n)>>, <<PutOf(e, c, n), FrameOf(e, n)>>}
    PROVE  OneMore(q, q \o work \o Asks(e, s), c)
<1> DEFINE p == PutOf(e, c, n)
           x == FrameOf(e, n)
           b == q \o work
<1>1. p \in Items /\ p.kind = "put" /\ p.count = c /\ x \in Items /\ x.kind # "put" /\ x.kind # "get"
  BY SMT DEF PutOf, FrameOf, Items
<1>2. work = <<p>> \/ work = <<p, x>>
  OBVIOUS
<1> HIDE DEF p, x
<1>3. Append(q, p) \in Seq(Items) /\ OneMore(q, Append(q, p), c)
  BY <1>1, Appended, PutsAppended
<1>4. ASSUME NEW v, NEW y \in Items, y.kind # "put", v \in Seq(Items), OneMore(q, v, c)
      PROVE  OneMore(q, Append(v, y), c)
  <2>1. SamePuts(v, Append(v, y))
    BY <1>4, PutsAppended
  <2> QED
    BY <1>4, <2>1 DEF OneMore, SamePuts
<1>5. b \in Seq(Items) /\ OneMore(q, b, c)
  <2>0. q \o <<p>> = Append(q, p)
    BY <1>1, JoinedOne
  <2>1. q \o <<p, x>> = Append(Append(q, p), x)
    BY SMT, <1>1
  <2>2. Append(Append(q, p), x) \in Seq(Items) /\ OneMore(q, Append(Append(q, p), x), c)
    BY <1>1, <1>3, <1>4, Appended
  <2> QED
    BY <1>2, <1>3, <2>0, <2>1, <2>2
<1> HIDE DEF b
<1>6. CASE s = "call"
  <2> DEFINE y == [kind |-> "barrier", by |-> e]
  <2>1. y \in Items /\ y.kind # "put" /\ Asks(e, s) = <<y>>
    BY SMT, <1>6 DEF Items, Asks
  <2> HIDE DEF y
  <2>2. b \o <<y>> = Append(b, y)
    BY <1>5, <2>1, JoinedOne
  <2> QED
    BY <1>4, <1>5, <2>1, <2>2 DEF b
<1>7. CASE s # "call"
  <2>1. Asks(e, s) = <<>>
    BY <1>7 DEF Asks
  <2>2. b \o <<>> = b
    BY SMT, <1>5
  <2> QED
    BY <1>5, <2>1, <2>2 DEF b
<1> QED
  BY <1>6, <1>7

-----------------------------------------------------------------------------
(* A count the storage never falls below *)

\* No read result tells the guest less than n.
Told(s, n) == \A k \in DOMAIN s : (s[k].kind = "get" /\ s[k].ok) => n <= s[k].count

\* Neither the storage, nor what is on its way to it or from it, is below n.
Beneath(n, count, work, results) ==
    n <= count /\ (\A l \in Lives : Above(work[l], n)) /\ Told(results, n)

\* The results with one more ...
LEMMA ToldAppended ==
    ASSUME NEW s \in Seq(Results), NEW x \in Results, NEW n, Told(s, n),
           (x.kind = "get" /\ x.ok) => n <= x.count
    PROVE  Told(Append(s, x), n)
<1>1. \A k \in DOMAIN Append(s, x) :
         (k \in DOMAIN s /\ Append(s, x)[k] = s[k]) \/ (k = Len(s) + 1 /\ Append(s, x)[k] = x)
  BY Appended
<1> QED
  BY <1>1 DEF Told

\* All that u holds is in s.
Within(u, s) == \A k \in DOMAIN u : \E j \in DOMAIN s : u[k] = s[j]

\* ... and without one.
LEMMA RemovedFrom ==
    ASSUME NEW S, NEW s \in Seq(S), NEW i \in DOMAIN s
    PROVE  Within(Without(s, i), s)
<1> SUFFICES ASSUME NEW k \in DOMAIN Without(s, i)
             PROVE  \E j \in DOMAIN s : Without(s, i)[k] = s[j]
  BY DEF Within
<1>1. /\ k \in Nat /\ i \in Nat
      /\ k < i => k \in DOMAIN s /\ Without(s, i)[k] = s[k]
      /\ k >= i => k + 1 \in DOMAIN s /\ Without(s, i)[k] = s[k + 1]
  <2>1. i \in Nat
    BY SMT
  <2> QED
    BY <2>1, Removed
<1>2. k < i \/ k >= i
  BY SMT, <1>1
<1> QED
  BY <1>1, <1>2

\* The results that come with a step of the queue, and what it does to the storage.
LEMMA QueueTells ==
    ASSUME Types, Order, NEW l \in Lives, RunQueue(l)
    PROVE  LET w == Head(queue[l])
           IN  /\ \/ UNCHANGED callbacks
                  \/ \E x \in Results :
                        /\ callbacks' = Append(callbacks, x) /\ x.kind = w.kind /\ l = life
                        /\ x.kind = "get" => x.count = stored /\ (x.ok <=> ~failed[l])
               /\ \/ UNCHANGED <<stored, committed, failed>>
                  \/ /\ w.kind = "put" /\ ~failed[l] /\ UNCHANGED <<stored, committed>>
                     /\ failed' = [failed EXCEPT ![l] = TRUE]
                  \/ /\ w.kind = "put" /\ ~failed[l] /\ stored' = w.count
                     /\ committed' = [committed EXCEPT ![l] = @ + 1]
                     /\ failed' = [failed EXCEPT ![l] = FALSE]
               /\ (w.kind = "put" /\ UNCHANGED failed) => failed[l] \/ stored' = w.count
<1> DEFINE w == Head(queue[l])
<1>1. w \in Items /\ w.by \in Events /\ w.kind \in {"get", "barrier", "put", "frame"}
  BY QueueMakes, ItemFields
<1>2. stored \in Nat /\ failed[l] \in BOOLEAN /\ failed \in [Lives -> BOOLEAN]
  BY DEF Types
<1>3. CASE w.kind = "get"
  <2> DEFINE x == [kind |-> "get", by |-> w.by, ok |-> ~failed[l], count |-> stored]
  <2>1. x \in Results /\ x.kind = "get" /\ x.count = stored
    BY SMT, <1>1, <1>2 DEF Results
  <2>4. x.ok <=> ~failed[l]
    OBVIOUS
  <2>2. Tells(l, x) /\ UNCHANGED <<stored, committed, failed>>
    BY <1>3 DEF RunQueue
  <2> HIDE DEF x
  <2>3. UNCHANGED callbacks \/ (callbacks' = Append(callbacks, x) /\ l = life)
    BY <2>2 DEF Tells
  <2> QED
    BY <1>3, <2>1, <2>2, <2>3, <2>4
<1>4. CASE w.kind \in {"frame", "barrier"}
  BY <1>4 DEF RunQueue
<1>5. CASE w.kind = "put"
  <2>1. PICK ok \in BOOLEAN :
           /\ Tells(l, [kind |-> "put", by |-> w.by, ok |-> ok])
           /\ \/ failed[l] /\ UNCHANGED <<stored, committed, failed>>
              \/ /\ ~failed[l]
                 /\ failed' = [failed EXCEPT ![l] = ~ok]
                 /\ stored' = IF ok THEN w.count ELSE stored
                 /\ committed' = IF ok THEN [committed EXCEPT ![l] = @ + 1] ELSE committed
    BY <1>5 DEF RunQueue, Sticks
  <2> DEFINE x == [kind |-> "put", by |-> w.by, ok |-> ok]
  <2>2. x \in Results /\ x.kind = "put" /\ x.kind # "get"
    BY SMT, <1>1 DEF Results
  <2>3. Tells(l, x)
    BY <2>1
  <2> HIDE DEF x
  <2>4. UNCHANGED callbacks \/ (callbacks' = Append(callbacks, x) /\ l = life)
    BY <2>3 DEF Tells
  <2>5. \/ UNCHANGED <<stored, committed, failed>> /\ failed[l]
        \/ ~failed[l] /\ UNCHANGED <<stored, committed>> /\ failed' = [failed EXCEPT ![l] = TRUE]
        \/ /\ ~failed[l] /\ stored' = w.count /\ committed' = [committed EXCEPT ![l] = @ + 1]
           /\ failed' = [failed EXCEPT ![l] = FALSE]
    <3>1. CASE ok = TRUE
      BY <2>1, <3>1
    <3>2. CASE ok = FALSE
      BY <2>1, <3>2
    <3> QED
      BY <3>1, <3>2
  <2>6. UNCHANGED failed => failed[l] \/ stored' = w.count
    <3>1. failed' = [failed EXCEPT ![l] = TRUE] => failed'[l] = TRUE
      BY <1>2
    <3> QED
      BY <2>5, <3>1
  <2> QED
    BY <1>5, <2>2, <2>4, <2>5, <2>6
<1> QED
  BY <1>1, <1>3, <1>4, <1>5

\* No step undercuts what nothing undercut before it.
LEMMA BeneathStep ==
    ASSUME GateInv, [Next]_vars, NEW n \in Nat, Beneath(n, stored, queue, callbacks)
    PROVE  Beneath(n, stored', queue', callbacks')
<1> USE DEF hostVars, lifeVars, storeVars
<1>0. Types /\ Order /\ stored \in Nat /\ callbacks \in Seq(Results) /\ queue \in [Lives -> Seq(Items)]
  BY DEF GateInv, Types
<1>1. n <= stored /\ (\A l \in Lives : Above(queue[l], n)) /\ Told(callbacks, n)
  BY DEF Beneath
<1>2. CASE Quiet \/ BuildFails \/ \E e \in Events : Send(e) \/ Answer(e)
  BY <1>2 DEF Quiet, BuildFails, Send, Answer
<1>3. CASE Build \/ (alive /\ Drop)
  <2>1. UNCHANGED <<stored, queue>> /\ callbacks' = <<>>
    BY <1>3 DEF Build, Drop
  <2>2. Told(<<>>, n)
    BY SMT DEF Told
  <2> QED
    BY <1>1, <2>1, <2>2 DEF Beneath
<1>4. ASSUME NEW e \in Events, NEW s, NEW work, alive, Goes(e, s, work), UNCHANGED <<life, failed, committed, stored>>,
             Told(callbacks', n),
             \/ work = <<>>
             \/ s # "get" /\ \E c \in Nat, m \in Nat :
                   n <= c /\ work \in {<<PutOf(e, c, m)>>, <<PutOf(e, c, m), FrameOf(e, m)>>}
      PROVE  Beneath(n, stored', queue', callbacks')
  <2>0. Types /\ Order /\ alive /\ Goes(e, s, work) /\ UNCHANGED <<life, failed, committed>>
    BY <1>0, <1>4
  <2>1. \A l \in Lives : l # life => queue'[l] = queue[l]
    BY <2>0, GoesMakes
  <2>5. queue'[life] = queue[life] \o work \o Asks(e, s)
    BY <1>0, <2>0 DEF Goes, GoesOn, Types
  <2>2. life \in Lives /\ queue[life] \in Seq(Items)
    BY <1>0, <1>4 DEF Types
  <2>3. Above(queue[life] \o work \o Asks(e, s), n)
    <3>1. CASE work = <<>>
      BY <1>1, <2>2, <3>1, GoesPuts DEF SamePuts
    <3>2. ASSUME s # "get", NEW c \in Nat, NEW m \in Nat, n <= c,
                 work \in {<<PutOf(e, c, m)>>, <<PutOf(e, c, m), FrameOf(e, m)>>}
          PROVE  Above(queue[life] \o work \o Asks(e, s), n)
      <4>1. OneMore(queue[life], queue[life] \o work \o Asks(e, s), c)
        BY <2>2, <3>2, GoesWrites
      <4> QED
        BY <1>1, <2>2, <3>2, <4>1 DEF OneMore
    <3> QED
      BY <1>4, <3>1, <3>2
  <2>4. ASSUME NEW l \in Lives
        PROVE  Above(queue'[l], n)
    BY <1>1, <2>1, <2>3, <2>5
  <2> QED
    BY <1>1, <1>4, <2>4 DEF Beneath
<1>5. CASE Admit
  <2>1. alive /\ UNCHANGED <<life, failed, committed, stored, callbacks>>
    BY <1>5 DEF Admit
  <2>2. PICK e \in Events, s \in {"call", "kv", "get"} : Goes(e, s, <<>>)
    BY <1>0, <1>5, <2>1, Admits
  <2> QED
    BY <1>1, <1>4, <2>1, <2>2
<1>6. CASE RunCallback
  <2>1. alive /\ UNCHANGED <<life, failed, committed, stored>>
    BY <1>6 DEF RunCallback
  <2>2. PICK i \in DOMAIN callbacks :
           callbacks[i] \in Results /\ callbacks' = Without(callbacks, i) /\ Running(callbacks[i])
    BY <1>0, <1>6, Runs
  <2> DEFINE c == callbacks[i]
  <2>3. Told(callbacks', n)
    <3>1. Within(callbacks', callbacks)
      BY <1>0, <2>2, RemovedFrom
    <3> QED
      BY <1>1, <3>1 DEF Told, Within
  <2>4. CASE Ignoring(c)
    BY <1>1, <2>1, <2>3, <2>4 DEF Ignoring, Beneath
  <2>5. ASSUME NEW s, NEW work, Goes(c.by, s, work), Writing(c, s, work) \/ Resuming(c, s, work)
        PROVE  Beneath(n, stored', queue', callbacks')
    <3>1. c.by \in Events /\ (c.kind = "get" => c.count \in Nat)
      BY <2>2, ResultFields
    <3>2. CASE Resuming(c, s, work)
      BY <1>4, <2>1, <2>3, <2>5, <3>1, <3>2 DEF Resuming
    <3>3. CASE Writing(c, s, work)
      <4>1. c.kind = "get" /\ c.ok /\ s # "get" /\ c.count \in Nat
        BY <3>1, <3>3 DEF Writing
      <4>2. n <= c.count
        BY <1>1, <2>2, <4>1 DEF Told
      <4>3. n <= c.count + 1 /\ c.count + 1 \in Nat
        BY SMT, <4>1, <4>2
      <4>4. issued'[life] \in Nat
        BY <1>0, <2>1, <2>5, <3>1, GoesMakes DEF Types
      <4>5. work \in {<<PutOf(c.by, c.count + 1, issued'[life])>>,
                      <<PutOf(c.by, c.count + 1, issued'[life]), FrameOf(c.by, issued'[life])>>}
        BY <3>3 DEF Writing
      <4> HIDE DEF c
      <4> QED
        BY <1>4, <2>1, <2>3, <2>5, <3>1, <4>1, <4>3, <4>4, <4>5
    <3> QED
      BY <2>5, <3>2, <3>3
  <2> QED
    BY <2>2, <2>4, <2>5 DEF Running
<1>7. ASSUME NEW e \in Events, Hold(e)
      PROVE  Beneath(n, stored', queue', callbacks')
  <2> DEFINE x == [kind |-> "barrier", by |-> e]
  <2>1. x \in Items /\ x.kind # "put"
    BY SMT DEF Items
  <2>2. UNCHANGED <<stored, callbacks>> /\ queue' = [queue EXCEPT ![life] = Append(@, x)] /\ life \in Lives
    BY <1>0, <1>7 DEF Hold, Holds, Types
  <2> HIDE DEF x
  <2>3. SamePuts(queue[life], Append(queue[life], x))
    BY <1>0, <2>1, <2>2, PutsAppended
  <2>4. Above(Append(queue[life], x), n)
    BY <1>1, <2>2, <2>3 DEF SamePuts
  <2>5. ASSUME NEW l \in Lives
        PROVE  Above(queue'[l], n)
    <3>1. queue'[l] = IF l = life THEN Append(queue[life], x) ELSE queue[l]
      BY <1>0, <2>2
    <3> QED
      BY <1>1, <2>4, <3>1
  <2> QED
    BY <1>1, <2>2, <2>5 DEF Beneath
<1>8. ASSUME NEW e \in Events, CallReturns(e)
      PROVE  Beneath(n, stored', queue', callbacks')
  <2> DEFINE x == [kind |-> "call", by |-> e, ok |-> gate[e] = "open"]
  <2>1. x \in Results /\ x.kind # "get"
    BY SMT DEF Results
  <2>2. UNCHANGED <<stored, queue>> /\ callbacks' = Append(callbacks, x)
    BY <1>8 DEF CallReturns
  <2> HIDE DEF x
  <2>3. Told(Append(callbacks, x), n)
    BY <1>0, <1>1, <2>1, ToldAppended
  <2> QED
    BY <1>1, <2>2, <2>3 DEF Beneath
<1>9. ASSUME NEW l \in Lives, RunQueue(l)
      PROVE  Beneath(n, stored', queue', callbacks')
  <2> DEFINE q == queue[l]
             w == Head(q)
  <2>1. /\ q \in Seq(Items) /\ q # <<>> /\ queue'[l] = Tail(q)
        /\ \A m \in Lives : m # l => queue'[m] = queue[m]
    BY <1>0, <1>9, QueueMakes
  <2>2. Above(Tail(q), n) /\ (w.kind = "put" => n <= w.count)
    BY <1>1, <2>1, PutsTaken
  <2>3. ASSUME NEW m \in Lives
        PROVE  Above(queue'[m], n)
    BY <1>1, <2>1, <2>2
  <2>4. \/ UNCHANGED callbacks
        \/ \E x \in Results :
              callbacks' = Append(callbacks, x) /\ (x.kind = "get" => x.count = stored)
    BY <1>0, <1>9, QueueTells
  <2>5. stored' = stored \/ (w.kind = "put" /\ stored' = w.count)
    BY <1>0, <1>9, QueueTells
  <2>6. Told(callbacks', n)
    <3>1. ASSUME NEW x \in Results, callbacks' = Append(callbacks, x), x.kind = "get" => x.count = stored
          PROVE  Told(callbacks', n)
      <4>1. Told(Append(callbacks, x), n)
        BY <1>0, <1>1, <3>1, ToldAppended
      <4> QED
        BY <3>1, <4>1
    <3> QED
      BY <1>1, <2>4, <3>1
  <2> QED
    BY <1>1, <2>2, <2>3, <2>5, <2>6 DEF Beneath
<1> QED
  BY Steps, <1>2, <1>3, <1>5, <1>6, <1>7, <1>8, <1>9

-----------------------------------------------------------------------------
(* Where the events go *)

\* How f goes on: not at all, into its handler or to its end, into the mailbox, or to
\* its answer.
Moves(f) ==
    \/ ev'[f] = ev[f] /\ wrote'[f] = wrote[f]
    \/ ev'[f] \in {"call", "kv", "get", "put", "ready", "failed"}
    \/ ev[f] = "new" /\ ev'[f] = "sent" /\ wrote'[f] = wrote[f]
    \/ Answer(f)

\* Every step moves an event in one of these ways.
LEMMA EventMoves ==
    ASSUME GateInv, [Next]_vars, NEW f \in Events
    PROVE  Moves(f)
<1> USE DEF hostVars, lifeVars, storeVars
<1>0. Types /\ Order /\ Mail /\ DOMAIN ev = Events /\ wrote \in [Events -> Nat \cup {Nil}]
  BY DEF GateInv, Types
<1>1. CASE Quiet \/ Build \/ \E e \in Events : Hold(e) \/ CallReturns(e)
  BY <1>1 DEF Quiet, Build, Hold, CallReturns, Moves
<1>2. CASE \E l \in Lives : RunQueue(l)
  BY <1>2 DEF RunQueue, Moves
<1>3. CASE BuildFails
  <2>1. ev' = [ev EXCEPT ![Head(mailbox)] = "failed"] /\ UNCHANGED wrote
    BY <1>3 DEF BuildFails
  <2> QED
    BY <1>0, <2>1 DEF Moves
<1>4. CASE alive /\ Drop
  <2>1. ev'[f] = (IF f = first \/ Waiting(f) THEN "failed" ELSE ev[f]) /\ UNCHANGED wrote
    BY <1>4 DEF Drop
  <2> QED
    BY <2>1 DEF Moves
<1>5. ASSUME NEW e \in Events, NEW s, NEW work, Goes(e, s, work), f # e => wrote'[f] = wrote[f]
      PROVE  Moves(f)
  <2>1. s \in {"call", "kv", "get", "put", "ready"} /\ ev' = [ev EXCEPT ![e] = s]
    BY <1>5 DEF Goes, GoesOn
  <2> QED
    BY <1>0, <1>5, <2>1 DEF Moves
<1>6. CASE Admit
  <2>1. alive /\ UNCHANGED wrote
    BY <1>6 DEF Admit
  <2>2. PICK e \in Events, s \in {"call", "kv", "get"} : Goes(e, s, <<>>)
    BY <1>0, <1>6, <2>1, Admits
  <2> QED
    BY <1>5, <2>1, <2>2
<1>7. CASE RunCallback
  <2>1. PICK i \in DOMAIN callbacks : callbacks[i] \in Results /\ Running(callbacks[i])
    BY <1>0, <1>7, Runs
  <2> DEFINE c == callbacks[i]
  <2>2. c.by \in Events
    BY <2>1, ResultFields
  <2>3. CASE Ignoring(c)
    BY <2>3 DEF Ignoring, Moves
  <2>4. ASSUME NEW s, NEW work, Goes(c.by, s, work), Writing(c, s, work) \/ Resuming(c, s, work)
        PROVE  Moves(f)
    <3>1. UNCHANGED wrote \/ wrote' = [wrote EXCEPT ![c.by] = c.count + 1]
      BY <2>4 DEF Writing, Resuming
    <3>2. f # c.by => wrote'[f] = wrote[f]
      BY <1>0, <3>1
    <3> HIDE DEF c
    <3> QED
      BY <1>5, <2>2, <2>4, <3>2
  <2> QED
    BY <2>1, <2>3, <2>4 DEF Running
<1>8. ASSUME NEW e \in Events, Send(e)
      PROVE  Moves(f)
  <2>1. ev' = [ev EXCEPT ![e] = "sent"] /\ ev[e] = "new" /\ UNCHANGED wrote
    BY <1>8 DEF Send
  <2> QED
    BY <1>0, <2>1 DEF Moves
<1>9. ASSUME NEW e \in Events, Answer(e)
      PROVE  Moves(f)
  <2>1. UNCHANGED wrote /\ (f # e => ev'[f] = ev[f])
    BY <1>0, <1>9 DEF Answer
  <2> QED
    BY <1>9, <2>1 DEF Moves
<1> QED
  BY Steps, <1>1, <1>2, <1>3, <1>4, <1>6, <1>7, <1>8, <1>9

\* An event whose handler did not start wrote nothing.
Fresh == \A e \in Events : ev[e] \in {"new", "sent"} => wrote[e] = Nil

\* Every step keeps what did not start from having written.
LEMMA FreshStep == GateInv /\ Fresh /\ [Next]_vars => Fresh'
<1> SUFFICES ASSUME GateInv, Fresh, [Next]_vars, NEW e \in Events, ev'[e] \in {"new", "sent"}
             PROVE  wrote'[e] = Nil
  BY DEF Fresh
<1>1. Moves(e)
  BY EventMoves
<1>2. Answer(e) => ev'[e] \in {"answered", "failed"}
  BY DEF Answer, GateInv, Types
<1> QED
  BY <1>1, <1>2 DEF Fresh, Moves

-----------------------------------------------------------------------------
(* The input gate: one read and its write at a time *)

\* What e wrote counts: e answered, or may still.
Live(e) == wrote[e] # Nil /\ (ev[e] = "answered" \/ Waiting(e))

\* What e wrote is stored or about to be, and what waits on it knows.
WriteOf(e) ==
    (wrote[e] # Nil /\ Waiting(e)) =>
       /\ ~failed[life] => wrote[e] <= stored \/ (wrote[e] = stored + 1 /\ ~NoPuts(queue[life]))
       /\ wrote[e] <= stored \/ committed[life] < issued[life]
       /\ ev[e] \in {"call", "ready"} => wrote[e] <= stored \/ committed[life] < stamp[e]

\* One event reads at a time.
OneReader == \A e, f \in Events : (ev[e] = "get" /\ ev[f] = "get") => e = f

\* A result that was read is the count stored, and no write is on its way.
ReadsFresh ==
    \A k \in DOMAIN callbacks : callbacks[k].kind = "get" =>
       NoPuts(queue[life]) /\ (callbacks[k].ok => callbacks[k].count = stored /\ ~failed[life])

\* No two events have written the same count.
Apart == \A e, f \in Events : (e # f /\ Live(e) /\ Live(f)) => wrote[e] # wrote[f]

\* What the input gate keeps: the put in the queue, if any, is the only one and one
\* higher than the count stored, and a read is behind it.
InputGate ==
    /\ OneReader /\ ReadsFresh /\ Apart
    /\ OnePut(queue[life], stored + 1) /\ GetsLast(queue[life])
    /\ \A e \in Events : WriteOf(e)

\* A step of e that makes no write: it goes on, waits or ends.
LEMMA GateFrame ==
    ASSUME Types, alive, InputGate, NEW e \in Events,
           UNCHANGED <<life, failed, committed, stored, wrote>>, issued'[life] = issued[life],
           SamePuts(queue[life], queue'[life]),
           \A k \in DOMAIN callbacks' : callbacks'[k].kind = "get" =>
              \E j \in DOMAIN callbacks : callbacks'[k] = callbacks[j],
           \A f \in Events : f # e => ev'[f] = ev[f] /\ stamp'[f] = stamp[f],
           \/ ev'[e] = ev[e] /\ stamp'[e] = stamp[e]
           \/ /\ wrote[e] = Nil \/ Waiting(e) \/ ev'[e] \in {"sent", "failed"}
              /\ ev'[e] = "get" => \A f \in Events : ev[f] # "get"
              /\ ev'[e] \in {"call", "ready"} => stamp'[e] = issued[life]
    PROVE  InputGate'
<1> DEFINE q == queue[life]
           u == queue'[life]
<1>1. OneReader'
  BY DEF InputGate, OneReader
<1>2. /\ NoPuts(u) <=> NoPuts(q)
      /\ GetsLast(q) => GetsLast(u)
      /\ OnePut(q, stored + 1) => OnePut(u, stored + 1)
  BY DEF SamePuts
<1>3. GetsLast(queue[life])' /\ OnePut(queue[life], stored + 1)'
  BY <1>2 DEF InputGate
<1>4. ReadsFresh'
  <2>1. ASSUME NEW k \in DOMAIN callbacks', callbacks'[k].kind = "get"
        PROVE  NoPuts(u) /\ (callbacks'[k].ok => callbacks'[k].count = stored /\ ~failed[life])
    <3>1. PICK j \in DOMAIN callbacks : callbacks'[k] = callbacks[j]
      BY <2>1
    <3> QED
      BY <1>2, <2>1, <3>1 DEF InputGate, ReadsFresh
  <2> QED
    BY <2>1 DEF ReadsFresh
<1>5. \A f \in Events : Live(f)' => Live(f)
  BY DEF Live, Waiting
<1>6. Apart'
  BY <1>5 DEF InputGate, Apart
<1>7. ASSUME NEW f \in Events
      PROVE  WriteOf(f)'
  <2>1. WriteOf(f)
    BY DEF InputGate
  <2>2. CASE ev'[f] = ev[f] /\ stamp'[f] = stamp[f]
    BY <1>2, <2>1, <2>2 DEF WriteOf, Waiting
  <2>3. CASE f = e /\ ~(ev'[e] = ev[e] /\ stamp'[e] = stamp[e])
    BY <1>2, <2>1, <2>3 DEF WriteOf, Waiting
  <2> QED
    BY <2>2, <2>3
<1> QED
  BY <1>1, <1>3, <1>4, <1>6, <1>7 DEF InputGate

\* The write of an event that read: the count it read is the one stored, and no other
\* write is on its way.
LEMMA GateWrites ==
    ASSUME GateInv, alive, InputGate, \A f \in Events : ev[f] = "answered" /\ wrote[f] # Nil => wrote[f] <= stored,
           NEW i \in DOMAIN callbacks, NEW s, NEW work,
           Goes(callbacks[i].by, s, work), Writing(callbacks[i], s, work),
           callbacks' = Without(callbacks, i), UNCHANGED <<life, failed, committed, stored>>
    PROVE  InputGate'
<1> DEFINE c == callbacks[i]
           e == c.by
           q == queue[life]
           u == queue'[life]
<1>0. Types /\ Order /\ OneAtATime /\ life \in Lives
  BY DEF GateInv, Types
<1>1. c \in Results /\ e \in Events /\ c.kind = "get" /\ c.ok /\ c.count \in Nat
  <2>1. c \in Results
    BY SMT, <1>0 DEF Types
  <2>2. c.kind = "get" /\ c.ok
    BY DEF Writing
  <2> QED
    BY <2>1, <2>2, ResultFields
<1>2. NoPuts(q) /\ c.count = stored /\ ~failed[life]
  BY <1>1 DEF InputGate, ReadsFresh
<1>3. Free(e, callbacks') /\ ev[e] = "get"
  <2>1. c.kind # "put"
    BY <1>1
  <2> QED
    BY <1>0, <1>1, <2>1, FreeToRun
<1>4. \A f \in Events : ev[f] = "get" => f = e
  BY <1>1, <1>3 DEF InputGate, OneReader
<1>5. q \in Seq(Items) /\ stored \in Nat /\ committed[life] \in Nat /\ issued[life] \in Nat
      /\ wrote \in [Events -> Nat \cup {Nil}] /\ callbacks \in Seq(Results)
  BY <1>0 DEF Types
<1>6. NoGets(q)
  <2>1. ASSUME NEW k \in DOMAIN q, q[k].kind = "get"
        PROVE  FALSE
    <3>1. q[k] \in Items
      BY SMT, <1>5
    <3>2. q[k].by \in Events /\ Has(q, "get", q[k].by)
      BY <2>1, <3>1, ItemFields DEF Has
    <3>3. ev[q[k].by] = "get"
      BY <1>0, <3>2 DEF OneAtATime, AsksOf
    <3>4. q[k].by = e
      BY <1>4, <3>2, <3>3
    <3> QED
      BY <1>3, <3>2, <3>4 DEF Free
  <2> QED
    BY <2>1 DEF NoGets
<1>7. \A k \in DOMAIN callbacks' : callbacks'[k].kind # "get"
  <2>1. ASSUME NEW k \in DOMAIN callbacks', callbacks'[k].kind = "get"
        PROVE  FALSE
    <3>1. Within(callbacks', callbacks)
      BY <1>5, RemovedFrom
    <3>2. PICK j \in DOMAIN callbacks : callbacks'[k] = callbacks[j]
      BY <3>1 DEF Within
    <3>3. callbacks[j] \in Results
      BY SMT, <1>5
    <3>4. callbacks[j].by \in Events /\ Has(callbacks, "get", callbacks[j].by)
      BY <2>1, <3>2, <3>3, ResultFields DEF Has
    <3>5. callbacks[j].by = e
      BY <1>0, <1>4, <3>4 DEF OneAtATime, AsksOf
    <3>6. Has(callbacks', "get", e)
      BY <2>1, <3>2, <3>5 DEF Has
    <3> QED
      BY <1>3, <3>6 DEF Free
  <2> QED
    BY <2>1
<1> HIDE DEF c, e
<1>8. /\ s # "get" /\ wrote' = [wrote EXCEPT ![e] = c.count + 1] /\ issued'[life] = issued[life] + 1
      /\ work \in {<<PutOf(e, c.count + 1, issued'[life])>>,
                   <<PutOf(e, c.count + 1, issued'[life]), FrameOf(e, issued'[life])>>}
      /\ Goes(e, s, work)
  BY DEF Writing, c, e
<1>9. u = q \o work \o Asks(e, s)
  BY <1>0, <1>8 DEF Goes, GoesOn, Types
<1>10. c.count + 1 = stored + 1 /\ stored + 1 \in Nat /\ issued'[life] \in Nat /\ ~(stored + 1 <= stored)
  BY SMT, <1>2, <1>5, <1>8
<1>11. OneMore(q, u, stored + 1)
  <2> DEFINE m == issued'[life]
             n == stored + 1
  <2>1. m \in Nat /\ n \in Nat /\ work \in {<<PutOf(e, n, m)>>, <<PutOf(e, n, m), FrameOf(e, m)>>}
    BY <1>8, <1>10
  <2>2. q \in Seq(Items) /\ s # "get" /\ e \in Events
    BY <1>1, <1>5, <1>8
  <2> HIDE DEF m, n, q
  <2>3. OneMore(q, q \o work \o Asks(e, s), n)
    BY <2>1, <2>2, GoesWrites
  <2> QED
    BY <1>9, <2>3 DEF n, q
<1>12. OnePut(u, stored + 1) /\ GetsLast(u) /\ ~NoPuts(u)
  BY <1>2, <1>6, <1>11 DEF OneMore
<1>13. /\ ev'[e] = s /\ \A f \in Events : f # e => ev'[f] = ev[f] /\ wrote'[f] = wrote[f] /\ stamp'[f] = stamp[f]
       /\ wrote'[e] = stored + 1
       /\ s \in {"call", "ready"} => stamp'[e] = issued'[life]
  <2>0. Goes(e, s, work) /\ UNCHANGED <<life, failed, committed>>
    BY <1>8
  <2>1. /\ ev'[e] = s /\ \A f \in Events : f # e => ev'[f] = ev[f]
    BY <1>0, <1>1, <2>0 DEF Goes, GoesOn, Types
  <2>2. wrote'[e] = stored + 1 /\ \A f \in Events : f # e => wrote'[f] = wrote[f]
    BY <1>1, <1>5, <1>8, <1>10
  <2>3. ASSUME NEW f \in Events, f # e
        PROVE  stamp'[f] = stamp[f]
    <3>1. stamp' = stamp \/ \E made : stamp' = [stamp EXCEPT ![e] = made]
      BY <2>0 DEF Goes, GoesOn
    <3> QED
      BY <1>0, <2>3, <3>1 DEF Types
  <2>4. s \in {"call", "ready"} => stamp'[e] = issued'[life]
    BY <1>0, <1>1, <2>0, GoesMakes
  <2> QED
    BY <2>1, <2>2, <2>3, <2>4
<1>14. ASSUME NEW f \in Events, f # e, wrote[f] # Nil, ev[f] = "answered" \/ Waiting(f)
       PROVE  wrote[f] <= stored /\ wrote[f] # stored + 1
  <2>1. wrote[f] <= stored
    BY <1>2, <1>14 DEF InputGate, WriteOf
  <2> QED
    BY <1>10, <2>1
<1>15. OneReader'
  BY <1>1, <1>4, <1>8, <1>13 DEF OneReader
<1>16. ReadsFresh'
  BY <1>7 DEF ReadsFresh
<1>17. Apart'
  <2>1. ASSUME NEW f \in Events, NEW g \in Events, f # g, Live(f)', Live(g)'
        PROVE  wrote'[f] # wrote'[g]
    <3>1. CASE f # e /\ g # e
      BY <1>13, <2>1, <3>1 DEF InputGate, Apart, Live, Waiting
    <3>2. CASE f = e
      BY <1>13, <1>14, <2>1, <3>2 DEF Live, Waiting
    <3>3. CASE g = e
      BY <1>13, <1>14, <2>1, <3>3 DEF Live, Waiting
    <3> QED
      BY <3>1, <3>2, <3>3
  <2> QED
    BY <2>1 DEF Apart
<1>18. ASSUME NEW f \in Events
       PROVE  WriteOf(f)'
  <2>1. CASE f # e
    BY <1>13, <1>14, <2>1 DEF WriteOf, Waiting
  <2>2. CASE f = e
    <3>1. committed[life] <= issued[life]
      BY <1>0 DEF Order, InOrder
    <3>2. committed[life] < issued'[life]
      BY SMT, <1>5, <1>8, <3>1
    <3> QED
      BY <1>12, <1>13, <2>2, <3>2 DEF WriteOf
  <2> QED
    BY <2>1, <2>2
<1> QED
  BY <1>12, <1>15, <1>16, <1>17, <1>18 DEF InputGate

\* The queue runs its head: a write that commits makes the count one higher.
LEMMA GateQueue ==
    ASSUME GateInv, alive, InputGate, RunQueue(life)
    PROVE  InputGate'
<1> DEFINE q == queue[life]
           w == Head(q)
           u == Tail(q)
<1>0. Types /\ Order /\ life \in Lives
  BY DEF GateInv, Types
<1>1. q \in Seq(Items) /\ q # <<>> /\ queue'[life] = u /\ w \in Items
  BY <1>0, QueueMakes
<1>2. UNCHANGED <<life, alive, ev, wrote, stamp, issued>>
  BY DEF RunQueue, hostVars, lifeVars
<1>3. /\ stored \in Nat /\ committed \in [Lives -> Nat] /\ failed \in [Lives -> BOOLEAN] /\ callbacks \in Seq(Results)
      /\ stamp \in [Events -> Nat] /\ issued \in [Lives -> Nat] /\ wrote \in [Events -> Nat \cup {Nil}]
  BY <1>0 DEF Types
<1>4. OnePut(u, stored + 1) /\ GetsLast(u) /\ (w.kind = "put" => ~NoPuts(q) /\ NoPuts(u) /\ w.count = stored + 1)
      /\ (w.kind = "get" => NoPuts(q)) /\ (NoPuts(q) => NoPuts(u))
  BY <1>1, PutsTaken DEF InputGate
<1>5. OneReader' /\ Apart'
  BY <1>2 DEF InputGate, OneReader, Apart, Live, Waiting
<1>6. ASSUME NEW k \in DOMAIN callbacks', callbacks'[k].kind = "get"
      PROVE  \/ \E j \in DOMAIN callbacks : callbacks'[k] = callbacks[j]
             \/ w.kind = "get" /\ callbacks'[k].count = stored /\ (callbacks'[k].ok <=> ~failed[life])
  <2>1. CASE UNCHANGED callbacks
    BY <2>1
  <2>2. ASSUME NEW x \in Results, callbacks' = Append(callbacks, x), x.kind = w.kind,
               x.kind = "get" => x.count = stored /\ (x.ok <=> ~failed[life])
        PROVE  \/ \E j \in DOMAIN callbacks : callbacks'[k] = callbacks[j]
               \/ w.kind = "get" /\ callbacks'[k].count = stored /\ (callbacks'[k].ok <=> ~failed[life])
    <3>0. callbacks \in Seq(Results) /\ k \in DOMAIN Append(callbacks, x)
      BY <1>3, <2>2
    <3>1. \/ k \in DOMAIN callbacks /\ Append(callbacks, x)[k] = callbacks[k]
          \/ k = Len(callbacks) + 1 /\ Append(callbacks, x)[k] = x
      BY <3>0, Appended
    <3> QED
      BY <1>6, <2>2, <3>1
  <2> QED
    BY <1>0, <2>1, <2>2, QueueTells
<1>7. CASE UNCHANGED <<stored, committed, failed>>
  <2>1. OnePut(queue[life], stored + 1)' /\ GetsLast(queue[life])'
    BY <1>1, <1>2, <1>4, <1>7
  <2>2. ReadsFresh'
    <3>1. ASSUME NEW k \in DOMAIN callbacks', callbacks'[k].kind = "get"
          PROVE  NoPuts(u) /\ (callbacks'[k].ok => callbacks'[k].count = stored /\ ~failed[life])
      BY <1>4, <1>6, <3>1 DEF InputGate, ReadsFresh
    <3> QED
      BY <1>1, <1>2, <1>7, <3>1 DEF ReadsFresh
  <2>3. ~failed[life] => (NoPuts(u) => NoPuts(q))
    <3>1. w.kind # "put" => (NoPuts(u) => NoPuts(q))
      BY <1>1, PutsTaken
    <3>2. (w.kind = "put" /\ ~failed[life]) => FALSE
      <4>1. SUFFICES ASSUME w.kind = "put", ~failed[life]
                     PROVE  FALSE
        OBVIOUS
      <4>2. stored' = w.count
        BY <1>0, <1>7, <4>1, QueueTells
      <4>3. stored = stored + 1
        BY <1>4, <1>7, <4>1, <4>2
      <4> QED
        BY SMT, <1>3, <4>3
    <3> QED
      BY <3>1, <3>2
  <2>4. ASSUME NEW f \in Events
        PROVE  WriteOf(f)'
    <3>1. WriteOf(f)
      BY DEF InputGate
    <3> QED
      BY <1>1, <1>2, <1>7, <2>3, <3>1 DEF WriteOf, Waiting
  <2> QED
    BY <1>5, <2>1, <2>2, <2>4 DEF InputGate
<1>8. ASSUME w.kind = "put", ~failed[life]
      PROVE  ReadsFresh'
  <2>1. \A k \in DOMAIN callbacks : callbacks[k].kind # "get"
    BY <1>4, <1>8 DEF InputGate, ReadsFresh
  <2>2. \A k \in DOMAIN callbacks' : callbacks'[k].kind # "get"
    BY <1>6, <1>8, <2>1
  <2> QED
    BY <2>2 DEF ReadsFresh
<1>9. CASE /\ w.kind = "put" /\ ~failed[life] /\ UNCHANGED <<stored, committed>>
           /\ failed' = [failed EXCEPT ![life] = TRUE]
  <2>1. OnePut(queue[life], stored + 1)' /\ GetsLast(queue[life])'
    BY <1>1, <1>2, <1>4, <1>9
  <2>2. failed'[life]
    BY <1>0, <1>3, <1>9
  <2>3. ASSUME NEW f \in Events
        PROVE  WriteOf(f)'
    <3>1. WriteOf(f)
      BY DEF InputGate
    <3> QED
      BY <1>1, <1>2, <1>9, <2>2, <3>1 DEF WriteOf, Waiting
  <2> QED
    BY <1>5, <1>8, <1>9, <2>1, <2>3 DEF InputGate
<1>10. CASE w.kind = "put" /\ ~failed[life] /\ stored' = w.count
  <2>1. stored' = stored + 1 /\ NoPuts(u)
    BY <1>4, <1>10
  <2>2. OnePut(queue[life], stored + 1)' /\ GetsLast(queue[life])'
    <3>1. OnePut(u, stored' + 1) /\ GetsLast(u)
      <4> HIDE DEF u
      <4> QED
        BY <2>1 DEF NoPuts, OnePut, GetsLast
    <3> QED
      BY <1>1, <1>2, <3>1
  <2>3. ASSUME NEW f \in Events
        PROVE  WriteOf(f)'
    <3>1. (wrote[f] # Nil /\ Waiting(f)) => wrote[f] <= stored \/ wrote[f] = stored + 1
      BY <1>10 DEF InputGate, WriteOf
    <3>2. (wrote[f] # Nil /\ Waiting(f)) => wrote[f] <= stored'
      <4>1. wrote[f] # Nil => wrote[f] \in Nat
        BY <1>3
      <4> QED
        BY SMT, <1>3, <2>1, <3>1, <4>1
    <3> QED
      BY <1>2, <3>2 DEF WriteOf, Waiting
  <2> QED
    BY <1>5, <1>8, <1>10, <2>2, <2>3 DEF InputGate
<1> QED
  BY <1>0, <1>7, <1>9, <1>10, QueueTells

-----------------------------------------------------------------------------
(* What was answered stays stored *)

\* Only the queue of this life goes on; no two answers have the same count, and nothing
\* on its way in a queue or to the guest undercuts one.
Kept ==
    /\ \A l \in Lives : l # life => queue[l] = <<>>
    /\ \A e, f \in Answered : e # f => wrote[e] # wrote[f]
    /\ \A e \in Answered : Beneath(wrote[e], stored, queue, callbacks)

\* The input gate is of an object that runs and is not broken; what it answered is for
\* good.
CountInv ==
    /\ GateInv /\ Fresh
    /\ ~overlap => Kept
    /\ (~overlap /\ alive /\ ~failure) => InputGate

\* The handler of e goes on to s, and makes no write.
Resumes(e, s) ==
    /\ issued'[life] = issued[life] /\ SamePuts(queue[life], queue'[life])
    /\ ev'[e] = s /\ \A f \in Events : f # e => ev'[f] = ev[f] /\ stamp'[f] = stamp[f]
    /\ s \in {"call", "ready"} => stamp'[e] = issued[life]

\* That is what a handler does when it goes on with no work.
LEMMA ResumesGoing ==
    ASSUME Types, alive, NEW e \in Events, NEW s, Goes(e, s, <<>>)
    PROVE  Resumes(e, s)
<1>1. /\ life \in Lives /\ issued \in [Lives -> Nat] /\ stamp \in [Events -> Nat] /\ queue \in [Lives -> Seq(Items)]
      /\ DOMAIN ev = Events
  BY DEF Types
<1>2. /\ issued' = [issued EXCEPT ![life] = issued[life]]
      /\ stamp' = IF s \in {"call", "ready"} THEN [stamp EXCEPT ![e] = issued[life]] ELSE stamp
      /\ queue' = [queue EXCEPT ![life] = @ \o <<>> \o Asks(e, s)]
      /\ ev' = [ev EXCEPT ![e] = s]
  BY DEF Goes, GoesOn
<1>3. SamePuts(queue[life], queue[life] \o <<>> \o Asks(e, s))
  BY <1>1, GoesPuts
<1>4. queue'[life] = queue[life] \o <<>> \o Asks(e, s) /\ issued'[life] = issued[life]
  BY <1>1, <1>2
<1>5. /\ ev'[e] = s /\ \A f \in Events : f # e => ev'[f] = ev[f] /\ stamp'[f] = stamp[f]
      /\ s \in {"call", "ready"} => stamp'[e] = issued[life]
  BY <1>1, <1>2
<1> QED
  BY <1>3, <1>4, <1>5 DEF Resumes

\* Every step keeps the input gate.
LEMMA InputStep == CountInv /\ [Next]_vars => ((~overlap /\ alive /\ ~failure) => InputGate)'
<1> SUFFICES ASSUME CountInv, [Next]_vars, ~overlap', alive', ~failure'
             PROVE  InputGate'
  OBVIOUS
<1> USE DEF hostVars, lifeVars, storeVars
<1>0. Types /\ Order /\ Mail /\ Down /\ Ahead /\ OneAtATime /\ GateInv /\ Fresh
  BY DEF CountInv, GateInv
<1>1. CASE Quiet
  <2>1. UNCHANGED <<life, alive, ev, wrote, callbacks, queue, failed, issued, committed, stored, stamp, overlap>>
    BY <1>1 DEF Quiet
  <2>0. ~failure
    <3>1. failure' = failure \/ failure' = TRUE
      BY <1>1 DEF Quiet
    <3> QED
      BY <3>1
  <2>2. InputGate
    BY <2>0, <2>1 DEF CountInv
  <2> QED
    BY <2>1, <2>2 DEF InputGate, OneReader, ReadsFresh, Apart, Live, Waiting, WriteOf
<1>2. CASE Build
  <2>1. life' \in Lives /\ life' > life
    BY SMT, <1>0, <1>2, ObjectAssumption DEF Build, Types, Lives
  <2>2. queue'[life'] = <<>> /\ callbacks' = <<>> /\ UNCHANGED <<ev, wrote>> /\ ~overlap /\ ~alive
    BY <1>0, <1>2, <2>1 DEF Build, Ahead
  <2>3. \A k : k \notin DOMAIN <<>>
    BY SMT
  <2>4. \A e \in Events : ~Waiting(e) /\ ~Waiting(e)' /\ ev'[e] # "get"
    BY <1>0, <2>2 DEF Down, Waiting
  <2>5. OneReader' /\ ReadsFresh' /\ OnePut(queue[life], stored + 1)' /\ GetsLast(queue[life])'
    BY <2>2, <2>3, <2>4 DEF OneReader, ReadsFresh, OnePut, GetsLast
  <2>6. \A e \in Events : WriteOf(e)'
    BY <2>4 DEF WriteOf
  <2>7. \A e, f \in Answered : e # f => wrote[e] # wrote[f]
    BY <2>2 DEF CountInv, Kept
  <2>8. Apart'
    BY <2>2, <2>4, <2>7 DEF Apart, Live, Answered
  <2> QED
    BY <2>5, <2>6, <2>8 DEF InputGate
<1>3. CASE BuildFails \/ (alive /\ Drop)
  BY <1>3 DEF BuildFails, Drop
<1>4. CASE Admit
  <2>1. alive /\ UNCHANGED <<life, failed, committed, stored, wrote, callbacks, overlap, failure>> /\ ~Reading
    BY <1>4 DEF Admit, GateOpen
  <2>2. PICK e \in Events, s \in {"call", "kv", "get"} :
           Goes(e, s, <<>>) /\ (first = e \/ (mailbox # <<>> /\ e = Head(mailbox)))
    BY <1>0, <1>4, <2>1, Admits
  <2>3. ev[e] = "sent"
    BY <1>0, <2>2, HeadSent, ObjectAssumption DEF Mail
  <2>4. wrote[e] = Nil
    BY <1>0, <2>3 DEF Fresh
  <2>5. InputGate
    BY <2>1 DEF CountInv
  <2>6. Resumes(e, s)
    BY <1>0, <2>1, <2>2, ResumesGoing
  <2>7. \A f \in Events : ev[f] # "get"
    BY <2>1 DEF Reading
  <2> QED
    BY <1>0, <2>1, <2>4, <2>5, <2>6, <2>7, GateFrame DEF Resumes
<1>5. CASE RunCallback
  <2>1. alive /\ UNCHANGED <<life, failed, committed, stored, overlap>>
    BY <1>5 DEF RunCallback
  <2>2. PICK i \in DOMAIN callbacks :
           /\ Fits(callbacks[i]) /\ callbacks[i] \in Results /\ callbacks' = Without(callbacks, i)
           /\ failure' = (failure \/ (callbacks[i].kind = "put" /\ ~callbacks[i].ok))
           /\ Running(callbacks[i])
    BY <1>0, <1>5, Runs
  <2> DEFINE c == callbacks[i]
             e == c.by
  <2>3. InputGate /\ Kept /\ ~failure
    BY <2>1, <2>2 DEF CountInv
  <2>4. e \in Events
    BY <2>2, ResultFields
  <2>5. Within(callbacks', callbacks)
    <3>1. callbacks \in Seq(Results)
      BY <1>0 DEF Types
    <3> QED
      BY <2>2, <3>1, RemovedFrom
  <2>6. CASE Ignoring(c)
    <3>1. UNCHANGED <<ev, queue, issued, stamp, wrote>>
      BY <2>6 DEF Ignoring
    <3>2. SamePuts(queue[life], queue'[life])
      BY <3>1 DEF SamePuts
    <3> QED
      BY <1>0, <2>1, <2>3, <2>4, <2>5, <3>1, <3>2, GateFrame DEF Within
  <2>7. ASSUME NEW s, NEW work, Goes(e, s, work), Writing(c, s, work)
        PROVE  InputGate'
    <3>1. ASSUME NEW f \in Events, ev[f] = "answered", wrote[f] # Nil
          PROVE  wrote[f] <= stored
      BY <2>3, <3>1 DEF Kept, Answered, Beneath
    <3> QED
      BY <1>0, <2>1, <2>2, <2>3, <2>7, <3>1, GateWrites
  <2>8. ASSUME NEW s, NEW work, Goes(e, s, work), Resuming(c, s, work)
        PROVE  InputGate'
    <3>1. work = <<>> /\ UNCHANGED wrote /\ (c.kind = "put" => ev[e] = "put") /\ (s = "get" => c.kind = "call")
      BY <2>8 DEF Resuming
    <3>2. Waiting(e)
      BY <1>0, <2>1, <2>2, <3>1, FreeToRun DEF Waiting
    <3>3. s = "get" => \A f \in Events : ev[f] # "get"
      BY <2>2, <2>3, <3>1 DEF Fits, Reading
    <3>4. Resumes(e, s)
      BY <1>0, <2>1, <2>4, <2>8, <3>1, ResumesGoing
    <3> HIDE DEF e, c
    <3> QED
      BY <1>0, <2>1, <2>3, <2>4, <2>5, <3>1, <3>2, <3>3, <3>4, GateFrame DEF Resumes, Within
  <2> QED
    BY <2>2, <2>6, <2>7, <2>8 DEF Running
<1>6. ASSUME NEW e \in Events, Send(e) \/ Answer(e) \/ CallReturns(e) \/ Hold(e)
      PROVE  InputGate /\ UNCHANGED <<life, failed, committed, stored, wrote, issued, stamp>> /\ alive
  <2>1. UNCHANGED <<life, alive, failure, overlap, failed, committed, stored, wrote, issued, stamp>>
    BY <1>6 DEF Send, Answer, CallReturns, Hold
  <2> QED
    BY <2>1 DEF CountInv
<1>7. ASSUME NEW e \in Events, Send(e) \/ Answer(e)
      PROVE  InputGate'
  <2>1. /\ UNCHANGED <<queue, callbacks>> /\ \A f \in Events : f # e => ev'[f] = ev[f]
        /\ ev'[e] = "sent" \/ (Waiting(e) /\ ev'[e] \in {"answered", "failed"})
    BY <1>0, <1>7 DEF Send, Answer, Waiting, Types
  <2>2. SamePuts(queue[life], queue'[life])
    BY <1>6, <1>7, <2>1 DEF SamePuts
  <2>3. InputGate /\ UNCHANGED <<life, failed, committed, stored, wrote, issued, stamp>> /\ alive
    BY <1>6, <1>7
  <2> QED
    BY <1>0, <2>1, <2>2, <2>3, GateFrame
<1>8. ASSUME NEW e \in Events, Hold(e)
      PROVE  InputGate'
  <2> DEFINE x == [kind |-> "barrier", by |-> e]
  <2>1. x \in Items /\ x.kind # "put"
    BY SMT DEF Items
  <2>2. UNCHANGED <<ev, callbacks>> /\ queue' = [queue EXCEPT ![life] = Append(@, x)]
    BY <1>8 DEF Hold, Holds
  <2>3. InputGate /\ UNCHANGED <<life, failed, committed, stored, wrote, issued, stamp>> /\ alive
    BY <1>6, <1>8
  <2> HIDE DEF x
  <2>4. queue'[life] = Append(queue[life], x) /\ queue[life] \in Seq(Items)
    BY <1>0, <2>2, <2>3 DEF Types
  <2>5. SamePuts(queue[life], queue'[life])
    BY <2>1, <2>4, PutsAppended
  <2> QED
    BY <1>0, <2>2, <2>3, <2>5, GateFrame
<1>9. ASSUME NEW e \in Events, CallReturns(e)
      PROVE  InputGate'
  <2> DEFINE x == [kind |-> "call", by |-> e, ok |-> gate[e] = "open"]
  <2>1. x \in Results /\ x.kind # "get"
    BY SMT DEF Results
  <2>2. UNCHANGED <<ev, queue>> /\ callbacks' = Append(callbacks, x) /\ callbacks \in Seq(Results)
    BY <1>0, <1>9 DEF CallReturns, Types
  <2> HIDE DEF x
  <2>3. InputGate /\ UNCHANGED <<life, failed, committed, stored, wrote, issued, stamp>> /\ alive
    BY <1>6, <1>9
  <2>4. ASSUME NEW k \in DOMAIN callbacks', callbacks'[k].kind = "get"
        PROVE  \E j \in DOMAIN callbacks : callbacks'[k] = callbacks[j]
    <3>1. \/ k \in DOMAIN callbacks /\ Append(callbacks, x)[k] = callbacks[k]
          \/ k = Len(callbacks) + 1 /\ Append(callbacks, x)[k] = x
      BY <2>1, <2>2, Appended
    <3> QED
      BY <2>1, <2>2, <2>4, <3>1
  <2>5. SamePuts(queue[life], queue'[life])
    BY <2>2, <2>3 DEF SamePuts
  <2> QED
    BY <1>0, <2>2, <2>3, <2>4, <2>5, GateFrame
<1>10. ASSUME NEW l \in Lives, RunQueue(l)
       PROVE  InputGate'
  <2>1. UNCHANGED <<life, alive, failure, overlap>> /\ queue[l] # <<>>
    BY <1>10 DEF RunQueue
  <2>2. InputGate /\ Kept /\ alive
    BY <2>1 DEF CountInv
  <2>3. l = life
    BY <2>1, <2>2 DEF Kept
  <2> QED
    BY <1>0, <1>10, <2>2, <2>3, GateQueue
<1> QED
  BY Steps, <1>1, <1>2, <1>3, <1>4, <1>5, <1>7, <1>8, <1>9, <1>10

\* The queue of every life but the one that serves stays empty.
LEMMA OthersEmpty ==
    ASSUME GateInv, [Next]_vars, ~overlap', \A l \in Lives : l # life => queue[l] = <<>>
    PROVE  \A l \in Lives : l # life' => queue'[l] = <<>>
<1> USE DEF hostVars, lifeVars, storeVars
<1>0. Types /\ Order /\ Ahead /\ queue \in [Lives -> Seq(Items)]
  BY DEF GateInv, Types
<1>1. CASE Quiet \/ BuildFails \/ (alive /\ Drop) \/ \E e \in Events : Send(e) \/ Answer(e) \/ CallReturns(e)
  BY <1>1 DEF Quiet, BuildFails, Drop, Send, Answer, CallReturns
<1>2. CASE Build
  <2>1. UNCHANGED queue /\ \A l \in 1..life : queue[l] = <<>>
    BY <1>2 DEF Build
  <2>2. \A l \in Lives : l \in 1..life \/ l > life
    BY SMT, <1>0, ObjectAssumption DEF Types, Lives
  <2> QED
    BY <1>0, <2>1, <2>2 DEF Ahead
<1>3. ASSUME NEW e \in Events, NEW s, NEW work, alive, Goes(e, s, work), UNCHANGED life
      PROVE  \A l \in Lives : l # life' => queue'[l] = <<>>
  <2>1. queue' = [queue EXCEPT ![life] = @ \o work \o Asks(e, s)]
    BY <1>3 DEF Goes, GoesOn
  <2> QED
    BY <1>0, <1>3, <2>1
<1>4. CASE Admit
  <2>1. alive /\ UNCHANGED life
    BY <1>4 DEF Admit
  <2>2. PICK e \in Events, s \in {"call", "kv", "get"} : Goes(e, s, <<>>)
    BY <1>0, <1>4, <2>1, Admits
  <2> QED
    BY <1>3, <2>1, <2>2
<1>5. CASE RunCallback
  <2>1. alive /\ UNCHANGED life
    BY <1>5 DEF RunCallback
  <2>2. PICK i \in DOMAIN callbacks : callbacks[i] \in Results /\ Running(callbacks[i])
    BY <1>0, <1>5, Runs
  <2>3. callbacks[i].by \in Events
    BY <2>2, ResultFields
  <2>4. UNCHANGED queue \/ \E s, work : Goes(callbacks[i].by, s, work)
    BY <2>2 DEF Running, Ignoring
  <2> QED
    BY <1>3, <2>1, <2>3, <2>4
<1>6. ASSUME NEW e \in Events, Hold(e)
      PROVE  \A l \in Lives : l # life' => queue'[l] = <<>>
  BY <1>0, <1>6 DEF Hold, Holds
<1>7. ASSUME NEW l \in Lives, RunQueue(l)
      PROVE  \A m \in Lives : m # life' => queue'[m] = <<>>
  <2>1. UNCHANGED life /\ queue[l] # <<>> /\ queue' = [queue EXCEPT ![l] = Popped(l)]
    BY <1>7 DEF RunQueue
  <2> QED
    BY <1>0, <2>1
<1> QED
  BY Steps, <1>1, <1>2, <1>4, <1>5, <1>6, <1>7

\* An event that is answered wrote what is stored: its barrier opened after the commit.
LEMMA AnswerKept ==
    ASSUME CountInv, ~overlap, NEW e \in Events, Answer(e), ev'[e] = "answered", wrote[e] # Nil
    PROVE  Beneath(wrote[e], stored, queue, callbacks) /\ Live(e) /\ InputGate
<1>0. Types /\ GateInv /\ HeldBack /\ Kept
  BY DEF CountInv, GateInv
<1>1. alive /\ ~failure /\ ev[e] = "ready" /\ gate[e] = "open"
  BY <1>0 DEF Answer, Types
<1>2. InputGate /\ life \in Lives
  BY <1>0, <1>1 DEF CountInv, Types
<1>3. Waiting(e) /\ Live(e)
  BY <1>1 DEF Waiting, Live
<1>4. stamp[e] <= committed[life] /\ stamp[e] \in Nat /\ committed[life] \in Nat
  BY <1>0, <1>1, <1>2 DEF HeldBack, HeldOf, Types
<1>5. ~(committed[life] < stamp[e])
  BY SMT, <1>4
<1>6. wrote[e] <= stored
  BY <1>1, <1>2, <1>3, <1>5 DEF InputGate, WriteOf
<1>7. wrote[e] \in Nat /\ stored \in Nat
  BY <1>0 DEF Types
<1>8. wrote[e] <= stored + 1
  BY SMT, <1>6, <1>7
<1>9. ASSUME NEW l \in Lives
      PROVE  Above(queue[l], wrote[e])
  <2>1. \A k : k \notin DOMAIN <<>>
    BY SMT
  <2>2. CASE l = life
    BY <1>2, <1>8, <2>2 DEF InputGate, OnePut, Above
  <2>3. CASE l # life
    BY <1>0, <2>1, <2>3 DEF Kept, Above
  <2> QED
    BY <2>2, <2>3
<1>10. Told(callbacks, wrote[e])
  BY <1>2, <1>6 DEF InputGate, ReadsFresh, Told
<1> QED
  BY <1>2, <1>3, <1>6, <1>9, <1>10 DEF Beneath

\* Every step keeps what was answered.
LEMMA KeptStep == CountInv /\ [Next]_vars => (~overlap => Kept)'
<1> SUFFICES ASSUME CountInv, [Next]_vars, ~overlap'
             PROVE  Kept'
  OBVIOUS
<1> USE DEF hostVars, lifeVars, storeVars
<1>0. GateInv /\ Types
  BY DEF CountInv, GateInv
<1>1. ~overlap
  <2>1. overlap' = overlap \/ Build
    BY Steps DEF Quiet, BuildFails, Drop, Admit, RunCallback, Send, Hold, Answer, CallReturns, RunQueue
  <2> QED
    BY <2>1 DEF Build
<1>2. Kept
  BY <1>1 DEF CountInv
<1>3. \A l \in Lives : l # life' => queue'[l] = <<>>
  BY <1>0, <1>2, OthersEmpty DEF Kept
<1>4. ASSUME NEW e \in Events, ev'[e] = "answered", wrote'[e] # Nil
      PROVE  /\ wrote'[e] = wrote[e] /\ Live(e) /\ Beneath(wrote[e], stored, queue, callbacks)
             /\ e \in Answered \/ InputGate
  <2>1. Moves(e)
    BY <1>0, EventMoves
  <2>2. CASE Answer(e)
    <3>1. UNCHANGED wrote
      BY <2>2 DEF Answer
    <3> QED
      BY <1>1, <1>4, <2>2, <3>1, AnswerKept
  <2>3. CASE ev[e] = "answered" /\ wrote'[e] = wrote[e]
    BY <1>2, <1>4, <2>3 DEF Kept, Answered, Live
  <2> QED
    BY <1>4, <2>1, <2>2, <2>3 DEF Moves
<1>5. ASSUME NEW e \in Events, ev'[e] = "answered", wrote'[e] # Nil
      PROVE  Beneath(wrote'[e], stored', queue', callbacks')
  <2>1. wrote'[e] = wrote[e] /\ Beneath(wrote[e], stored, queue, callbacks)
    BY <1>4, <1>5
  <2>2. wrote[e] \in Nat
    BY <1>0, <1>5, <2>1 DEF Types
  <2>3. Beneath(wrote[e], stored', queue', callbacks')
    BY <1>0, <2>1, <2>2, BeneathStep
  <2> QED
    BY <2>1, <2>3
<1>6. ASSUME NEW e \in Events, NEW f \in Events, e # f, ev'[e] = "answered", wrote'[e] # Nil,
             ev'[f] = "answered", wrote'[f] # Nil
      PROVE  wrote'[e] # wrote'[f]
  <2>1. wrote'[e] = wrote[e] /\ Live(e) /\ (e \in Answered \/ InputGate)
    BY <1>4, <1>6
  <2>2. wrote'[f] = wrote[f] /\ Live(f) /\ (f \in Answered \/ InputGate)
    BY <1>4, <1>6
  <2>3. CASE e \in Answered /\ f \in Answered
    BY <1>2, <1>6, <2>1, <2>2, <2>3 DEF Kept
  <2>4. CASE InputGate
    BY <1>6, <2>1, <2>2, <2>4 DEF InputGate, Apart
  <2> QED
    BY <2>1, <2>2, <2>3, <2>4
<1> QED
  BY <1>3, <1>5, <1>6 DEF Kept, Answered

\* The invariant of the count holds at first.
LEMMA CountInit == Init => CountInv
<1> SUFFICES ASSUME Init PROVE CountInv
  OBVIOUS
<1>1. GateInv
  BY GateInit
<1>2. Fresh /\ ~alive /\ (\A l \in Lives : queue[l] = <<>>) /\ \A e \in Events : ev[e] = "new"
  BY DEF Init, Fresh
<1>3. Kept
  BY <1>2 DEF Kept, Answered
<1> QED
  BY <1>1, <1>2, <1>3 DEF CountInv

\* Until lives overlap, the input gate keeps each read with its write, and what was
\* answered is beneath all that is stored or on its way.
THEOREM CountInvariant == Spec => []CountInv
<1>1. CountInv /\ [Next]_vars => CountInv'
  <2> SUFFICES ASSUME CountInv, [Next]_vars
               PROVE  CountInv'
    OBVIOUS
  <2>1. GateInv'
    BY GateStep DEF CountInv
  <2>2. Fresh'
    BY FreshStep DEF CountInv
  <2>3. (~overlap => Kept)' /\ ((~overlap /\ alive /\ ~failure) => InputGate)'
    BY KeptStep, InputStep
  <2> QED
    BY <2>1, <2>2, <2>3 DEF CountInv
<1> QED
  BY <1>1, CountInit, PTL DEF Spec

\* CountKeptInOrder for any number of events and lives: as long as no life is built before
\* the queue of an earlier one is empty, no two events answer with the same count, and the
\* stored count never falls behind an answer, whatever fails or is dropped meanwhile.
THEOREM CountStays == Spec => []CountKeptInOrder
<1>1. CountInv => CountKeptInOrder
  <2> SUFFICES ASSUME CountInv, ~overlap
               PROVE  CountKept
    BY DEF CountKeptInOrder
  <2>1. Kept /\ Types
    BY DEF CountInv, GateInv
  <2>2. ASSUME NEW e \in Answered
        PROVE  stored >= wrote[e]
    <3>1. wrote[e] <= stored
      BY <2>1 DEF Kept, Beneath
    <3>2. wrote[e] \in Nat /\ stored \in Nat
      BY <2>1 DEF Answered, Types
    <3> QED
      BY SMT, <3>1, <3>2
  <2> QED
    BY <2>1, <2>2 DEF Kept, CountKept
<1> QED
  BY <1>1, CountInvariant, PTL
=============================================================================
