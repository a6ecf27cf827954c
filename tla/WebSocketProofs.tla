--------------------------- MODULE WebSocketProofs ---------------------------
(***************************************************************************)
(* What WebSocket guarantees of the frames, the ends and the events of any *)
(* number of sockets, over any number of requests. Each of the three has   *)
(* an invariant of its own: Frames, how the frames on the wire, those kept *)
(* for the client, the commands of the task and the messages of the loop   *)
(* follow one another; Held, that a connected socket whose scope goes on   *)
(* has a loop that commands it; and Heard, which socket has a callback.    *)
(***************************************************************************)
EXTENDS WebSocket, TLAPS

\* Zenon proves the leaves, but for those that cite SMT: numbers, sequences, records.
USE Zenon

-----------------------------------------------------------------------------
(* The inductive invariant *)

Cmds == [type : {"Attach", "Accept", "Close"}] \cup [type : {"Send"}, frame : Nat]

Msgs == [type : {"BeginRequest", "Upgrade", "Connect", "Pair", "Accept", "Close"}, id : Nat]
          \cup [type : {"Send"}, id : Nat, frame : Nat]

Events == [type : {"Connected", "ConnectError", "Closed", "Message"}, id : Sockets]

Types ==
    /\ script \in Scripts /\ next_ws \in Nat \ {0} /\ request \in Nat /\ socket \in Nat
    /\ reader \in [Sockets -> Nat] /\ heard \in [Sockets -> Nat] /\ told \in [Sockets -> Nat]
    /\ scheduler_rx \in Seq(Msgs)
    /\ callback_rx \in Seq(Events)
    /\ commands \in [Sockets -> Seq(Cmds)]
    /\ task \in [Sockets -> {"none", "connecting", "waiting", "pumping", "ended"}]
    /\ task_scope \in [Sockets -> Nat] /\ scope \in Nat
    /\ early \in [Sockets -> Seq(Nat)] /\ asked \in [Sockets -> Nat] /\ sent \in [Sockets -> Seq(Nat)]
    /\ wire \in [Sockets -> {"none", "up", "down"}]

\* The items of q at the places P are the frames after lo up to hi, in order: c counts
\* them along q.
InOrder(q, P, lo, hi) ==
    \E c \in [0..Len(q) -> Nat] :
        /\ c[0] = lo /\ c[Len(q)] = hi
        /\ \A k \in 1..Len(q) : IF k \in P THEN q[k].frame = c[k - 1] + 1 /\ c[k] = c[k - 1] + 1
                                           ELSE c[k] = c[k - 1]

\* Where the frames are in commands, and those of s in the messages of the loop.
FramesIn(q) == {k \in DOMAIN q : q[k].type = "Send"}

FramesOf(q, s) == {k \in DOMAIN q : q[k].type = "Send" /\ q[k].id = s}

\* The messages that make the socket s.
Making(q, s) == {k \in DOMAIN q : q[k].type \in {"Connect", "Pair"} /\ q[k].id = s}

\* One message makes the socket, before its frames.
Ready(q, s) ==
    \A k \in Making(q, s) : (\A j \in Making(q, s) : j = k) /\ (\A j \in FramesOf(q, s) : k < j)

\* A socket not yet made has no frames, and its task starts with the message that makes it.
Unmade(s) ==
    /\ task[s] = "none" => sent[s] = <<>> /\ early[s] = <<>> /\ commands[s] = <<>> /\ s \notin ws_commands
    /\ s >= next_ws => /\ task[s] = "none" /\ asked[s] = 0
                       /\ Making(scheduler_rx, s) = {} /\ FramesOf(scheduler_rx, s) = {}
    /\ Ready(scheduler_rx, s)
    /\ Making(scheduler_rx, s) # {} =>
          task[s] = "none" /\ InOrder(scheduler_rx, FramesOf(scheduler_rx, s), 0, asked[s])

\* What is on the wire, what waits for the client, what the task is told and, as long as
\* the loop passes it on, what the loop is told, is what the guest sent.
Line(s) ==
    task[s] # "ended" =>
        /\ \A k \in DOMAIN sent[s] : sent[s][k] = k
        /\ \A k \in DOMAIN early[s] : early[s][k] = Len(sent[s]) + k
        /\ task[s] \in {"connecting", "pumping"} => early[s] = <<>>
        /\ \E mid \in Nat :
              /\ InOrder(commands[s], FramesIn(commands[s]), Len(sent[s]) + Len(early[s]), mid)
              /\ s \in ws_commands => InOrder(scheduler_rx, FramesOf(scheduler_rx, s), mid, asked[s])

OnTheWire(s) ==
    /\ \A k \in DOMAIN sent[s] : sent[s][k] \in {0, k}
    /\ \A k \in DOMAIN sent[s] : sent[s][k] = 0 => k = Len(sent[s])

Frames(s) == Unmade(s) /\ Line(s) /\ OnTheWire(s)

Live == phase \notin {"dropping", "gone"}

Has(q, type) == \E k \in DOMAIN q : q[k].type = type

\* A socket is connected, or will be, only while the loop commands it, or told it to
\* close, or its scope is cancelled.
Held(s) ==
    /\ task[s] \in {"none", "connecting", "waiting"} => wire[s] = "none"
    /\ task[s] = "none" => s \notin upgrade \cup pairs
    /\ s \in pairs => task[s] \in {"waiting", "ended"} /\ s \notin upgrade /\ ~Has(commands[s], "Attach")
    /\ (Live /\ task[s] \notin {"none", "ended"}) => task_scope[s] = scope \/ task_scope[s] \in cancelled_scopes
    /\ (/\ Live /\ task[s] \notin {"none", "ended"} /\ task_scope[s] \notin cancelled_scopes
        /\ task[s] \in {"connecting", "pumping"} \/ s \in upgrade \/ Has(commands[s], "Attach"))
          => s \in ws_commands \/ Has(commands[s], "Close")
    /\ (task[s] = "ended" /\ wire[s] = "up" /\ Live) => sent[s] # <<>> /\ sent[s][Len(sent[s])] = 0

\* A socket has a callback in the request that accepted it, and none once it was told of
\* its end, nor while it connects.
Heard(s) ==
    /\ s \in ws_event_callbacks => reader[s] = request /\ s \in accepted_js /\ s \notin connects
    /\ s \in connects => s < next_ws /\ script.kinds[s] = "client" /\ s \notin accepted_js /\ told[s] = 0
    /\ s \in accepted_js => s < next_ws
    /\ told[s] > 0 => /\ s \notin ws_event_callbacks /\ s < next_ws
                      /\ script.kinds[s] = "pair" => s \in accepted_js

IInv == Types /\ \A s \in Sockets : Frames(s) /\ Held(s) /\ Heard(s)

-----------------------------------------------------------------------------
(* Frames in order *)

\* No frame is a run of none.
LEMMA InOrderNone ==
    ASSUME NEW M, NEW q \in Seq(M), NEW lo \in Nat
    PROVE  InOrder(q, {}, lo, lo)
<1> DEFINE c == [k \in 0..Len(q) |-> lo]
<1>1. c \in [0..Len(q) -> Nat] /\ c[0] = lo /\ c[Len(q)] = lo /\ \A k \in 1..Len(q) : c[k] = c[k - 1]
  BY SMT
<1> QED
  BY <1>1 DEF InOrder

\* A frame is the next one, or the item is none.
LEMMA InOrderPut ==
    ASSUME NEW M, NEW q \in Seq(M), NEW m \in M, NEW P \in SUBSET DOMAIN q,
           NEW lo \in Nat, NEW hi \in Nat, InOrder(q, P, lo, hi)
    PROVE  /\ InOrder(Append(q, m), P, lo, hi)
           /\ m.frame = hi + 1 => InOrder(Append(q, m), P \cup {Len(q) + 1}, lo, hi + 1)
<1>1. PICK c \in [0..Len(q) -> Nat] :
        /\ c[0] = lo /\ c[Len(q)] = hi
        /\ \A k \in 1..Len(q) : IF k \in P THEN q[k].frame = c[k - 1] + 1 /\ c[k] = c[k - 1] + 1
                                           ELSE c[k] = c[k - 1]
  BY DEF InOrder
<1>2. /\ Len(q) \in Nat /\ Len(Append(q, m)) = Len(q) + 1 /\ DOMAIN q = 1..Len(q) /\ Append(q, m)[Len(q) + 1] = m
      /\ \A k \in 1..Len(q) : Append(q, m)[k] = q[k]
  BY SMT
<1>3. ASSUME NEW h \in Nat
      PROVE  \E d \in [0..(Len(q) + 1) -> Nat] :
               /\ d[0] = lo /\ d[Len(q) + 1] = h /\ d[(Len(q) + 1) - 1] = hi
               /\ \A k \in 1..Len(q) : d[k] = c[k] /\ d[k - 1] = c[k - 1]
  <2> DEFINE d == [k \in 0..(Len(q) + 1) |-> IF k = Len(q) + 1 THEN h ELSE c[k]]
  <2>1. d \in [0..(Len(q) + 1) -> Nat]
    <3>1. ASSUME NEW k \in 0..(Len(q) + 1), k # Len(q) + 1 PROVE k \in 0..Len(q)
      BY SMT, <1>2, <3>1
    <3> QED
      BY <1>1, <3>1
  <2>2. d[0] = lo /\ d[Len(q) + 1] = h /\ d[(Len(q) + 1) - 1] = hi
    <3>1. \A n \in Nat : 0 \in 0..(n + 1) /\ 0 # n + 1 /\ n + 1 \in 0..(n + 1)
                         /\ (n + 1) - 1 = n /\ n \in 0..(n + 1) /\ n # n + 1
      BY SMT
    <3> QED
      BY <1>1, <1>2, <3>1
  <2>3. \A k \in 1..Len(q) : d[k] = c[k] /\ d[k - 1] = c[k - 1]
    BY SMT, <1>2
  <2> QED
    BY <2>1, <2>2, <2>3
<1>4. \A k \in 1..(Len(q) + 1) : k \in 1..Len(q) \/ k = Len(q) + 1
  BY SMT, <1>2
<1>5. Len(q) + 1 \notin P /\ hi + 1 \in Nat
  BY SMT, <1>2
<1>6. InOrder(Append(q, m), P, lo, hi)
  <2>1. PICK d \in [0..(Len(q) + 1) -> Nat] :
          /\ d[0] = lo /\ d[Len(q) + 1] = hi /\ d[(Len(q) + 1) - 1] = hi
          /\ \A k \in 1..Len(q) : d[k] = c[k] /\ d[k - 1] = c[k - 1]
    BY <1>3
  <2>2. ASSUME NEW k \in 1..(Len(q) + 1)
        PROVE  IF k \in P THEN Append(q, m)[k].frame = d[k - 1] + 1 /\ d[k] = d[k - 1] + 1 ELSE d[k] = d[k - 1]
    <3>1. CASE k \in 1..Len(q)
      BY <1>1, <1>2, <2>1, <3>1
    <3>2. CASE k = Len(q) + 1
      BY <1>5, <2>1, <3>2
    <3> QED
      BY <1>4, <3>1, <3>2
  <2>3. \E e \in [0..(Len(q) + 1) -> Nat] :
          /\ e[0] = lo /\ e[Len(q) + 1] = hi
          /\ \A k \in 1..(Len(q) + 1) : IF k \in P THEN Append(q, m)[k].frame = e[k - 1] + 1 /\ e[k] = e[k - 1] + 1
                                                   ELSE e[k] = e[k - 1]
    BY <2>1, <2>2
  <2> QED
    BY <1>2, <2>3 DEF InOrder
<1>7. ASSUME m.frame = hi + 1 PROVE InOrder(Append(q, m), P \cup {Len(q) + 1}, lo, hi + 1)
  <2> DEFINE R == P \cup {Len(q) + 1}
  <2>1. PICK d \in [0..(Len(q) + 1) -> Nat] :
          /\ d[0] = lo /\ d[Len(q) + 1] = hi + 1 /\ d[(Len(q) + 1) - 1] = hi
          /\ \A k \in 1..Len(q) : d[k] = c[k] /\ d[k - 1] = c[k - 1]
    BY <1>3, <1>5
  <2>2. \A k \in 1..Len(q) : k \in R <=> k \in P
    BY SMT, <1>2
  <2>3. Len(q) + 1 \in R
    OBVIOUS
  <2> HIDE DEF R
  <2>4. ASSUME NEW k \in 1..(Len(q) + 1)
        PROVE  IF k \in R THEN Append(q, m)[k].frame = d[k - 1] + 1 /\ d[k] = d[k - 1] + 1 ELSE d[k] = d[k - 1]
    <3>1. CASE k \in 1..Len(q)
      BY <1>1, <1>2, <2>1, <2>2, <3>1
    <3>2. CASE k = Len(q) + 1
      BY <1>2, <1>7, <2>1, <2>3, <3>2
    <3> QED
      BY <1>4, <3>1, <3>2
  <2>5. InOrder(Append(q, m), R, lo, hi + 1)
    <3>1. \E e \in [0..(Len(q) + 1) -> Nat] :
            /\ e[0] = lo /\ e[Len(q) + 1] = hi + 1
            /\ \A k \in 1..(Len(q) + 1) : IF k \in R THEN Append(q, m)[k].frame = e[k - 1] + 1 /\ e[k] = e[k - 1] + 1
                                                     ELSE e[k] = e[k - 1]
      BY <2>1, <2>4
    <3> QED
      BY <1>2, <3>1 DEF InOrder
  <2> QED
    BY <2>5 DEF R
<1> QED
  BY <1>6, <1>7

\* The rest of a run is a run.
LEMMA InOrderTail ==
    ASSUME NEW M, NEW q \in Seq(M), q # <<>>, NEW P \in SUBSET DOMAIN q,
           NEW lo \in Nat, NEW hi \in Nat, InOrder(q, P, lo, hi)
    PROVE  /\ 1 \notin P => InOrder(Tail(q), {k \in DOMAIN Tail(q) : k + 1 \in P}, lo, hi)
           /\ 1 \in P => /\ Head(q).frame = lo + 1
                         /\ InOrder(Tail(q), {k \in DOMAIN Tail(q) : k + 1 \in P}, lo + 1, hi)
<1> DEFINE u == Tail(q)
           Q == {k \in DOMAIN u : k + 1 \in P}
<1>1. PICK c \in [0..Len(q) -> Nat] :
        /\ c[0] = lo /\ c[Len(q)] = hi
        /\ \A k \in 1..Len(q) : IF k \in P THEN q[k].frame = c[k - 1] + 1 /\ c[k] = c[k - 1] + 1
                                           ELSE c[k] = c[k - 1]
  BY DEF InOrder
<1>2. /\ Len(q) \in Nat /\ Len(u) \in Nat /\ Len(q) = Len(u) + 1 /\ 1 \in 1..Len(q) /\ Head(q) = q[1] /\ 1 - 1 = 0
      /\ DOMAIN u = 1..Len(u)
      /\ \A k \in 1..Len(u) : k + 1 \in 1..Len(q) /\ u[k] = q[k + 1] /\ (k + 1) - 1 = k
  BY SMT
<1>3. /\ 1 \notin P => c[1] = lo
      /\ 1 \in P => Head(q).frame = lo + 1 /\ c[1] = lo + 1
  BY <1>1, <1>2
<1> DEFINE d == [k \in 0..Len(u) |-> c[k + 1]]
<1>4. /\ d \in [0..Len(u) -> Nat] /\ d[0] = c[1] /\ d[Len(u)] = hi
      /\ \A k \in 1..Len(u) : d[k] = c[k + 1] /\ d[k - 1] = c[k]
  BY SMT, <1>1, <1>2
<1>5. \A k \in 1..Len(u) : k \in Q <=> k + 1 \in P
  BY <1>2
<1> HIDE DEF d, u, Q
<1>6. ASSUME NEW k \in 1..Len(u)
      PROVE  IF k \in Q THEN u[k].frame = d[k - 1] + 1 /\ d[k] = d[k - 1] + 1 ELSE d[k] = d[k - 1]
  <2>1. /\ k + 1 \in 1..Len(q) /\ u[k] = q[k + 1] /\ (k + 1) - 1 = k /\ d[k] = c[k + 1] /\ d[k - 1] = c[k]
        /\ k \in Q <=> k + 1 \in P
    BY <1>2, <1>4, <1>5
  <2>2. IF k + 1 \in P THEN q[k + 1].frame = c[(k + 1) - 1] + 1 /\ c[k + 1] = c[(k + 1) - 1] + 1
                       ELSE c[k + 1] = c[(k + 1) - 1]
    BY <1>1, <2>1
  <2> QED
    BY <2>1, <2>2
<1>7. InOrder(u, Q, c[1], hi)
  BY <1>4, <1>6 DEF InOrder
<1> QED
  BY <1>3, <1>7 DEF u, Q

-----------------------------------------------------------------------------
(* A message comes, or goes *)

\* A command that comes.
LEMMA FramesInPut ==
    ASSUME NEW q \in Seq(Cmds), NEW m \in Cmds
    PROVE  /\ m.type # "Send" => FramesIn(Append(q, m)) = FramesIn(q)
           /\ m.type = "Send" => FramesIn(Append(q, m)) = FramesIn(q) \cup {Len(q) + 1}
<1>1. /\ DOMAIN Append(q, m) = DOMAIN q \cup {Len(q) + 1} /\ Len(q) + 1 \notin DOMAIN q
      /\ Append(q, m)[Len(q) + 1] = m /\ \A k \in DOMAIN q : Append(q, m)[k] = q[k]
  BY SMT
<1> HIDE DEF Cmds
<1> QED
  BY <1>1 DEF FramesIn

\* A command that goes.
LEMMA FramesInTail ==
    ASSUME NEW q \in Seq(Cmds), q # <<>>
    PROVE  /\ FramesIn(Tail(q)) = {k \in DOMAIN Tail(q) : k + 1 \in FramesIn(q)}
           /\ 1 \in FramesIn(q) <=> Head(q).type = "Send"
<1>1. /\ 1 \in DOMAIN q /\ Head(q) = q[1]
      /\ \A k \in DOMAIN Tail(q) : k + 1 \in DOMAIN q /\ Tail(q)[k] = q[k + 1]
  BY SMT
<1> QED
  BY <1>1 DEF FramesIn

\* A message that comes.
LEMMA FramesOfPut ==
    ASSUME NEW q \in Seq(Msgs), NEW m \in Msgs, NEW s
    PROVE  /\ ~(m.type = "Send" /\ m.id = s) => FramesOf(Append(q, m), s) = FramesOf(q, s)
           /\ (m.type = "Send" /\ m.id = s) => FramesOf(Append(q, m), s) = FramesOf(q, s) \cup {Len(q) + 1}
           /\ ~(m.type \in {"Connect", "Pair"} /\ m.id = s) => Making(Append(q, m), s) = Making(q, s)
           /\ (m.type \in {"Connect", "Pair"} /\ m.id = s) =>
                 Making(Append(q, m), s) = Making(q, s) \cup {Len(q) + 1}
           /\ \A k \in Making(q, s) : k < Len(q) + 1
<1>1. /\ DOMAIN Append(q, m) = DOMAIN q \cup {Len(q) + 1} /\ Len(q) + 1 \notin DOMAIN q
      /\ Append(q, m)[Len(q) + 1] = m /\ \A k \in DOMAIN q : Append(q, m)[k] = q[k] /\ k < Len(q) + 1
  BY SMT
<1> QED
  BY <1>1 DEF FramesOf, Making

\* A message that goes.
LEMMA FramesOfTail ==
    ASSUME NEW q \in Seq(Msgs), q # <<>>, NEW s
    PROVE  /\ FramesOf(Tail(q), s) = {k \in DOMAIN Tail(q) : k + 1 \in FramesOf(q, s)}
           /\ 1 \in FramesOf(q, s) <=> Head(q).type = "Send" /\ Head(q).id = s
           /\ Making(Tail(q), s) = {k \in DOMAIN Tail(q) : k + 1 \in Making(q, s)}
           /\ 1 \in Making(q, s) <=> Head(q).type \in {"Connect", "Pair"} /\ Head(q).id = s
<1>1. /\ 1 \in DOMAIN q /\ Head(q) = q[1]
      /\ \A k \in DOMAIN Tail(q) : k + 1 \in DOMAIN q /\ Tail(q)[k] = q[k + 1]
  BY SMT
<1>2. FramesOf(Tail(q), s) = {k \in DOMAIN Tail(q) : k + 1 \in FramesOf(q, s)}
  BY <1>1 DEF FramesOf
<1>3. Making(Tail(q), s) = {k \in DOMAIN Tail(q) : k + 1 \in Making(q, s)}
  BY <1>1 DEF Making
<1> QED
  BY <1>1, <1>2, <1>3 DEF FramesOf, Making

\* The frames that are left.
LEMMA FramesLeft ==
    ASSUME NEW q \in Seq(Msgs), q # <<>>, NEW s
    PROVE  FramesOf(Tail(q), s) = {k \in DOMAIN Tail(q) : k + 1 \in FramesOf(q, s)}
BY FramesOfTail

\* The message that makes a socket stays the first, as messages go,
LEMMA ReadyTail ==
    ASSUME NEW q \in Seq(Msgs), q # <<>>, NEW s, Ready(q, s)
    PROVE  /\ Ready(Tail(q), s)
           /\ 1 \in FramesOf(q, s) \cup Making(q, s) => Making(Tail(q), s) = {}
<1>1. /\ FramesOf(Tail(q), s) = {k \in DOMAIN Tail(q) : k + 1 \in FramesOf(q, s)}
      /\ Making(Tail(q), s) = {k \in DOMAIN Tail(q) : k + 1 \in Making(q, s)}
  BY FramesOfTail
<1>2. \A k, j \in DOMAIN Tail(q) : /\ k \in Nat \ {0} /\ j \in Nat \ {0}
                                 /\ (k + 1 = j + 1 => k = j) /\ (k + 1 < j + 1 => k < j)
                                 /\ k + 1 # 1 /\ ~(k + 1 < 1)
  BY SMT
<1>3. Ready(Tail(q), s)
  BY <1>1, <1>2 DEF Ready
<1>4. ASSUME 1 \in FramesOf(q, s) \cup Making(q, s), NEW k \in Making(Tail(q), s) PROVE FALSE
  <2>1. k \in DOMAIN Tail(q) /\ k + 1 \in Making(q, s)
    BY <1>1, <1>4
  <2>2. k + 1 # 1 /\ ~(k + 1 < 1)
    BY <1>2, <2>1
  <2> QED
    BY <1>4, <2>1, <2>2 DEF Ready
<1> QED
  BY <1>3, <1>4

\* and as messages come that do not make it.
LEMMA ReadyPut ==
    ASSUME NEW q \in Seq(Msgs), NEW m \in Msgs, NEW s, Ready(q, s)
    PROVE  /\ ~(m.type \in {"Connect", "Pair"} /\ m.id = s) => Ready(Append(q, m), s)
           /\ (Making(q, s) = {} /\ FramesOf(q, s) = {}) => Ready(Append(q, m), s)
<1>1. ASSUME ~(m.type \in {"Connect", "Pair"} /\ m.id = s) PROVE Ready(Append(q, m), s)
  <2>1. Making(Append(q, m), s) = Making(q, s) /\ \A k \in Making(q, s) : k < Len(q) + 1
    BY <1>1, FramesOfPut
  <2>2. FramesOf(Append(q, m), s) \subseteq FramesOf(q, s) \cup {Len(q) + 1}
    BY FramesOfPut
  <2> QED
    BY <2>1, <2>2 DEF Ready
<1>2. ASSUME Making(q, s) = {}, FramesOf(q, s) = {}, m.type \in {"Connect", "Pair"}, m.id = s
      PROVE  Ready(Append(q, m), s)
  <2>1. m.type # "Send"
    BY <1>2
  <2>2. Making(Append(q, m), s) = Making(q, s) \cup {Len(q) + 1}
    BY <1>2, FramesOfPut
  <2>3. FramesOf(Append(q, m), s) = FramesOf(q, s)
    BY <2>1, FramesOfPut
  <2> QED
    BY <1>2, <2>2, <2>3 DEF Ready
<1> QED
  BY <1>1, <1>2

-----------------------------------------------------------------------------
(* A step that leaves the frames of a socket where they are *)

\* The messages of the loop change, but for those that make s and its frames.
Quiet(s) ==
    /\ Making(scheduler_rx, s) = {} => Making(scheduler_rx', s) = {}
    /\ FramesOf(scheduler_rx, s) = {} => FramesOf(scheduler_rx', s) = {}
    /\ Ready(scheduler_rx, s) => Ready(scheduler_rx', s)
    /\ \/ s \notin ws_commands' /\ Making(scheduler_rx', s) = {}
       \/ \A lo, hi \in Nat : InOrder(scheduler_rx, FramesOf(scheduler_rx, s), lo, hi)
                                => InOrder(scheduler_rx', FramesOf(scheduler_rx', s), lo, hi)

\* The task of the socket does nothing.
SameTask(s) ==
    /\ task'[s] = task[s] /\ task_scope'[s] = task_scope[s] /\ early'[s] = early[s] /\ sent'[s] = sent[s]
    /\ wire'[s] = wire[s] /\ (s \in upgrade' <=> s \in upgrade)

About(m, s) == m.type \in {"Connect", "Pair", "Send"} /\ m.id = s

\* Nothing comes or goes.
LEMMA QuietSame ==
    ASSUME NEW s, scheduler_rx' = scheduler_rx
    PROVE  Quiet(s)
BY DEF Quiet

\* A message about something else comes.
LEMMA QuietPut ==
    ASSUME NEW s, scheduler_rx \in Seq(Msgs), NEW m \in Msgs, ~About(m, s),
           scheduler_rx' = Append(scheduler_rx, m)
    PROVE  Quiet(s)
<1> DEFINE q == scheduler_rx
<1>1. FramesOf(Append(q, m), s) = FramesOf(q, s) /\ Making(Append(q, m), s) = Making(q, s)
  <2>1. ~(m.type = "Send" /\ m.id = s) /\ ~(m.type \in {"Connect", "Pair"} /\ m.id = s)
    BY DEF About
  <2>2. FramesOf(Append(q, m), s) = FramesOf(q, s)
    BY <2>1, FramesOfPut
  <2>3. Making(Append(q, m), s) = Making(q, s)
    BY <2>1, FramesOfPut
  <2> QED
    BY <2>2, <2>3
<1>2. Ready(q, s) => Ready(Append(q, m), s)
  BY ReadyPut DEF About
<1>3. FramesOf(q, s) \in SUBSET DOMAIN q
  BY DEF FramesOf
<1>4. \A lo, hi \in Nat : InOrder(q, FramesOf(q, s), lo, hi) => InOrder(Append(q, m), FramesOf(q, s), lo, hi)
  BY <1>3, InOrderPut
<1> QED
  BY <1>1, <1>2, <1>4 DEF Quiet

\* A message about something else goes.
LEMMA QuietTail ==
    ASSUME NEW s, scheduler_rx \in Seq(Msgs), scheduler_rx # <<>>, ~About(Head(scheduler_rx), s),
           scheduler_rx' = Tail(scheduler_rx)
    PROVE  Quiet(s)
<1> DEFINE q == scheduler_rx
           P == FramesOf(q, s)
<1>1. /\ FramesOf(Tail(q), s) = {k \in DOMAIN Tail(q) : k + 1 \in P} /\ 1 \notin P
      /\ Making(Tail(q), s) = {k \in DOMAIN Tail(q) : k + 1 \in Making(q, s)}
  BY FramesOfTail DEF About
<1>2. Ready(q, s) => Ready(Tail(q), s)
  BY ReadyTail
<1>3. P \in SUBSET DOMAIN q
  BY DEF FramesOf
<1>4. \A lo, hi \in Nat : InOrder(q, P, lo, hi) => InOrder(Tail(q), {k \in DOMAIN Tail(q) : k + 1 \in P}, lo, hi)
  <2> HIDE DEF P
  <2> QED
    BY <1>1, <1>3, InOrderTail
<1> QED
  BY <1>1, <1>2, <1>4 DEF Quiet

\* The loop is gone.
LEMMA QuietDrop ==
    ASSUME NEW s, scheduler_rx' = <<>>, ws_commands' = {}
    PROVE  Quiet(s)
<1>1. DOMAIN <<>> = {}
  BY SMT
<1> QED
  BY <1>1 DEF Quiet, Making, FramesOf, Ready

\* What Line says of the socket in the next state.
LEMMA LineNext ==
    ASSUME NEW s, NEW mid \in Nat,
           \A k \in DOMAIN sent'[s] : sent'[s][k] = k,
           \A k \in DOMAIN early'[s] : early'[s][k] = Len(sent'[s]) + k,
           task'[s] \in {"connecting", "pumping"} => early'[s] = <<>>,
           InOrder(commands'[s], FramesIn(commands'[s]), Len(sent'[s]) + Len(early'[s]), mid),
           s \in ws_commands' => InOrder(scheduler_rx', FramesOf(scheduler_rx', s), mid, asked'[s])
    PROVE  Line(s)'
BY DEF Line, FramesIn, FramesOf, InOrder

\* The task does nothing, and the messages of the loop go on as they did.
LEMMA LineSame ==
    ASSUME NEW s, Line(s), SameTask(s), commands'[s] = commands[s],
           s \in ws_commands' => s \in ws_commands,
           \A mid \in Nat :
              (s \in ws_commands' /\ InOrder(scheduler_rx, FramesOf(scheduler_rx, s), mid, asked[s]))
                 => InOrder(scheduler_rx', FramesOf(scheduler_rx', s), mid, asked'[s])
    PROVE  Line(s)'
<1>1. CASE task'[s] = "ended"
  BY <1>1 DEF Line
<1>2. CASE task'[s] # "ended"
  <2>1. PICK mid \in Nat :
          /\ InOrder(commands[s], FramesIn(commands[s]), Len(sent[s]) + Len(early[s]), mid)
          /\ s \in ws_commands => InOrder(scheduler_rx, FramesOf(scheduler_rx, s), mid, asked[s])
    BY <1>2 DEF Line, SameTask
  <2>2. s \in ws_commands' => InOrder(scheduler_rx', FramesOf(scheduler_rx', s), mid, asked'[s])
    BY <2>1
  <2>3. InOrder(commands'[s], FramesIn(commands'[s]), Len(sent'[s]) + Len(early'[s]), mid)
    BY <2>1 DEF SameTask
  <2>4. /\ \A k \in DOMAIN sent'[s] : sent'[s][k] = k
        /\ \A k \in DOMAIN early'[s] : early'[s][k] = Len(sent'[s]) + k
        /\ task'[s] \in {"connecting", "pumping"} => early'[s] = <<>>
    BY <1>2 DEF Line, SameTask
  <2> QED
    BY <2>2, <2>3, <2>4, LineNext
<1> QED
  BY <1>1, <1>2

\* What Unmade says of the socket in the next state.
LEMMA UnmadeNext ==
    ASSUME NEW s,
           task'[s] = "none" => /\ sent'[s] = <<>> /\ early'[s] = <<>> /\ commands'[s] = <<>>
                                /\ s \notin ws_commands',
           s >= next_ws' => /\ task'[s] = "none" /\ asked'[s] = 0
                            /\ Making(scheduler_rx', s) = {} /\ FramesOf(scheduler_rx', s) = {},
           Ready(scheduler_rx', s),
           Making(scheduler_rx', s) # {} =>
              task'[s] = "none" /\ InOrder(scheduler_rx', FramesOf(scheduler_rx', s), 0, asked'[s])
    PROVE  Unmade(s)'
BY DEF Unmade, Ready, Making, FramesOf, InOrder

\* Then the frames are in order as before.
LEMMA FramesQuiet ==
    ASSUME NEW s \in Sockets, Frames(s), Quiet(s), asked[s] \in Nat,
           SameTask(s), commands'[s] = commands[s], asked'[s] = asked[s],
           s \in ws_commands' => s \in ws_commands, s >= next_ws' => s >= next_ws
    PROVE  Frames(s)'
<1>1. Unmade(s)'
  <2>1. task'[s] = "none" => /\ sent'[s] = <<>> /\ early'[s] = <<>> /\ commands'[s] = <<>>
                             /\ s \notin ws_commands'
    BY DEF Frames, Unmade, SameTask
  <2>2. s >= next_ws' => /\ task'[s] = "none" /\ asked'[s] = 0
                         /\ Making(scheduler_rx', s) = {} /\ FramesOf(scheduler_rx', s) = {}
    BY DEF Frames, Unmade, SameTask, Quiet
  <2>3. Ready(scheduler_rx', s)
    BY DEF Frames, Unmade, Quiet
  <2>4. Making(scheduler_rx', s) # {} =>
          task'[s] = "none" /\ InOrder(scheduler_rx', FramesOf(scheduler_rx', s), 0, asked'[s])
    <3>1. 0 \in Nat
      BY SMT
    <3> QED
      BY <3>1 DEF Frames, Unmade, SameTask, Quiet
  <2> QED
    BY <2>1, <2>2, <2>3, <2>4, UnmadeNext
<1>2. Line(s)'
  <2>1. ASSUME NEW mid \in Nat, s \in ws_commands',
               InOrder(scheduler_rx, FramesOf(scheduler_rx, s), mid, asked[s])
        PROVE  InOrder(scheduler_rx', FramesOf(scheduler_rx', s), mid, asked'[s])
    BY <2>1 DEF Quiet
  <2> QED
    BY <2>1, LineSame DEF Frames
<1>3. OnTheWire(s)'
  BY DEF Frames, OnTheWire, SameTask
<1> QED
  BY <1>1, <1>2, <1>3 DEF Frames

-----------------------------------------------------------------------------
(* The frames of a socket that the guest makes, or sends on *)

\* The guest makes the socket.
LEMMA FramesMade ==
    ASSUME NEW s \in Sockets, Frames(s), s = next_ws, s \in Nat, next_ws' = next_ws + 1,
           scheduler_rx \in Seq(Msgs), NEW m \in Msgs, m.type \in {"Connect", "Pair"}, m.id = s,
           scheduler_rx' = Append(scheduler_rx, m), ws_commands' = ws_commands,
           SameTask(s), commands'[s] = commands[s], asked'[s] = asked[s]
    PROVE  Frames(s)'
<1> DEFINE q == scheduler_rx
<1>1. s >= next_ws /\ ~(s >= next_ws') /\ 0 \in Nat
  BY SMT
<1>2. /\ task[s] = "none" /\ asked[s] = 0 /\ Making(q, s) = {} /\ FramesOf(q, s) = {} /\ Ready(q, s)
      /\ sent[s] = <<>> /\ early[s] = <<>> /\ commands[s] = <<>> /\ s \notin ws_commands
  BY <1>1 DEF Frames, Unmade
<1>3. FramesOf(Append(q, m), s) = {}
  <2>1. m.type # "Send"
    OBVIOUS
  <2> QED
    BY <1>2, <2>1, FramesOfPut
<1>4. Ready(Append(q, m), s)
  BY <1>2, ReadyPut
<1>5. Append(q, m) \in Seq(Msgs)
  BY SMT
<1>6. InOrder(Append(q, m), FramesOf(Append(q, m), s), 0, 0)
  BY <1>1, <1>3, <1>5, InOrderNone
<1>7. Unmade(s)'
  <2>1. task'[s] = "none" => /\ sent'[s] = <<>> /\ early'[s] = <<>> /\ commands'[s] = <<>>
                             /\ s \notin ws_commands'
    BY <1>2 DEF SameTask
  <2>2. Ready(scheduler_rx', s)
    BY <1>4
  <2>3. task'[s] = "none" /\ InOrder(scheduler_rx', FramesOf(scheduler_rx', s), 0, asked'[s])
    BY <1>2, <1>6 DEF SameTask
  <2>4. ~(s >= next_ws')
    BY <1>1
  <2> QED
    BY <2>1, <2>2, <2>3, <2>4, UnmadeNext
<1>8. Line(s)'
  BY <1>2, LineSame DEF Frames
<1>9. OnTheWire(s)'
  BY DEF Frames, OnTheWire, SameTask
<1> QED
  BY <1>7, <1>8, <1>9 DEF Frames

\* The guest sends a frame on the socket.
LEMMA FramesSent ==
    ASSUME NEW s \in Sockets, Frames(s), s \in Nat, next_ws \in Nat, s < next_ws, next_ws' = next_ws,
           scheduler_rx \in Seq(Msgs), asked[s] \in Nat, asked'[s] = asked[s] + 1,
           NEW m \in Msgs, m.type = "Send", m.id = s, m.frame = asked[s] + 1,
           scheduler_rx' = Append(scheduler_rx, m), ws_commands' = ws_commands,
           SameTask(s), commands'[s] = commands[s]
    PROVE  Frames(s)'
<1> DEFINE q == scheduler_rx
           P == FramesOf(q, s)
<1>1. ~(s >= next_ws') /\ 0 \in Nat
  BY SMT
<1>2. FramesOf(Append(q, m), s) = P \cup {Len(q) + 1} /\ P \in SUBSET DOMAIN q
  <2>1. P \in SUBSET DOMAIN q
    BY DEF FramesOf
  <2>2. FramesOf(Append(q, m), s) = P \cup {Len(q) + 1}
    BY FramesOfPut
  <2> QED
    BY <2>1, <2>2
<1>3. m.type \notin {"Connect", "Pair"}
  OBVIOUS
<1>4. Making(Append(q, m), s) = Making(q, s)
  BY <1>3, FramesOfPut
<1>5. ASSUME NEW lo \in Nat, InOrder(q, P, lo, asked[s])
      PROVE  InOrder(Append(q, m), FramesOf(Append(q, m), s), lo, asked[s] + 1)
  <2> HIDE DEF P, q
  <2>1. InOrder(Append(q, m), P \cup {Len(q) + 1}, lo, asked[s] + 1)
    <3>1. q \in Seq(Msgs)
      BY DEF q
    <3> QED
      BY <1>2, <1>5, <3>1, InOrderPut
  <2> QED
    BY <1>2, <2>1
<1>6. Unmade(s)'
  <2>1. task'[s] = "none" => /\ sent'[s] = <<>> /\ early'[s] = <<>> /\ commands'[s] = <<>>
                             /\ s \notin ws_commands'
    BY DEF Frames, Unmade, SameTask
  <2>2. Ready(scheduler_rx', s)
    BY <1>3, ReadyPut DEF Frames, Unmade
  <2>3. Making(scheduler_rx', s) # {} =>
           task'[s] = "none" /\ InOrder(scheduler_rx', FramesOf(scheduler_rx', s), 0, asked'[s])
    BY <1>1, <1>4, <1>5 DEF Frames, Unmade, SameTask
  <2>4. ~(s >= next_ws')
    BY <1>1
  <2> QED
    BY <2>1, <2>2, <2>3, <2>4, UnmadeNext
<1>7. Line(s)'
  BY <1>5, LineSame DEF Frames
<1>8. OnTheWire(s)'
  BY DEF Frames, OnTheWire, SameTask
<1> QED
  BY <1>6, <1>7, <1>8 DEF Frames

-----------------------------------------------------------------------------
(* The frames of a socket that a message of the loop is about *)

\* Nothing is sent, and nothing is to be.
LEMMA NothingSent ==
    InOrder(<<>>, FramesIn(<<>>), Len(<<>>) + Len(<<>>), 0)
<1>1. /\ 0 \in Nat /\ <<>> \in Seq(Cmds) /\ DOMAIN <<>> = {}
  BY SMT
<1>2. Len(<<>>) + Len(<<>>) = 0
  BY SMT
<1>3. FramesIn(<<>>) = {}
  BY <1>1 DEF FramesIn
<1>4. InOrder(<<>>, {}, 0, 0)
  BY <1>1, InOrderNone
<1>5. InOrder(<<>>, FramesIn(<<>>), 0, 0)
  BY <1>3, <1>4
<1> QED
  BY SMT, <1>5

\* What is sent has a length.
LEMMA SentLength ==
    ASSUME NEW a \in Seq(Nat), NEW b \in Seq(Nat)
    PROVE  /\ Len(a) + Len(b) \in Nat /\ (Len(a) + Len(b)) + 1 \in Nat
           /\ Len(a) + (Len(b) + 1) = (Len(a) + Len(b)) + 1
<1>1. Len(a) \in Nat /\ Len(b) \in Nat
  BY SMT
<1> QED
  BY SMT, <1>1

\* The task of the socket starts.
LEMMA FramesStarts ==
    ASSUME NEW s \in Sockets, Frames(s), asked[s] \in Nat, next_ws' = next_ws,
           scheduler_rx \in Seq(Msgs), scheduler_rx # <<>>, scheduler_rx' = Tail(scheduler_rx),
           Head(scheduler_rx).type \in {"Connect", "Pair"}, Head(scheduler_rx).id = s,
           task'[s] \in {"connecting", "waiting"}, sent'[s] = sent[s], early'[s] = early[s],
           commands'[s] = commands[s], asked'[s] = asked[s]
    PROVE  Frames(s)'
<1> DEFINE q == scheduler_rx
           P == FramesOf(q, s)
<1>1. 1 \in Making(q, s) /\ 1 \notin P
  <2>1. Head(q).type # "Send"
    OBVIOUS
  <2> QED
    BY <2>1, FramesOfTail
<1>2. /\ Ready(q, s) /\ ~(s >= next_ws) /\ task[s] = "none" /\ InOrder(q, P, 0, asked[s])
      /\ sent[s] = <<>> /\ early[s] = <<>> /\ commands[s] = <<>>
  BY <1>1 DEF Frames, Unmade
<1>3. Ready(Tail(q), s) /\ Making(Tail(q), s) = {}
  BY <1>1, <1>2, ReadyTail
<1>4. 0 \in Nat
  BY SMT
<1>5. InOrder(Tail(q), FramesOf(Tail(q), s), 0, asked[s])
  <2>1. FramesOf(Tail(q), s) = {k \in DOMAIN Tail(q) : k + 1 \in P}
    BY FramesLeft
  <2>2. P \in SUBSET DOMAIN q
    BY DEF FramesOf
  <2>3. InOrder(Tail(q), {k \in DOMAIN Tail(q) : k + 1 \in P}, 0, asked[s])
    <3>1. q \in Seq(Msgs) /\ q # <<>>
      OBVIOUS
    <3> HIDE DEF P, q
    <3> QED
      BY <1>1, <1>2, <1>4, <2>2, <3>1, InOrderTail
  <2> QED
    BY <2>1, <2>3
<1>6. Unmade(s)'
  <2>1. task'[s] # "none"
    OBVIOUS
  <2>2. ~(s >= next_ws')
    BY <1>2
  <2>3. Ready(scheduler_rx', s) /\ Making(scheduler_rx', s) = {}
    BY <1>3
  <2> QED
    BY <2>1, <2>2, <2>3, UnmadeNext
<1>7. Line(s)'
  <2>1. commands'[s] = <<>> /\ sent'[s] = <<>> /\ early'[s] = <<>>
    BY <1>2
  <2>2. InOrder(commands'[s], FramesIn(commands'[s]), Len(sent'[s]) + Len(early'[s]), 0)
    BY <2>1, NothingSent
  <2>3. InOrder(scheduler_rx', FramesOf(scheduler_rx', s), 0, asked'[s])
    BY <1>5
  <2>4. \A k \in DOMAIN <<>> : FALSE
    BY SMT
  <2>5. /\ \A k \in DOMAIN sent'[s] : sent'[s][k] = k
        /\ \A k \in DOMAIN early'[s] : early'[s][k] = Len(sent'[s]) + k
    BY <2>1, <2>4
  <2> QED
    BY <1>4, <2>1, <2>2, <2>3, <2>5, LineNext
<1>8. OnTheWire(s)'
  BY DEF Frames, OnTheWire
<1> QED
  BY <1>6, <1>7, <1>8 DEF Frames

\* A frame goes to the task, if the loop has its channel.
LEMMA FramesPassed ==
    ASSUME NEW s \in Sockets, Frames(s), asked[s] \in Nat, next_ws' = next_ws, ws_commands' = ws_commands,
           scheduler_rx \in Seq(Msgs), scheduler_rx # <<>>, scheduler_rx' = Tail(scheduler_rx),
           Head(scheduler_rx).type = "Send", Head(scheduler_rx).id = s,
           NEW c \in Cmds, c.type = "Send", c.frame = Head(scheduler_rx).frame,
           commands[s] \in Seq(Cmds), sent[s] \in Seq(Nat), early[s] \in Seq(Nat),
           commands'[s] = IF s \in ws_commands THEN Append(commands[s], c) ELSE commands[s],
           SameTask(s), asked'[s] = asked[s]
    PROVE  Frames(s)'
<1> DEFINE q == scheduler_rx
           P == FramesOf(q, s)
<1>1. 1 \in P
  BY FramesOfTail
<1>2. Ready(Tail(q), s) /\ Making(Tail(q), s) = {}
  BY <1>1, ReadyTail DEF Frames, Unmade
<1>3. Unmade(s)'
  <2>1. task'[s] = "none" => /\ sent'[s] = <<>> /\ early'[s] = <<>> /\ commands'[s] = <<>>
                             /\ s \notin ws_commands'
    BY DEF Frames, Unmade, SameTask
  <2>2. ~(s >= next_ws')
    BY <1>1 DEF Frames, Unmade
  <2>3. Ready(scheduler_rx', s) /\ Making(scheduler_rx', s) = {}
    BY <1>2
  <2> QED
    BY <2>1, <2>2, <2>3, UnmadeNext
<1>4. CASE s \notin ws_commands
  <2>1. Line(s)'
    BY <1>4, LineSame DEF Frames
  <2> QED
    BY <1>3, <2>1 DEF Frames, OnTheWire, SameTask
<1>5. CASE task[s] = "ended"
  BY <1>3, <1>5 DEF Frames, Line, OnTheWire, SameTask
<1>6. CASE s \in ws_commands /\ task[s] # "ended"
  <2>1. PICK mid \in Nat :
          /\ InOrder(commands[s], FramesIn(commands[s]), Len(sent[s]) + Len(early[s]), mid)
          /\ InOrder(q, P, mid, asked[s])
    BY <1>6 DEF Frames, Line
  <2>2. Head(q).frame = mid + 1 /\ InOrder(Tail(q), FramesOf(Tail(q), s), mid + 1, asked[s])
    <3>1. FramesOf(Tail(q), s) = {k \in DOMAIN Tail(q) : k + 1 \in P}
      BY FramesLeft
    <3>2. P \in SUBSET DOMAIN q
      BY DEF FramesOf
    <3>3. Head(q).frame = mid + 1 /\ InOrder(Tail(q), {k \in DOMAIN Tail(q) : k + 1 \in P}, mid + 1, asked[s])
      <4> HIDE DEF P
      <4> QED
        BY <1>1, <2>1, <3>2, InOrderTail
    <3> QED
      BY <3>1, <3>3
  <2>3. mid + 1 \in Nat /\ Len(sent[s]) + Len(early[s]) \in Nat
    <3>1. \A n \in Nat : n + 1 \in Nat
      BY SMT
    <3> QED
      BY <3>1, SentLength
  <2>4. FramesIn(Append(commands[s], c)) = FramesIn(commands[s]) \cup {Len(commands[s]) + 1}
    BY FramesInPut
  <2>5. InOrder(Append(commands[s], c), FramesIn(Append(commands[s], c)), Len(sent[s]) + Len(early[s]), mid + 1)
    <3>1. FramesIn(commands[s]) \in SUBSET DOMAIN commands[s]
      BY DEF FramesIn
    <3>2. InOrder(Append(commands[s], c), FramesIn(commands[s]) \cup {Len(commands[s]) + 1},
                  Len(sent[s]) + Len(early[s]), mid + 1)
      BY <2>1, <2>2, <2>3, <3>1, InOrderPut
    <3> QED
      BY <2>4, <3>2
  <2>6. InOrder(commands'[s], FramesIn(commands'[s]), Len(sent'[s]) + Len(early'[s]), mid + 1)
    BY <1>6, <2>5 DEF SameTask
  <2>7. InOrder(scheduler_rx', FramesOf(scheduler_rx', s), mid + 1, asked'[s])
    BY <2>2
  <2>8. /\ \A k \in DOMAIN sent'[s] : sent'[s][k] = k
        /\ \A k \in DOMAIN early'[s] : early'[s][k] = Len(sent'[s]) + k
        /\ task'[s] \in {"connecting", "pumping"} => early'[s] = <<>>
    BY <1>6 DEF Frames, Line, SameTask
  <2>9. Line(s)'
    BY <2>3, <2>6, <2>7, <2>8, LineNext
  <2> QED
    BY <1>3, <2>9 DEF Frames, OnTheWire, SameTask
<1> QED
  BY <1>4, <1>5, <1>6

\* Another command goes to the task, after which the loop may drop the channel.
LEMMA FramesCommanded ==
    ASSUME NEW s \in Sockets, Frames(s), asked[s] \in Nat, next_ws' = next_ws, Quiet(s),
           s \in ws_commands, NEW c \in Cmds, c.type # "Send", commands'[s] = Append(commands[s], c),
           commands[s] \in Seq(Cmds), sent[s] \in Seq(Nat), early[s] \in Seq(Nat),
           SameTask(s), asked'[s] = asked[s]
    PROVE  Frames(s)'
<1>1. task'[s] # "none"
  BY DEF Frames, Unmade, SameTask
<1>2. Unmade(s)'
  <2>1. Making(scheduler_rx', s) = {} /\ Ready(scheduler_rx', s)
    BY <1>1 DEF Frames, Unmade, SameTask, Quiet
  <2>2. ~(s >= next_ws')
    BY <1>1 DEF Frames, Unmade, SameTask
  <2> QED
    BY <1>1, <2>1, <2>2, UnmadeNext
<1>3. CASE task[s] = "ended"
  BY <1>2, <1>3 DEF Frames, Line, OnTheWire, SameTask
<1>4. CASE task[s] # "ended"
  <2>1. PICK mid \in Nat :
          /\ InOrder(commands[s], FramesIn(commands[s]), Len(sent[s]) + Len(early[s]), mid)
          /\ InOrder(scheduler_rx, FramesOf(scheduler_rx, s), mid, asked[s])
    BY <1>4 DEF Frames, Line
  <2>2. s \in ws_commands' => InOrder(scheduler_rx', FramesOf(scheduler_rx', s), mid, asked'[s])
    BY <2>1 DEF Quiet
  <2>3. Len(sent[s]) + Len(early[s]) \in Nat
    BY SentLength
  <2>4. FramesIn(Append(commands[s], c)) = FramesIn(commands[s])
    BY FramesInPut
  <2>5. InOrder(Append(commands[s], c), FramesIn(Append(commands[s], c)), Len(sent[s]) + Len(early[s]), mid)
    <3>1. FramesIn(commands[s]) \in SUBSET DOMAIN commands[s]
      BY DEF FramesIn
    <3>2. InOrder(Append(commands[s], c), FramesIn(commands[s]), Len(sent[s]) + Len(early[s]), mid)
      BY <2>1, <2>3, <3>1, InOrderPut
    <3> QED
      BY <2>4, <3>2
  <2>6. InOrder(commands'[s], FramesIn(commands'[s]), Len(sent'[s]) + Len(early'[s]), mid)
    BY <2>5 DEF SameTask
  <2>7. /\ \A k \in DOMAIN sent'[s] : sent'[s][k] = k
        /\ \A k \in DOMAIN early'[s] : early'[s][k] = Len(sent'[s]) + k
        /\ task'[s] \in {"connecting", "pumping"} => early'[s] = <<>>
    BY <1>4 DEF Frames, Line, SameTask
  <2>8. Line(s)'
    BY <2>2, <2>6, <2>7, LineNext
  <2> QED
    BY <1>2, <2>8 DEF Frames, OnTheWire, SameTask
<1> QED
  BY <1>3, <1>4

-----------------------------------------------------------------------------
(* The frames of a socket whose task does a step *)

\* A frame after others,
LEMMA OneMore ==
    ASSUME NEW a \in Seq(Nat), NEW x \in Nat
    PROVE  /\ a \o <<x>> = Append(a, x) /\ Len(Append(a, x)) = Len(a) + 1
           /\ DOMAIN Append(a, x) = DOMAIN a \cup {Len(a) + 1} /\ Append(a, x)[Len(a) + 1] = x
           /\ \A k \in DOMAIN a : Append(a, x)[k] = a[k]
BY SMT

\* and frames after others.
LEMMA Joined ==
    ASSUME NEW a \in Seq(Nat), NEW b \in Seq(Nat), NEW k \in DOMAIN (a \o b)
    PROVE  /\ k # 0
           /\ \/ k \in DOMAIN a /\ (a \o b)[k] = a[k]
              \/ k - Len(a) \in DOMAIN b /\ (a \o b)[k] = b[k - Len(a)] /\ Len(a) + (k - Len(a)) = k
<1>1. k \in 1..(Len(a) + Len(b)) /\ Len(a) \in Nat /\ Len(b) \in Nat
  BY SMT
<1>2. k \in 1..Len(a) \/ (k > Len(a) /\ k - Len(a) \in 1..Len(b))
  BY SMT, <1>1
<1>3. DOMAIN a = 1..Len(a) /\ DOMAIN b = 1..Len(b)
  BY SMT
<1>4. k \in 1..Len(a) => (a \o b)[k] = a[k]
  BY SMT
<1>5. k > Len(a) => (a \o b)[k] = b[k - Len(a)]
  BY SMT, <1>1
<1>6. k # 0 /\ Len(a) + (k - Len(a)) = k
  BY SMT, <1>1
<1> QED
  BY <1>2, <1>3, <1>4, <1>5, <1>6

\* A task is of a socket that is made.
LEMMA UnmadeTask ==
    ASSUME NEW s \in Sockets, Frames(s), task[s] # "none", task'[s] # "none",
           next_ws' = next_ws, scheduler_rx' = scheduler_rx
    PROVE  Unmade(s)'
<1>1. ~(s >= next_ws') /\ Making(scheduler_rx', s) = {} /\ Ready(scheduler_rx', s)
  BY DEF Frames, Unmade
<1> QED
  BY <1>1, UnmadeNext

\* What the loop does not see of a step of the task.
Stays(s) ==
    /\ next_ws' = next_ws /\ scheduler_rx' = scheduler_rx /\ ws_commands' = ws_commands /\ asked' = asked
    /\ task[s] # "none" /\ task[s] # "ended"

\* It ends, with a close frame or with none.
LEMMA FramesEnd ==
    ASSUME NEW s \in Sockets, Frames(s), Stays(s), task'[s] = "ended", sent[s] \in Seq(Nat),
           sent'[s] \in {sent[s], sent[s] \o << 0 >>}
    PROVE  Frames(s)'
<1>1. Unmade(s)' /\ Line(s)'
  BY UnmadeTask DEF Stays, Line
<1>2. \A k \in DOMAIN sent[s] : sent[s][k] = k /\ sent[s][k] # 0
  <2>1. \A k \in DOMAIN sent[s] : k # 0
    BY SMT
  <2> QED
    BY <2>1 DEF Frames, Line, Stays
<1>3. ASSUME sent'[s] = sent[s] PROVE OnTheWire(s)'
  BY <1>2, <1>3 DEF OnTheWire
<1>4. ASSUME sent'[s] = sent[s] \o << 0 >> PROVE OnTheWire(s)'
  <2>1. /\ DOMAIN sent'[s] = DOMAIN sent[s] \cup {Len(sent[s]) + 1} /\ Len(sent'[s]) = Len(sent[s]) + 1
        /\ sent'[s][Len(sent[s]) + 1] = 0 /\ \A k \in DOMAIN sent[s] : sent'[s][k] = sent[s][k]
    BY SMT, <1>4
  <2> QED
    BY <1>2, <2>1 DEF OnTheWire
<1> QED
  BY <1>1, <1>3, <1>4 DEF Frames

\* It has no command to do, and sends nothing: it connects, or waits.
LEMMA FramesGoOn ==
    ASSUME NEW s \in Sockets, Frames(s), Stays(s), task'[s] \in {task[s], "pumping"},
           task[s] \in {"none", "connecting", "waiting", "pumping", "ended"},
           task[s] = "waiting" => task'[s] = "waiting",
           commands'[s] = commands[s], sent'[s] = sent[s], early'[s] = early[s]
    PROVE  Frames(s)'
<1>1. Unmade(s)'
  BY UnmadeTask DEF Stays
<1>2. PICK mid \in Nat :
        /\ InOrder(commands[s], FramesIn(commands[s]), Len(sent[s]) + Len(early[s]), mid)
        /\ s \in ws_commands => InOrder(scheduler_rx, FramesOf(scheduler_rx, s), mid, asked[s])
  BY DEF Frames, Line, Stays
<1>3. InOrder(commands'[s], FramesIn(commands'[s]), Len(sent'[s]) + Len(early'[s]), mid)
  BY <1>2
<1>4. s \in ws_commands' => InOrder(scheduler_rx', FramesOf(scheduler_rx', s), mid, asked'[s])
  BY <1>2 DEF Stays
<1>5. /\ \A k \in DOMAIN sent'[s] : sent'[s][k] = k
      /\ \A k \in DOMAIN early'[s] : early'[s][k] = Len(sent'[s]) + k
      /\ early[s] = <<>> => early'[s] = <<>>
  BY DEF Frames, Line, Stays
<1>6. task'[s] \in {"connecting", "pumping"} => early'[s] = <<>>
  BY DEF Frames, Line, Stays
<1>7. Line(s)'
  BY <1>3, <1>4, <1>5, <1>6, LineNext
<1> QED
  BY <1>1, <1>7 DEF Frames, OnTheWire

\* It does a command that is no frame.
LEMMA FramesTake ==
    ASSUME NEW s \in Sockets, Frames(s), Stays(s), task'[s] = task[s],
           commands[s] \in Seq(Cmds), commands[s] # <<>>, Head(commands[s]).type # "Send",
           commands'[s] = Tail(commands[s]), sent'[s] = sent[s], early'[s] = early[s],
           sent[s] \in Seq(Nat), early[s] \in Seq(Nat)
    PROVE  Frames(s)'
<1> DEFINE q == commands[s]
           P == FramesIn(q)
           n == Len(sent[s]) + Len(early[s])
<1>1. Unmade(s)'
  BY UnmadeTask DEF Stays
<1>2. PICK mid \in Nat :
        /\ InOrder(q, P, n, mid)
        /\ s \in ws_commands => InOrder(scheduler_rx, FramesOf(scheduler_rx, s), mid, asked[s])
  BY DEF Frames, Line, Stays
<1>3. n \in Nat /\ P \in SUBSET DOMAIN q /\ q \in Seq(Cmds) /\ q # <<>>
  BY SentLength DEF FramesIn
<1>4. FramesIn(Tail(q)) = {k \in DOMAIN Tail(q) : k + 1 \in P} /\ 1 \notin P
  BY FramesInTail
<1>5. InOrder(Tail(q), {k \in DOMAIN Tail(q) : k + 1 \in P}, n, mid)
  <2> HIDE DEF P, q, n
  <2> QED
    BY <1>2, <1>3, <1>4, InOrderTail
<1>6. InOrder(commands'[s], FramesIn(commands'[s]), Len(sent'[s]) + Len(early'[s]), mid)
  BY <1>4, <1>5
<1>7. s \in ws_commands' => InOrder(scheduler_rx', FramesOf(scheduler_rx', s), mid, asked'[s])
  BY <1>2 DEF Stays
<1>8. /\ \A k \in DOMAIN sent'[s] : sent'[s][k] = k
      /\ \A k \in DOMAIN early'[s] : early'[s][k] = Len(sent'[s]) + k
      /\ task'[s] \in {"connecting", "pumping"} => early'[s] = <<>>
  BY DEF Frames, Line, Stays
<1>9. Line(s)'
  BY <1>6, <1>7, <1>8, LineNext
<1> QED
  BY <1>1, <1>9 DEF Frames, OnTheWire


\* A frame waits for the client.
LEMMA FramesWait ==
    ASSUME NEW s \in Sockets, Frames(s), Stays(s), task[s] = "waiting", task'[s] = "waiting",
           commands[s] \in Seq(Cmds), commands[s] # <<>>, Head(commands[s]).type = "Send",
           commands'[s] = Tail(commands[s]), sent'[s] = sent[s],
           early'[s] = Append(early[s], Head(commands[s]).frame),
           sent[s] \in Seq(Nat), early[s] \in Seq(Nat)
    PROVE  Frames(s)'
<1> DEFINE q == commands[s]
           P == FramesIn(q)
           n == Len(sent[s]) + Len(early[s])
<1>1. Unmade(s)'
  BY UnmadeTask DEF Stays
<1>2. PICK mid \in Nat :
        /\ InOrder(q, P, n, mid)
        /\ s \in ws_commands => InOrder(scheduler_rx, FramesOf(scheduler_rx, s), mid, asked[s])
  BY DEF Frames, Line, Stays
<1>3. n \in Nat /\ P \in SUBSET DOMAIN q /\ q \in Seq(Cmds) /\ q # <<>>
  BY SentLength DEF FramesIn
<1>4. FramesIn(Tail(q)) = {k \in DOMAIN Tail(q) : k + 1 \in P} /\ 1 \in P
  BY FramesInTail
<1>5. Head(q).frame = n + 1 /\ InOrder(Tail(q), {k \in DOMAIN Tail(q) : k + 1 \in P}, n + 1, mid)
  <2> HIDE DEF P, q, n
  <2> QED
    BY <1>2, <1>3, <1>4, InOrderTail
<1>6. /\ Len(early'[s]) = Len(early[s]) + 1 /\ Len(sent[s]) + (Len(early[s]) + 1) = n + 1
      /\ DOMAIN early'[s] = DOMAIN early[s] \cup {Len(early[s]) + 1}
      /\ early'[s][Len(early[s]) + 1] = Head(q).frame /\ \A k \in DOMAIN early[s] : early'[s][k] = early[s][k]
  <2>1. n + 1 \in Nat /\ Len(sent[s]) + (Len(early[s]) + 1) = n + 1
    BY SentLength
  <2>2. Head(q).frame \in Nat
    BY <1>5, <2>1
  <2> DEFINE a == early[s]
             x == Head(q).frame
  <2>3. /\ Len(Append(a, x)) = Len(a) + 1 /\ DOMAIN Append(a, x) = DOMAIN a \cup {Len(a) + 1}
        /\ Append(a, x)[Len(a) + 1] = x /\ \A k \in DOMAIN a : Append(a, x)[k] = a[k]
    BY <2>2, OneMore
  <2> QED
    BY <2>1, <2>3
<1>7. InOrder(commands'[s], FramesIn(commands'[s]), Len(sent'[s]) + Len(early'[s]), mid)
  <2>1. Len(sent'[s]) + Len(early'[s]) = n + 1
    BY <1>6
  <2> QED
    BY <1>4, <1>5, <2>1
<1>8. s \in ws_commands' => InOrder(scheduler_rx', FramesOf(scheduler_rx', s), mid, asked'[s])
  BY <1>2 DEF Stays
<1>9. \A k \in DOMAIN sent'[s] : sent'[s][k] = k
  BY DEF Frames, Line, Stays
<1>10. \A k \in DOMAIN early'[s] : early'[s][k] = Len(sent'[s]) + k
  <2>1. \A k \in DOMAIN early[s] : early[s][k] = Len(sent'[s]) + k
    BY DEF Frames, Line, Stays
  <2>2. Head(q).frame = Len(sent'[s]) + (Len(early[s]) + 1)
    BY <1>5, <1>6
  <2> QED
    BY <1>6, <2>1, <2>2
<1>11. Line(s)'
  BY <1>7, <1>8, <1>9, <1>10, LineNext
<1> QED
  BY <1>1, <1>11 DEF Frames, OnTheWire

\* A frame goes on the wire.
LEMMA FramesGo ==
    ASSUME NEW s \in Sockets, Frames(s), Stays(s), task[s] = "pumping", task'[s] = "pumping",
           commands[s] \in Seq(Cmds), commands[s] # <<>>, Head(commands[s]).type = "Send",
           commands'[s] = Tail(commands[s]), early'[s] = early[s],
           sent'[s] = sent[s] \o <<Head(commands[s]).frame>>,
           sent[s] \in Seq(Nat), early[s] \in Seq(Nat)
    PROVE  Frames(s)'
<1> DEFINE q == commands[s]
           P == FramesIn(q)
           n == Len(sent[s]) + Len(early[s])
<1>1. Unmade(s)'
  BY UnmadeTask DEF Stays
<1>2. PICK mid \in Nat :
        /\ InOrder(q, P, n, mid)
        /\ s \in ws_commands => InOrder(scheduler_rx, FramesOf(scheduler_rx, s), mid, asked[s])
  BY DEF Frames, Line, Stays
<1>3. n \in Nat /\ P \in SUBSET DOMAIN q /\ q \in Seq(Cmds) /\ q # <<>>
  BY SentLength DEF FramesIn
<1>4. FramesIn(Tail(q)) = {k \in DOMAIN Tail(q) : k + 1 \in P} /\ 1 \in P
  BY FramesInTail
<1>5. Head(q).frame = n + 1 /\ InOrder(Tail(q), {k \in DOMAIN Tail(q) : k + 1 \in P}, n + 1, mid)
  <2> HIDE DEF P, q, n
  <2> QED
    BY <1>2, <1>3, <1>4, InOrderTail
<1>6. early[s] = <<>> /\ \A k \in DOMAIN sent[s] : sent[s][k] = k
  BY DEF Frames, Line, Stays
<1>7. n = Len(sent[s]) /\ Len(sent'[s]) + Len(early'[s]) = n + 1
  BY SMT, <1>6
<1>8. /\ DOMAIN sent'[s] = DOMAIN sent[s] \cup {Len(sent[s]) + 1}
      /\ sent'[s][Len(sent[s]) + 1] = Head(q).frame /\ \A k \in DOMAIN sent[s] : sent'[s][k] = sent[s][k]
  <2>1. n + 1 \in Nat
    BY SentLength
  <2>2. Head(q).frame \in Nat
    BY <1>5, <2>1
  <2> DEFINE a == sent[s]
             x == Head(q).frame
  <2>3. /\ a \o <<x>> = Append(a, x) /\ DOMAIN Append(a, x) = DOMAIN a \cup {Len(a) + 1}
        /\ Append(a, x)[Len(a) + 1] = x /\ \A k \in DOMAIN a : Append(a, x)[k] = a[k]
    BY <2>2, OneMore
  <2> QED
    BY <2>3
<1>9. \A k \in DOMAIN sent'[s] : sent'[s][k] = k
  BY <1>5, <1>6, <1>7, <1>8
<1>10. InOrder(commands'[s], FramesIn(commands'[s]), Len(sent'[s]) + Len(early'[s]), mid)
  BY <1>4, <1>5, <1>7
<1>11. s \in ws_commands' => InOrder(scheduler_rx', FramesOf(scheduler_rx', s), mid, asked'[s])
  BY <1>2 DEF Stays
<1>12. early'[s] = <<>> /\ \A k \in DOMAIN early'[s] : early'[s][k] = Len(sent'[s]) + k
  <2>1. \A k \in DOMAIN <<>> : FALSE
    BY SMT
  <2> QED
    BY <1>6, <2>1
<1>13. Line(s)'
  BY <1>9, <1>10, <1>11, <1>12, LineNext
<1>14. OnTheWire(s)'
  <2>1. \A k \in DOMAIN sent'[s] : k # 0
    BY SMT
  <2> QED
    BY <1>9, <2>1 DEF OnTheWire
<1> QED
  BY <1>1, <1>13, <1>14 DEF Frames

\* The client arrives, and gets the frames that waited.
LEMMA FramesFlush ==
    ASSUME NEW s \in Sockets, Frames(s), Stays(s), task'[s] = "pumping", commands'[s] = commands[s],
           sent'[s] = sent[s] \o early[s], early'[s] = <<>>, sent[s] \in Seq(Nat), early[s] \in Seq(Nat)
    PROVE  Frames(s)'
<1>1. Unmade(s)'
  BY UnmadeTask DEF Stays
<1>2. PICK mid \in Nat :
        /\ InOrder(commands[s], FramesIn(commands[s]), Len(sent[s]) + Len(early[s]), mid)
        /\ s \in ws_commands => InOrder(scheduler_rx, FramesOf(scheduler_rx, s), mid, asked[s])
  BY DEF Frames, Line, Stays
<1>3. Len(sent'[s]) + Len(early'[s]) = Len(sent[s]) + Len(early[s])
  BY SMT
<1>4. InOrder(commands'[s], FramesIn(commands'[s]), Len(sent'[s]) + Len(early'[s]), mid)
  BY <1>2, <1>3
<1>5. s \in ws_commands' => InOrder(scheduler_rx', FramesOf(scheduler_rx', s), mid, asked'[s])
  BY <1>2 DEF Stays
<1>6. \A k \in DOMAIN sent'[s] : sent'[s][k] = k /\ k # 0
  <2>1. /\ \A k \in DOMAIN sent[s] : sent[s][k] = k
        /\ \A k \in DOMAIN early[s] : early[s][k] = Len(sent[s]) + k
    BY DEF Frames, Line, Stays
  <2>2. ASSUME NEW k \in DOMAIN (sent[s] \o early[s])
        PROVE  (sent[s] \o early[s])[k] = k /\ k # 0
    <3>1. /\ k # 0
          /\ \/ k \in DOMAIN sent[s] /\ (sent[s] \o early[s])[k] = sent[s][k]
             \/ /\ k - Len(sent[s]) \in DOMAIN early[s] /\ (sent[s] \o early[s])[k] = early[s][k - Len(sent[s])]
                /\ Len(sent[s]) + (k - Len(sent[s])) = k
      BY Joined
    <3> QED
      BY <2>1, <3>1
  <2> QED
    BY <2>2
<1>7. \A k \in DOMAIN early'[s] : FALSE
  BY SMT
<1>8. Line(s)'
  BY <1>4, <1>5, <1>6, <1>7, LineNext
<1> QED
  BY <1>1, <1>6, <1>8 DEF Frames, OnTheWire

-----------------------------------------------------------------------------
(* Whether the loop commands the socket *)

\* A socket may be connected, or will be.
Joins(s) == task[s] \in {"connecting", "pumping"} \/ s \in upgrade \/ Has(commands[s], "Attach")

\* What Held says of the socket in the next state.
LEMMA HeldNext ==
    ASSUME NEW s,
           task'[s] \in {"none", "connecting", "waiting"} => wire'[s] = "none",
           task'[s] = "none" => s \notin upgrade' \cup pairs',
           s \in pairs' => task'[s] \in {"waiting", "ended"} /\ s \notin upgrade' /\ ~Has(commands'[s], "Attach"),
           (Live' /\ task'[s] \notin {"none", "ended"}) => \/ task_scope'[s] = scope'
                                                         \/ task_scope'[s] \in cancelled_scopes',
           (Live' /\ task'[s] \notin {"none", "ended"} /\ task_scope'[s] \notin cancelled_scopes' /\ Joins(s)')
              => s \in ws_commands' \/ Has(commands'[s], "Close"),
           (task'[s] = "ended" /\ wire'[s] = "up" /\ Live') => sent'[s] # <<>> /\ sent'[s][Len(sent'[s])] = 0
    PROVE  Held(s)'
BY DEF Held, Joins, Has

\* Nothing about the socket changes, but that its scope is cancelled, the response can no
\* longer carry it, or the context goes.
LEMMA HeldSame ==
    ASSUME NEW s, Held(s), SameTask(s), commands'[s] = commands[s], s \in pairs' => s \in pairs,
           Live' => Live, Live' => (s \in ws_commands => s \in ws_commands'),
           scope' = scope, cancelled_scopes \subseteq cancelled_scopes'
    PROVE  Held(s)'
<1>1. Joins(s)' <=> Joins(s)
  BY DEF Joins, SameTask, Has
<1>2. (Live' /\ task'[s] \notin {"none", "ended"} /\ task_scope'[s] \notin cancelled_scopes' /\ Joins(s)')
              => s \in ws_commands' \/ Has(commands'[s], "Close")
  BY <1>1 DEF Held, Joins, SameTask
<1>3. /\ task'[s] \in {"none", "connecting", "waiting"} => wire'[s] = "none"
      /\ task'[s] = "none" => s \notin upgrade' \cup pairs'
      /\ s \in pairs' => task'[s] \in {"waiting", "ended"} /\ s \notin upgrade' /\ ~Has(commands'[s], "Attach")
  BY DEF Held, SameTask
<1>4. /\ (Live' /\ task'[s] \notin {"none", "ended"}) => \/ task_scope'[s] = scope'
                                                       \/ task_scope'[s] \in cancelled_scopes'
      /\ (task'[s] = "ended" /\ wire'[s] = "up" /\ Live') => sent'[s] # <<>> /\ sent'[s][Len(sent'[s])] = 0
  BY DEF Held, SameTask
<1> QED
  BY <1>2, <1>3, <1>4, HeldNext

\* The scope of the socket ends with its request.
LEMMA HeldBegins ==
    ASSUME NEW s, Held(s), SameTask(s), commands'[s] = commands[s], pairs' = {}, Live' => Live,
           cancelled_scopes' = cancelled_scopes \cup {scope}
    PROVE  Held(s)'
<1>1. (Live' /\ task'[s] \notin {"none", "ended"}) => task_scope'[s] \in cancelled_scopes'
  BY DEF Held, SameTask
<1>2. /\ task'[s] \in {"none", "connecting", "waiting"} => wire'[s] = "none"
      /\ task'[s] = "none" => s \notin upgrade' \cup pairs'
      /\ s \notin pairs'
      /\ (task'[s] = "ended" /\ wire'[s] = "up" /\ Live') => sent'[s] # <<>> /\ sent'[s][Len(sent'[s])] = 0
  BY DEF Held, SameTask
<1> QED
  BY <1>1, <1>2, HeldNext

\* What is in a longer sequence of commands.
LEMMA HasPut ==
    ASSUME NEW q \in Seq(Cmds), NEW c \in Cmds, NEW type
    PROVE  Has(Append(q, c), type) <=> Has(q, type) \/ c.type = type
<1>1. /\ DOMAIN Append(q, c) = DOMAIN q \cup {Len(q) + 1} /\ Append(q, c)[Len(q) + 1] = c
      /\ \A k \in DOMAIN q : Append(q, c)[k] = q[k]
  BY SMT
<1> QED
  BY <1>1 DEF Has

\* What is in a shorter one.
LEMMA HasTail ==
    ASSUME NEW q \in Seq(Cmds), q # <<>>, NEW type
    PROVE  Has(q, type) <=> Has(Tail(q), type) \/ Head(q).type = type
<1>1. /\ 1 \in DOMAIN q /\ Head(q) = q[1]
      /\ \A k \in DOMAIN Tail(q) : k + 1 \in DOMAIN q /\ Tail(q)[k] = q[k + 1]
      /\ \A k \in DOMAIN q : k = 1 \/ (k - 1 \in DOMAIN Tail(q) /\ Tail(q)[k - 1] = q[k])
  BY SMT
<1>2. ASSUME Has(q, type) PROVE Has(Tail(q), type) \/ Head(q).type = type
  <2>1. PICK k \in DOMAIN q : q[k].type = type
    BY <1>2 DEF Has
  <2> QED
    BY <1>1, <2>1 DEF Has
<1>3. ASSUME Has(Tail(q), type) PROVE Has(q, type)
  <2>1. PICK k \in DOMAIN Tail(q) : Tail(q)[k].type = type
    BY <1>3 DEF Has
  <2> QED
    BY <1>1, <2>1 DEF Has
<1>4. Head(q).type = type => Has(q, type)
  BY <1>1 DEF Has
<1> QED
  BY <1>2, <1>3, <1>4

\* The loop gives the task a command, and keeps the channel unless that is to close.
LEMMA HeldCommanded ==
    ASSUME NEW s, Held(s), SameTask(s), NEW c \in Cmds, commands[s] \in Seq(Cmds),
           commands'[s] = Append(commands[s], c), s \in ws_commands,
           s \in ws_commands' \/ c.type = "Close", c.type = "Attach" => s \notin pairs',
           s \in pairs' => s \in pairs, Live' => Live, scope' = scope, cancelled_scopes' = cancelled_scopes
    PROVE  Held(s)'
<1>1. s \in ws_commands' \/ Has(commands'[s], "Close")
  BY HasPut
<1>2. s \in pairs' => ~Has(commands'[s], "Attach")
  <2>1. Has(Append(commands[s], c), "Attach") => Has(commands[s], "Attach") \/ c.type = "Attach"
    BY HasPut
  <2>2. s \in pairs' => ~Has(commands[s], "Attach")
    BY DEF Held
  <2> QED
    BY <2>1, <2>2
<1>3. /\ task'[s] \in {"none", "connecting", "waiting"} => wire'[s] = "none"
      /\ task'[s] = "none" => s \notin upgrade' \cup pairs'
      /\ s \in pairs' => task'[s] \in {"waiting", "ended"} /\ s \notin upgrade'
  BY DEF Held, SameTask
<1>4. /\ (Live' /\ task'[s] \notin {"none", "ended"}) => \/ task_scope'[s] = scope'
                                                       \/ task_scope'[s] \in cancelled_scopes'
      /\ (task'[s] = "ended" /\ wire'[s] = "up" /\ Live') => sent'[s] # <<>> /\ sent'[s][Len(sent'[s])] = 0
  BY DEF Held, SameTask
<1> QED
  BY <1>1, <1>2, <1>3, <1>4, HeldNext

\* The response does not carry the pair, and the loop may drop its channel.
LEMMA HeldLetGo ==
    ASSUME NEW s, Held(s), SameTask(s), commands'[s] = commands[s], s \in pairs, pairs' = {},
           Live' => Live, scope' = scope, cancelled_scopes' = cancelled_scopes
    PROVE  Held(s)'
<1>1. ~Joins(s)' \/ task'[s] = "ended"
  BY DEF Held, Joins, SameTask, Has
<1>2. /\ task'[s] \in {"none", "connecting", "waiting"} => wire'[s] = "none"
      /\ task'[s] = "none" => s \notin upgrade' \cup pairs'
      /\ s \notin pairs'
  BY DEF Held, SameTask
<1>3. /\ (Live' /\ task'[s] \notin {"none", "ended"}) => \/ task_scope'[s] = scope'
                                                       \/ task_scope'[s] \in cancelled_scopes'
      /\ (task'[s] = "ended" /\ wire'[s] = "up" /\ Live') => sent'[s] # <<>> /\ sent'[s][Len(sent'[s])] = 0
  BY DEF Held, SameTask
<1> QED
  BY <1>1, <1>2, <1>3, HeldNext


\* The task starts.
LEMMA HeldStarts ==
    ASSUME NEW s, Held(s), task[s] = "none", commands[s] = <<>>, commands' = commands,
           \/ task'[s] = "connecting" /\ s \in ws_commands' /\ pairs' = pairs
           \/ task'[s] = "waiting" /\ s \notin upgrade',
           task_scope'[s] = scope, scope' = scope, wire' = wire, upgrade' = upgrade
    PROVE  Held(s)'
<1>1. \A type : ~Has(<<>>, type)
  <2>1. DOMAIN <<>> = {}
    BY SMT
  <2> QED
    BY <2>1 DEF Has
<1>2. ~Has(commands'[s], "Attach")
  BY <1>1
<1>3. Joins(s)' => s \in ws_commands'
  BY <1>2 DEF Joins, Has
<1>4. wire'[s] = "none" /\ s \notin pairs \cup upgrade
  BY DEF Held
<1>5. task'[s] # "none" /\ task'[s] # "ended"
  OBVIOUS
<1>6. s \in pairs' => task'[s] \in {"waiting", "ended"} /\ s \notin upgrade' /\ ~Has(commands'[s], "Attach")
  BY <1>2, <1>4
<1> QED
  BY <1>3, <1>4, <1>5, <1>6, HeldNext

\* The task ends.
LEMMA HeldEnds ==
    ASSUME NEW s, Held(s), task'[s] = "ended", pairs' = pairs, upgrade' = upgrade,
           Has(commands'[s], "Attach") => Has(commands[s], "Attach"),
           wire'[s] = "up" /\ Live' => sent'[s] # <<>> /\ sent'[s][Len(sent'[s])] = 0
    PROVE  Held(s)'
<1>1. s \in pairs' => s \notin upgrade' /\ ~Has(commands'[s], "Attach")
  BY DEF Held
<1> QED
  BY <1>1, HeldNext

\* The task goes on.
LEMMA HeldGoes ==
    ASSUME NEW s, Held(s), task[s] \notin {"none", "ended"}, task'[s] \notin {"none", "ended"},
           pairs' = pairs, ws_commands' = ws_commands, scope' = scope, cancelled_scopes' = cancelled_scopes,
           task_scope' = task_scope, Live' => Live,
           task'[s] \in {"connecting", "waiting"} => wire'[s] = wire[s] /\ task'[s] = task[s],
           Joins(s)' => Joins(s), s \in pairs => ~Joins(s)' /\ task'[s] = task[s],
           Has(commands[s], "Close") => Has(commands'[s], "Close")
    PROVE  Held(s)'
<1>1. (Live' /\ task_scope'[s] \notin cancelled_scopes' /\ Joins(s)')
         => s \in ws_commands' \/ Has(commands'[s], "Close")
  BY DEF Held, Joins
<1>2. s \in pairs' => task'[s] \in {"waiting", "ended"} /\ s \notin upgrade' /\ ~Has(commands'[s], "Attach")
  BY DEF Held, Joins, Has
<1>3. /\ task'[s] \in {"none", "connecting", "waiting"} => wire'[s] = "none"
      /\ Live' => task_scope'[s] = scope' \/ task_scope'[s] \in cancelled_scopes'
  BY DEF Held
<1> QED
  BY <1>1, <1>2, <1>3, HeldNext

-----------------------------------------------------------------------------
(* Which request hears of a socket *)

\* Nothing the guest sees of the socket changes.
LEMMA HeardSame ==
    ASSUME NEW s, Heard(s), script' = script, request' = request, next_ws' = next_ws,
           accepted_js' = accepted_js, connects' = connects, ws_event_callbacks' = ws_event_callbacks,
           reader' = reader, told' = told
    PROVE  Heard(s)'
BY DEF Heard

\* What the guest sees of it in a step about another one.
Apart(s) ==
    /\ script' = script /\ request' = request /\ reader'[s] = reader[s] /\ told'[s] = told[s]
    /\ (s \in accepted_js' <=> s \in accepted_js) /\ (s \in connects' <=> s \in connects)
    /\ (s \in ws_event_callbacks' <=> s \in ws_event_callbacks) /\ (s < next_ws => s < next_ws')

\* Then it is heard as before.
LEMMA HeardApart ==
    ASSUME NEW s, Heard(s), Apart(s)
    PROVE  Heard(s)'
BY DEF Heard, Apart

\* A request starts with no callbacks.
LEMMA HeardStart ==
    ASSUME NEW s, Heard(s), script' = script, next_ws' = next_ws, accepted_js' = accepted_js, told' = told,
           connects' = {}, ws_event_callbacks' = {}
    PROVE  Heard(s)'
BY DEF Heard

\* The guest makes the socket.
LEMMA HeardMade ==
    ASSUME NEW s, Heard(s), s \in Nat, s = next_ws, next_ws' = next_ws + 1, told[s] \in Nat,
           script' = script, accepted_js' = accepted_js, ws_event_callbacks' = ws_event_callbacks, told' = told,
           connects' \in {connects, connects \cup {s}}, connects' # connects => script.kinds[s] = "client"
    PROVE  Heard(s)'
<1>1. ~(s < next_ws) /\ s < next_ws' /\ (~(told[s] > 0) => told[s] = 0)
  BY SMT
<1> QED
  BY <1>1 DEF Heard

\* The guest, or the loop, accepts it.
LEMMA HeardAccepts ==
    ASSUME NEW s, Heard(s), script' = script, request' = request, next_ws' = next_ws, told' = told,
           s < next_ws, ~(told[s] > 0), s \in accepted_js', s \notin connects', reader'[s] = request
    PROVE  Heard(s)'
BY DEF Heard

\* It ends, or never opens.
LEMMA HeardEnds ==
    ASSUME NEW s, Heard(s), script' = script, next_ws' = next_ws, s \in connects \/ s \in ws_event_callbacks,
           s \notin ws_event_callbacks', s \notin connects', accepted_js' = accepted_js
    PROVE  Heard(s)'
BY DEF Heard

-----------------------------------------------------------------------------
(* The steps of exec, and those of the guest that make and send nothing *)

\* A socket is a number.
LEMMA SocketNumbers == \A s \in Sockets : s \in Nat \ {0}
<1>1. ASSUME NEW n, NEW s \in 1..n PROVE s \in Nat \ {0}
  BY SMT
<1> QED
  BY <1>1 DEF Sockets

\* What a message has.
LEMMA MsgTyped ==
    ASSUME NEW m \in Msgs
    PROVE  m.id \in Nat /\ (m.type = "Send" => m.frame \in Nat)
BY SMT DEF Msgs

\* A message that the loop gets.
LEMMA RxTyped ==
    ASSUME NEW q \in Seq(Msgs), NEW n \in Nat, NEW f \in Nat,
           NEW type \in {"BeginRequest", "Upgrade", "Connect", "Pair", "Accept", "Close"}
    PROVE  /\ [type |-> type, id |-> n] \in Msgs /\ [type |-> "Send", id |-> n, frame |-> f] \in Msgs
           /\ Append(q, [type |-> type, id |-> n]) \in Seq(Msgs)
           /\ Append(q, [type |-> "Send", id |-> n, frame |-> f]) \in Seq(Msgs)
<1>1. [type |-> type, id |-> n] \in Msgs /\ [type |-> "Send", id |-> n, frame |-> f] \in Msgs
  BY SMT DEF Msgs
<1>2. \A m \in Msgs : Append(q, m) \in Seq(Msgs)
  <2> HIDE DEF Msgs
  <2> QED
    BY SMT
<1> QED
  BY <1>1, <1>2

\* One that it takes.
LEMMA RxTaken ==
    ASSUME NEW q \in Seq(Msgs), q # <<>>
    PROVE  Head(q) \in Msgs /\ Tail(q) \in Seq(Msgs)
BY SMT

\* A step that only tells the loop something, about no frame and to make no socket.
Outside ==
    /\ UNCHANGED <<next_ws, asked, scope, pairs, ws_commands, commands, taskVars>>
    /\ cancelled_scopes \subseteq cancelled_scopes' /\ (Live' => Live)
    /\ scheduler_rx' = scheduler_rx
         \/ \E m \in Msgs : m.type \notin {"Connect", "Pair", "Send"} /\ scheduler_rx' = Append(scheduler_rx, m)

\* Such a step leaves the sockets as they are.
LEMMA OutsideKeeps ==
    ASSUME Types, NEW s \in Sockets, Frames(s), Held(s), Outside
    PROVE  Frames(s)' /\ Held(s)'
<1>1. SameTask(s) /\ commands'[s] = commands[s] /\ asked'[s] = asked[s] /\ asked[s] \in Nat
  BY DEF SameTask, Outside, taskVars, Types
<1>2. Quiet(s)
  <2>1. CASE scheduler_rx' = scheduler_rx
    BY <2>1, QuietSame
  <2>2. ASSUME NEW m \in Msgs, m.type \notin {"Connect", "Pair", "Send"}, scheduler_rx' = Append(scheduler_rx, m)
        PROVE  Quiet(s)
    BY <2>2, QuietPut DEF About, Types
  <2> QED
    BY <2>1, <2>2 DEF Outside
<1>3. Frames(s)'
  <2>1. (s \in ws_commands' => s \in ws_commands) /\ (s >= next_ws' => s >= next_ws)
    BY DEF Outside
  <2> QED
    BY <1>1, <1>2, <2>1, FramesQuiet
<1>4. Held(s)'
  <2>1. /\ s \in pairs' => s \in pairs
        /\ Live' => Live
        /\ s \in ws_commands => s \in ws_commands'
        /\ scope' = scope /\ cancelled_scopes \subseteq cancelled_scopes'
    BY DEF Outside
  <2> QED
    BY <1>1, <2>1, HeldSame
<1> QED
  BY <1>3, <1>4

\* What Types says of the variables a step may leave alone.
LEMMA TypesSame ==
    ASSUME Types, UNCHANGED <<script, next_ws, socket, request, scope>>,
           UNCHANGED <<reader, heard, told, commands, task, task_scope, early, asked, sent, wire>>,
           scheduler_rx' \in Seq(Msgs), callback_rx' \in {callback_rx, <<>>}
    PROVE  Types'
<1>1. <<>> \in Seq(Events)
  BY SMT
<1> QED
  BY <1>1 DEF Types

\* A request starts.
LEMMA StartKeeps ==
    ASSUME IInv, Start
    PROVE  IInv'
<1> USE DEF Start, ClearSockets
<1>1. request + 1 \in Nat /\ Append(scheduler_rx, [type |-> "BeginRequest", id |-> request + 1]) \in Seq(Msgs)
      /\ [type |-> "BeginRequest", id |-> request + 1] \in Msgs
  <2>1. request + 1 \in Nat /\ 0 \in Nat
    BY SMT DEF IInv, Types
  <2>2. scheduler_rx \in Seq(Msgs)
    BY DEF IInv, Types
  <2> QED
    BY <2>1, <2>2, RxTyped
<1>2. Types'
  <2>1. <<>> \in Seq(Events) /\ 0 \in Nat
    BY SMT
  <2> QED
    BY <1>1, <2>1 DEF IInv, Types, taskVars, scopeVars
<1>3. Outside
  <2>1. [type |-> "BeginRequest", id |-> request + 1].type = "BeginRequest"
    OBVIOUS
  <2>2. Live' => Live
    BY DEF Live
  <2> QED
    BY <1>1, <2>1, <2>2 DEF Outside, loopVars, scopeVars
<1>4. ASSUME NEW s \in Sockets PROVE Frames(s)' /\ Held(s)' /\ Heard(s)'
  BY <1>3, OutsideKeeps, HeardStart DEF IInv
<1> QED
  BY <1>2, <1>4 DEF IInv


\* The steps of exec after that, and the abort of a request, which the guest does not see.
LEMMA ExecKeeps ==
    ASSUME IInv,
           \/ HangUp \/ StreamsComplete \/ SocketClosed \/ Drained \/ Dropped \/ Abort
           \/ \E carried \in Sockets \cup {0} : ReadResponse(carried)
    PROVE  IInv'
<1>1. \A n \in Sockets \cup {0} : n \in Nat
  <2>1. 0 \in Nat
    BY SMT
  <2> QED
    BY <2>1, SocketNumbers
<1>2. scheduler_rx \in Seq(Msgs) /\ socket \in Nat
  BY DEF IInv, Types
<1>3. \A n \in Nat, type \in {"Upgrade", "Close"} :
        [type |-> type, id |-> n] \in Msgs /\ Append(scheduler_rx, [type |-> type, id |-> n]) \in Seq(Msgs)
  BY <1>1, <1>2, RxTyped
<1>4. \A n, type : [type |-> type, id |-> n].type = type
  OBVIOUS
<1>5. CASE StreamsComplete \/ SocketClosed
  <2>1. /\ UNCHANGED <<script, request, socket, guestVars, toldVars, callback_rx, scopeVars, loopVars, commands, taskVars>>
        /\ Live' => Live
        /\ ClosesUnread
    BY <1>5 DEF StreamsComplete, SocketClosed, Live
  <2>2. scheduler_rx' = scheduler_rx \/ scheduler_rx' = Append(scheduler_rx, [type |-> "Close", id |-> socket])
    BY <2>1 DEF ClosesUnread
  <2>3. Outside
    BY <1>2, <1>3, <1>4, <2>1, <2>2 DEF Outside, guestVars, loopVars, scopeVars
  <2>4. Types'
    BY <1>2, <1>3, <2>1, <2>2, TypesSame DEF IInv, guestVars, toldVars, scopeVars, taskVars
  <2>5. ASSUME NEW s \in Sockets PROVE Frames(s)' /\ Held(s)' /\ Heard(s)'
    <3>1. Heard(s)'
      BY <2>1, HeardSame DEF IInv, guestVars, toldVars
    <3> QED
      BY <2>3, <3>1, OutsideKeeps DEF IInv
  <2> QED
    BY <2>4, <2>5 DEF IInv
<1>6. CASE HangUp \/ Drained \/ Dropped \/ Abort
  <2>1. UNCHANGED <<script, request, socket, guestVars, toldVars, callback_rx, scheduler_rx, scope, loopVars, commands, taskVars>>
    BY <1>6 DEF HangUp, Drained, Dropped, Abort, Loops, execVars, scopeVars
  <2>2. cancelled_scopes \subseteq cancelled_scopes' \/ ~Live'
    BY <1>6 DEF HangUp, Drained, Dropped, Abort, scopeVars, Live
  <2>3. Live' => Live
    BY <1>6 DEF HangUp, Drained, Dropped, Abort, Loops, execVars, Live
  <2>4. Types'
    BY <1>2, <2>1, TypesSame DEF IInv, guestVars, toldVars, taskVars
  <2>5. ASSUME NEW s \in Sockets PROVE Frames(s)' /\ Held(s)' /\ Heard(s)'
    <3>1. Heard(s)'
      BY <2>1, HeardSame DEF IInv, guestVars, toldVars
    <3>2. SameTask(s) /\ commands'[s] = commands[s] /\ asked'[s] = asked[s] /\ asked[s] \in Nat
      BY <2>1 DEF SameTask, taskVars, guestVars, IInv, Types
    <3>3. Frames(s)'
      <4>1. Quiet(s)
        BY <2>1, QuietSame
      <4>2. (s \in ws_commands' => s \in ws_commands) /\ (s >= next_ws' => s >= next_ws)
        BY <2>1 DEF loopVars, guestVars
      <4> QED
        BY <3>2, <4>1, <4>2, FramesQuiet DEF IInv
    <3>4. Held(s)'
      <4>1. /\ s \in pairs' => s \in pairs
            /\ s \in ws_commands => s \in ws_commands'
            /\ scope' = scope
        BY <2>1 DEF loopVars
      <4>2. CASE cancelled_scopes \subseteq cancelled_scopes'
        BY <2>3, <3>2, <4>1, <4>2, HeldSame DEF IInv
      <4>3. CASE ~Live'
        <5>1. /\ task'[s] \in {"none", "connecting", "waiting"} => wire'[s] = "none"
              /\ task'[s] = "none" => s \notin upgrade' \cup pairs'
              /\ s \in pairs' => task'[s] \in {"waiting", "ended"} /\ s \notin upgrade' /\ ~Has(commands'[s], "Attach")
          BY <3>2, <4>1 DEF IInv, Held, SameTask
        <5> QED
          BY <4>3, <5>1, HeldNext
      <4> QED
        BY <2>2, <4>2, <4>3
    <3> QED
      BY <3>1, <3>3, <3>4
  <2> QED
    BY <2>4, <2>5 DEF IInv
<1>7. ASSUME NEW carried \in Sockets \cup {0}, ReadResponse(carried) PROVE IInv'
  <2>1. PICK taken \in {carried, 0} :
          socket' = taken /\ scheduler_rx' = Append(scheduler_rx, [type |-> "Upgrade", id |-> taken])
    BY <1>7 DEF ReadResponse
  <2>2. /\ UNCHANGED <<script, request, guestVars, toldVars, callback_rx, scopeVars, loopVars, commands, taskVars>>
        /\ Live' => Live
    BY <1>7 DEF ReadResponse, Live
  <2>3. taken \in Nat
    BY <1>1, <2>1
  <2>4. Outside
    BY <1>3, <1>4, <2>1, <2>2, <2>3 DEF Outside, guestVars, loopVars, scopeVars
  <2>5. Types'
    BY <1>3, <2>1, <2>2, <2>3 DEF IInv, Types, guestVars, toldVars, scopeVars, taskVars
  <2>6. ASSUME NEW s \in Sockets PROVE Frames(s)' /\ Held(s)' /\ Heard(s)'
    <3>1. Heard(s)'
      BY <2>2, HeardSame DEF IInv, guestVars, toldVars
    <3> QED
      BY <2>4, <3>1, OutsideKeeps DEF IInv
  <2> QED
    BY <2>5, <2>6 DEF IInv
<1> QED
  BY <1>5, <1>6, <1>7

\* The context goes: its loop, and the channels it has, first.
LEMMA DropKeeps ==
    ASSUME IInv, Drop
    PROVE  IInv'
<1> USE DEF Drop
<1>1. <<>> \in Seq(Msgs)
  BY SMT
<1>2. Types'
  BY <1>1, TypesSame DEF IInv, guestVars, toldVars, scopeVars, taskVars
<1>3. ASSUME NEW s \in Sockets PROVE Frames(s)' /\ Held(s)' /\ Heard(s)'
  <2>1. SameTask(s) /\ commands'[s] = commands[s] /\ asked'[s] = asked[s] /\ asked[s] \in Nat
    BY DEF SameTask, taskVars, guestVars, IInv, Types
  <2>2. Frames(s)'
    <3>1. Quiet(s)
      BY QuietDrop
    <3>2. (s \in ws_commands' => s \in ws_commands) /\ (s >= next_ws' => s >= next_ws)
      BY DEF guestVars
    <3> QED
      BY <2>1, <3>1, <3>2, FramesQuiet DEF IInv
  <2>3. Held(s)'
    <3>1. ~Live' /\ scope' = scope /\ cancelled_scopes \subseteq cancelled_scopes' /\ (s \in pairs' => s \in pairs)
      BY DEF Live, scopeVars
    <3> QED
      BY <2>1, <3>1, HeldSame DEF IInv
  <2>4. Heard(s)'
    BY HeardSame DEF IInv, guestVars, toldVars
  <2> QED
    BY <2>2, <2>3, <2>4
<1> QED
  BY <1>2, <1>3 DEF IInv

-----------------------------------------------------------------------------
(* The steps of the guest *)

\* What the guest leaves alone.
LEMMA GuestApart ==
    ASSUME Guest
    PROVE  /\ UNCHANGED <<script, request, socket, heard, told, callback_rx, scope, cancelled_scopes, pairs, ws_commands>>
           /\ UNCHANGED <<commands, taskVars>> /\ (Live' <=> Live)
BY DEF Guest, execVars, toldVars, scopeVars, loopVars, Live

\* The guest accepts a pair.
LEMMA AcceptKeeps ==
    ASSUME IInv, NEW t \in Sockets, NativeWebSocketAccept(t)
    PROVE  IInv'
<1>1. /\ t < next_ws /\ script.kinds[t] = "pair" /\ t \notin accepted_js
      /\ accepted_js' = accepted_js \cup {t} /\ ws_event_callbacks' = ws_event_callbacks \cup {t}
      /\ reader' = [reader EXCEPT ![t] = request] /\ scheduler_rx' = Append(scheduler_rx, [type |-> "Accept", id |-> t])
      /\ UNCHANGED <<next_ws, connects, asked>> /\ Guest
  BY DEF NativeWebSocketAccept, Sends
<1>2. /\ UNCHANGED <<script, request, socket, heard, told, callback_rx, scope, cancelled_scopes, pairs, ws_commands>>
      /\ UNCHANGED <<commands, taskVars>> /\ (Live' <=> Live)
  BY <1>1, GuestApart
<1>3. scheduler_rx \in Seq(Msgs) /\ request \in Nat /\ t \in Nat
  BY SocketNumbers DEF IInv, Types
<1>4. [type |-> "Accept", id |-> t] \in Msgs /\ Append(scheduler_rx, [type |-> "Accept", id |-> t]) \in Seq(Msgs)
  BY <1>3, RxTyped
<1>5. Outside
  <2>1. [type |-> "Accept", id |-> t].type = "Accept"
    OBVIOUS
  <2> QED
    BY <1>1, <1>2, <1>4, <2>1 DEF Outside
<1>6. Types'
  <2>1. reader' \in [Sockets -> Nat]
    BY <1>1, <1>3 DEF IInv, Types
  <2> QED
    BY <1>1, <1>2, <1>4, <2>1 DEF IInv, Types, taskVars
<1>7. ASSUME NEW s \in Sockets PROVE Frames(s)' /\ Held(s)' /\ Heard(s)'
  <2>1. CASE s # t
    <3>1. Apart(s)
      BY <1>1, <1>2, <2>1 DEF Apart, IInv, Types
    <3> QED
      BY <1>5, <3>1, HeardApart, OutsideKeeps DEF IInv
  <2>2. CASE s = t
    <3>1. ~(told[s] > 0) /\ s \notin connects
      BY <1>1, <2>2 DEF IInv, Heard
    <3>2. s \in accepted_js' /\ s \notin connects' /\ reader'[s] = request
      BY <1>1, <2>2, <3>1 DEF IInv, Types
    <3>3. Heard(s)'
      BY <1>1, <1>2, <2>2, <3>1, <3>2, HeardAccepts DEF IInv
    <3> QED
      BY <1>5, <3>3, OutsideKeeps DEF IInv
  <2> QED
    BY <2>1, <2>2
<1> QED
  BY <1>6, <1>7 DEF IInv

\* The guest closes a socket.
LEMMA CloseKeeps ==
    ASSUME IInv, NEW t \in Sockets, NativeWebSocketClose(t)
    PROVE  IInv'
<1>1. /\ scheduler_rx' \in {scheduler_rx, Append(scheduler_rx, [type |-> "Close", id |-> t])}
      /\ UNCHANGED <<next_ws, accepted_js, connects, ws_event_callbacks, reader, asked>> /\ Guest
  BY DEF NativeWebSocketClose, Sends
<1>2. /\ UNCHANGED <<script, request, socket, heard, told, callback_rx, scope, cancelled_scopes, pairs, ws_commands>>
      /\ UNCHANGED <<commands, taskVars>> /\ (Live' <=> Live)
  BY <1>1, GuestApart
<1>3. scheduler_rx \in Seq(Msgs) /\ t \in Nat
  BY SocketNumbers DEF IInv, Types
<1>4. [type |-> "Close", id |-> t] \in Msgs /\ Append(scheduler_rx, [type |-> "Close", id |-> t]) \in Seq(Msgs)
  BY <1>3, RxTyped
<1>5. Outside
  <2>1. [type |-> "Close", id |-> t].type = "Close"
    OBVIOUS
  <2> QED
    BY <1>1, <1>2, <1>4, <2>1 DEF Outside
<1>6. Types'
  BY <1>1, <1>2, <1>3, <1>4, TypesSame DEF IInv, taskVars
<1>7. ASSUME NEW s \in Sockets PROVE Frames(s)' /\ Held(s)' /\ Heard(s)'
  <2>1. Heard(s)'
    BY <1>1, <1>2, HeardSame DEF IInv
  <2> QED
    BY <1>5, <2>1, OutsideKeeps DEF IInv
<1> QED
  BY <1>6, <1>7 DEF IInv

\* The guest sends a frame.
LEMMA SendKeeps ==
    ASSUME IInv, NEW t \in Sockets, NativeWebSocketSend(t)
    PROVE  IInv'
<1> DEFINE m == [type |-> "Send", id |-> t, frame |-> asked[t] + 1]
<1>1. /\ t < next_ws /\ asked' = [asked EXCEPT ![t] = @ + 1] /\ scheduler_rx' = Append(scheduler_rx, m)
      /\ UNCHANGED <<next_ws, accepted_js, connects, ws_event_callbacks, reader>> /\ Guest
  BY DEF NativeWebSocketSend, Sends
<1>2. /\ UNCHANGED <<script, request, socket, heard, told, callback_rx, scope, cancelled_scopes, pairs, ws_commands>>
      /\ UNCHANGED <<commands, taskVars>> /\ (Live' <=> Live)
  BY <1>1, GuestApart
<1>3. /\ scheduler_rx \in Seq(Msgs) /\ t \in Nat /\ next_ws \in Nat
      /\ \A s \in Sockets : asked[s] \in Nat
  BY SocketNumbers DEF IInv, Types
<1>4. \A n \in Nat : n + 1 \in Nat
  BY SMT
<1>5. m \in Msgs /\ Append(scheduler_rx, m) \in Seq(Msgs)
  BY <1>3, <1>4, RxTyped
<1>6. m.type = "Send" /\ m.id = t /\ m.frame = asked[t] + 1
  OBVIOUS
<1> HIDE DEF m
<1>7. Types'
  <2>1. asked' \in [Sockets -> Nat]
    BY <1>1, <1>3, <1>4 DEF IInv, Types
  <2> QED
    BY <1>1, <1>2, <1>5, <2>1 DEF IInv, Types, taskVars
<1>8. ASSUME NEW s \in Sockets PROVE Frames(s)' /\ Held(s)' /\ Heard(s)'
  <2>1. Heard(s)'
    BY <1>1, <1>2, HeardSame DEF IInv
  <2>2. SameTask(s) /\ commands'[s] = commands[s]
    BY <1>2 DEF SameTask, taskVars
  <2>3. Held(s)'
    BY <1>2, <2>2, HeldSame DEF IInv
  <2>4. CASE s # t
    <3>1. Quiet(s)
      BY <1>1, <1>3, <1>5, <1>6, <2>4, QuietPut DEF About
    <3>2. asked'[s] = asked[s]
      BY <1>1, <2>4 DEF IInv, Types
    <3>3. Frames(s)'
      BY <1>1, <1>2, <1>3, <2>2, <3>1, <3>2, FramesQuiet DEF IInv
    <3> QED
      BY <2>1, <2>3, <3>3
  <2>5. CASE s = t
    <3>1. asked'[s] = asked[s] + 1
      BY <1>1, <2>5 DEF IInv, Types
    <3>2. m.id = s /\ m.frame = asked[s] + 1 /\ s \in Nat /\ s < next_ws
      BY <1>1, <1>3, <1>6, <2>5
    <3>3. Frames(s)'
      BY <1>1, <1>2, <1>3, <1>5, <1>6, <2>2, <3>1, <3>2, FramesSent DEF IInv
    <3> QED
      BY <2>1, <2>3, <3>3
  <2> QED
    BY <2>4, <2>5
<1> QED
  BY <1>7, <1>8 DEF IInv

\* The guest makes a socket.
LEMMA MakesKeeps ==
    ASSUME IInv, NativeWebSocketPair \/ NativeWebSocketConnect
    PROVE  IInv'
<1>1. PICK m : /\ m \in {[type |-> "Pair", id |-> next_ws], [type |-> "Connect", id |-> next_ws]}
               /\ scheduler_rx' = Append(scheduler_rx, m)
  BY DEF NativeWebSocketPair, NativeWebSocketConnect, Sends
<1>2. /\ next_ws' = next_ws + 1 /\ UNCHANGED <<accepted_js, ws_event_callbacks, reader, asked>> /\ Guest
      /\ connects' \in {connects, connects \cup {next_ws}}
      /\ connects' # connects => script.kinds[next_ws] = "client"
  BY DEF NativeWebSocketPair, NativeWebSocketConnect, Makes
<1>3. /\ UNCHANGED <<script, request, socket, heard, told, callback_rx, scope, cancelled_scopes, pairs, ws_commands>>
      /\ UNCHANGED <<commands, taskVars>> /\ (Live' <=> Live)
  BY <1>2, GuestApart
<1>4. /\ scheduler_rx \in Seq(Msgs) /\ next_ws \in Nat
      /\ \A s \in Sockets : asked[s] \in Nat /\ told[s] \in Nat
  BY DEF IInv, Types
<1>5. next_ws + 1 \in Nat \ {0} /\ 0 \in Nat /\ \A s \in Nat : s >= next_ws + 1 => s >= next_ws
  BY SMT, <1>4
<1>6. m \in Msgs /\ Append(scheduler_rx, m) \in Seq(Msgs)
  <2>1. \A type \in {"Pair", "Connect"} :
          /\ [type |-> type, id |-> next_ws] \in Msgs
          /\ Append(scheduler_rx, [type |-> type, id |-> next_ws]) \in Seq(Msgs)
    BY <1>4, <1>5, RxTyped
  <2> QED
    BY <1>1, <2>1
<1>7. m.type \in {"Connect", "Pair"} /\ m.id = next_ws
  BY SMT, <1>1
<1>8. Types'
  BY <1>1, <1>2, <1>3, <1>5, <1>6 DEF IInv, Types, taskVars
<1>9. ASSUME NEW s \in Sockets PROVE Frames(s)' /\ Held(s)' /\ Heard(s)'
  <2>1. s \in Nat
    BY SocketNumbers
  <2>2. SameTask(s) /\ commands'[s] = commands[s] /\ asked'[s] = asked[s]
    BY <1>2, <1>3 DEF SameTask, taskVars
  <2>3. Held(s)'
    BY <1>3, <2>2, HeldSame DEF IInv
  <2>4. CASE s # next_ws
    <3>1. Quiet(s)
      BY <1>1, <1>4, <1>6, <1>7, <2>4, QuietPut DEF About
    <3>2. s >= next_ws' => s >= next_ws
      BY <1>2, <1>5, <2>1
    <3>3. Frames(s)'
      BY <1>3, <1>4, <2>2, <3>1, <3>2, FramesQuiet DEF IInv
    <3>4. s < next_ws => s < next_ws'
      BY SMT, <1>2, <1>4, <2>1
    <3>5. s \in connects' <=> s \in connects
      BY <1>2, <2>4
    <3>6. Apart(s)
      BY <1>2, <1>3, <3>4, <3>5 DEF Apart
    <3> QED
      BY <2>3, <3>3, <3>6, HeardApart DEF IInv
  <2>5. CASE s = next_ws
    <3>1. Frames(s)'
      BY <1>1, <1>2, <1>3, <1>4, <1>6, <1>7, <2>1, <2>2, <2>5, FramesMade DEF IInv
    <3>2. Heard(s)'
      BY <1>2, <1>3, <1>4, <2>1, <2>5, HeardMade DEF IInv
    <3> QED
      BY <2>3, <3>1, <3>2
  <2> QED
    BY <2>4, <2>5
<1> QED
  BY <1>8, <1>9 DEF IInv

-----------------------------------------------------------------------------
(* The steps of the loop *)

\* What the loop leaves alone.
LEMMA LoopApart ==
    ASSUME IInv, Loops
    PROVE  /\ UNCHANGED <<script, request, socket, next_ws, asked, reader, heard, told, callback_rx>>
           /\ (Live' <=> Live) /\ \A s \in Sockets : Heard(s)'
<1>1. /\ UNCHANGED <<script, request, socket, next_ws, asked, reader, heard, told, callback_rx>> /\ (Live' <=> Live)
      /\ UNCHANGED <<accepted_js, connects, ws_event_callbacks>>
  BY DEF Loops, execVars, guestVars, toldVars, Live
<1> QED
  BY <1>1, HeardSame DEF IInv

\* What the loop takes.
LEMMA LoopTakes ==
    ASSUME IInv, NEW type, Message(type)
    PROVE  /\ scheduler_rx \in Seq(Msgs) /\ scheduler_rx # <<>> /\ scheduler_rx' = Tail(scheduler_rx)
           /\ Tail(scheduler_rx) \in Seq(Msgs) /\ Head(scheduler_rx) \in Msgs /\ Head(scheduler_rx).type = type
           /\ Head(scheduler_rx).id \in Nat
           /\ \A s \in Sockets : (Head(scheduler_rx).id # s \/ type \notin {"Connect", "Pair", "Send"}) => Quiet(s)
<1>1. scheduler_rx \in Seq(Msgs) /\ scheduler_rx # <<>> /\ scheduler_rx' = Tail(scheduler_rx) /\ Head(scheduler_rx).type = type
  BY DEF IInv, Types, Message
<1>2. Tail(scheduler_rx) \in Seq(Msgs) /\ Head(scheduler_rx) \in Msgs
  BY <1>1, RxTaken
<1>3. Head(scheduler_rx).id \in Nat
  BY <1>2, MsgTyped
<1>4. ASSUME NEW s \in Sockets, Head(scheduler_rx).id # s \/ type \notin {"Connect", "Pair", "Send"} PROVE Quiet(s)
  BY <1>1, <1>4, QuietTail DEF About
<1> QED
  BY <1>1, <1>2, <1>3, <1>4

\* The task of a socket starts.
LEMMA StartsKeeps ==
    ASSUME IInv, LoopConnect \/ LoopPair
    PROVE  IInv'
<1> DEFINE t == Head(scheduler_rx).id
<1>1. PICK type \in {"Connect", "Pair"} : Message(type)
  BY DEF LoopConnect, LoopPair
<1>2. /\ scheduler_rx \in Seq(Msgs) /\ scheduler_rx # <<>> /\ scheduler_rx' = Tail(scheduler_rx)
      /\ Tail(scheduler_rx) \in Seq(Msgs) /\ Head(scheduler_rx).type \in {"Connect", "Pair"}
      /\ \A s \in Sockets : t # s => Quiet(s)
  BY <1>1, LoopTakes
<1>3. Loops /\ UNCHANGED <<scope, cancelled_scopes, commands, upgrade, early, sent, wire>>
  BY DEF LoopConnect, LoopPair, scopeVars
<1>4. /\ UNCHANGED <<script, request, socket, next_ws, asked, reader, heard, told, callback_rx>>
      /\ (Live' <=> Live) /\ \A s \in Sockets : Heard(s)'
  BY <1>3, LoopApart
<1>5. /\ task' \in {[task EXCEPT ![t] = "connecting"], [task EXCEPT ![t] = "waiting"]}
      /\ task_scope' = [task_scope EXCEPT ![t] = scope]
  BY DEF LoopConnect, LoopPair, Runs
<1>6. /\ ws_commands' \in {ws_commands, ws_commands \cup {t}}
      /\ pairs' \in {pairs, pairs \cup {t}}
  BY DEF LoopConnect, LoopPair, Keeps
<1>7. \/ task' = [task EXCEPT ![t] = "connecting"] /\ t \in ws_commands' /\ pairs' = pairs
      \/ task' = [task EXCEPT ![t] = "waiting"]
  BY DEF LoopConnect, LoopPair, Runs
<1> HIDE DEF t
<1>8. Types'
  <2>1. task' \in [Sockets -> {"none", "connecting", "waiting", "pumping", "ended"}] /\ task_scope' \in [Sockets -> Nat]
    BY <1>5 DEF IInv, Types
  <2> QED
    BY <1>2, <1>3, <1>4, <2>1 DEF IInv, Types
<1>9. ASSUME NEW s \in Sockets PROVE Frames(s)' /\ Held(s)'
  <2>1. asked[s] \in Nat /\ asked'[s] = asked[s]
    BY <1>4 DEF IInv, Types
  <2>2. CASE s # t
    <3>1. SameTask(s) /\ commands'[s] = commands[s]
      BY <1>3, <1>5, <2>2 DEF SameTask, IInv, Types
    <3>2. /\ s \in ws_commands' <=> s \in ws_commands
          /\ s \in pairs' => s \in pairs
      BY <1>6, <2>2
    <3>3. Frames(s)'
      BY <1>2, <1>4, <2>1, <2>2, <3>1, <3>2, FramesQuiet DEF IInv
    <3>4. Held(s)'
      BY <1>3, <1>4, <3>1, <3>2, HeldSame DEF IInv
    <3> QED
      BY <3>3, <3>4
  <2>3. CASE s = t
    <3>1. task'[s] \in {"connecting", "waiting"} /\ task_scope'[s] = scope
      BY <1>5, <2>3 DEF IInv, Types
    <3>2. Head(scheduler_rx).id = s
      BY <2>3 DEF t
    <3>3. Frames(s)'
      BY <1>2, <1>3, <1>4, <2>1, <3>1, <3>2, FramesStarts DEF IInv
    <3>4. task[s] = "none" /\ commands[s] = <<>>
      <4>1. 1 \in Making(scheduler_rx, s)
        BY <1>2, <3>2, FramesOfTail
      <4> QED
        BY <4>1 DEF IInv, Frames, Unmade
    <3>5. s \notin upgrade'
      BY <1>3, <3>4 DEF IInv, Held
    <3>6. \/ task'[s] = "connecting" /\ s \in ws_commands' /\ pairs' = pairs
          \/ task'[s] = "waiting" /\ s \notin upgrade'
      BY <1>7, <2>3, <3>5 DEF IInv, Types
    <3>7. Held(s)'
      BY <1>3, <3>1, <3>4, <3>6, HeldStarts DEF IInv
    <3> QED
      BY <3>3, <3>7
  <2> QED
    BY <2>2, <2>3
<1> QED
  BY <1>4, <1>8, <1>9 DEF IInv


\* A command is one.
LEMMA CmdTyped ==
    /\ \A type \in {"Attach", "Accept", "Close"} : [type |-> type] \in Cmds /\ [type |-> type].type = type
    /\ \A f \in Nat : /\ [type |-> "Send", frame |-> f] \in Cmds
                      /\ [type |-> "Send", frame |-> f].type = "Send" /\ [type |-> "Send", frame |-> f].frame = f
BY SMT DEF Cmds

\* Where a command goes.
LEMMA CommandGoes ==
    ASSUME Types, NEW t, NEW c \in Cmds, Commands(t, c)
    PROVE  /\ commands' \in [Sockets -> Seq(Cmds)]
           /\ \A s \in Sockets : commands'[s] = IF s = t /\ s \in ws_commands THEN Append(commands[s], c) ELSE commands[s]
<1>1. \A q \in Seq(Cmds) : Append(q, c) \in Seq(Cmds)
  <2> HIDE DEF Cmds
  <2> QED
    BY SMT
<1>2. commands \in [Sockets -> Seq(Cmds)]
  BY DEF Types
<1>3. CASE t \in ws_commands
  <2>1. commands' = [commands EXCEPT ![t] = Append(@, c)]
    BY <1>3 DEF Commands
  <2> QED
    BY <1>1, <1>2, <1>3, <2>1
<1>4. CASE t \notin ws_commands
  BY <1>2, <1>4 DEF Commands
<1> QED
  BY <1>3, <1>4

\* A command that is no frame goes to the task; the loop then drops the channel if it is to
\* close.
LEMMA CommandsKeeps ==
    ASSUME IInv, LoopAccept \/ LoopClose
    PROVE  IInv'
<1> DEFINE t == Head(scheduler_rx).id
<1>1. PICK type \in {"Accept", "Close"} :
        /\ Message(type) /\ Commands(t, [type |-> type])
        /\ ws_commands' = IF type = "Close" THEN ws_commands \ {t} ELSE ws_commands
  BY DEF LoopAccept, LoopClose, loopVars
<1>2. /\ scheduler_rx' \in Seq(Msgs) /\ \A s \in Sockets : Quiet(s)
  <2>1. type \notin {"Connect", "Pair", "Send"}
    BY <1>1
  <2> QED
    BY <1>1, <2>1, LoopTakes
<1>3. Loops /\ UNCHANGED <<scope, cancelled_scopes, pairs, taskVars>>
  BY DEF LoopAccept, LoopClose, scopeVars, loopVars
<1>4. /\ UNCHANGED <<script, request, socket, next_ws, asked, reader, heard, told, callback_rx>>
      /\ (Live' <=> Live) /\ \A s \in Sockets : Heard(s)'
  BY <1>3, LoopApart
<1>5. [type |-> type] \in Cmds /\ [type |-> type].type = type /\ type # "Send" /\ type # "Attach"
  BY <1>1, CmdTyped
<1> DEFINE c == [type |-> type]
<1>6. /\ commands' \in [Sockets -> Seq(Cmds)]
      /\ \A s \in Sockets : commands'[s] = IF s = t /\ s \in ws_commands THEN Append(commands[s], c) ELSE commands[s]
  BY <1>1, <1>5, CommandGoes DEF IInv
<1> HIDE DEF t, c
<1>7. c \in Cmds /\ c.type = type
  BY <1>5 DEF c
<1>8. Types'
  BY <1>2, <1>3, <1>4, <1>6 DEF IInv, Types, taskVars
<1>9. ASSUME NEW s \in Sockets PROVE Frames(s)' /\ Held(s)'
  <2>1. asked[s] \in Nat /\ asked'[s] = asked[s] /\ Quiet(s)
    BY <1>2, <1>4 DEF IInv, Types
  <2>2. SameTask(s)
    BY <1>3 DEF SameTask, taskVars
  <2>3. CASE s = t /\ s \in ws_commands
    <3>1. commands'[s] = Append(commands[s], c)
      BY <1>6, <2>3
    <3>2. commands[s] \in Seq(Cmds) /\ sent[s] \in Seq(Nat) /\ early[s] \in Seq(Nat)
      BY DEF IInv, Types
    <3>3. Frames(s)'
      BY <1>4, <1>5, <1>7, <2>1, <2>2, <2>3, <3>1, <3>2, FramesCommanded DEF IInv
    <3>4. s \in ws_commands' \/ c.type = "Close"
      BY <1>1, <1>7, <2>3
    <3>5. Held(s)'
      BY <1>3, <1>4, <1>5, <1>7, <2>2, <2>3, <3>1, <3>2, <3>4, HeldCommanded DEF IInv
    <3> QED
      BY <3>3, <3>5
  <2>4. CASE ~(s = t /\ s \in ws_commands)
    <3>1. commands'[s] = commands[s]
      BY <1>6, <2>4
    <3>2. s \in ws_commands' <=> s \in ws_commands
      BY <1>1, <2>4 DEF t
    <3>3. Frames(s)'
      BY <1>4, <2>1, <2>2, <3>1, <3>2, FramesQuiet DEF IInv
    <3>4. Held(s)'
      BY <1>3, <1>4, <2>2, <3>1, <3>2, HeldSame DEF IInv
    <3> QED
      BY <3>3, <3>4
  <2> QED
    BY <2>3, <2>4
<1> QED
  BY <1>4, <1>8, <1>9 DEF IInv

\* A frame goes to the task.
LEMMA PassesKeeps ==
    ASSUME IInv, LoopSend
    PROVE  IInv'
<1> DEFINE t == Head(scheduler_rx).id
           c == [type |-> "Send", frame |-> Head(scheduler_rx).frame]
<1>1. Message("Send") /\ Commands(t, c) /\ ws_commands' = ws_commands
  BY DEF LoopSend, loopVars
<1>2. /\ scheduler_rx \in Seq(Msgs) /\ scheduler_rx # <<>> /\ scheduler_rx' = Tail(scheduler_rx)
      /\ Tail(scheduler_rx) \in Seq(Msgs) /\ Head(scheduler_rx) \in Msgs /\ Head(scheduler_rx).type = "Send"
      /\ \A s \in Sockets : t # s => Quiet(s)
  BY <1>1, LoopTakes
<1>3. Loops /\ UNCHANGED <<scope, cancelled_scopes, pairs, taskVars>>
  BY DEF LoopSend, scopeVars, loopVars
<1>4. /\ UNCHANGED <<script, request, socket, next_ws, asked, reader, heard, told, callback_rx>>
      /\ (Live' <=> Live) /\ \A s \in Sockets : Heard(s)'
  BY <1>3, LoopApart
<1>5. c \in Cmds /\ c.type = "Send" /\ c.frame = Head(scheduler_rx).frame
  BY <1>2, MsgTyped, CmdTyped
<1>6. /\ commands' \in [Sockets -> Seq(Cmds)]
      /\ \A s \in Sockets : commands'[s] = IF s = t /\ s \in ws_commands THEN Append(commands[s], c) ELSE commands[s]
  BY <1>1, <1>5, CommandGoes DEF IInv
<1> HIDE DEF t, c
<1>7. Types'
  BY <1>2, <1>3, <1>4, <1>6 DEF IInv, Types, taskVars
<1>8. ASSUME NEW s \in Sockets PROVE Frames(s)' /\ Held(s)'
  <2>1. /\ asked[s] \in Nat /\ asked'[s] = asked[s]
        /\ commands[s] \in Seq(Cmds) /\ sent[s] \in Seq(Nat) /\ early[s] \in Seq(Nat)
    BY <1>4 DEF IInv, Types
  <2>2. SameTask(s)
    BY <1>3 DEF SameTask, taskVars
  <2>3. Frames(s)'
    <3>1. CASE s = t
      <4>1. Head(scheduler_rx).id = s
        BY <3>1 DEF t
      <4>2. commands'[s] = IF s \in ws_commands THEN Append(commands[s], c) ELSE commands[s]
        BY <1>6, <3>1
      <4> QED
        BY <1>1, <1>2, <1>4, <1>5, <2>1, <2>2, <4>1, <4>2, FramesPassed DEF IInv
    <3>2. CASE s # t
      <4>1. commands'[s] = commands[s]
        BY <1>6, <3>2
      <4> QED
        BY <1>1, <1>2, <1>4, <2>1, <2>2, <3>2, <4>1, FramesQuiet DEF IInv
    <3> QED
      BY <3>1, <3>2
  <2>4. Held(s)'
    <3>1. CASE s = t /\ s \in ws_commands
      <4>1. commands'[s] = Append(commands[s], c) /\ c.type # "Attach"
        BY <1>5, <1>6, <3>1
      <4> QED
        BY <1>1, <1>3, <1>4, <1>5, <2>1, <2>2, <3>1, <4>1, HeldCommanded DEF IInv
    <3>2. CASE ~(s = t /\ s \in ws_commands)
      <4>1. commands'[s] = commands[s]
        BY <1>6, <3>2
      <4> QED
        BY <1>1, <1>3, <1>4, <2>2, <4>1, HeldSame DEF IInv
    <3> QED
      BY <3>1, <3>2
  <2> QED
    BY <2>3, <2>4
<1> QED
  BY <1>4, <1>7, <1>8 DEF IInv

\* The pair that the response carries is attached, and the others are let go.
LEMMA UpgradeKeeps ==
    ASSUME IInv, LoopUpgrade
    PROVE  IInv'
<1> DEFINE t == Head(scheduler_rx).id
           c == [type |-> "Attach"]
<1>1. Message("Upgrade") /\ ws_commands' = ws_commands \ (pairs \ (pairs \cap {t})) /\ pairs' = {}
  BY DEF LoopUpgrade
<1>2. scheduler_rx' \in Seq(Msgs) /\ \A s \in Sockets : Quiet(s)
  <2>1. "Upgrade" \notin {"Connect", "Pair", "Send"}
    OBVIOUS
  <2> QED
    BY <1>1, <2>1, LoopTakes
<1>3. Loops /\ UNCHANGED <<scope, cancelled_scopes, taskVars>>
  BY DEF LoopUpgrade, scopeVars
<1>4. /\ UNCHANGED <<script, request, socket, next_ws, asked, reader, heard, told, callback_rx>>
      /\ (Live' <=> Live) /\ \A s \in Sockets : Heard(s)'
  BY <1>3, LoopApart
<1>5. c \in Cmds /\ c.type = "Attach"
  BY CmdTyped
<1>6. /\ commands' \in [Sockets -> Seq(Cmds)]
      /\ \A s \in Sockets : commands'[s] = IF s = t /\ s \in ws_commands \cap pairs THEN Append(commands[s], c)
                                                                                 ELSE commands[s]
  <2>1. CASE t \in pairs
    <3>1. Commands(t, c)
      BY <2>1 DEF LoopUpgrade
    <3> QED
      BY <1>5, <2>1, <3>1, CommandGoes DEF IInv
  <2>2. CASE t \notin pairs
    <3>1. commands' = commands
      BY <2>2 DEF LoopUpgrade
    <3> QED
      BY <2>2, <3>1 DEF IInv, Types
  <2> QED
    BY <2>1, <2>2
<1> HIDE DEF t, c
<1>7. Types'
  BY <1>2, <1>3, <1>4, <1>6 DEF IInv, Types, taskVars
<1>8. ASSUME NEW s \in Sockets PROVE Frames(s)' /\ Held(s)'
  <2>1. /\ asked[s] \in Nat /\ asked'[s] = asked[s] /\ Quiet(s)
        /\ commands[s] \in Seq(Cmds) /\ sent[s] \in Seq(Nat) /\ early[s] \in Seq(Nat)
    BY <1>2, <1>4 DEF IInv, Types
  <2>2. SameTask(s)
    BY <1>3 DEF SameTask, taskVars
  <2>3. s \in ws_commands' => s \in ws_commands
    BY <1>1
  <2>4. CASE s = t /\ s \in ws_commands \cap pairs
    <3>1. commands'[s] = Append(commands[s], c) /\ s \in ws_commands' /\ s \in ws_commands /\ s \notin pairs'
      BY <1>1, <1>6, <2>4 DEF t
    <3>2. c.type # "Send"
      BY <1>5
    <3>3. Frames(s)'
      BY <1>4, <1>5, <2>1, <2>2, <3>1, <3>2, FramesCommanded DEF IInv
    <3>4. Held(s)'
      BY <1>3, <1>4, <1>5, <2>1, <2>2, <3>1, HeldCommanded DEF IInv
    <3> QED
      BY <3>3, <3>4
  <2>5. CASE ~(s = t /\ s \in ws_commands \cap pairs)
    <3>1. commands'[s] = commands[s]
      BY <1>6, <2>5
    <3>2. Frames(s)'
      BY <1>4, <2>1, <2>2, <2>3, <3>1, FramesQuiet DEF IInv
    <3>3. CASE s \in pairs
      <4>1. Held(s)'
        BY <1>1, <1>3, <1>4, <2>2, <3>1, <3>3, HeldLetGo DEF IInv
      <4> QED
        BY <3>2, <4>1
    <3>4. CASE s \notin pairs
      <4>1. s \in ws_commands => s \in ws_commands'
        BY <1>1, <3>4
      <4>2. Held(s)'
        BY <1>1, <1>3, <1>4, <2>2, <3>1, <4>1, HeldSame DEF IInv
      <4> QED
        BY <3>2, <4>2
    <3> QED
      BY <3>3, <3>4
  <2> QED
    BY <2>4, <2>5
<1> QED
  BY <1>4, <1>7, <1>8 DEF IInv

\* The scope of the request before ends, and its sockets are forgotten.
LEMMA BeginKeeps ==
    ASSUME IInv, LoopBeginRequest
    PROVE  IInv'
<1>1. /\ Message("BeginRequest") /\ cancelled_scopes' = cancelled_scopes \cup {scope}
      /\ scope' = Head(scheduler_rx).id /\ ws_commands' = {} /\ pairs' = {}
      /\ Loops /\ UNCHANGED <<commands, taskVars>>
  BY DEF LoopBeginRequest
<1>2. scheduler_rx' \in Seq(Msgs) /\ scope' \in Nat /\ \A s \in Sockets : Quiet(s)
  <2>1. "BeginRequest" \notin {"Connect", "Pair", "Send"}
    OBVIOUS
  <2> QED
    BY <1>1, <2>1, LoopTakes
<1>3. /\ UNCHANGED <<script, request, socket, next_ws, asked, reader, heard, told, callback_rx>>
      /\ (Live' <=> Live) /\ \A s \in Sockets : Heard(s)'
  BY <1>1, LoopApart
<1>4. Types'
  BY <1>1, <1>2, <1>3 DEF IInv, Types, taskVars
<1>5. ASSUME NEW s \in Sockets PROVE Frames(s)' /\ Held(s)'
  <2>1. /\ asked[s] \in Nat /\ asked'[s] = asked[s] /\ SameTask(s) /\ commands'[s] = commands[s]
        /\ s \notin ws_commands'
    BY <1>1, <1>3 DEF IInv, Types, SameTask, taskVars
  <2>2. Frames(s)'
    BY <1>2, <1>3, <2>1, FramesQuiet DEF IInv
  <2>3. Held(s)'
    BY <1>1, <1>3, <2>1, HeldBegins DEF IInv
  <2> QED
    BY <2>2, <2>3
<1> QED
  BY <1>3, <1>4, <1>5 DEF IInv

-----------------------------------------------------------------------------
(* The steps of a task *)

\* A step of the task of t.
OneTask(t) ==
    /\ Tasks /\ \A s \in Sockets \ {t} : SameTask(s) /\ commands'[s] = commands[s]
    /\ callback_rx' \in Seq(Events) /\ commands' \in [Sockets -> Seq(Cmds)]
    /\ task' \in [Sockets -> {"none", "connecting", "waiting", "pumping", "ended"}]
    /\ early' \in [Sockets -> Seq(Nat)] /\ sent' \in [Sockets -> Seq(Nat)]
    /\ wire' \in [Sockets -> {"none", "up", "down"}]

\* It concerns no other socket.
LEMMA TaskKeeps ==
    ASSUME IInv, NEW t \in Sockets, OneTask(t), Frames(t)', Held(t)'
    PROVE  IInv'
<1>1. /\ UNCHANGED <<script, request, socket, next_ws, asked, reader, heard, told, scheduler_rx, scope>>
      /\ UNCHANGED <<accepted_js, connects, ws_event_callbacks, cancelled_scopes, pairs, ws_commands, task_scope>>
      /\ (Live' <=> Live)
  BY DEF OneTask, Tasks, execVars, guestVars, toldVars, scopeVars, loopVars, Live
<1>2. Types'
  BY <1>1 DEF OneTask, IInv, Types
<1>3. ASSUME NEW s \in Sockets PROVE Frames(s)' /\ Held(s)' /\ Heard(s)'
  <2>1. Heard(s)'
    BY <1>1, HeardSame DEF IInv
  <2>2. CASE s # t
    <3>1. SameTask(s) /\ commands'[s] = commands[s] /\ asked'[s] = asked[s] /\ asked[s] \in Nat
      BY <1>1, <2>2 DEF OneTask, IInv, Types
    <3>2. Quiet(s)
      BY <1>1, QuietSame
    <3>3. Frames(s)'
      BY <1>1, <3>1, <3>2, FramesQuiet DEF IInv
    <3>4. Held(s)'
      BY <1>1, <3>1, HeldSame DEF IInv
    <3> QED
      BY <2>1, <3>3, <3>4
  <2>3. CASE s = t
    BY <2>1, <2>3
  <2> QED
    BY <2>2, <2>3
<1> QED
  BY <1>2, <1>3 DEF IInv

\* What the task tells the guest.
LEMMA TellsTyped ==
    ASSUME Types, NEW t \in Sockets, NEW type \in {"Connected", "ConnectError", "Closed", "Message"},
           Tells(t, type)
    PROVE  callback_rx' \in Seq(Events)
<1>1. <<>> \in Seq(Events)
  BY SMT
<1>2. [type |-> type, id |-> t] \in Events
  BY DEF Events
<1>3. callback_rx \in Seq(Events)
  BY DEF Types
<1>4. Append(callback_rx, [type |-> type, id |-> t]) \in Seq(Events)
  <2> HIDE DEF Events
  <2> QED
    BY SMT, <1>2, <1>3
<1> QED
  BY <1>1, <1>4 DEF Tells

\* What is left of the commands once the task takes one.
LEMMA TakenTyped ==
    ASSUME Types, NEW t \in Sockets, commands[t] # <<>>, commands' = [commands EXCEPT ![t] = Tail(@)]
    PROVE  /\ commands' \in [Sockets -> Seq(Cmds)] /\ commands'[t] = Tail(commands[t])
           /\ commands[t] \in Seq(Cmds) /\ Head(commands[t]) \in Cmds
           /\ \A s \in Sockets \ {t} : commands'[s] = commands[s]
<1>1. commands \in [Sockets -> Seq(Cmds)]
  BY DEF Types
<1>2. commands[t] \in Seq(Cmds)
  BY <1>1
<1>3. Tail(commands[t]) \in Seq(Cmds) /\ Head(commands[t]) \in Cmds
  <2> HIDE DEF Cmds
  <2> QED
    BY SMT, <1>2
<1> QED
  BY <1>1, <1>2, <1>3

\* The task ends: a socket that is up tells its peer, unless its context goes.
LEMMA EndsKeeps ==
    ASSUME IInv, NEW t \in Sockets, Tasks, task[t] \notin {"none", "ended"}, Ends(t),
           UNCHANGED <<early, upgrade>>, callback_rx' \in Seq(Events),
           commands' = commands \/ (commands[t] # <<>> /\ commands' = [commands EXCEPT ![t] = Tail(@)]),
           sent' = sent \/ OnWire(t, << 0 >>),
           wire' = wire \/ wire' = [wire EXCEPT ![t] = "down"],
           (wire[t] = "up" /\ wire' = wire /\ Live) => OnWire(t, << 0 >>)
    PROVE  IInv'
<1>1. /\ UNCHANGED <<next_ws, asked, scheduler_rx, pairs, ws_commands, task_scope>> /\ (Live' <=> Live)
  BY DEF Tasks, execVars, guestVars, loopVars, Live
<1>2. /\ commands' \in [Sockets -> Seq(Cmds)] /\ \A s \in Sockets \ {t} : commands'[s] = commands[s]
      /\ Has(commands'[t], "Attach") => Has(commands[t], "Attach")
  <2>1. CASE commands' = commands
    BY <2>1 DEF IInv, Types
  <2>2. CASE commands[t] # <<>> /\ commands' = [commands EXCEPT ![t] = Tail(@)]
    <3>1. /\ commands' \in [Sockets -> Seq(Cmds)] /\ commands'[t] = Tail(commands[t]) /\ commands[t] \in Seq(Cmds)
          /\ \A s \in Sockets \ {t} : commands'[s] = commands[s]
      BY <2>2, TakenTyped DEF IInv
    <3>2. Has(Tail(commands[t]), "Attach") => Has(commands[t], "Attach")
      BY <2>2, <3>1, HasTail
    <3> QED
      BY <3>1, <3>2
  <2> QED
    BY <2>1, <2>2
<1>3. /\ sent' \in [Sockets -> Seq(Nat)] /\ sent[t] \in Seq(Nat) /\ \A s \in Sockets \ {t} : sent'[s] = sent[s]
      /\ sent'[t] \in {sent[t], sent[t] \o << 0 >>} /\ (OnWire(t, << 0 >>) => sent'[t] = sent[t] \o << 0 >>)
  <2>1. sent \in [Sockets -> Seq(Nat)]
    BY DEF IInv, Types
  <2>2. sent[t] \o << 0 >> \in Seq(Nat)
    <3>1. sent[t] \in Seq(Nat)
      BY <2>1
    <3> QED
      BY SMT, <3>1
  <2> QED
    BY <2>1, <2>2 DEF OnWire
<1>4. task' \in [Sockets -> {"none", "connecting", "waiting", "pumping", "ended"}] /\ task'[t] = "ended"
      /\ \A s \in Sockets \ {t} : task'[s] = task[s]
  BY DEF IInv, Types, Ends
<1>5. wire' \in [Sockets -> {"none", "up", "down"}] /\ (wire'[t] = "up" => wire[t] = "up" /\ wire' = wire)
      /\ \A s \in Sockets \ {t} : wire'[s] = wire[s]
  BY DEF IInv, Types
<1>6. OneTask(t)
  BY <1>1, <1>2, <1>3, <1>4, <1>5 DEF OneTask, SameTask, IInv, Types
<1>7. Frames(t)'
  <2>1. Stays(t)
    BY <1>1 DEF Stays
  <2> QED
    BY <1>3, <1>4, <2>1, FramesEnd DEF IInv
<1>8. Held(t)'
  <2>1. sent[t] \o << 0 >> # <<>> /\ (sent[t] \o << 0 >>)[Len(sent[t] \o << 0 >>)] = 0
    BY SMT, <1>3
  <2>2. wire'[t] = "up" /\ Live' => sent'[t] # <<>> /\ sent'[t][Len(sent'[t])] = 0
    BY <1>1, <1>3, <1>5, <2>1
  <2> QED
    BY <1>1, <1>2, <1>4, <2>2, HeldEnds DEF IInv
<1> QED
  BY <1>6, <1>7, <1>8, TaskKeeps


\* A scope that is cancelled ends the task.
LEMMA CancelledKeeps ==
    ASSUME IInv, NEW t \in Sockets, Cancelled(t)
    PROVE  IInv'
<1>1. /\ task[t] \in {"connecting", "waiting", "pumping"} /\ TellsPeer(t) /\ TellsGuest(t) /\ Ends(t)
      /\ Tasks /\ UNCHANGED <<commands, upgrade, early, wire>>
  BY DEF Cancelled
<1>2. callback_rx' \in Seq(Events)
  <2>1. PICK type \in {"ConnectError", "Closed"} : Tells(t, type)
    BY <1>1 DEF TellsGuest
  <2> QED
    BY <2>1, TellsTyped DEF IInv
<1>3. sent' = sent \/ OnWire(t, << 0 >>)
  BY <1>1 DEF TellsPeer
<1>4. (wire[t] = "up" /\ wire' = wire /\ Live) => OnWire(t, << 0 >>)
  BY <1>1 DEF TellsPeer, IInv, Held
<1> QED
  BY <1>1, <1>2, <1>3, <1>4, EndsKeeps

\* The client connects, or fails to.
LEMMA ConnectsKeeps ==
    ASSUME IInv, NEW t \in Sockets, Connects(t)
    PROVE  IInv'
<1>1. task[t] = "connecting" /\ Tasks /\ UNCHANGED <<commands, upgrade, early, sent>> /\ wire[t] = "none"
  BY DEF Connects, Goes, IInv, Held
<1>2. CASE Tells(t, "ConnectError") /\ Ends(t) /\ UNCHANGED wire
  <2>1. callback_rx' \in Seq(Events)
    BY <1>2, TellsTyped DEF IInv
  <2> QED
    BY <1>1, <1>2, <2>1, EndsKeeps
<1>3. CASE /\ Tells(t, "Connected") /\ task' = [task EXCEPT ![t] = "pumping"]
           /\ wire' = [wire EXCEPT ![t] = "up"]
  <2>1. callback_rx' \in Seq(Events)
    BY <1>3, TellsTyped DEF IInv
  <2>2. /\ UNCHANGED <<next_ws, asked, scheduler_rx, pairs, ws_commands, scope, cancelled_scopes, task_scope>>
        /\ (Live' <=> Live)
    BY <1>1 DEF Tasks, execVars, guestVars, loopVars, scopeVars, Live
  <2>3. task'[t] = "pumping" /\ OneTask(t)
    BY <1>1, <1>3, <2>1, <2>2 DEF OneTask, SameTask, IInv, Types
  <2>4. Frames(t)'
    <3>1. Stays(t) /\ task'[t] \in {task[t], "pumping"} /\ task[t] # "waiting"
          /\ task[t] \in {"none", "connecting", "waiting", "pumping", "ended"}
      BY <1>1, <2>2, <2>3 DEF Stays
    <3> QED
      BY <1>1, <3>1, FramesGoOn DEF IInv
  <2>5. Held(t)'
    <3>1. Joins(t) /\ t \notin pairs
      BY <1>1 DEF Joins, IInv, Held
    <3>2. task[t] \notin {"none", "ended"} /\ task'[t] \notin {"none", "ended", "connecting", "waiting"}
      BY <1>1, <2>3
    <3>3. Has(commands[t], "Close") => Has(commands'[t], "Close")
      BY <1>1
    <3> QED
      BY <2>2, <3>1, <3>2, <3>3, HeldGoes DEF IInv
  <2> QED
    BY <2>3, <2>4, <2>5, TaskKeeps
<1> QED
  BY <1>2, <1>3 DEF Connects

\* The client of a pair arrives.
LEMMA UpgradedKeeps ==
    ASSUME IInv, NEW t \in Sockets, Upgraded(t)
    PROVE  IInv'
<1>1. /\ task[t] = "waiting" /\ t \in upgrade /\ Tasks /\ UNCHANGED <<callback_rx, commands, upgrade>>
      /\ sent' = [sent EXCEPT ![t] = @ \o early[t]] /\ early' = [early EXCEPT ![t] = <<>>]
      /\ task' = [task EXCEPT ![t] = "pumping"] /\ wire' = [wire EXCEPT ![t] = "up"]
  BY DEF Upgraded, Goes, Flush, OnWire
<1>2. /\ UNCHANGED <<next_ws, asked, scheduler_rx, pairs, ws_commands, scope, cancelled_scopes, task_scope>>
      /\ (Live' <=> Live)
  BY <1>1 DEF Tasks, execVars, guestVars, loopVars, scopeVars, Live
<1>3. sent[t] \in Seq(Nat) /\ early[t] \in Seq(Nat)
  BY DEF IInv, Types
<1>4. sent[t] \o early[t] \in Seq(Nat) /\ <<>> \in Seq(Nat)
  BY SMT, <1>3
<1>5. task'[t] = "pumping" /\ sent'[t] = sent[t] \o early[t] /\ early'[t] = <<>>
  BY <1>1 DEF IInv, Types
<1>6. OneTask(t)
  BY <1>1, <1>2, <1>4 DEF OneTask, SameTask, IInv, Types
<1>7. Frames(t)'
  <2>1. Stays(t) /\ commands'[t] = commands[t]
    BY <1>1, <1>2 DEF Stays
  <2> QED
    BY <1>3, <1>5, <2>1, FramesFlush DEF IInv
<1>8. Held(t)'
  <2>1. Joins(t) /\ t \notin pairs
    BY <1>1 DEF Joins, IInv, Held
  <2>2. task[t] \notin {"none", "ended"} /\ task'[t] \notin {"none", "ended", "connecting", "waiting"}
    BY <1>1, <1>5
  <2>3. Has(commands[t], "Close") => Has(commands'[t], "Close")
    BY <1>1
  <2> QED
    BY <1>2, <2>1, <2>2, <2>3, HeldGoes DEF IInv
<1> QED
  BY <1>6, <1>7, <1>8, TaskKeeps

\* It does not, or the guest closes it, or the loop let it go.
LEMMA LeavesKeeps ==
    ASSUME IInv, NEW t \in Sockets, NotUpgraded(t) \/ Close(t) \/ NoMoreCommands(t)
    PROVE  IInv'
<1>1. task[t] \in {"waiting", "pumping"} /\ Tasks /\ Ends(t) /\ UNCHANGED <<upgrade, early, wire>>
  BY DEF NotUpgraded, Close, NoMoreCommands, Goes
<1>2. callback_rx' \in Seq(Events)
  <2>1. Tells(t, "Closed") \/ UNCHANGED callback_rx
    BY DEF NotUpgraded, Close, NoMoreCommands
  <2> QED
    BY <2>1, TellsTyped DEF IInv, Types
<1>3. /\ commands' = commands \/ (commands[t] # <<>> /\ commands' = [commands EXCEPT ![t] = Tail(@)])
      /\ sent' = sent \/ OnWire(t, << 0 >>)
  BY DEF NotUpgraded, Close, NoMoreCommands, IsNext
<1>4. ASSUME wire[t] = "up", Live PROVE OnWire(t, << 0 >>)
  <2>1. task[t] = "pumping"
    BY <1>1, <1>4 DEF IInv, Held
  <2>2. CASE Close(t)
    BY <2>1, <2>2 DEF Close, Goes
  <2>3. CASE NoMoreCommands(t)
    <3>1. commands[t] = <<>> /\ t \notin ws_commands /\ task_scope[t] \notin cancelled_scopes
      BY <2>3 DEF NoMoreCommands, Goes
    <3>2. Has(commands[t], "Close")
      BY <1>4, <2>1, <3>1 DEF IInv, Held
    <3>3. \A k \in DOMAIN <<>> : FALSE
      BY SMT
    <3> QED
      BY <3>1, <3>2, <3>3 DEF Has
  <2>4. CASE NotUpgraded(t)
    BY <2>1, <2>4 DEF NotUpgraded, Goes
  <2> QED
    BY <2>2, <2>3, <2>4
<1>5. task[t] \notin {"none", "ended"} /\ wire' = wire
  BY <1>1
<1> QED
  BY <1>1, <1>2, <1>3, <1>4, <1>5, EndsKeeps

\* The peer sends a message, or leaves.
LEMMA ReceiveKeeps ==
    ASSUME IInv, NEW t \in Sockets, Receive(t)
    PROVE  IInv'
<1>1. task[t] = "pumping" /\ Tasks /\ UNCHANGED <<commands, upgrade, early, sent>>
  BY DEF Receive, Goes
<1>2. CASE Tells(t, "Closed") /\ Ends(t) /\ wire' = [wire EXCEPT ![t] = "down"]
  <2>1. callback_rx' \in Seq(Events)
    BY <1>2, TellsTyped DEF IInv
  <2>2. wire'[t] = "down"
    BY <1>2 DEF IInv, Types
  <2>3. ~(wire[t] = "up" /\ wire' = wire)
    BY <2>2
  <2> QED
    BY <1>1, <1>2, <2>1, <2>3, EndsKeeps
<1>3. CASE Tells(t, "Message") /\ UNCHANGED <<task, wire>>
  <2>1. callback_rx' \in Seq(Events)
    BY <1>3, TellsTyped DEF IInv
  <2>2. /\ UNCHANGED <<next_ws, asked, scheduler_rx, pairs, ws_commands, scope, cancelled_scopes, task_scope>>
        /\ (Live' <=> Live)
    BY <1>1 DEF Tasks, execVars, guestVars, loopVars, scopeVars, Live
  <2>3. OneTask(t)
    BY <1>1, <1>3, <2>1, <2>2 DEF OneTask, SameTask, IInv, Types
  <2>4. SameTask(t) /\ commands'[t] = commands[t] /\ asked'[t] = asked[t] /\ asked[t] \in Nat
    BY <1>1, <1>3, <2>2 DEF SameTask, IInv, Types
  <2>5. Frames(t)'
    <3>1. Quiet(t)
      BY <2>2, QuietSame
    <3> QED
      BY <2>2, <2>4, <3>1, FramesQuiet DEF IInv
  <2>6. Held(t)'
    BY <2>2, <2>4, HeldSame DEF IInv
  <2> QED
    BY <2>3, <2>5, <2>6, TaskKeeps
<1> QED
  BY <1>2, <1>3 DEF Receive


\* The task does a command that does not end it.
LEMMA TakesKeeps ==
    ASSUME IInv, NEW t \in Sockets, Attach(t) \/ Accept(t) \/ Send(t)
    PROVE  IInv'
<1>1. /\ task[t] \in {"waiting", "pumping"} /\ commands[t] # <<>> /\ commands' = [commands EXCEPT ![t] = Tail(@)]
      /\ Tasks /\ UNCHANGED <<callback_rx, task, wire>>
  BY DEF Attach, Accept, Send, Goes, IsNext
<1>2. /\ UNCHANGED <<next_ws, asked, scheduler_rx, pairs, ws_commands, scope, cancelled_scopes, task_scope>>
      /\ (Live' <=> Live)
  BY <1>1 DEF Tasks, execVars, guestVars, loopVars, scopeVars, Live
<1>3. /\ commands' \in [Sockets -> Seq(Cmds)] /\ commands'[t] = Tail(commands[t])
      /\ commands[t] \in Seq(Cmds) /\ Head(commands[t]) \in Cmds
      /\ \A s \in Sockets \ {t} : commands'[s] = commands[s]
  BY <1>1, TakenTyped DEF IInv
<1>4. sent[t] \in Seq(Nat) /\ early[t] \in Seq(Nat) /\ Stays(t)
  BY <1>1, <1>2 DEF IInv, Types, Stays
<1>5. \A type : Has(commands[t], type) <=> Has(commands'[t], type) \/ Head(commands[t]).type = type
  BY <1>1, <1>3, HasTail
<1>6. /\ task[t] \notin {"none", "ended"} /\ task'[t] \notin {"none", "ended"} /\ task'[t] = task[t]
      /\ wire'[t] = wire[t]
  BY <1>1
<1>7. CASE Attach(t) \/ Accept(t)
  <2>1. UNCHANGED <<early, sent>>
    BY <1>7 DEF Attach, Accept
  <2>2. /\ Head(commands[t]).type \in {"Attach", "Accept"}
        /\ upgrade' = IF Head(commands[t]).type = "Attach" THEN upgrade \cup {t} ELSE upgrade
    BY <1>7 DEF Attach, Accept, IsNext
  <2>3. OneTask(t)
    BY <1>1, <1>2, <1>3, <2>1, <2>2 DEF OneTask, SameTask, IInv, Types
  <2>4. Frames(t)'
    <3>1. Head(commands[t]).type # "Send" /\ sent'[t] = sent[t] /\ early'[t] = early[t]
      BY <2>1, <2>2
    <3> QED
      BY <1>1, <1>3, <1>4, <1>6, <3>1, FramesTake DEF IInv
  <2>5. Held(t)'
    <3>1. Has(commands[t], "Close") => Has(commands'[t], "Close")
      BY <1>5, <2>2
    <3>2. Joins(t)' => Joins(t)
      <4>1. Has(commands'[t], "Attach") => Has(commands[t], "Attach")
        BY <1>5
      <4>2. t \in upgrade' => t \in upgrade \/ Has(commands[t], "Attach")
        BY <1>5, <2>2
      <4>3. ASSUME Joins(t)' PROVE task'[t] \in {"connecting", "pumping"} \/ t \in upgrade' \/ Has(commands'[t], "Attach")
        BY <4>3 DEF Joins, Has
      <4> QED
        BY <1>6, <4>1, <4>2, <4>3 DEF Joins
    <3>3. t \in pairs => ~Joins(t)
      BY <1>6 DEF IInv, Held, Joins
    <3> QED
      BY <1>2, <1>6, <3>1, <3>2, <3>3, HeldGoes DEF IInv
  <2> QED
    BY <2>3, <2>4, <2>5, TaskKeeps
<1>8. CASE Send(t)
  <2>1. Head(commands[t]).type = "Send" /\ UNCHANGED upgrade
    BY <1>8 DEF Send, IsNext
  <2>2. Head(commands[t]).frame \in Nat
    BY SMT, <1>3, <2>1 DEF Cmds
  <2>3. Append(early[t], Head(commands[t]).frame) \in Seq(Nat) /\ sent[t] \o <<Head(commands[t]).frame>> \in Seq(Nat)
    BY SMT, <1>4, <2>2
  <2>4. \/ task[t] = "waiting" /\ early' = [early EXCEPT ![t] = Append(@, Head(commands[t]).frame)] /\ sent' = sent
        \/ task[t] = "pumping" /\ sent' = [sent EXCEPT ![t] = @ \o <<Head(commands[t]).frame>>] /\ early' = early
    BY <1>8 DEF Send, Goes, OnWire
  <2>5. /\ early' \in [Sockets -> Seq(Nat)] /\ sent' \in [Sockets -> Seq(Nat)]
        /\ \A s \in Sockets \ {t} : early'[s] = early[s] /\ sent'[s] = sent[s]
    <3>1. early \in [Sockets -> Seq(Nat)] /\ sent \in [Sockets -> Seq(Nat)]
      BY DEF IInv, Types
    <3>2. CASE early' = [early EXCEPT ![t] = Append(@, Head(commands[t]).frame)] /\ sent' = sent
      BY <2>3, <3>1, <3>2
    <3>3. CASE sent' = [sent EXCEPT ![t] = @ \o <<Head(commands[t]).frame>>] /\ early' = early
      BY <2>3, <3>1, <3>3
    <3> QED
      BY <2>4, <3>2, <3>3
  <2>6. OneTask(t)
    BY <1>1, <1>2, <1>3, <2>1, <2>5 DEF OneTask, SameTask, IInv, Types
  <2>7. Frames(t)'
    <3>1. CASE task[t] = "waiting"
      <4>1. early'[t] = Append(early[t], Head(commands[t]).frame) /\ sent'[t] = sent[t] /\ task'[t] = "waiting"
        BY <1>6, <2>4, <3>1 DEF IInv, Types
      <4> QED
        BY <1>1, <1>3, <1>4, <2>1, <3>1, <4>1, FramesWait DEF IInv
    <3>2. CASE task[t] = "pumping"
      <4>1. sent'[t] = sent[t] \o <<Head(commands[t]).frame>> /\ early'[t] = early[t] /\ task'[t] = "pumping"
        BY <1>6, <2>4, <3>2 DEF IInv, Types
      <4> QED
        BY <1>1, <1>3, <1>4, <2>1, <3>2, <4>1, FramesGo DEF IInv
    <3> QED
      BY <1>1, <3>1, <3>2
  <2>8. Held(t)'
    <3>1. Has(commands[t], "Close") => Has(commands'[t], "Close")
      BY <1>5, <2>1
    <3>2. Joins(t)' => Joins(t)
      <4>1. Has(commands'[t], "Attach") => Has(commands[t], "Attach")
        BY <1>5
      <4>2. ASSUME Joins(t)' PROVE task'[t] \in {"connecting", "pumping"} \/ t \in upgrade' \/ Has(commands'[t], "Attach")
        BY <4>2 DEF Joins, Has
      <4> QED
        BY <1>6, <2>1, <4>1, <4>2 DEF Joins
    <3>3. t \in pairs => ~Joins(t)
      BY <1>6 DEF IInv, Held, Joins
    <3> QED
      BY <1>2, <1>6, <3>1, <3>2, <3>3, HeldGoes DEF IInv
  <2> QED
    BY <2>6, <2>7, <2>8, TaskKeeps
<1> QED
  BY <1>7, <1>8

-----------------------------------------------------------------------------
(* The callbacks *)

\* What the guest is told.
LEMMA DueTyped ==
    ASSUME Types, NEW type, Due(type)
    PROVE  Head(callback_rx).id \in Sockets /\ callback_rx' \in Seq(Events)
<1>1. callback_rx \in Seq(Events) /\ callback_rx # <<>> /\ callback_rx' = Tail(callback_rx)
  BY DEF Types, Due
<1>2. Head(callback_rx) \in Events /\ Tail(callback_rx) \in Seq(Events)
  <2> HIDE DEF Events
  <2> QED
    BY SMT, <1>1
<1>3. \A e \in Events : e.id \in Sockets
  BY DEF Events
<1> QED
  BY <1>1, <1>2, <1>3

\* A message, which the guest may not hear.
LEMMA MessageKeeps ==
    ASSUME IInv, DispatchMessage
    PROVE  IInv'
<1>1. Head(callback_rx).id \in Sockets /\ callback_rx' \in Seq(Events)
  BY DueTyped DEF DispatchMessage, IInv
<1>2. /\ UNCHANGED <<script, request, socket, next_ws, asked, scopeVars, loopVars, commands, taskVars, scheduler_rx>>
      /\ UNCHANGED <<accepted_js, connects, ws_event_callbacks, reader, told>> /\ (Live' <=> Live)
  BY DEF DispatchMessage, Dispatches, execVars, Live
<1>3. heard' \in [Sockets -> Nat]
  <2>1. heard \in [Sockets -> Nat] /\ heard[Head(callback_rx).id] \in Nat
    BY <1>1 DEF IInv, Types
  <2>2. heard[Head(callback_rx).id] + 1 \in Nat
    BY SMT, <2>1
  <2> QED
    BY <2>1, <2>2 DEF DispatchMessage
<1>4. Types'
  BY <1>1, <1>2, <1>3 DEF IInv, Types, scopeVars, taskVars
<1>5. Outside
  BY <1>2 DEF Outside, scopeVars, loopVars
<1>6. ASSUME NEW s \in Sockets PROVE Frames(s)' /\ Held(s)' /\ Heard(s)'
  <2>1. Heard(s)'
    BY <1>2, HeardSame DEF IInv
  <2> QED
    BY <1>5, <2>1, OutsideKeeps DEF IInv
<1> QED
  BY <1>4, <1>6 DEF IInv

\* The end of a socket, which the guest may not hear.
LEMMA ClosedKeeps ==
    ASSUME IInv, DispatchClosed
    PROVE  IInv'
<1> DEFINE t == Head(callback_rx).id
<1>1. t \in Sockets /\ callback_rx' \in Seq(Events)
  BY DueTyped DEF DispatchClosed, IInv
<1>2. /\ UNCHANGED <<script, request, socket, next_ws, asked, scopeVars, loopVars, commands, taskVars, scheduler_rx>>
      /\ UNCHANGED <<accepted_js, connects, reader, heard>> /\ (Live' <=> Live)
  BY DEF DispatchClosed, Dispatches, execVars, Live
<1>3. /\ ws_event_callbacks' = ws_event_callbacks \ {t}
      /\ told' = IF t \in ws_event_callbacks THEN [told EXCEPT ![t] = @ + 1] ELSE told
  BY DEF DispatchClosed, Unregisters, Hears
<1> HIDE DEF t
<1>4. told' \in [Sockets -> Nat] /\ \A s \in Sockets \ {t} : told'[s] = told[s]
  <2>1. told \in [Sockets -> Nat] /\ told[t] \in Nat
    BY <1>1 DEF IInv, Types
  <2>2. told[t] + 1 \in Nat
    BY SMT, <2>1
  <2> QED
    BY <1>3, <2>1, <2>2
<1>5. Types'
  BY <1>1, <1>2, <1>4 DEF IInv, Types, scopeVars, taskVars
<1>6. Outside
  BY <1>2 DEF Outside, scopeVars, loopVars
<1>7. ASSUME NEW s \in Sockets PROVE Frames(s)' /\ Held(s)' /\ Heard(s)'
  <2>1. Heard(s)'
    <3>1. CASE s = t /\ s \in ws_event_callbacks
      <4>1. s \notin ws_event_callbacks' /\ s \notin connects'
        BY <1>2, <1>3, <3>1 DEF IInv, Heard
      <4> QED
        BY <1>2, <3>1, <4>1, HeardEnds DEF IInv
    <3>2. CASE ~(s = t /\ s \in ws_event_callbacks)
      <4>1. Apart(s)
        BY <1>2, <1>3, <1>4, <3>2 DEF Apart
      <4> QED
        BY <4>1, HeardApart DEF IInv
    <3> QED
      BY <3>1, <3>2
  <2> QED
    BY <1>6, <2>1, OutsideKeeps DEF IInv
<1> QED
  BY <1>5, <1>7 DEF IInv


\* A client that is connected, and that the guest accepts unless it closed it meanwhile, or
\* that failed to.
LEMMA ConnectedKeeps ==
    ASSUME IInv, DispatchConnected \/ DispatchConnectError
    PROVE  IInv'
<1> DEFINE t == Head(callback_rx).id
<1>1. t \in Sockets /\ callback_rx' \in Seq(Events)
  BY DueTyped DEF DispatchConnected, DispatchConnectError, IInv
<1>2. /\ UNCHANGED <<script, request, socket, next_ws, asked, scopeVars, loopVars, commands, taskVars>>
      /\ UNCHANGED heard /\ (Live' <=> Live) /\ connects' = connects \ {t}
  BY DEF DispatchConnected, DispatchConnectError, Dispatches, execVars, Live
<1>3. \/ UNCHANGED <<ws_event_callbacks, reader, scheduler_rx, told, accepted_js>> /\ t \notin connects
      \/ /\ t \in connects /\ UNCHANGED <<ws_event_callbacks, reader, accepted_js>> /\ Hears(t)
         /\ scheduler_rx' \in {scheduler_rx, Append(scheduler_rx, [type |-> "Close", id |-> t])}
      \/ /\ t \in connects /\ ws_event_callbacks' = ws_event_callbacks \cup {t}
         /\ reader' = [reader EXCEPT ![t] = request] /\ accepted_js' = accepted_js \cup {t} /\ UNCHANGED told
         /\ scheduler_rx' = Append(scheduler_rx, [type |-> "Accept", id |-> t])
  <2>1. CASE DispatchConnectError
    BY <2>1 DEF DispatchConnectError
  <2>2. CASE DispatchConnected /\ t \notin connects
    BY <2>2 DEF DispatchConnected
  <2>3. CASE DispatchConnected /\ t \in connects /\ t \in closing
    <3>1. /\ UNCHANGED <<ws_event_callbacks, reader, accepted_js>> /\ Hears(t)
          /\ scheduler_rx' = Append(scheduler_rx, [type |-> "Close", id |-> t])
      BY <2>3 DEF DispatchConnected, Opens, Sends
    <3> QED
      BY <2>3, <3>1
  <2>4. CASE DispatchConnected /\ t \in connects /\ t \notin closing
    <3>1. /\ ws_event_callbacks' = ws_event_callbacks \cup {t}
          /\ reader' = [reader EXCEPT ![t] = request] /\ accepted_js' = accepted_js \cup {t} /\ UNCHANGED told
          /\ scheduler_rx' = Append(scheduler_rx, [type |-> "Accept", id |-> t])
      BY <2>4 DEF DispatchConnected, Opens, Sends
    <3> QED
      BY <2>4, <3>1
  <2> QED
    BY <2>1, <2>2, <2>3, <2>4
<1> HIDE DEF t
<1>4. scheduler_rx \in Seq(Msgs) /\ t \in Nat /\ request \in Nat
  BY <1>1, SocketNumbers DEF IInv, Types
<1>5. \A type \in {"Accept", "Close"} :
        /\ [type |-> type, id |-> t] \in Msgs /\ [type |-> type, id |-> t].type = type
        /\ Append(scheduler_rx, [type |-> type, id |-> t]) \in Seq(Msgs)
  BY <1>4, RxTyped
<1>6. scheduler_rx' = scheduler_rx \/ \E type \in {"Accept", "Close"} :
                                         scheduler_rx' = Append(scheduler_rx, [type |-> type, id |-> t])
  BY <1>3
<1>7. Outside
  <2>1. scheduler_rx' = scheduler_rx
          \/ \E m \in Msgs : m.type \notin {"Connect", "Pair", "Send"} /\ scheduler_rx' = Append(scheduler_rx, m)
    BY <1>5, <1>6
  <2> QED
    BY <1>2, <2>1 DEF Outside, scopeVars, loopVars
<1>8. /\ told' \in [Sockets -> Nat] /\ \A s \in Sockets \ {t} : told'[s] = told[s]
      /\ reader' \in [Sockets -> Nat] /\ \A s \in Sockets \ {t} : reader'[s] = reader[s]
  <2>1. told \in [Sockets -> Nat] /\ told[t] \in Nat /\ reader \in [Sockets -> Nat]
    BY <1>1 DEF IInv, Types
  <2>2. told[t] + 1 \in Nat
    BY SMT, <2>1
  <2>3. told' \in {told, [told EXCEPT ![t] = @ + 1]} /\ reader' \in {reader, [reader EXCEPT ![t] = request]}
    BY <1>3 DEF Hears
  <2>4. told' \in [Sockets -> Nat] /\ \A s \in Sockets \ {t} : told'[s] = told[s]
    BY <2>1, <2>2, <2>3
  <2>5. reader' \in [Sockets -> Nat] /\ \A s \in Sockets \ {t} : reader'[s] = reader[s]
    BY <1>4, <2>1, <2>3
  <2> QED
    BY <2>4, <2>5
<1>9. Types'
  <2>1. scheduler_rx' \in Seq(Msgs)
    BY <1>4, <1>5, <1>6
  <2> QED
    BY <1>1, <1>2, <1>8, <2>1 DEF IInv, Types, scopeVars, taskVars
<1>10. ASSUME NEW s \in Sockets PROVE Frames(s)' /\ Held(s)' /\ Heard(s)'
  <2>1. Heard(s)'
    <3>1. CASE s # t
      <4>1. /\ s \in accepted_js' <=> s \in accepted_js
            /\ s \in ws_event_callbacks' <=> s \in ws_event_callbacks
        BY <1>3, <3>1
      <4>2. Apart(s)
        BY <1>2, <1>8, <3>1, <4>1 DEF Apart
      <4> QED
        BY <4>2, HeardApart DEF IInv
    <3>2. CASE s = t /\ s \notin connects
      <4>1. UNCHANGED <<ws_event_callbacks, reader, told, accepted_js>> /\ connects' = connects
        BY <1>2, <1>3, <3>2
      <4> QED
        BY <1>2, <4>1, HeardSame DEF IInv
    <3>3. CASE s = t /\ s \in connects
      <4>1. /\ s \notin connects' /\ s \notin ws_event_callbacks /\ s < next_ws /\ told[s] = 0
        BY <1>2, <3>3 DEF IInv, Heard
      <4>2. ~(0 > 0)
        BY SMT
      <4>3. CASE UNCHANGED <<ws_event_callbacks, accepted_js>>
        BY <1>2, <3>3, <4>1, <4>3, HeardEnds DEF IInv
      <4>4. CASE /\ reader' = [reader EXCEPT ![t] = request] /\ accepted_js' = accepted_js \cup {t} /\ UNCHANGED told
        <5>1. reader'[s] = request /\ s \in accepted_js' /\ ~(told[s] > 0)
          BY <3>3, <4>1, <4>2, <4>4 DEF IInv, Types
        <5> QED
          BY <1>2, <4>1, <4>4, <5>1, HeardAccepts DEF IInv
      <4> QED
        BY <1>3, <3>3, <4>3, <4>4
    <3> QED
      BY <3>1, <3>2, <3>3
  <2> QED
    BY <1>7, <2>1, OutsideKeeps DEF IInv
<1> QED
  BY <1>9, <1>10 DEF IInv

-----------------------------------------------------------------------------
(* The invariant *)

\* No socket is made.
LEMMA InitInv == Init => IInv
<1> SUFFICES ASSUME Init PROVE IInv
  OBVIOUS
<1>1. /\ 0 \in Nat /\ 1 \in Nat \ {0} /\ <<>> \in Seq(Msgs) /\ <<>> \in Seq(Events) /\ <<>> \in Seq(Cmds) /\ <<>> \in Seq(Nat)
      /\ DOMAIN <<>> = {}
  BY SMT
<1>2. Types
  BY <1>1 DEF Init, Types
<1>3. ASSUME NEW s \in Sockets PROVE Frames(s)
  <2>1. /\ sent[s] = <<>> /\ early[s] = <<>> /\ commands[s] = <<>> /\ task[s] = "none" /\ asked[s] = 0
        /\ ws_commands = {} /\ scheduler_rx = <<>>
    BY DEF Init
  <2>2. Making(<<>>, s) = {} /\ FramesOf(<<>>, s) = {}
    BY <1>1 DEF Making, FramesOf
  <2>3. Unmade(s)
    BY <2>1, <2>2 DEF Unmade, Ready
  <2>4. InOrder(commands[s], FramesIn(commands[s]), Len(sent[s]) + Len(early[s]), 0)
    BY <2>1, NothingSent
  <2>5. Line(s)
    BY <1>1, <2>1, <2>4 DEF Line
  <2>6. OnTheWire(s)
    BY <1>1, <2>1 DEF OnTheWire
  <2> QED
    BY <2>3, <2>5, <2>6 DEF Frames
<1>4. ASSUME NEW s \in Sockets PROVE Held(s)
  BY DEF Init, Held
<1>5. ASSUME NEW s \in Sockets PROVE Heard(s)
  <2>1. ~(0 > 0)
    BY SMT
  <2> QED
    BY <2>1 DEF Init, Heard
<1> QED
  BY <1>2, <1>3, <1>4, <1>5 DEF IInv

\* Nothing happens.
LEMMA StutterKeeps ==
    ASSUME IInv, UNCHANGED vars
    PROVE  IInv'
<1>1. Outside /\ UNCHANGED <<script, request, socket, callback_rx>> /\ UNCHANGED guestVars /\ UNCHANGED toldVars
      /\ UNCHANGED <<scope, scheduler_rx, commands, taskVars>>
  BY DEF vars, Outside, execVars, guestVars, scopeVars, loopVars, Live
<1>2. Types'
  BY <1>1, TypesSame DEF IInv, Types, guestVars, toldVars, taskVars
<1>3. ASSUME NEW s \in Sockets PROVE Frames(s)' /\ Held(s)' /\ Heard(s)'
  <2>1. Heard(s)'
    BY <1>1, HeardSame DEF IInv, guestVars, toldVars
  <2> QED
    BY <1>1, <2>1, OutsideKeeps DEF IInv
<1> QED
  BY <1>2, <1>3 DEF IInv

\* Every step of exec, of the guest, of the loop, of the tasks and of the callbacks keeps it.
LEMMA NextInv == IInv /\ [Next]_vars => IInv'
<1> SUFFICES ASSUME IInv, [Next]_vars PROVE IInv'
  OBVIOUS
<1>1. CASE UNCHANGED vars
  BY <1>1, StutterKeeps
<1>2. CASE \/ Start \/ HangUp \/ StreamsComplete \/ SocketClosed \/ Drained \/ Drop \/ Dropped \/ Abort
           \/ \E s \in Sockets \cup {0} : ReadResponse(s)
  BY <1>2, StartKeeps, ExecKeeps, DropKeeps
<1>3. CASE \/ NativeWebSocketPair \/ NativeWebSocketConnect
           \/ \E s \in Sockets : NativeWebSocketAccept(s) \/ NativeWebSocketSend(s) \/ NativeWebSocketClose(s)
  BY <1>3, MakesKeeps, AcceptKeeps, SendKeeps, CloseKeeps
<1>4. CASE LoopStep
  BY <1>4, StartsKeeps, UpgradeKeeps, CommandsKeeps, PassesKeeps, BeginKeeps DEF LoopStep
<1>5. CASE \E s \in Sockets : Served(s) \/ Connects(s) \/ Upgraded(s) \/ NotUpgraded(s) \/ Receive(s)
  BY <1>5, CancelledKeeps, TakesKeeps, LeavesKeeps, ConnectsKeeps, UpgradedKeeps, ReceiveKeeps DEF Served
<1>6. CASE Dispatch
  BY <1>6, ConnectedKeeps, MessageKeeps, ClosedKeeps DEF Dispatch
<1> QED
  BY <1>1, <1>2, <1>3, <1>4, <1>5, <1>6 DEF Next


-----------------------------------------------------------------------------
(* The theorems *)

\* The state of the sockets, of their tasks and of the messages between them is that of IInv
\* at all times, whatever the guest, its peers and its callers do.
THEOREM WebSocketInvariant == Spec => []IInv
BY InitInv, NextInv, PTL DEF Spec

\* The frames of a socket go on the wire in the order the guest sent them and none is left
\* out, whether they wait for the client of a pair or not, and nothing follows the close frame.
THEOREM FramesInOrder == Spec => []WireOrder
<1>1. IInv => WireOrder
  BY DEF IInv, Frames, OnTheWire, WireOrder
<1> QED
  BY <1>1, WebSocketInvariant, PTL

\* A connected socket whose task ends while its context lives has told its peer, unless the
\* peer left first: the loop never lets go of a socket that it does not close.
THEOREM PeersTold == Spec => []PeerTold
<1>1. IInv => PeerTold
  BY DEF IInv, Held, Live, PeerTold
<1> QED
  BY <1>1, WebSocketInvariant, PTL

\* What a step tells the guest.
Own == \A s \in Sockets :
          /\ (heard'[s] > heard[s] \/ told'[s] > told[s]) => told[s] = 0
          /\ (heard'[s] > heard[s] \/ (told'[s] > told[s] /\ s \in ws_event_callbacks))
                => reader[s] = request

\* The callbacks are all that tell it something.
LEMMA TellsNothing ==
    ASSUME Next, ~Dispatch
    PROVE  UNCHANGED <<heard, told>>
<1>1. CASE \/ Start \/ HangUp \/ StreamsComplete \/ SocketClosed \/ Drained \/ Drop \/ Dropped
           \/ \E s \in Sockets \cup {0} : ReadResponse(s)
  BY <1>1 DEF Start, HangUp, StreamsComplete, SocketClosed, Drained, Drop, Dropped, ReadResponse, toldVars
<1>2. CASE \/ NativeWebSocketPair \/ NativeWebSocketConnect
           \/ \E s \in Sockets : NativeWebSocketAccept(s) \/ NativeWebSocketSend(s) \/ NativeWebSocketClose(s)
  <2>1. Guest
    BY <1>2 DEF NativeWebSocketPair, NativeWebSocketConnect, NativeWebSocketAccept, NativeWebSocketSend,
                NativeWebSocketClose, Makes
  <2> QED
    BY <2>1 DEF Guest, toldVars
<1>3. CASE LoopStep \/ Abort
  <2>1. Loops
    BY <1>3 DEF LoopStep, LoopConnect, LoopPair, LoopUpgrade, LoopAccept, LoopSend, LoopClose, LoopBeginRequest, Abort
  <2> QED
    BY <2>1 DEF Loops, toldVars
<1>4. CASE \E s \in Sockets : Served(s) \/ Connects(s) \/ Upgraded(s) \/ NotUpgraded(s) \/ Receive(s)
  <2>1. Tasks
    BY <1>4 DEF Served, Cancelled, Attach, Accept, Send, Close, NoMoreCommands, Connects, Upgraded, NotUpgraded, Receive
  <2> QED
    BY <2>1 DEF Tasks, toldVars
<1> QED
  BY <1>1, <1>2, <1>3, <1>4 DEF Next

\* A callback tells only the request that accepted the socket, and no end twice.
LEMMA TellsOwn ==
    ASSUME IInv, Dispatch
    PROVE  Own
<1>1. \A n \in Nat : ~(n > n) /\ (~(n > 0) => n = 0)
  BY SMT
<1>2. heard \in [Sockets -> Nat] /\ told \in [Sockets -> Nat]
  BY DEF IInv, Types
<1>3. SUFFICES ASSUME NEW s \in Sockets, heard'[s] # heard[s] \/ told'[s] # told[s]
               PROVE  /\ told[s] = 0
                      /\ heard'[s] # heard[s] \/ s \in ws_event_callbacks => reader[s] = request
  BY <1>1, <1>2 DEF Own
<1>4. CASE s \in ws_event_callbacks
  BY <1>1, <1>2, <1>4 DEF IInv, Heard
<1>5. CASE s \notin ws_event_callbacks
  <2>1. heard'[s] = heard[s]
    <3>1. CASE DispatchMessage
      BY <1>2, <1>5, <3>1 DEF DispatchMessage
    <3>2. CASE DispatchConnected \/ DispatchConnectError \/ DispatchClosed
      BY <3>2 DEF DispatchConnected, DispatchConnectError, DispatchClosed
    <3> QED
      BY <3>1, <3>2 DEF Dispatch
  <2>2. s \in connects
    <3>1. CASE DispatchMessage
      BY <1>3, <2>1, <3>1 DEF DispatchMessage
    <3>2. CASE DispatchClosed
      BY <1>2, <1>3, <1>5, <2>1, <3>2 DEF DispatchClosed, Hears
    <3>3. CASE DispatchConnected
      BY <1>2, <1>3, <2>1, <3>3 DEF DispatchConnected, Hears
    <3>4. CASE DispatchConnectError
      BY <1>2, <1>3, <2>1, <3>4 DEF DispatchConnectError, Hears
    <3> QED
      BY <3>1, <3>2, <3>3, <3>4 DEF Dispatch
  <2> QED
    BY <1>5, <2>1, <2>2 DEF IInv, Heard
<1> QED
  BY <1>4, <1>5

\* A socket tells only the request that accepted it, which hears of its end once, and of no
\* message after that: no event of a socket that an earlier request left behind reaches the
\* guest.
THEOREM OwnEvents == Spec => EventsOwn
<1>1. IInv /\ [Next]_vars => [Own]_vars
  <2>1. \A n \in Nat : ~(n > n)
    BY SMT
  <2>2. ASSUME IInv, Next, ~Dispatch PROVE Own
    <3>1. heard \in [Sockets -> Nat] /\ told \in [Sockets -> Nat] /\ UNCHANGED <<heard, told>>
      BY <2>2, TellsNothing DEF IInv, Types
    <3> QED
      BY <2>1, <3>1 DEF Own
  <2> QED
    BY <2>2, TellsOwn
<1> QED
  BY <1>1, WebSocketInvariant, PTL DEF Spec, EventsOwn, Own

=============================================================================
