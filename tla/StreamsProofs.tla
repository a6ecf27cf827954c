---------------------------- MODULE StreamsProofs ----------------------------
(***************************************************************************)
(* What Streams guarantees of the bodies of the first request of a context, *)
(* for any high water mark, bodies of any length and all three streams.     *)
(* The inductive invariant has five parts: Types; Wired, who holds the ends *)
(* of a channel; Answers, how far a response has come; Flows, what a        *)
(* channel holds between what its reader took and what its source gave; and *)
(* Delivered, what the readers have.                                        *)
(***************************************************************************)
EXTENDS Streams, TLAPS

\* Zenon proves the leaves, but for those that cite SMT: numbers, sequences, records.
USE Zenon

-----------------------------------------------------------------------------
(* The inductive invariant *)

TaskPlaces == {"off", "recv", "write", "send", "over"}
PumpPlaces == {"off", "read", "write", "wait", "end", "over"}

Types ==
    /\ aborted \subseteq Requests /\ failed \subseteq Requests
    /\ senders \in [StreamIds -> Producers \cup {Nil}]
    /\ receivers \in [StreamIds -> Producers \cup {Nil}]
    /\ next_id \in 1..4
    /\ queue \in [Producers -> Seq(Items)]
    /\ pc \in [Producers -> TaskPlaces \cup PumpPlaces]
    /\ \A p \in Producers : pc[p] \in IF p[2] = "guest" THEN PumpPlaces ELSE TaskPlaces
    /\ id \in [Producers -> 0..3]
    /\ tx \in [Producers -> Producers \cup {Nil}]
    /\ item \in [Producers -> Items] /\ \A p \in Producers : item[p].from = p
    /\ made \in [Producers -> [chunks : 0..MaxChunks, whole : BOOLEAN]]
    /\ answer \in [Requests -> Producers \cup {Nil}]
    /\ forward \in [Requests -> {"off", "recv", "send", "over"}]
    /\ rx \in [Requests -> Producers \cup {Nil}]
    /\ got \in [Requests -> Seq(Items)]
    /\ client \in [Requests -> {"reading", "left", "ended", "failed"}]
    /\ reading \in [Requests -> {"off", "recv", "drain", "over"}]
    /\ read \in [Requests -> Seq(Items)]

On(p) == pc[p] # "off"

Upload(r) == <<r, "upload">>

\* The context is in its first request, whose streams alone are on. Each has an id
\* of its own, under which the maps hold only its own channel.
Wired ==
    /\ scope = 1
    /\ \A p \in Producers : On(p) => p[1] = 1 /\ id[p] \in 1..(next_id - 1)
    /\ \A p, q \in Producers : On(p) /\ On(q) /\ id[p] = id[q] => p = q
    /\ \A i \in StreamIds : senders[i] # Nil => On(senders[i]) /\ id[senders[i]] = i
    /\ \A i \in StreamIds : receivers[i] # Nil => On(receivers[i]) /\ id[receivers[i]] = i
    /\ \A p \in Producers : pc[p] = "send" => tx[p] = p

\* A stream that is not on is new.
New(p) ==
    /\ queue[p] = <<>> /\ made[p] = [chunks |-> 0, whole |-> FALSE]
    /\ p[2] = "upload" => reading[p[1]] = "off" /\ read[p[1]] = <<>>

\* The response of r: it is one of the streams of r, and not an upload that was read.
Answered(r) ==
    /\ answer[r] # Nil => /\ answer[r][1] = r /\ On(answer[r])
                          /\ forward[r] = "over" => client[r] # "reading"
                          /\ answer[r] = Upload(r) => reading[r] = "off" /\ read[r] = <<>>
    /\ forward[r] = "off" => got[r] = <<>> /\ client[r] = "reading"
    /\ forward[r] \in {"recv", "send"} => answer[r] # Nil /\ rx[r] = answer[r]
    /\ client[r] = "ended" => answer[r] # Nil

Answers ==
    /\ \A p \in Producers : ~On(p) => New(p)
    /\ \A r \in Requests : Answered(r)

\* What the reader of p took of it, the client or the guest ...
Took(p) ==
    IF answer[p[1]] = p THEN Len(got[p[1]]) ELSE IF p[2] = "upload" THEN Len(read[p[1]]) ELSE 0

\* ... as long as it goes on, and the request was not cut short.
Intact(p) ==
    IF answer[p[1]] = p THEN client[p[1]] = "reading" /\ p[1] \notin aborted \cup failed
    ELSE IF p[2] = "upload" THEN reading[p[1]] \in {"off", "recv"}
    ELSE p[1] \notin aborted \cup failed

NoEnd(q) == \A k \in DOMAIN q : q[k].what \notin Ends

\* A channel q of p goes on where its reader stands, after t chunks: with the next
\* chunks of the body, and with a clean end only after all of it.
Carries(p, t, q, m) ==
    \A k \in DOMAIN q :
        /\ q[k].what \notin Ends => q[k] = [from |-> p, what |-> t + k] /\ t + k <= m.chunks
        /\ (q[k].what = Done /\ \A j \in 1..(k - 1) : q[j].what \notin Ends) =>
               m.whole /\ t + k = m.chunks + 1

\* The producer goes on where the channel ends: what it holds is the next chunk,
\* the end after the last one, or an end after an error.
Continues(p, t, q, m, at, what) ==
    /\ at \in {"recv", "read"} => NoEnd(q) /\ t + Len(q) = m.chunks
    /\ (at \in {"write", "send", "wait"} /\ what \notin Ends) =>
           NoEnd(q) /\ what = m.chunks /\ t + Len(q) + 1 = m.chunks
    /\ (at \in {"write", "send", "end"} /\ what = Done) =>
           \/ m.whole /\ NoEnd(q) /\ t + Len(q) = m.chunks
           \/ \E k \in DOMAIN q : q[k].what = Error
    /\ at = "end" => what \in Ends

\* What a clean end of p has to come after: the body as its source gave it, which a
\* dropped context may end early if it is a fetch.
Due(p) == [chunks |-> made[p].chunks, whole |-> made[p].whole \/ Cut(p)]

\* Both ends of the channel are held.
Linked(p) ==
    /\ senders[id[p]] = p
    /\ \/ receivers[id[p]] = p
       \/ answer[p[1]] = p /\ forward[p[1]] \in {"recv", "send"}
       \/ p[2] = "upload" /\ reading[p[1]] = "recv"

Flow(p) ==
    (On(p) /\ Intact(p)) =>
        /\ Linked(p)
        /\ Carries(p, Took(p), queue[p], Due(p))
        /\ Continues(p, Took(p), queue[p], Due(p), pc[p], item[p].what)

\* A channel holds only what its own producer wrote, a source that ended gives no
\* more, and the pump waits for room only with a chunk.
Own(p) ==
    /\ \A k \in DOMAIN queue[p] : queue[p][k].from = p
    /\ made[p].whole => pc[p] \notin {"off", "recv", "read"} /\ (pc[p] = "over" \/ item[p].what = Done)
    /\ (p[2] = "guest" /\ pc[p] \in {"write", "wait"}) => item[p].what \notin Ends

Flows == \A p \in Producers : Flow(p) /\ Own(p)

\* What the guest read of the upload p.
GuestHas(p, s, m, at) ==
    \A i \in DOMAIN s :
        \/ s[i] = [from |-> p, what |-> i] /\ i <= m.chunks
        \/ /\ i = Len(s) /\ s[i].what \in Ends /\ at = "over"
           /\ s[i].what = Done => m.whole /\ i = m.chunks + 1

\* What the client received of p.
ClientHas(p, s) == \A i \in DOMAIN s : s[i] = [from |-> p, what |-> i]

DeliveredTo(r) ==
    /\ GuestHas(Upload(r), read[r], made[Upload(r)], reading[r])
    /\ (answer[r] # Nil /\ r \notin aborted \cup failed) =>
          /\ ClientHas(answer[r], got[r])
          /\ client[r] = "ended" => (made[answer[r]].whole \/ Cut(answer[r])) /\ Len(got[r]) = made[answer[r]].chunks

Delivered == \A r \in Requests : DeliveredTo(r)

Inv == Types /\ Wired /\ Answers /\ Flows /\ Delivered

IInv == request \in Requests /\ (request = 1 => Inv)

-----------------------------------------------------------------------------
(* Channels and what is carried *)

\* The parts of the name of a stream.
LEMMA Named ==
    ASSUME NEW p \in Producers
    PROVE  p[1] \in Requests /\ p[2] \in Kinds /\ p = <<p[1], p[2]>>
  BY SMT DEF Producers

\* The streams of a request by name.
LEMMA Names ==
    ASSUME NEW r \in Requests, NEW k \in Kinds
    PROVE  <<r, k>> \in Producers /\ <<r, k>>[1] = r /\ <<r, k>>[2] = k
  BY SMT DEF Producers

\* The upload of a request, among its streams.
LEMMA UploadOf ==
    ASSUME NEW r \in Requests
    PROVE  /\ Upload(r) \in Producers /\ Upload(r)[1] = r /\ Upload(r)[2] = "upload"
           /\ \A p \in Producers : (p[1] = r /\ p[2] = "upload") => p = Upload(r)
<1>1. "upload" \in Kinds
  BY DEF Kinds
<1>2. Upload(r) \in Producers /\ Upload(r)[1] = r /\ Upload(r)[2] = "upload"
  BY <1>1, Names DEF Upload
<1>3. ASSUME NEW p \in Producers, p[1] = r, p[2] = "upload" PROVE p = Upload(r)
  BY <1>3, Named DEF Upload
<1> QED
  BY <1>2, <1>3

\* Ends are not chunks.
LEMMA Whats ==
    ASSUME NEW it \in Items
    PROVE  /\ it.what \in Int /\ (it.what \notin Ends => it.what \in 1..MaxChunks)
           /\ Done \in Ends /\ Error \in Ends /\ Done # Error
  BY SMT, StreamsAssumption DEF Items, Ends, Done, Error

\* What a channel carries after a write: the next chunk, or the end after the
\* last one (write_chunk, try_write_chunk).
LEMMA CarriesPut ==
    ASSUME NEW p, NEW t \in Nat, NEW q \in Seq(Items), NEW m, NEW it \in Items,
           Carries(p, t, q, m),
           it.what \notin Ends => it = [from |-> p, what |-> t + Len(q) + 1] /\ t + Len(q) + 1 <= m.chunks,
           (it.what = Done /\ NoEnd(q)) => m.whole /\ t + Len(q) + 1 = m.chunks + 1
    PROVE  Carries(p, t, Append(q, it), m)
<1> DEFINE u == Append(q, it)
<1>1. /\ Len(q) \in Nat /\ DOMAIN q = 1..Len(q) /\ DOMAIN u = 1..(Len(q) + 1)
      /\ u[Len(q) + 1] = it /\ \A k \in 1..Len(q) : u[k] = q[k]
  BY SMT
<1> HIDE DEF u
<1> SUFFICES ASSUME NEW k \in DOMAIN u
             PROVE  /\ u[k].what \notin Ends => u[k] = [from |-> p, what |-> t + k] /\ t + k <= m.chunks
                    /\ (u[k].what = Done /\ \A j \in 1..(k - 1) : u[j].what \notin Ends) =>
                           m.whole /\ t + k = m.chunks + 1
  BY DEF Carries, u
<1>2. CASE k \in 1..Len(q)
  <2>1. k \in DOMAIN q /\ u[k] = q[k] /\ \A j \in 1..(k - 1) : u[j] = q[j]
    BY SMT, <1>1, <1>2
  <2> QED
    BY <2>1 DEF Carries
<1>3. CASE k = Len(q) + 1
  <2>1. u[k] = it /\ t + k = t + Len(q) + 1
    BY SMT, <1>1, <1>3
  <2>2. (\A j \in 1..(k - 1) : u[j].what \notin Ends) => NoEnd(q)
    <3>1. k - 1 = Len(q)
      BY SMT, <1>1, <1>3
    <3> QED
      BY <1>1, <3>1 DEF NoEnd
  <2> QED
    BY <2>1, <2>2
<1>4. k \in 1..Len(q) \/ k = Len(q) + 1
  BY SMT, <1>1
<1> QED
  BY <1>2, <1>3, <1>4

\* What it carries after its reader took a chunk, which is the next of the body.
LEMMA CarriesTail ==
    ASSUME NEW p, NEW t \in Nat, NEW q \in Seq(Items), NEW m, q # <<>>,
           Carries(p, t, q, m), Head(q).what \notin Ends
    PROVE  /\ Carries(p, t + 1, Tail(q), m)
           /\ Head(q) = [from |-> p, what |-> t + 1] /\ t + 1 <= m.chunks
<1> DEFINE u == Tail(q)
<1>1. /\ 1 \in DOMAIN q /\ Head(q) = q[1]
      /\ \A k \in DOMAIN u : k \in Nat \ {0} /\ k + 1 \in DOMAIN q /\ u[k] = q[k + 1]
                            /\ \A j \in 1..(k - 1) : j \in DOMAIN u
  BY SMT
<1> HIDE DEF u
<1>2. Head(q) = [from |-> p, what |-> t + 1] /\ t + 1 <= m.chunks
  BY <1>1 DEF Carries
<1>3. ASSUME NEW k \in DOMAIN u
      PROVE  /\ u[k].what \notin Ends => u[k] = [from |-> p, what |-> t + 1 + k] /\ t + 1 + k <= m.chunks
             /\ (u[k].what = Done /\ \A j \in 1..(k - 1) : u[j].what \notin Ends) =>
                    m.whole /\ t + 1 + k = m.chunks + 1
  <2>1. k + 1 \in DOMAIN q /\ u[k] = q[k + 1] /\ t + (k + 1) = t + 1 + k
    BY SMT, <1>1, <1>3
  <2>2. ASSUME \A j \in 1..(k - 1) : u[j].what \notin Ends
        PROVE  \A j \in 1..((k + 1) - 1) : q[j].what \notin Ends
    <3> SUFFICES ASSUME NEW j \in 1..((k + 1) - 1) PROVE q[j].what \notin Ends
      OBVIOUS
    <3>1. j = 1 \/ (j - 1 \in 1..(k - 1) /\ (j - 1) + 1 = j)
      BY SMT, <1>1
    <3>2. CASE j = 1
      BY <3>2, <1>1
    <3>3. CASE j - 1 \in 1..(k - 1) /\ (j - 1) + 1 = j
      BY <3>3, <1>1, <2>2
    <3> QED
      BY <3>1, <3>2, <3>3
  <2> QED
    BY <2>1, <2>2 DEF Carries
<1> QED
  BY <1>2, <1>3 DEF Carries, u

\* A clean end that the reader takes comes after the whole of the body.
LEMMA CarriesDone ==
    ASSUME NEW p, NEW t \in Nat, NEW q \in Seq(Items), NEW m, q # <<>>,
           Carries(p, t, q, m), Head(q).what = Done
    PROVE  m.whole /\ t + 1 = m.chunks + 1
<1>1. 1 \in DOMAIN q /\ Head(q) = q[1] /\ \A j \in 1..(1 - 1) : FALSE
  BY SMT
<1> QED
  BY <1>1 DEF Carries

\* The producer goes on where it was when the reader takes a chunk.
LEMMA ContinuesTail ==
    ASSUME NEW p, NEW t \in Nat, NEW q \in Seq(Items), NEW m, NEW at, NEW what, q # <<>>,
           Continues(p, t, q, m, at, what), Head(q).what \notin Ends
    PROVE  Continues(p, t + 1, Tail(q), m, at, what)
<1> DEFINE u == Tail(q)
<1>1. /\ Head(q) = q[1] /\ t + 1 + Len(u) = t + Len(q) /\ t + 1 + Len(u) + 1 = t + Len(q) + 1
      /\ \A k \in DOMAIN u : k + 1 \in DOMAIN q /\ u[k] = q[k + 1]
      /\ \A k \in DOMAIN q : k = 1 \/ (k - 1 \in DOMAIN u /\ u[k - 1] = q[k])
  BY SMT
<1> HIDE DEF u
<1>2. NoEnd(q) => NoEnd(u)
  BY <1>1 DEF NoEnd
<1>3. (\E k \in DOMAIN q : q[k].what = Error) => \E k \in DOMAIN u : u[k].what = Error
  BY <1>1 DEF Ends
<1> QED
  BY <1>1, <1>2, <1>3 DEF Continues, u

\* What a channel without an end carries, its source may only add to.
LEMMA CarriesMore ==
    ASSUME NEW p, NEW t \in Nat, NEW q \in Seq(Items), NEW m, NEW n,
           m.chunks \in Nat, n.chunks \in Nat, n.chunks >= m.chunks, NoEnd(q), Carries(p, t, q, m)
    PROVE  Carries(p, t, q, n)
<1> SUFFICES ASSUME NEW k \in DOMAIN q
             PROVE  q[k] = [from |-> p, what |-> t + k] /\ t + k <= n.chunks /\ q[k].what # Done
  BY DEF Carries, NoEnd
<1>1. q[k] = [from |-> p, what |-> t + k] /\ t + k <= m.chunks /\ q[k].what # Done
  BY DEF Carries, NoEnd, Ends
<1>2. k \in Nat
  BY SMT
<1>3. t + k <= n.chunks
  BY SMT, <1>1, <1>2
<1> QED
  BY <1>1, <1>3

\* What is due of a stream, now and after a step.
LEMMA Dues ==
    ASSUME NEW p
    PROVE  /\ Due(p).chunks = made[p].chunks /\ (Due(p).whole <=> made[p].whole \/ Cut(p))
           /\ Due(p)'.chunks = made'[p].chunks /\ (Due(p)'.whole <=> made'[p].whole \/ Cut(p)')
  BY DEF Due

\* It stays while the source gives nothing and the context is where it was.
LEMMA DueStays ==
    ASSUME NEW p, made'[p] = made[p], stage' = stage
    PROVE  Due(p)' = Due(p) /\ (Cut(p)' <=> Cut(p))
  BY DEF Due, Cut

\* A channel that may end where it ends may do so later.
LEMMA MayEnd ==
    ASSUME NEW p, NEW t, NEW q, NEW m, NEW n, n.chunks = m.chunks, m.whole => n.whole
    PROVE  /\ Carries(p, t, q, m) => Carries(p, t, q, n)
           /\ \A at, what : Continues(p, t, q, m, at, what) => Continues(p, t, q, n, at, what)
  BY DEF Carries, Continues

-----------------------------------------------------------------------------
(* What a step leaves alone *)

\* A step that is not about the stream p: not about its producer and channel, ...
SameStream(p) ==
    /\ pc'[p] = pc[p] /\ id'[p] = id[p] /\ item'[p] = item[p] /\ made'[p] = made[p]
    /\ queue'[p] = queue[p]

\* ... who reads it ...
SameReader(p) ==
    /\ answer'[p[1]] = p <=> answer[p[1]] = p
    /\ answer[p[1]] = p => /\ forward'[p[1]] = forward[p[1]] /\ client'[p[1]] = client[p[1]]
                           /\ got'[p[1]] = got[p[1]]
    /\ p[2] = "upload" => reading'[p[1]] = reading[p[1]] /\ read'[p[1]] = read[p[1]]

\* ... and what the maps hold under its id.
SameMaps(p) == senders'[id[p]] = senders[id[p]] /\ receivers'[id[p]] = receivers[id[p]]

Cuts == aborted \subseteq aborted' /\ failed \subseteq failed' /\ (stage = "dropped" => stage' = "dropped")

\* Such a step leaves its flow alone.
LEMMA FlowStays ==
    ASSUME NEW p \in Producers, SameStream(p), SameReader(p), On(p) => SameMaps(p), Cuts, Flow(p), Own(p)
    PROVE  Flow(p)' /\ Own(p)'
<1>1. Own(p)'
  BY DEF Own, SameStream
<1>2. Took(p)' = Took(p)
  BY DEF Took, SameReader
<1>3. Intact(p)' => Intact(p)
  BY DEF Intact, SameReader, Cuts
<1>4. On(p)' <=> On(p)
  BY DEF On, SameStream
<1>5. On(p) /\ Linked(p) => Linked(p)'
  BY DEF Linked, SameStream, SameReader, SameMaps
<1>6. Due(p)'.chunks = Due(p).chunks /\ (Due(p).whole => Due(p)'.whole)
  BY Dues DEF SameStream, Cuts, Cut
<1>7. /\ Carries(p, Took(p), queue[p], Due(p)) => Carries(p, Took(p), queue[p], Due(p)')
      /\ Continues(p, Took(p), queue[p], Due(p), pc[p], item[p].what) =>
            Continues(p, Took(p), queue[p], Due(p)', pc[p], item[p].what)
  BY <1>6, MayEnd
<1>8. /\ Carries(p, Took(p), queue[p], Due(p)) => Carries(p, Took(p)', queue'[p], Due(p)')
      /\ Continues(p, Took(p), queue[p], Due(p), pc[p], item[p].what) =>
            Continues(p, Took(p)', queue'[p], Due(p)', pc'[p], item'[p].what)
  BY <1>2, <1>7 DEF SameStream
<1> QED
  BY <1>1, <1>3, <1>4, <1>5, <1>8 DEF Flow

\* A stream that is on has only its own channel under its id.
LEMMA OwnId ==
    ASSUME Types, Wired, NEW p \in Producers, On(p)
    PROVE  /\ id[p] \in StreamIds
           /\ senders[id[p]] \in {p, Nil} /\ receivers[id[p]] \in {p, Nil}
           /\ \A q \in Producers : (On(q) /\ q # p) => id[q] # id[p]
<1>1. id[p] \in 1..(next_id - 1) /\ next_id \in 1..4
  BY DEF Wired, Types
<1>2. id[p] \in StreamIds
  BY SMT, <1>1 DEF StreamIds
<1>3. senders[id[p]] \in Producers \cup {Nil} /\ receivers[id[p]] \in Producers \cup {Nil}
  BY <1>2 DEF Types
<1>4. senders[id[p]] \in {p, Nil} /\ receivers[id[p]] \in {p, Nil}
  BY <1>2, <1>3 DEF Wired
<1>5. \A q \in Producers : (On(q) /\ q # p) => id[q] # id[p]
  BY DEF Wired
<1> QED
  BY <1>2, <1>4, <1>5

\* The reader of a stream whose flow is intact holds its receiver.
LEMMA LinkedOpen ==
    ASSUME Types, Wired, Answers, NEW p \in Producers, On(p), Linked(p)
    PROVE  senders[id[p]] = p /\ p # Nil /\ Open(p)
<1>1. id[p] \in StreamIds /\ p[1] \in Requests /\ p # Nil
  BY OwnId, Named, NilAssumption
<1>2. CASE receivers[id[p]] = p
  BY <1>1, <1>2 DEF Linked, Open
<1>3. CASE answer[p[1]] = p /\ forward[p[1]] \in {"recv", "send"}
  BY <1>1, <1>3 DEF Linked, Open, Answers, Answered
<1>4. CASE p[2] = "upload" /\ reading[p[1]] = "recv"
  <2>1. p = <<p[1], "upload">>
    BY <1>4, Named
  <2>2. InRead(p[1])
    BY <1>4 DEF InRead
  <2> QED
    BY <1>1, <2>1, <2>2 DEF Linked, Open
<1> QED
  BY <1>2, <1>3, <1>4 DEF Linked

\* How many chunks a reader took is a number.
LEMMA TookNat ==
    ASSUME Types, NEW p \in Producers
    PROVE  Took(p) \in Nat
<1>1. p[1] \in Requests
  BY Named
<1>2. got[p[1]] \in Seq(Items) /\ read[p[1]] \in Seq(Items)
  BY <1>1 DEF Types
<1>3. Len(got[p[1]]) \in Nat /\ Len(read[p[1]]) \in Nat /\ 0 \in Nat
  BY SMT, <1>2
<1> QED
  BY <1>3 DEF Took

-----------------------------------------------------------------------------
(* Steps of a producer *)

\* A step of the producer of p touches nothing of the others, takes nothing back of
\* what its source gave, and at most removes its own channel from the maps.
Moves(p) ==
    /\ UNCHANGED <<contextVars, next_id, id, clientVars, guestVars>>
    /\ \A i \in StreamIds : /\ senders'[i] = senders[i] \/ (i = id[p] /\ senders'[i] = Nil)
                            /\ receivers'[i] = receivers[i] \/ (i = id[p] /\ receivers'[i] = Nil)
    /\ \A q \in Producers \ {p} :
           pc'[q] = pc[q] /\ tx'[q] = tx[q] /\ item'[q] = item[q] /\ made'[q] = made[q] /\ queue'[q] = queue[q]
    /\ pc'[p] # "off" /\ (pc'[p] = "send" => tx'[p] = p)
    /\ made'[p].chunks >= made[p].chunks /\ (Due(p).whole => made'[p] = made[p])

\* It keeps the other streams, how the channels are held, and what was delivered.
LEMMA MovesKeeps ==
    ASSUME Inv, NEW p \in Producers, On(p), Moves(p), Types'
    PROVE  Wired' /\ Answers' /\ Delivered' /\ \A q \in Producers \ {p} : Flow(q)' /\ Own(q)'
<1> USE DEF Inv
<1>1. UNCHANGED <<request, stage, scope, aborted, failed, next_id, id, answer, forward, rx, got, client, reading, read>>
  BY DEF Moves, contextVars, clientVars, guestVars
<1>2. \A q \in Producers : On(q)' <=> On(q)
  BY DEF Moves, On
<1>3. \A q \in Producers \ {p} : SameStream(q) /\ SameReader(q)
  BY <1>1 DEF Moves, SameStream, SameReader
<1>4. \A q \in Producers \ {p} : On(q) => SameMaps(q)
  <2> SUFFICES ASSUME NEW q \in Producers \ {p}, On(q) PROVE SameMaps(q)
    OBVIOUS
  <2>1. id[q] \in StreamIds /\ id[q] # id[p]
    BY OwnId
  <2> QED
    BY <2>1 DEF Moves, SameMaps
<1>5. \A q \in Producers \ {p} : Flow(q)' /\ Own(q)'
  <2>1. Cuts
    BY <1>1 DEF Cuts
  <2> QED
    BY <1>3, <1>4, <2>1, FlowStays DEF Flows
<1>6. Wired'
  <2>1. (scope = 1)'
    BY <1>1 DEF Wired
  <2>2. (\A q \in Producers : On(q) => q[1] = 1 /\ id[q] \in 1..(next_id - 1))'
    BY <1>1, <1>2 DEF Wired
  <2>3. (\A o, q \in Producers : On(o) /\ On(q) /\ id[o] = id[q] => o = q)'
    BY <1>1, <1>2 DEF Wired
  <2>4. \A i \in StreamIds : senders[i] \in Producers \cup {Nil} /\ receivers[i] \in Producers \cup {Nil}
    BY DEF Types
  <2>5. (\A i \in StreamIds : senders[i] # Nil => On(senders[i]) /\ id[senders[i]] = i)'
    <3> SUFFICES ASSUME NEW i \in StreamIds, senders'[i] # Nil PROVE On(senders[i])' /\ id'[senders'[i]] = i
      OBVIOUS
    <3>1. senders'[i] = senders[i]
      BY DEF Moves
    <3>2. On(senders[i]) /\ id[senders[i]] = i /\ senders[i] \in Producers
      BY <2>4, <3>1 DEF Wired
    <3>3. pc'[senders[i]] # "off"
      BY <1>2, <3>2 DEF On
    <3> QED
      BY <1>1, <3>1, <3>2, <3>3 DEF On
  <2>6. (\A i \in StreamIds : receivers[i] # Nil => On(receivers[i]) /\ id[receivers[i]] = i)'
    <3> SUFFICES ASSUME NEW i \in StreamIds, receivers'[i] # Nil PROVE On(receivers[i])' /\ id'[receivers'[i]] = i
      OBVIOUS
    <3>1. receivers'[i] = receivers[i]
      BY DEF Moves
    <3>2. On(receivers[i]) /\ id[receivers[i]] = i /\ receivers[i] \in Producers
      BY <2>4, <3>1 DEF Wired
    <3>3. pc'[receivers[i]] # "off"
      BY <1>2, <3>2 DEF On
    <3> QED
      BY <1>1, <3>1, <3>2, <3>3 DEF On
  <2>7. (\A q \in Producers : pc[q] = "send" => tx[q] = q)'
    BY DEF Wired, Moves
  <2> QED
    BY <2>1, <2>2, <2>3, <2>5, <2>6, <2>7 DEF Wired
<1>7. Answers'
  <2>1. ASSUME NEW q \in Producers, ~On(q)' PROVE New(q)'
    <3>1. ~On(q) /\ q # p
      BY <1>2, <2>1
    <3> QED
      BY <1>1, <3>1 DEF Answers, New, Moves
  <2>2. ASSUME NEW r \in Requests PROVE Answered(r)'
    <3>1. Answered(r) /\ answer[r] \in Producers \cup {Nil}
      BY DEF Answers, Types
    <3> QED
      BY <1>1, <1>2, <3>1 DEF Answered
  <2> QED
    BY <2>1, <2>2 DEF Answers
<1>8. \A q \in Producers : /\ made[q].chunks \in Nat /\ made'[q].chunks \in Nat /\ made'[q].chunks >= made[q].chunks
                           /\ (made[q].whole \/ Cut(q)) => made'[q] = made[q]
  <2> SUFFICES ASSUME NEW q \in Producers
               PROVE  /\ made[q].chunks \in Nat /\ made'[q].chunks \in Nat /\ made'[q].chunks >= made[q].chunks
                      /\ (made[q].whole \/ Cut(q)) => made'[q] = made[q]
    OBVIOUS
  <2>1. made[q] \in [chunks : 0..MaxChunks, whole : BOOLEAN] /\ made'[q] \in [chunks : 0..MaxChunks, whole : BOOLEAN]
    BY DEF Types
  <2>2. q = p \/ made'[q] = made[q]
    BY DEF Moves
  <2>3. q = p => made'[q].chunks >= made[q].chunks /\ (Due(q).whole => made'[q] = made[q])
    BY DEF Moves
  <2>4. made[q].chunks \in Nat /\ made'[q].chunks \in Nat /\ made'[q].chunks >= made[q].chunks
    BY SMT, <2>1, <2>2, <2>3, StreamsAssumption
  <2> QED
    BY <2>2, <2>3, <2>4, Dues
<1>9. Delivered'
  <2> SUFFICES ASSUME NEW r \in Requests
               PROVE  /\ GuestHas(Upload(r), read[r], made[Upload(r)], reading[r])'
                      /\ (answer[r] # Nil /\ r \notin aborted \cup failed)' =>
                            /\ ClientHas(answer[r], got[r])'
                            /\ (client[r] = "ended" => (made[answer[r]].whole \/ Cut(answer[r])) /\ Len(got[r]) = made[answer[r]].chunks)'
    BY DEF Delivered, DeliveredTo
  <2>1. GuestHas(Upload(r), read[r], made[Upload(r)], reading[r])'
    <3>1. Upload(r) \in Producers /\ GuestHas(Upload(r), read[r], made[Upload(r)], reading[r])
      BY UploadOf DEF Delivered, DeliveredTo
    <3>2. \A i \in DOMAIN read[r] : i \in Nat
      <4>1. read[r] \in Seq(Items)
        BY DEF Types
      <4> QED
        BY SMT, <4>1
    <3>3. \A i \in DOMAIN read[r] : i <= made[Upload(r)].chunks => i <= made'[Upload(r)].chunks
      <4>1. /\ made[Upload(r)].chunks \in Nat /\ made'[Upload(r)].chunks \in Nat
            /\ made'[Upload(r)].chunks >= made[Upload(r)].chunks
        BY <1>8, <3>1
      <4> QED
        BY SMT, <4>1, <3>2
    <3> QED
      BY <1>1, <1>8, <3>1, <3>3 DEF GuestHas
  <2>2. answer[r] \in Producers \cup {Nil} /\ (Cut(answer[r])' <=> Cut(answer[r]))
    BY <1>1 DEF Types, Cut
  <2> QED
    BY <1>1, <1>8, <2>1, <2>2 DEF Delivered, DeliveredTo, ClientHas
<1> QED
  BY <1>5, <1>6, <1>7, <1>9

\* A step of the producer of p keeps the invariant if it keeps the flow of p.
LEMMA MovesInv ==
    ASSUME Inv, NEW p \in Producers, On(p), Moves(p), Types', Own(p)',
           Intact(p) => /\ Linked(p)'
                        /\ Carries(p, Took(p), queue'[p], Due(p)')
                        /\ Continues(p, Took(p), queue'[p], Due(p)', pc'[p], item'[p].what)
    PROVE  Inv'
<1>1. UNCHANGED <<aborted, failed, answer, got, client, reading, read>>
  BY DEF Moves, contextVars, clientVars, guestVars
<1>2. Took(p)' = Took(p)
  BY <1>1 DEF Took
<1>3. Intact(p)' <=> Intact(p)
  BY <1>1 DEF Intact
<1>4. Flow(p)'
  BY <1>2, <1>3 DEF Flow
<1>5. Flows'
  BY <1>4, MovesKeeps DEF Flows
<1> QED
  BY <1>5, MovesKeeps DEF Inv

\* What a producer holds is an item of its own.
LEMMA Holds ==
    ASSUME Types, NEW p \in Producers, NEW what \in (1..MaxChunks) \cup Ends, Hold(p, what)
    PROVE  /\ item' \in [Producers -> Items] /\ \A q \in Producers : item'[q].from = q
           /\ item'[p].what = what /\ \A q \in Producers \ {p} : item'[q] = item[q]
<1> DEFINE it == [item[p] EXCEPT !.what = what]
<1>1. item[p] \in Items /\ item[p].from = p /\ item \in [Producers -> Items]
  BY DEF Types
<1>2. it \in Items /\ it.from = p /\ it.what = what
  BY SMT, <1>1 DEF Items
<1>3. item' = [item EXCEPT ![p] = it]
  BY DEF Hold
<1> HIDE DEF it
<1>4. item' \in [Producers -> Items] /\ item'[p] = it /\ \A q \in Producers \ {p} : item'[q] = item[q]
  BY <1>1, <1>2, <1>3
<1>5. ASSUME NEW q \in Producers PROVE item'[q].from = q
  <2>1. item[q].from = q
    BY DEF Types
  <2> QED
    BY <1>2, <1>4, <2>1
<1> QED
  BY <1>2, <1>4, <1>5

\* What the source of p gave, after it gave one more item.
LEMMA SourceGives ==
    ASSUME Types, NEW p \in Producers, NEW what \in Given(p), Reads(p, what)
    PROVE  /\ what \in (1..MaxChunks) \cup Ends
           /\ what \notin Ends => what = made[p].chunks + 1
           /\ made' \in [Producers -> [chunks : 0..MaxChunks, whole : BOOLEAN]]
           /\ \A q \in Producers \ {p} : made'[q] = made[q]
           /\ made[p].chunks \in Nat
           /\ made'[p].chunks = IF what \in Ends THEN made[p].chunks ELSE what
           /\ made'[p].whole = IF what \in Ends THEN what = Done ELSE made[p].whole
<1> DEFINE m == IF what \in Ends THEN [made[p] EXCEPT !.whole = (what = Done)]
                ELSE [made[p] EXCEPT !.chunks = what]
<1>1. made \in [Producers -> [chunks : 0..MaxChunks, whole : BOOLEAN]]
  BY DEF Types
<1>2. made[p] \in [chunks : 0..MaxChunks, whole : BOOLEAN]
  BY <1>1
<1>3. /\ what \in (1..MaxChunks) \cup Ends
      /\ what \notin Ends => what = made[p].chunks + 1 /\ what \in 0..MaxChunks
  <2>1. what \in Ends \/ (what = made[p].chunks + 1 /\ what \in 1..MaxChunks)
    BY DEF Given
  <2>2. 1..MaxChunks \subseteq 0..MaxChunks
    BY SMT, StreamsAssumption
  <2> QED
    BY <2>1, <2>2
<1>4. m \in [chunks : 0..MaxChunks, whole : BOOLEAN]
  <2>1. CASE what \in Ends
    <3>1. ASSUME NEW b \in BOOLEAN
          PROVE  [made[p] EXCEPT !.whole = b] \in [chunks : 0..MaxChunks, whole : BOOLEAN]
      BY SMT, <1>2
    <3>2. (what = Done) \in BOOLEAN
      OBVIOUS
    <3> QED
      BY <2>1, <3>1, <3>2
  <2>2. CASE what \notin Ends
    <3>1. what \in 0..MaxChunks
      BY <2>2, <1>3
    <3>2. [made[p] EXCEPT !.chunks = what] \in [chunks : 0..MaxChunks, whole : BOOLEAN]
      BY SMT, <1>2, <3>1
    <3> QED
      BY <2>2, <3>2
  <2> QED
    BY <2>1, <2>2
<1>5. /\ made[p].chunks \in Nat
      /\ m.chunks = IF what \in Ends THEN made[p].chunks ELSE what
      /\ m.whole = IF what \in Ends THEN what = Done ELSE made[p].whole
  <2>1. made[p].chunks \in Nat
    BY SMT, <1>2, StreamsAssumption
  <2>2. CASE what \in Ends
    <3>1. LET n == [made[p] EXCEPT !.whole = (what = Done)] IN n.chunks = made[p].chunks /\ n.whole = (what = Done)
      BY SMT, <1>2
    <3> QED
      BY <2>1, <2>2, <3>1
  <2>3. CASE what \notin Ends
    <3>1. LET n == [made[p] EXCEPT !.chunks = what] IN n.chunks = what /\ n.whole = made[p].whole
      BY SMT, <1>2
    <3> QED
      BY <2>1, <2>3, <3>1
  <2> QED
    BY <2>2, <2>3
<1>6. made' = [made EXCEPT ![p] = m]
  BY DEF Reads
<1> HIDE DEF m
<1>7. /\ made' \in [Producers -> [chunks : 0..MaxChunks, whole : BOOLEAN]] /\ made'[p] = m
      /\ \A q \in Producers \ {p} : made'[q] = made[q]
  BY <1>1, <1>4, <1>6
<1> QED
  BY <1>3, <1>5, <1>7

\* The types after a step of a producer: the readers are where they were.
LEMMA ProducerTyped ==
    ASSUME Types, UNCHANGED <<contextVars, next_id, id, clientVars, guestVars>>,
           senders' \in [StreamIds -> Producers \cup {Nil}],
           receivers' \in [StreamIds -> Producers \cup {Nil}],
           queue' \in [Producers -> Seq(Items)],
           pc' \in [Producers -> TaskPlaces \cup PumpPlaces],
           \A q \in Producers : pc'[q] \in IF q[2] = "guest" THEN PumpPlaces ELSE TaskPlaces,
           tx' \in [Producers -> Producers \cup {Nil}],
           item' \in [Producers -> Items], \A q \in Producers : item'[q].from = q,
           made' \in [Producers -> [chunks : 0..MaxChunks, whole : BOOLEAN]]
    PROVE  Types'
  BY DEF Types, contextVars, clientVars, guestVars

\* A producer becomes what its kind may be.
LEMMA Becomes ==
    ASSUME Types, NEW p \in Producers, NEW at \in IF p[2] = "guest" THEN PumpPlaces ELSE TaskPlaces, Become(p, at)
    PROVE  /\ pc' \in [Producers -> TaskPlaces \cup PumpPlaces]
           /\ \A q \in Producers : pc'[q] \in IF q[2] = "guest" THEN PumpPlaces ELSE TaskPlaces
           /\ pc'[p] = at /\ \A q \in Producers \ {p} : pc'[q] = pc[q]
<1>1. at \in TaskPlaces \cup PumpPlaces /\ pc \in [Producers -> TaskPlaces \cup PumpPlaces]
  BY DEF Types
<1>2. /\ pc' \in [Producers -> TaskPlaces \cup PumpPlaces]
      /\ pc'[p] = at /\ \A q \in Producers \ {p} : pc'[q] = pc[q]
  BY <1>1 DEF Become
<1>3. ASSUME NEW q \in Producers PROVE pc'[q] \in IF q[2] = "guest" THEN PumpPlaces ELSE TaskPlaces
  <2>1. pc[q] \in IF q[2] = "guest" THEN PumpPlaces ELSE TaskPlaces
    BY DEF Types
  <2>2. CASE q = p
    BY <1>2, <2>2
  <2>3. CASE q # p
    BY <1>2, <2>1, <2>3
  <2> QED
    BY <2>2, <2>3
<1> QED
  BY <1>2, <1>3

\* A source that gives a chunk, ends or fails goes on where the channel ends.
LEMMA GivesFlow ==
    ASSUME Inv, NEW p \in Producers, pc[p] \in {"recv", "read"}, NEW what \in Given(p), Reads(p, what),
           queue' = queue, pc'[p] \in {"write", "end"}, pc'[p] = "end" => what \in Ends, Intact(p)
    PROVE  /\ Carries(p, Took(p), queue'[p], Due(p)')
           /\ Continues(p, Took(p), queue'[p], Due(p)', pc'[p], item'[p].what)
<1> DEFINE t == Took(p)
           q == queue[p]
<1>1. t \in Nat /\ q \in Seq(Items) /\ Len(q) \in Nat
  <2>1. t \in Nat /\ q \in Seq(Items)
    BY TookNat DEF Inv, Types
  <2> QED
    BY SMT, <2>1
<1>2. NoEnd(q) /\ t + Len(q) = made[p].chunks /\ Carries(p, t, q, Due(p))
  BY Dues DEF Inv, Flows, Flow, Continues, On
<1>3. what \in (1..MaxChunks) \cup Ends /\ Hold(p, what)
  BY SourceGives DEF Inv, Reads
<1>4. item'[p].what = what
  BY <1>3, Holds DEF Inv
<1>5. /\ what \notin Ends => what = made[p].chunks + 1
      /\ made[p].chunks \in Nat
      /\ made'[p].chunks = IF what \in Ends THEN made[p].chunks ELSE what
      /\ made'[p].whole = IF what \in Ends THEN what = Done ELSE made[p].whole
  BY SourceGives DEF Inv
<1> HIDE DEF t, q
<1>6. made'[p].chunks \in Nat /\ made'[p].chunks >= made[p].chunks
  <2>1. CASE what \in Ends
    BY SMT, <2>1, <1>5
  <2>2. CASE what \notin Ends
    BY SMT, <2>2, <1>5
  <2> QED
    BY <2>1, <2>2
<1>7. Carries(p, t, q, Due(p)')
  BY <1>1, <1>2, <1>5, <1>6, CarriesMore, Dues
<1>8. Continues(p, t, q, Due(p)', pc'[p], what)
  <2>1. what \notin Ends => what = made'[p].chunks /\ t + Len(q) + 1 = made'[p].chunks
    BY SMT, <1>1, <1>2, <1>5
  <2>2. what = Done => made'[p].whole /\ t + Len(q) = made'[p].chunks
    BY <1>2, <1>5 DEF Ends
  <2>3. pc'[p] \notin {"recv", "read"}
    OBVIOUS
  <2> QED
    BY <1>2, <2>1, <2>2, <2>3, Dues DEF Continues
<1> QED
  BY <1>4, <1>7, <1>8 DEF t, q

\* It keeps the invariant, for the tasks and for the pump.
LEMMA GivesKeeps ==
    ASSUME Inv, NEW p \in Producers, pc[p] \in {"recv", "read"}, NEW what \in Given(p), Reads(p, what),
           NEW at \in IF p[2] = "guest" THEN PumpPlaces ELSE TaskPlaces, at \in {"write", "end"},
           (p[2] = "guest" /\ at = "write") => what \notin Ends, at = "end" => what \in Ends, ~Cut(p),
           Become(p, at), UNCHANGED <<contextVars, mapVars, woken, queue, id, tx, clientVars, guestVars>>
    PROVE  Inv'
<1> USE DEF Inv
<1>1. On(p)
  BY DEF On
<1>2. UNCHANGED <<contextVars, mapVars, woken, queue, id, tx, clientVars, guestVars>>
  OBVIOUS
<1>3. /\ pc' \in [Producers -> TaskPlaces \cup PumpPlaces]
      /\ \A q \in Producers : pc'[q] \in IF q[2] = "guest" THEN PumpPlaces ELSE TaskPlaces
      /\ pc'[p] = at /\ \A q \in Producers \ {p} : pc'[q] = pc[q]
  BY Becomes
<1>4. ~made[p].whole
  BY DEF Flows, Own
<1>5. \A k \in DOMAIN queue[p] : queue[p][k].from = p
  BY DEF Flows, Own
<1>6. /\ what \in (1..MaxChunks) \cup Ends
      /\ made' \in [Producers -> [chunks : 0..MaxChunks, whole : BOOLEAN]]
      /\ \A q \in Producers \ {p} : made'[q] = made[q]
      /\ made[p].chunks \in Nat
      /\ what \notin Ends => what = made[p].chunks + 1
      /\ made'[p].chunks = IF what \in Ends THEN made[p].chunks ELSE what
  BY SourceGives
<1>7. /\ item' \in [Producers -> Items] /\ \A q \in Producers : item'[q].from = q
      /\ \A q \in Producers \ {p} : item'[q] = item[q]
  BY <1>6, Holds DEF Reads
<1>8. Types'
  <2>1. /\ senders' \in [StreamIds -> Producers \cup {Nil}] /\ receivers' \in [StreamIds -> Producers \cup {Nil}]
        /\ queue' \in [Producers -> Seq(Items)] /\ tx' \in [Producers -> Producers \cup {Nil}]
    BY <1>2 DEF Types, mapVars
  <2>2. UNCHANGED <<contextVars, next_id, id, clientVars, guestVars>>
    BY <1>2 DEF mapVars
  <2> QED
    BY <1>3, <1>6, <1>7, <2>1, <2>2, ProducerTyped
<1>9. made'[p].chunks >= made[p].chunks
  BY SMT, <1>6
<1>10. Moves(p)
  BY <1>2, <1>3, <1>4, <1>6, <1>7, <1>9, Dues DEF Moves, mapVars
<1>11. Own(p)'
  <2>1. made'[p].whole = (IF what \in Ends THEN what = Done ELSE made[p].whole)
    BY SourceGives
  <2>2. item'[p].what = what
    BY <1>6, Holds DEF Reads
  <2>3. made'[p].whole => item'[p].what = Done
    BY <1>4, <2>1, <2>2
  <2> QED
    BY <1>2, <1>3, <1>5, <2>2, <2>3 DEF Own
<1>12. Linked(p) => Linked(p)'
  BY <1>2 DEF Linked, mapVars, clientVars, guestVars
<1>13. Intact(p) => Linked(p)
  BY <1>1 DEF Flows, Flow
<1>14. Intact(p) => /\ Carries(p, Took(p), queue'[p], Due(p)')
                    /\ Continues(p, Took(p), queue'[p], Due(p)', pc'[p], item'[p].what)
  BY <1>2, <1>3, GivesFlow
<1> QED
  BY <1>1, <1>8, <1>10, <1>11, <1>12, <1>13, <1>14, MovesInv

\* A task whose source gave something (pump_request_body, spawn_stream_reader).
LEMMA TaskReceivesKeeps ==
    ASSUME Inv, NEW p \in Producers, TaskReceives(p)
    PROVE  Inv'
<1> USE DEF Inv
<1>1. On(p) /\ p[2] # "guest" /\ p[2] \in {"upload", "fetch"} /\ pc[p] = "recv" /\ Become(p, "write")
  BY DEF TaskReceives, On
<1>2. UNCHANGED <<contextVars, mapVars, woken, queue, id, tx, clientVars, guestVars>>
  BY DEF TaskReceives
<1>3. /\ pc' \in [Producers -> TaskPlaces \cup PumpPlaces]
      /\ \A q \in Producers : pc'[q] \in IF q[2] = "guest" THEN PumpPlaces ELSE TaskPlaces
      /\ pc'[p] = "write" /\ \A q \in Producers \ {p} : pc'[q] = pc[q]
  <2>1. "write" \in IF p[2] = "guest" THEN PumpPlaces ELSE TaskPlaces
    BY DEF PumpPlaces, TaskPlaces
  <2> QED
    BY <1>1, <2>1, Becomes
<1>4. ~made[p].whole
  BY <1>1 DEF Flows, Own
<1>5. \A k \in DOMAIN queue[p] : queue[p][k].from = p
  BY DEF Flows, Own
<1>6. CASE p[2] = "fetch" /\ Cancelled(p[1])
  <2>1. Hold(p, Done) /\ made' = made
    BY <1>6 DEF TaskReceives
  <2>2. Done \in (1..MaxChunks) \cup Ends
    BY DEF Ends
  <2>3. /\ item' \in [Producers -> Items] /\ \A q \in Producers : item'[q].from = q
        /\ \A q \in Producers \ {p} : item'[q] = item[q]
    BY <2>1, <2>2, Holds
  <2>4. Types'
    BY <1>2, <1>3, <2>1, <2>3 DEF Types, contextVars, mapVars, clientVars, guestVars
  <2>5. made'[p].chunks >= made[p].chunks
    <3>1. made[p] \in [chunks : 0..MaxChunks, whole : BOOLEAN]
      BY DEF Types
    <3> QED
      BY SMT, <2>1, <3>1, StreamsAssumption
  <2>6. Moves(p)
    BY <1>2, <1>3, <2>1, <2>3, <2>5 DEF Moves, mapVars
  <2>7. Intact(p) => /\ Linked(p)'
                     /\ Carries(p, Took(p), queue'[p], Due(p)')
                     /\ Continues(p, Took(p), queue'[p], Due(p)', pc'[p], item'[p].what)
    <3> SUFFICES ASSUME Intact(p)
                 PROVE  /\ Linked(p)'
                        /\ Carries(p, Took(p), queue'[p], Due(p)')
                        /\ Continues(p, Took(p), queue'[p], Due(p)', pc'[p], item'[p].what)
      OBVIOUS
    <3>1. p[1] = 1 /\ scope = 1 /\ ~(1 < 1)
      <4>1. ~(1 < 1)
        BY SMT
      <4> QED
        BY <1>1, <4>1 DEF Wired
    <3>2. p[1] \notin aborted \cup failed
      BY <1>6 DEF Intact
    <3>3. Due(p).whole
      BY <1>6, <3>1, <3>2, Dues DEF Cancelled, Cut
    <3>4. /\ Linked(p) /\ Carries(p, Took(p), queue[p], Due(p))
          /\ Continues(p, Took(p), queue[p], Due(p), "recv", item[p].what)
      BY <1>1 DEF Flows, Flow
    <3>5. NoEnd(queue[p]) /\ Took(p) + Len(queue[p]) = Due(p).chunks
      BY <3>4 DEF Continues
    <3>6. Due(p)' = Due(p) /\ queue' = queue /\ item'[p].what = Done
      BY <1>2, <2>1, <2>2, DueStays, Holds DEF contextVars
    <3>7. Continues(p, Took(p), queue[p], Due(p), "write", Done)
      BY <3>3, <3>5 DEF Continues, Ends
    <3>8. Linked(p)'
      BY <1>2, <3>4 DEF Linked, mapVars, clientVars, guestVars
    <3> QED
      BY <1>3, <3>4, <3>6, <3>7, <3>8
  <2>8. Own(p)'
    BY <1>1, <1>2, <1>4, <1>5, <2>1 DEF Own
  <2> QED
    BY <1>1, <2>4, <2>6, <2>7, <2>8, MovesInv
<1>7. CASE ~(p[2] = "fetch" /\ Cancelled(p[1]))
  <2>1. PICK what \in Given(p) : Reads(p, what)
    BY <1>7 DEF TaskReceives
  <2>2. "write" \in IF p[2] = "guest" THEN PumpPlaces ELSE TaskPlaces
    BY DEF PumpPlaces, TaskPlaces
  <2>3. ~Cut(p)
    BY <1>7 DEF Cut, Cancelled
  <2> QED
    BY <1>1, <1>2, <2>1, <2>2, <2>3, GivesKeeps
<1> QED
  BY <1>6, <1>7

\* The pump, whose body gave something (stream_body.js).
LEMMA PumpReadsKeeps ==
    ASSUME Inv, NEW r \in Requests, PumpReads(r)
    PROVE  Inv'
<1> DEFINE p == <<r, "guest">>
<1>1. p \in Producers /\ p[2] = "guest"
  <2>1. "guest" \in Kinds
    BY DEF Kinds
  <2> QED
    BY <2>1, Names
<1>2. /\ pc[p] = "read" /\ UNCHANGED <<contextVars, mapVars, woken, queue, id, tx, clientVars, guestVars>>
      /\ \E what \in Given(p) : Reads(p, what) /\ Become(p, IF what \in Ends THEN "end" ELSE "write")
  BY DEF PumpReads
<1> HIDE DEF p
<1>3. PICK what \in Given(p) : Reads(p, what) /\ Become(p, IF what \in Ends THEN "end" ELSE "write")
  BY <1>2
<1>4. {"end", "write"} \subseteq PumpPlaces /\ ~Cut(p)
  BY <1>1 DEF PumpPlaces, Cut
<1>5. CASE what \in Ends
  BY <1>1, <1>2, <1>3, <1>4, <1>5, GivesKeeps
<1>6. CASE what \notin Ends
  BY <1>1, <1>2, <1>3, <1>4, <1>6, GivesKeeps
<1> QED
  BY <1>5, <1>6

\* What the producer writes next goes where the channel ends.
LEMMA PutFlow ==
    ASSUME Inv, NEW p \in Producers, pc[p] \in {"write", "send", "end"}, Intact(p)
    PROVE  /\ Carries(p, Took(p), Append(queue[p], item[p]), Due(p))
           /\ item[p].what \notin Ends => /\ NoEnd(Append(queue[p], item[p]))
                                          /\ Took(p) + Len(Append(queue[p], item[p])) = Due(p).chunks
           /\ item[p].what = Error =>
                 \E k \in DOMAIN Append(queue[p], item[p]) : Append(queue[p], item[p])[k].what = Error
<1> DEFINE t == Took(p)
           q == queue[p]
           it == item[p]
           m == Due(p)
<1>1. /\ t \in Nat /\ q \in Seq(Items) /\ it \in Items /\ it.from = p
      /\ m.chunks = made[p].chunks /\ made[p] \in [chunks : 0..MaxChunks, whole : BOOLEAN]
  BY TookNat, Dues DEF Inv, Types
<1>2. Carries(p, t, q, m) /\ Continues(p, t, q, m, pc[p], it.what)
  BY DEF Inv, Flows, Flow, On
<1>3. it.what \notin Ends => NoEnd(q) /\ it.what = m.chunks /\ t + Len(q) + 1 = m.chunks
  BY <1>2 DEF Continues
<1>4. (it.what = Done /\ NoEnd(q)) => m.whole /\ t + Len(q) = m.chunks
  BY <1>2 DEF Continues, NoEnd, Ends
<1> HIDE DEF t, q, it, m
<1>5. m.chunks \in Nat /\ Len(q) \in Nat
  BY SMT, <1>1, StreamsAssumption
<1>6. it.what \notin Ends => it = [from |-> p, what |-> t + Len(q) + 1] /\ t + Len(q) + 1 <= m.chunks
  <2>1. it = [from |-> it.from, what |-> it.what]
    BY SMT, <1>1 DEF Items
  <2>2. m.chunks <= m.chunks
    BY SMT, <1>5
  <2> QED
    BY <1>1, <1>3, <2>1, <2>2
<1>7. (it.what = Done /\ NoEnd(q)) => m.whole /\ t + Len(q) + 1 = m.chunks + 1
  BY SMT, <1>1, <1>4, <1>5
<1>8. Carries(p, t, Append(q, it), m)
  BY <1>1, <1>2, <1>6, <1>7, CarriesPut
<1>9. /\ t + Len(Append(q, it)) = t + Len(q) + 1
      /\ Len(q) + 1 \in DOMAIN Append(q, it) /\ Append(q, it)[Len(q) + 1] = it
      /\ \A k \in DOMAIN Append(q, it) : Append(q, it)[k] = it \/ (k \in DOMAIN q /\ Append(q, it)[k] = q[k])
  BY SMT, <1>1
<1>10. it.what \notin Ends => NoEnd(Append(q, it))
  BY <1>3, <1>9 DEF NoEnd
<1> QED
  BY <1>3, <1>8, <1>9, <1>10 DEF t, q, it, m

\* What a write that failed, or wrote an end, leads to.
LEMMA BrokenTyped ==
    ASSUME Types, NEW p \in Producers, p[2] # "guest", Broken(p)
    PROVE  /\ pc' \in [Producers -> TaskPlaces \cup PumpPlaces]
           /\ \A q \in Producers : pc'[q] \in IF q[2] = "guest" THEN PumpPlaces ELSE TaskPlaces
           /\ item' \in [Producers -> Items] /\ \A q \in Producers : item'[q].from = q
           /\ \A q \in Producers \ {p} : pc'[q] = pc[q] /\ item'[q] = item[q]
           /\ pc'[p] = "over" \/ (pc'[p] = "write" /\ item'[p].what = Done /\ item[p].what # Done)
<1>1. {"over", "write"} \subseteq TaskPlaces /\ Done \in (1..MaxChunks) \cup Ends
  BY DEF TaskPlaces, Ends
<1>2. item \in [Producers -> Items] /\ \A q \in Producers : item[q].from = q
  BY DEF Types
<1>3. CASE item[p].what = Done \/ (item[p].what = Error /\ p[2] = "fetch")
  <2>1. Become(p, "over") /\ item' = item
    BY <1>3 DEF Broken
  <2> QED
    BY <1>1, <1>2, <2>1, Becomes
<1>4. CASE ~(item[p].what = Done \/ (item[p].what = Error /\ p[2] = "fetch"))
  <2>1. Become(p, "write") /\ Hold(p, Done) /\ item[p].what # Done
    BY <1>4 DEF Broken
  <2>2. /\ item' \in [Producers -> Items] /\ \A q \in Producers : item'[q].from = q
        /\ item'[p].what = Done /\ \A q \in Producers \ {p} : item'[q] = item[q]
    BY <1>1, <2>1, Holds
  <2>3. /\ pc' \in [Producers -> TaskPlaces \cup PumpPlaces]
        /\ \A q \in Producers : pc'[q] \in IF q[2] = "guest" THEN PumpPlaces ELSE TaskPlaces
        /\ pc'[p] = "write" /\ \A q \in Producers \ {p} : pc'[q] = pc[q]
    BY <1>1, <2>1, Becomes
  <2> QED
    BY <2>1, <2>2, <2>3
<1> QED
  BY <1>3, <1>4

\* The maps from which at most the channel of one id was removed.
LEMMA Removed ==
    ASSUME Types, NEW i \in StreamIds,
           senders' \in {senders, [senders EXCEPT ![i] = Nil]},
           receivers' \in {receivers, [receivers EXCEPT ![i] = Nil]}
    PROVE  /\ senders' \in [StreamIds -> Producers \cup {Nil}]
           /\ receivers' \in [StreamIds -> Producers \cup {Nil}]
           /\ \A j \in StreamIds : /\ senders'[j] = senders[j] \/ (j = i /\ senders'[j] = Nil)
                                   /\ receivers'[j] = receivers[j] \/ (j = i /\ receivers'[j] = Nil)
<1>1. /\ senders' \in [StreamIds -> Producers \cup {Nil}]
      /\ \A j \in StreamIds : senders'[j] = senders[j] \/ (j = i /\ senders'[j] = Nil)
  <2>1. senders \in [StreamIds -> Producers \cup {Nil}]
    BY DEF Types
  <2>2. CASE senders' = senders
    BY <2>1, <2>2
  <2>3. CASE senders' = [senders EXCEPT ![i] = Nil]
    BY <2>1, <2>3
  <2> QED
    BY <2>2, <2>3
<1>2. /\ receivers' \in [StreamIds -> Producers \cup {Nil}]
      /\ \A j \in StreamIds : receivers'[j] = receivers[j] \/ (j = i /\ receivers'[j] = Nil)
  <2>1. receivers \in [StreamIds -> Producers \cup {Nil}]
    BY DEF Types
  <2>2. CASE receivers' = receivers
    BY <2>1, <2>2
  <2>3. CASE receivers' = [receivers EXCEPT ![i] = Nil]
    BY <2>1, <2>3
  <2> QED
    BY <2>2, <2>3
<1> QED
  BY <1>1, <1>2

\* The channels after a write of p, or after none.
LEMMA PutTyped ==
    ASSUME Types, NEW p \in Producers, Own(p), queue' \in {queue, [queue EXCEPT ![p] = Append(@, item[p])]}
    PROVE  /\ queue' \in [Producers -> Seq(Items)] /\ \A q \in Producers \ {p} : queue'[q] = queue[q]
           /\ \A k \in DOMAIN queue'[p] : queue'[p][k].from = p
<1>1. queue \in [Producers -> Seq(Items)] /\ queue[p] \in Seq(Items) /\ item[p] \in Items /\ item[p].from = p
  BY DEF Types
<1>2. \A k \in DOMAIN queue[p] : queue[p][k].from = p
  BY DEF Own
<1>3. CASE queue' = queue
  BY <1>1, <1>2, <1>3
<1>4. CASE queue' = [queue EXCEPT ![p] = Append(@, item[p])]
  <2>1. /\ Append(queue[p], item[p]) \in Seq(Items)
        /\ \A k \in DOMAIN Append(queue[p], item[p]) :
              Append(queue[p], item[p])[k] = item[p]
                \/ (k \in DOMAIN queue[p] /\ Append(queue[p], item[p])[k] = queue[p][k])
    BY SMT, <1>1
  <2>2. queue' = [queue EXCEPT ![p] = Append(queue[p], item[p])]
    BY <1>4
  <2> HIDE <1>4
  <2>3. /\ queue' \in [Producers -> Seq(Items)] /\ \A q \in Producers \ {p} : queue'[q] = queue[q]
        /\ queue'[p] = Append(queue[p], item[p])
    BY <1>1, <2>1, <2>2
  <2> QED
    <3> SUFFICES ASSUME NEW k \in DOMAIN queue'[p] PROVE queue'[p][k].from = p
      BY <2>3
    <3>1. queue'[p][k] = item[p] \/ (k \in DOMAIN queue[p] /\ queue'[p][k] = queue[p][k])
      BY <2>1, <2>3
    <3> QED
      BY <1>1, <1>2, <3>1
<1> QED
  BY <1>3, <1>4

\* A step of a producer that leaves what its source gave alone.
LEMMA WritesKeeps ==
    ASSUME Inv, NEW p \in Producers, On(p),
           UNCHANGED <<contextVars, next_id, id, made, clientVars, guestVars>>,
           senders' \in {senders, [senders EXCEPT ![id[p]] = Nil]},
           receivers' \in {receivers, [receivers EXCEPT ![id[p]] = Nil]},
           queue' \in {queue, [queue EXCEPT ![p] = Append(@, item[p])]},
           pc' \in [Producers -> TaskPlaces \cup PumpPlaces],
           \A q \in Producers : pc'[q] \in IF q[2] = "guest" THEN PumpPlaces ELSE TaskPlaces,
           \A q \in Producers \ {p} : pc'[q] = pc[q],
           made[p].whole => pc'[p] \notin {"recv", "read"} /\ (pc'[p] = "over" \/ item'[p].what = Done), pc'[p] # "off",
           (p[2] = "guest" /\ pc'[p] \in {"write", "wait"}) => item'[p].what \notin Ends,
           tx' \in [Producers -> Producers \cup {Nil}], \A q \in Producers \ {p} : tx'[q] = tx[q],
           pc'[p] = "send" => tx'[p] = p,
           item' \in [Producers -> Items], \A q \in Producers : item'[q].from = q,
           \A q \in Producers \ {p} : item'[q] = item[q],
           Intact(p) => /\ senders' = senders /\ receivers' = receivers
                        /\ Carries(p, Took(p), queue'[p], Due(p))
                        /\ Continues(p, Took(p), queue'[p], Due(p), pc'[p], item'[p].what)
    PROVE  Inv'
<1>1. Types /\ Wired /\ Flow(p) /\ Own(p)
  BY DEF Inv, Flows
<1>2. id[p] \in StreamIds /\ Nil \in Producers \cup {Nil}
  BY <1>1, OwnId
<1>3. /\ senders' \in [StreamIds -> Producers \cup {Nil}]
      /\ receivers' \in [StreamIds -> Producers \cup {Nil}]
      /\ \A j \in StreamIds : /\ senders'[j] = senders[j] \/ (j = id[p] /\ senders'[j] = Nil)
                              /\ receivers'[j] = receivers[j] \/ (j = id[p] /\ receivers'[j] = Nil)
  BY <1>1, <1>2, Removed
<1>5. /\ queue' \in [Producers -> Seq(Items)] /\ \A q \in Producers \ {p} : queue'[q] = queue[q]
      /\ \A k \in DOMAIN queue'[p] : queue'[p][k].from = p
  BY <1>1, PutTyped
<1>6. made' = made /\ made' \in [Producers -> [chunks : 0..MaxChunks, whole : BOOLEAN]] /\ made'[p].chunks >= made[p].chunks
  <2>1. made[p] \in [chunks : 0..MaxChunks, whole : BOOLEAN] /\ made \in [Producers -> [chunks : 0..MaxChunks, whole : BOOLEAN]]
    BY <1>1 DEF Types
  <2>2. made[p].chunks >= made[p].chunks
    BY SMT, <2>1, StreamsAssumption
  <2> QED
    BY <2>1, <2>2
<1>7. UNCHANGED <<contextVars, next_id, id, clientVars, guestVars>>
  OBVIOUS
<1>8. Types'
  BY <1>1, <1>3, <1>5, <1>6, <1>7, ProducerTyped
<1>9. Moves(p)
  BY <1>3, <1>5, <1>6, <1>7 DEF Moves
<1>10. Own(p)'
  BY <1>5, <1>6 DEF Own
<1>11. Intact(p) => Linked(p)'
  <2>1. Intact(p) => Linked(p)
    BY <1>1 DEF Flow
  <2>2. UNCHANGED <<answer, forward, reading, id>>
    BY <1>7 DEF clientVars, guestVars
  <2> QED
    BY <2>1, <2>2 DEF Linked
<1>12. Due(p)' = Due(p)
  BY <1>6, <1>7, DueStays DEF contextVars
<1> QED
  BY <1>8, <1>9, <1>10, <1>11, <1>12, MovesInv

\* What is known of a producer that stands somewhere in its write.
LEMMA Standing ==
    ASSUME Inv, NEW p \in Producers, On(p)
    PROVE  /\ Types /\ Wired /\ Own(p) /\ id[p] \in StreamIds
           /\ senders[id[p]] \in {p, Nil} /\ p # Nil
           /\ pc \in [Producers -> TaskPlaces \cup PumpPlaces] /\ tx \in [Producers -> Producers \cup {Nil}]
           /\ \A q \in Producers : pc[q] \in IF q[2] = "guest" THEN PumpPlaces ELSE TaskPlaces
           /\ item \in [Producers -> Items] /\ \A q \in Producers : item[q].from = q
           /\ Intact(p) => /\ senders[id[p]] = p /\ Open(p)
                           /\ Carries(p, Took(p), queue[p], Due(p))
                           /\ Continues(p, Took(p), queue[p], Due(p), pc[p], item[p].what)
<1>1. Types /\ Wired /\ Answers /\ Flow(p) /\ Own(p)
  BY DEF Inv, Flows
<1>2. id[p] \in StreamIds /\ senders[id[p]] \in {p, Nil}
  BY <1>1, OwnId
<1>3. /\ pc \in [Producers -> TaskPlaces \cup PumpPlaces] /\ tx \in [Producers -> Producers \cup {Nil}]
      /\ \A q \in Producers : pc[q] \in IF q[2] = "guest" THEN PumpPlaces ELSE TaskPlaces
      /\ item \in [Producers -> Items] /\ \A q \in Producers : item[q].from = q
  BY <1>1 DEF Types
<1>4. Intact(p) => /\ Linked(p) /\ Carries(p, Took(p), queue[p], Due(p))
                   /\ Continues(p, Took(p), queue[p], Due(p), pc[p], item[p].what)
  BY <1>1 DEF Flow
<1>5. Linked(p) => senders[id[p]] = p /\ Open(p)
  BY <1>1, LinkedOpen
<1> QED
  BY <1>1, <1>2, <1>3, <1>4, <1>5, NilAssumption

\* A task that looks its sender up (write_chunk).
LEMMA TaskLooksUpKeeps ==
    ASSUME Inv, NEW p \in Producers, TaskLooksUp(p)
    PROVE  Inv'
<1>1. On(p) /\ p[2] # "guest" /\ pc[p] = "write"
  BY DEF TaskLooksUp, On
<1>2. /\ UNCHANGED <<contextVars, next_id, id, made, clientVars, guestVars>>
      /\ senders' = senders /\ receivers' = receivers /\ queue' = queue
  BY DEF TaskLooksUp, mapVars
<1>3. CASE senders[id[p]] = Nil
  <2>1. Broken(p) /\ tx' = tx
    BY <1>3 DEF TaskLooksUp
  <2>2. ~Intact(p) /\ tx' \in [Producers -> Producers \cup {Nil}] /\ Types
    BY <1>1, <1>3, <2>1, Standing
  <2>3. /\ pc' \in [Producers -> TaskPlaces \cup PumpPlaces]
        /\ \A q \in Producers : pc'[q] \in IF q[2] = "guest" THEN PumpPlaces ELSE TaskPlaces
        /\ item' \in [Producers -> Items] /\ \A q \in Producers : item'[q].from = q
        /\ \A q \in Producers \ {p} : pc'[q] = pc[q] /\ item'[q] = item[q]
        /\ pc'[p] = "over" \/ (pc'[p] = "write" /\ item'[p].what = Done)
    BY <1>1, <2>1, <2>2, BrokenTyped
  <2>4. pc'[p] \notin {"off", "recv", "read", "send"} /\ (pc'[p] = "over" \/ item'[p].what = Done)
    BY <2>3
  <2> QED
    BY <1>1, <1>2, <2>1, <2>2, <2>3, <2>4, WritesKeeps
<1>4. CASE senders[id[p]] # Nil
  <2>1. tx' = [tx EXCEPT ![p] = p] /\ Become(p, "send") /\ item' = item
    BY <1>1, <1>4, Standing DEF TaskLooksUp
  <2>2. "send" \in IF p[2] = "guest" THEN PumpPlaces ELSE TaskPlaces
    BY <1>1 DEF TaskPlaces
  <2>3. /\ pc' \in [Producers -> TaskPlaces \cup PumpPlaces]
        /\ \A q \in Producers : pc'[q] \in IF q[2] = "guest" THEN PumpPlaces ELSE TaskPlaces
        /\ pc'[p] = "send" /\ \A q \in Producers \ {p} : pc'[q] = pc[q]
    BY <1>1, <2>1, <2>2, Becomes, Standing
  <2>4. /\ tx' \in [Producers -> Producers \cup {Nil}] /\ tx'[p] = p /\ \A q \in Producers \ {p} : tx'[q] = tx[q]
        /\ item' \in [Producers -> Items] /\ \A q \in Producers : item'[q].from = q
    BY <1>1, <2>1, Standing
  <2>5. Intact(p) => /\ Carries(p, Took(p), queue'[p], Due(p))
                     /\ Continues(p, Took(p), queue'[p], Due(p), pc'[p], item'[p].what)
    <3>1. Intact(p) => /\ Carries(p, Took(p), queue[p], Due(p))
                       /\ Continues(p, Took(p), queue[p], Due(p), "write", item[p].what)
      BY <1>1, Standing
    <3>2. Continues(p, Took(p), queue[p], Due(p), "write", item[p].what) =>
             Continues(p, Took(p), queue[p], Due(p), "send", item[p].what)
      BY DEF Continues
    <3> QED
      BY <1>2, <2>1, <2>3, <3>1, <3>2
  <2>6. made[p].whole => item'[p].what = Done
    <3>1. Own(p)
      BY <1>1, Standing
    <3> QED
      BY <1>1, <2>1, <3>1 DEF Own
  <2> QED
    BY <1>1, <1>2, <2>1, <2>3, <2>4, <2>5, <2>6, WritesKeeps
<1> QED
  BY <1>3, <1>4

\* A task whose channel took what it wrote.
LEMMA TaskSendsKeeps ==
    ASSUME Inv, NEW p \in Producers, TaskSends(p)
    PROVE  Inv'
<1>1. On(p) /\ p[2] # "guest" /\ pc[p] = "send"
  BY DEF TaskSends, On
<1>2. tx[p] = p
  BY <1>1 DEF Inv, Wired
<1>3. /\ UNCHANGED <<contextVars, next_id, id, made, clientVars, guestVars>>
      /\ senders' = senders /\ receivers' = receivers
      /\ queue' = [queue EXCEPT ![p] = Append(@, item[p])] /\ tx' = [tx EXCEPT ![p] = Nil]
  BY <1>2 DEF TaskSends, Accept, Put, mapVars
<1>4. tx' \in [Producers -> Producers \cup {Nil}] /\ \A q \in Producers \ {p} : tx'[q] = tx[q]
  BY <1>1, <1>3, Standing
<1>5. queue'[p] = Append(queue[p], item[p])
  <2>1. queue \in [Producers -> Seq(Items)]
    BY DEF Inv, Types
  <2> QED
    BY <1>3, <2>1
<1>6. Intact(p) => /\ Carries(p, Took(p), queue'[p], Due(p))
                   /\ item[p].what \notin Ends => NoEnd(queue'[p]) /\ Took(p) + Len(queue'[p]) = Due(p).chunks
                   /\ item[p].what = Error => \E k \in DOMAIN queue'[p] : queue'[p][k].what = Error
  BY <1>1, <1>5, PutFlow
<1>7. CASE item[p].what \in Ends
  <2>1. Broken(p)
    BY <1>7 DEF TaskSends
  <2>2. /\ pc' \in [Producers -> TaskPlaces \cup PumpPlaces]
        /\ \A q \in Producers : pc'[q] \in IF q[2] = "guest" THEN PumpPlaces ELSE TaskPlaces
        /\ item' \in [Producers -> Items] /\ \A q \in Producers : item'[q].from = q
        /\ \A q \in Producers \ {p} : pc'[q] = pc[q] /\ item'[q] = item[q]
        /\ pc'[p] = "over" \/ (pc'[p] = "write" /\ item'[p].what = Done /\ item[p].what # Done)
    BY <1>1, <2>1, BrokenTyped, Standing
  <2>3. Intact(p) => Continues(p, Took(p), queue'[p], Due(p), pc'[p], item'[p].what)
    <3>1. CASE pc'[p] = "over"
      BY <3>1 DEF Continues
    <3>2. CASE pc'[p] = "write" /\ item'[p].what = Done /\ item[p].what # Done
      <4>1. item[p].what = Error /\ Done \in Ends
        BY <1>7, <3>2 DEF Ends
      <4> QED
        BY <1>1, <1>6, <3>2, <4>1 DEF Continues
    <3> QED
      BY <2>2, <3>1, <3>2
  <2>4. pc'[p] \in {"over", "write"} /\ pc'[p] # "send" /\ pc'[p] \notin {"off", "recv", "read"}
    BY <2>2
  <2> QED
    BY <1>1, <1>3, <1>4, <1>6, <2>2, <2>3, <2>4, WritesKeeps
<1>8. CASE item[p].what \notin Ends
  <2>1. Become(p, "recv") /\ item' = item
    BY <1>8 DEF TaskSends
  <2>2. "recv" \in IF p[2] = "guest" THEN PumpPlaces ELSE TaskPlaces
    BY <1>1 DEF TaskPlaces
  <2>3. /\ pc' \in [Producers -> TaskPlaces \cup PumpPlaces]
        /\ \A q \in Producers : pc'[q] \in IF q[2] = "guest" THEN PumpPlaces ELSE TaskPlaces
        /\ pc'[p] = "recv" /\ \A q \in Producers \ {p} : pc'[q] = pc[q]
    BY <1>1, <2>1, <2>2, Becomes, Standing
  <2>4. item' \in [Producers -> Items] /\ \A q \in Producers : item'[q].from = q
    BY <1>1, <2>1, Standing
  <2>5. Intact(p) => Continues(p, Took(p), queue'[p], Due(p), pc'[p], item'[p].what)
    BY <1>1, <1>6, <1>8, <2>3 DEF Continues
  <2>6. ~made[p].whole
    <3>1. Own(p)
      BY <1>1, Standing
    <3> QED
      BY <1>1, <1>8, <3>1 DEF Own, Ends
  <2> QED
    BY <1>1, <1>3, <1>4, <1>6, <2>1, <2>3, <2>4, <2>5, <2>6, WritesKeeps
<1> QED
  BY <1>7, <1>8

\* A task that finds its channel closed.
LEMMA TaskFindsClosedKeeps ==
    ASSUME Inv, NEW p \in Producers, TaskFindsClosed(p)
    PROVE  Inv'
<1>1. On(p) /\ p[2] # "guest" /\ pc[p] = "send" /\ Broken(p)
  BY DEF TaskFindsClosed, On
<1>2. tx[p] = p
  BY <1>1 DEF Inv, Wired
<1>3. /\ UNCHANGED <<contextVars, next_id, id, made, clientVars, guestVars>>
      /\ senders' = [senders EXCEPT ![id[p]] = Nil] /\ receivers' = receivers
      /\ queue' = queue /\ tx' = [tx EXCEPT ![p] = Nil]
  BY DEF TaskFindsClosed
<1>4. tx' \in [Producers -> Producers \cup {Nil}] /\ \A q \in Producers \ {p} : tx'[q] = tx[q]
  BY <1>1, <1>3, Standing
<1>5. ~Intact(p)
  BY <1>1, <1>2, Standing DEF TaskFindsClosed
<1>6. /\ pc' \in [Producers -> TaskPlaces \cup PumpPlaces]
      /\ \A q \in Producers : pc'[q] \in IF q[2] = "guest" THEN PumpPlaces ELSE TaskPlaces
      /\ item' \in [Producers -> Items] /\ \A q \in Producers : item'[q].from = q
      /\ \A q \in Producers \ {p} : pc'[q] = pc[q] /\ item'[q] = item[q]
      /\ pc'[p] = "over" \/ (pc'[p] = "write" /\ item'[p].what = Done)
  BY <1>1, BrokenTyped, Standing
<1>7. pc'[p] \notin {"off", "recv", "read", "send"} /\ (pc'[p] = "over" \/ item'[p].what = Done)
  BY <1>6
<1> QED
  BY <1>1, <1>3, <1>4, <1>5, <1>6, <1>7, WritesKeeps

\* What the steps of the pump have in common: the place it goes to is a pump's, and
\* it holds no sender.
LEMMA PumpKeeps ==
    ASSUME Inv, NEW p \in Producers, On(p), p[2] = "guest",
           UNCHANGED <<contextVars, next_id, id, tx, made, clientVars, guestVars>>,
           senders' \in {senders, [senders EXCEPT ![id[p]] = Nil]},
           receivers' \in {receivers, [receivers EXCEPT ![id[p]] = Nil]},
           queue' \in {queue, [queue EXCEPT ![p] = Append(@, item[p])]},
           NEW at \in PumpPlaces \ {"off"}, Become(p, at), item' = item \/ Hold(p, Done),
           made[p].whole => at # "read" /\ (at = "over" \/ item'[p].what = Done),
           at \in {"write", "wait"} => item'[p].what \notin Ends,
           Intact(p) => /\ senders' = senders /\ receivers' = receivers
                        /\ Carries(p, Took(p), queue'[p], Due(p))
                        /\ Continues(p, Took(p), queue'[p], Due(p), at, item'[p].what)
    PROVE  Inv'
<1>1. /\ pc' \in [Producers -> TaskPlaces \cup PumpPlaces]
      /\ \A q \in Producers : pc'[q] \in IF q[2] = "guest" THEN PumpPlaces ELSE TaskPlaces
      /\ pc'[p] = at /\ \A q \in Producers \ {p} : pc'[q] = pc[q]
  BY Becomes, Standing
<1>2. at \notin {"recv", "send", "off"}
  BY DEF PumpPlaces
<1>3. /\ item' \in [Producers -> Items] /\ \A q \in Producers : item'[q].from = q
      /\ \A q \in Producers \ {p} : item'[q] = item[q]
  <2>1. Done \in (1..MaxChunks) \cup Ends
    BY DEF Ends
  <2>2. CASE item' = item
    BY <2>2, Standing
  <2>3. CASE Hold(p, Done)
    BY <2>1, <2>3, Holds, Standing
  <2> QED
    BY <2>2, <2>3
<1>4. tx' = tx /\ tx' \in [Producers -> Producers \cup {Nil}]
  BY Standing
<1> QED
  BY <1>1, <1>2, <1>3, <1>4, WritesKeeps

\* The stream of the pump.
LEMMA GuestOf ==
    ASSUME NEW r \in Requests
    PROVE  <<r, "guest">> \in Producers /\ <<r, "guest">>[1] = r /\ <<r, "guest">>[2] = "guest"
<1>1. "guest" \in Kinds
  BY DEF Kinds
<1> QED
  BY <1>1, Names

\* The pump writes a chunk, waits for room or ends (__responseStreamWrite).
LEMMA PumpWritesKeeps ==
    ASSUME Inv, NEW r \in Requests, PumpWrites(r)
    PROVE  Inv'
<1> DEFINE p == <<r, "guest">>
           c == senders[id[p]]
<1>1. p \in Producers /\ p[2] = "guest"
  BY GuestOf
<1>2. /\ pc[p] = "write" /\ UNCHANGED <<contextVars, receivers, next_id, woken, id, tx, made, clientVars, guestVars>>
      /\ IF c = Nil \/ ~Open(c)
         THEN /\ senders' = [senders EXCEPT ![id[p]] = Nil]
              /\ Become(p, "end") /\ Hold(p, Done) /\ queue' = queue
         ELSE IF HasRoom(c, item[p].what)
              THEN Put(c, item[p]) /\ Become(p, "read") /\ senders' = senders /\ item' = item
              ELSE Become(p, "wait") /\ senders' = senders /\ item' = item /\ queue' = queue
  BY DEF PumpWrites
<1> HIDE DEF p
<1>3. On(p) /\ {"end", "read", "wait"} \subseteq PumpPlaces \ {"off"}
  BY <1>2 DEF On, PumpPlaces
<1>4. Own(p) /\ Types
  BY <1>1, <1>3, Standing
<1>5. CASE c = Nil \/ ~Open(c)
  <2>1. ~Intact(p)
    BY <1>1, <1>3, <1>5, Standing
  <2>2. item'[p].what = Done
    <3>1. Done \in (1..MaxChunks) \cup Ends
      BY DEF Ends
    <3> QED
      BY <1>1, <1>2, <1>4, <1>5, <3>1, Holds
  <2>3. /\ senders' = [senders EXCEPT ![id[p]] = Nil] /\ receivers' = receivers
        /\ Become(p, "end") /\ Hold(p, Done) /\ queue' = queue
    BY <1>2, <1>5
  <2> QED
    BY <1>1, <1>2, <1>3, <2>1, <2>2, <2>3, PumpKeeps
<1>6. CASE ~(c = Nil \/ ~Open(c)) /\ HasRoom(c, item[p].what)
  <2>1. Put(p, item[p]) /\ Become(p, "read") /\ senders' = senders /\ receivers' = receivers /\ item' = item
    BY <1>1, <1>2, <1>3, <1>6, Standing
  <2>2. item[p].what \notin Ends /\ ~made[p].whole
    BY <1>1, <1>2, <1>4 DEF Own, Ends
  <2>3. queue'[p] = Append(queue[p], item[p])
    BY <1>1, <1>4, <2>1 DEF Put, Types
  <2>4. Intact(p) => /\ Carries(p, Took(p), queue'[p], Due(p))
                     /\ Continues(p, Took(p), queue'[p], Due(p), "read", item'[p].what)
    <3>1. Intact(p) => /\ Carries(p, Took(p), queue'[p], Due(p))
                       /\ NoEnd(queue'[p]) /\ Took(p) + Len(queue'[p]) = Due(p).chunks
      BY <1>1, <1>2, <2>2, <2>3, PutFlow
    <3> QED
      BY <3>1 DEF Continues
  <2>5. queue' = [queue EXCEPT ![p] = Append(@, item[p])]
    BY <2>1 DEF Put
  <2> QED
    BY <1>1, <1>2, <1>3, <2>1, <2>2, <2>4, <2>5, PumpKeeps
<1>7. CASE ~(c = Nil \/ ~Open(c)) /\ ~HasRoom(c, item[p].what)
  <2>1. Become(p, "wait") /\ senders' = senders /\ receivers' = receivers /\ item' = item /\ queue' = queue
    BY <1>2, <1>7
  <2>2. item[p].what \notin Ends /\ ~made[p].whole
    BY <1>1, <1>2, <1>4 DEF Own, Ends
  <2>3. Intact(p) => /\ Carries(p, Took(p), queue'[p], Due(p))
                     /\ Continues(p, Took(p), queue'[p], Due(p), "wait", item'[p].what)
    <3>1. Intact(p) => /\ Carries(p, Took(p), queue[p], Due(p))
                       /\ Continues(p, Took(p), queue[p], Due(p), "write", item[p].what)
      BY <1>1, <1>2, <1>3, Standing
    <3>2. Continues(p, Took(p), queue[p], Due(p), "write", item[p].what) =>
             Continues(p, Took(p), queue[p], Due(p), "wait", item[p].what)
      BY DEF Continues
    <3> QED
      BY <2>1, <3>1, <3>2
  <2> QED
    BY <1>1, <1>2, <1>3, <2>1, <2>2, <2>3, PumpKeeps
<1> QED
  BY <1>5, <1>6, <1>7

\* The pump is called back (ScheduleWritable).
LEMMA PumpResumesKeeps ==
    ASSUME Inv, NEW r \in Requests, PumpResumes(r)
    PROVE  Inv'
<1> DEFINE p == <<r, "guest">>
<1>1. p \in Producers /\ p[1] = r /\ p[2] = "guest"
  BY GuestOf
<1>2. /\ pc[p] = "wait" /\ Become(p, "write")
      /\ UNCHANGED <<contextVars, queue, id, tx, item, made, clientVars, guestVars>>
      /\ IF Cancelled(r) /\ senders[id[p]] # Nil THEN close_stream(id[p]) ELSE UNCHANGED <<mapVars, woken>>
  BY DEF PumpResumes
<1> HIDE DEF p
<1>3. On(p) /\ "write" \in PumpPlaces \ {"off"}
  BY <1>2 DEF On, PumpPlaces
<1>4. item[p].what \notin Ends /\ ~made[p].whole
  <2>1. Own(p)
    BY <1>1, <1>3, Standing
  <2> QED
    BY <1>1, <1>2, <2>1 DEF Own, Ends
<1>5. CASE Cancelled(r) /\ senders[id[p]] # Nil
  <2>1. /\ senders' = [senders EXCEPT ![id[p]] = Nil] /\ receivers' = [receivers EXCEPT ![id[p]] = Nil]
        /\ next_id' = next_id
    BY <1>2, <1>5 DEF close_stream
  <2>2. ~Intact(p)
    <3>1. ~(1 < 1)
      BY SMT
    <3>2. r = 1 /\ scope = 1 /\ stage # "dropped"
      BY <1>1, <1>3 DEF Inv, Wired, PumpResumes, Serving
    <3>3. r \in aborted \cup failed
      BY <1>5, <3>1, <3>2 DEF Cancelled
    <3> QED
      BY <1>1, <3>3 DEF Intact
  <2> QED
    BY <1>1, <1>2, <1>3, <1>4, <2>1, <2>2, PumpKeeps
<1>6. CASE ~(Cancelled(r) /\ senders[id[p]] # Nil)
  <2>1. senders' = senders /\ receivers' = receivers /\ next_id' = next_id
    BY <1>2, <1>6 DEF mapVars
  <2>2. Intact(p) => /\ Carries(p, Took(p), queue'[p], Due(p))
                     /\ Continues(p, Took(p), queue'[p], Due(p), "write", item'[p].what)
    <3>1. Intact(p) => /\ Carries(p, Took(p), queue[p], Due(p))
                       /\ Continues(p, Took(p), queue[p], Due(p), "wait", item[p].what)
      BY <1>1, <1>2, <1>3, Standing
    <3>2. Continues(p, Took(p), queue[p], Due(p), "wait", item[p].what) =>
             Continues(p, Took(p), queue[p], Due(p), "write", item[p].what)
      BY <1>4 DEF Continues, Ends
    <3> QED
      BY <1>2, <3>1, <3>2
  <2> QED
    BY <1>1, <1>2, <1>3, <1>4, <2>1, <2>2, PumpKeeps
<1> QED
  BY <1>5, <1>6

\* The pump ends the body (__responseStreamEnd, __responseStreamError).
LEMMA PumpEndsKeeps ==
    ASSUME Inv, NEW r \in Requests, PumpEnds(r)
    PROVE  Inv'
<1> DEFINE p == <<r, "guest">>
           c == senders[id[p]]
<1>1. p \in Producers /\ p[2] = "guest"
  BY GuestOf
<1>2. /\ pc[p] = "end" /\ Become(p, "over")
      /\ UNCHANGED <<contextVars, receivers, next_id, woken, id, tx, item, made, clientVars, guestVars>>
      /\ IF c # Nil /\ Open(c) /\ HasRoom(c, Terminal(p).what) THEN Put(c, Terminal(p)) ELSE queue' = queue
      /\ senders' = IF c # Nil /\ ~Open(c) THEN [senders EXCEPT ![id[p]] = Nil] ELSE senders
  BY DEF PumpEnds
<1> HIDE DEF p
<1>3. On(p) /\ "over" \in PumpPlaces \ {"off"}
  BY <1>2 DEF On, PumpPlaces
<1>4. senders' \in {senders, [senders EXCEPT ![id[p]] = Nil]}
  BY <1>2
<1>5. queue' \in {queue, [queue EXCEPT ![p] = Append(@, item[p])]}
  <2>1. c \in {p, Nil}
    BY <1>1, <1>3, Standing
  <2> QED
    BY <1>2, <2>1 DEF Put, Terminal
<1>6. Intact(p) => /\ senders' = senders
                   /\ Carries(p, Took(p), queue'[p], Due(p))
                   /\ Continues(p, Took(p), queue'[p], Due(p), "over", item'[p].what)
  <2> SUFFICES ASSUME Intact(p)
               PROVE  /\ senders' = senders
                      /\ Carries(p, Took(p), queue'[p], Due(p))
                      /\ Continues(p, Took(p), queue'[p], Due(p), "over", item'[p].what)
    OBVIOUS
  <2>1. c = p /\ Open(p) /\ Carries(p, Took(p), queue[p], Due(p))
    BY <1>1, <1>3, Standing
  <2>2. Carries(p, Took(p), Append(queue[p], item[p]), Due(p))
    BY <1>1, <1>2, PutFlow
  <2>3. queue'[p] = queue[p] \/ queue'[p] = Append(queue[p], item[p])
    <3>1. queue \in [Producers -> Seq(Items)]
      BY DEF Inv, Types
    <3> QED
      BY <1>1, <1>5, <3>1
  <2>4. Continues(p, Took(p), queue'[p], Due(p), "over", item'[p].what)
    BY DEF Continues
  <2> QED
    BY <1>2, <2>1, <2>2, <2>3, <2>4
<1> QED
  BY <1>1, <1>2, <1>3, <1>4, <1>5, <1>6, PumpKeeps

-----------------------------------------------------------------------------
(* Steps of the context, and of the event loop *)

\* A step of the context touches no stream: what may change is that a request is
\* cut short, or that the context goes.
LEMMA ContextKeeps ==
    ASSUME Inv, UNCHANGED <<scope, mapVars, queue, writeVars, clientVars, guestVars>>, Cuts,
           aborted' \subseteq Requests, failed' \subseteq Requests
    PROVE  Inv'
<1>1. UNCHANGED <<scope, senders, receivers, next_id, queue, pc, id, tx, item, made>>
  BY DEF mapVars, writeVars
<1>2. UNCHANGED <<answer, forward, rx, got, client, reading, read>>
  BY DEF clientVars, guestVars
<1>3. Types'
  BY <1>1, <1>2 DEF Inv, Types
<1>4. Wired'
  BY <1>1 DEF Inv, Wired, On
<1>5. Answers'
  <2>1. ASSUME NEW p \in Producers, ~On(p)' PROVE New(p)'
    BY <1>1, <1>2, <2>1 DEF Inv, Answers, On, New
  <2>2. ASSUME NEW r \in Requests PROVE Answered(r)'
    <3>1. Answered(r)
      BY DEF Inv, Answers
    <3> QED
      BY <1>1, <1>2, <3>1 DEF Answered, On
  <2> QED
    BY <2>1, <2>2 DEF Answers
<1>6. Flows'
  <2> SUFFICES ASSUME NEW p \in Producers PROVE Flow(p)' /\ Own(p)'
    BY DEF Flows
  <2>1. SameStream(p) /\ SameReader(p) /\ SameMaps(p)
    BY <1>1, <1>2 DEF SameStream, SameReader, SameMaps
  <2>2. Flow(p) /\ Own(p)
    BY DEF Inv, Flows
  <2> QED
    BY <2>1, <2>2, FlowStays
<1>7. Delivered'
  <2> SUFFICES ASSUME NEW r \in Requests
               PROVE  /\ GuestHas(Upload(r), read[r], made[Upload(r)], reading[r])'
                      /\ (answer[r] # Nil /\ r \notin aborted \cup failed)' =>
                            /\ ClientHas(answer[r], got[r])'
                            /\ (client[r] = "ended" => (made[answer[r]].whole \/ Cut(answer[r])) /\ Len(got[r]) = made[answer[r]].chunks)'
    BY DEF Delivered, DeliveredTo
  <2>1. GuestHas(Upload(r), read[r], made[Upload(r)], reading[r])
    BY DEF Inv, Delivered, DeliveredTo
  <2>2. GuestHas(Upload(r), read[r], made[Upload(r)], reading[r])'
    BY <1>1, <1>2, <2>1 DEF GuestHas
  <2>3. /\ (r \notin aborted \cup failed)' => r \notin aborted \cup failed
        /\ Cut(answer[r]) => Cut(answer[r])'
    BY <1>2 DEF Cuts, Cut
  <2>4. (answer[r] # Nil /\ r \notin aborted \cup failed) =>
           /\ ClientHas(answer[r], got[r])
           /\ client[r] = "ended" => (made[answer[r]].whole \/ Cut(answer[r])) /\ Len(got[r]) = made[answer[r]].chunks
    BY DEF Inv, Delivered, DeliveredTo
  <2> QED
    BY <1>1, <1>2, <2>2, <2>3, <2>4 DEF ClientHas
<1> QED
  BY <1>3, <1>4, <1>5, <1>6, <1>7 DEF Inv

\* The end of a request, its failure, and an abort.
LEMMA RequestStepsKeep ==
    ASSUME Inv, NEW r \in Requests, RequestEnds(r) \/ RequestFails(r) \/ Abort(r)
    PROVE  Inv'
<1>1. aborted \subseteq Requests /\ failed \subseteq Requests /\ stage # "dropped"
  BY DEF Inv, Types, RequestEnds, RequestFails, Abort, Serving
<1>2. CASE RequestEnds(r)
  <2>1. /\ UNCHANGED <<scope, mapVars, queue, writeVars, clientVars, guestVars>>
        /\ aborted' = aborted /\ failed' = failed
    BY <1>2 DEF RequestEnds
  <2> QED
    BY <1>1, <2>1, ContextKeeps DEF Cuts
<1>3. CASE RequestFails(r)
  <2>1. /\ UNCHANGED <<scope, mapVars, queue, writeVars, clientVars, guestVars>>
        /\ aborted' = aborted /\ failed' = failed \cup {r}
    BY <1>3 DEF RequestFails
  <2> QED
    BY <1>1, <2>1, ContextKeeps DEF Cuts
<1>4. CASE Abort(r)
  <2>1. /\ UNCHANGED <<scope, mapVars, queue, writeVars, clientVars, guestVars>>
        /\ aborted' = aborted \cup {r} /\ failed' = failed
    BY <1>4 DEF Abort
  <2> QED
    BY <1>1, <2>1, ContextKeeps DEF Cuts
<1> QED
  BY <1>2, <1>3, <1>4

\* A context that was kept goes (drop_under_lock).
LEMMA ContextGoesKeeps ==
    ASSUME Inv, ContextGoes
    PROVE  Inv'
<1>1. /\ UNCHANGED <<scope, mapVars, queue, writeVars, clientVars, guestVars>>
      /\ aborted' = aborted /\ failed' = failed /\ stage' = "dropped"
  BY DEF ContextGoes
<1>2. aborted \subseteq Requests /\ failed \subseteq Requests
  BY DEF Inv, Types
<1> QED
  BY <1>1, <1>2, ContextKeeps DEF Cuts

\* A turn of the loop, which may end the pump (check_exit_with_abort).
LEMMA LoopTurnKeeps ==
    ASSUME Inv, NEW r \in Requests, LoopTurn(r)
    PROVE  Inv'
<1> DEFINE p == <<r, "guest">>
<1>1. p \in Producers /\ p[2] = "guest"
  BY GuestOf
<1>2. /\ UNCHANGED <<contextVars, mapVars, queue, id, tx, made, clientVars, guestVars>>
      /\ IF answer[r] = p /\ pc[p] = "read" /\ senders[id[p]] = Nil
         THEN Become(p, "end") /\ Hold(p, Done)
         ELSE UNCHANGED <<pc, item>>
  BY DEF LoopTurn
<1> HIDE DEF p
<1>3. senders' = senders /\ receivers' = receivers /\ next_id' = next_id
  BY <1>2 DEF mapVars
<1>4. CASE answer[r] = p /\ pc[p] = "read" /\ senders[id[p]] = Nil
  <2>1. On(p) /\ "end" \in PumpPlaces \ {"off"} /\ Done \in (1..MaxChunks) \cup Ends
    BY <1>4 DEF On, PumpPlaces, Ends
  <2>2. ~Intact(p) /\ Types
    BY <1>1, <1>4, <2>1, Standing
  <2>3. Become(p, "end") /\ Hold(p, Done) /\ queue' = queue
    BY <1>2, <1>4
  <2>4. item'[p].what = Done
    BY <1>1, <2>1, <2>2, <2>3, Holds
  <2> QED
    BY <1>1, <1>2, <1>3, <2>1, <2>2, <2>3, <2>4, PumpKeeps
<1>5. CASE ~(answer[r] = p /\ pc[p] = "read" /\ senders[id[p]] = Nil)
  <2>1. UNCHANGED <<scope, mapVars, queue, writeVars, clientVars, guestVars>>
    BY <1>2, <1>5 DEF contextVars, writeVars
  <2>2. aborted' = aborted /\ failed' = failed /\ stage' = stage
    BY <1>2 DEF contextVars
  <2>3. aborted \subseteq Requests /\ failed \subseteq Requests
    BY DEF Inv, Types
  <2> QED
    BY <2>1, <2>2, <2>3, ContextKeeps DEF Cuts
<1> QED
  BY <1>4, <1>5

-----------------------------------------------------------------------------
(* The streams of a request start *)

\* Starts(p, at): p is created, under the next id, and its producer stands at at. The
\* guest answers with p if p is what the pump writes.
Starts(p, at) ==
    /\ p[1] = 1 /\ pc[p] = "off" /\ create_stream(p) /\ Become(p, at)
    /\ at = IF p[2] = "guest" THEN "read" ELSE "recv"
    /\ IF p[2] = "guest"
       THEN answer[p[1]] = Nil /\ forward[p[1]] = "off" /\ answer' = [answer EXCEPT ![p[1]] = p]
       ELSE answer' = answer
    /\ UNCHANGED <<contextVars, queue, tx, item, made, forward, rx, got, client, guestVars>>

\* A new stream has an id that no other has.
LEMMA FreshId ==
    ASSUME Types, Wired, NEW p \in Producers, create_stream(p)
    PROVE  /\ next_id \in StreamIds /\ next_id' \in 1..4 /\ next_id \in 1..(next_id' - 1)
           /\ \A q \in Producers : On(q) => id[q] # next_id /\ id[q] \in 1..(next_id' - 1)
           /\ id' \in [Producers -> 0..3] /\ id'[p] = next_id /\ \A q \in Producers \ {p} : id'[q] = id[q]
           /\ senders' \in [StreamIds -> Producers \cup {Nil}] /\ senders'[next_id] = p
           /\ receivers' \in [StreamIds -> Producers \cup {Nil}] /\ receivers'[next_id] = p
           /\ \A i \in StreamIds \ {next_id} : senders'[i] = senders[i] /\ receivers'[i] = receivers[i]
<1>1. /\ next_id <= MaxStreams[p[1]] /\ next_id' = next_id + 1 /\ id' = [id EXCEPT ![p] = next_id]
      /\ senders' = [senders EXCEPT ![next_id] = p] /\ receivers' = [receivers EXCEPT ![next_id] = p]
  BY DEF create_stream
<1>2. /\ next_id \in 1..4 /\ id \in [Producers -> 0..3]
      /\ senders \in [StreamIds -> Producers \cup {Nil}] /\ receivers \in [StreamIds -> Producers \cup {Nil}]
  BY DEF Types
<1>3. MaxStreams[p[1]] \in 0..3
  <2>1. p[1] \in 1..N
    BY Named DEF Requests
  <2> QED
    BY <2>1, StreamsAssumption
<1>4. next_id \in 1..3 /\ next_id \in 0..3 /\ next_id' \in 1..4 /\ next_id \in 1..(next_id' - 1)
  BY SMT, <1>1, <1>2, <1>3
<1>5. ASSUME NEW q \in Producers, On(q) PROVE id[q] # next_id /\ id[q] \in 1..(next_id' - 1)
  <2>1. id[q] \in 1..(next_id - 1)
    BY <1>5 DEF Wired
  <2> QED
    BY SMT, <1>1, <1>2, <2>1
<1>6. next_id \in StreamIds
  BY <1>4 DEF StreamIds
<1>7. id' \in [Producers -> 0..3] /\ id'[p] = next_id /\ \A q \in Producers \ {p} : id'[q] = id[q]
  BY <1>1, <1>2, <1>4
<1>8. /\ senders' \in [StreamIds -> Producers \cup {Nil}] /\ senders'[next_id] = p
      /\ \A i \in StreamIds \ {next_id} : senders'[i] = senders[i]
  BY <1>1, <1>2, <1>6
<1>9. /\ receivers' \in [StreamIds -> Producers \cup {Nil}] /\ receivers'[next_id] = p
      /\ \A i \in StreamIds \ {next_id} : receivers'[i] = receivers[i]
  BY <1>1, <1>2, <1>6
<1> QED
  BY <1>4, <1>5, <1>6, <1>7, <1>8, <1>9

\* A new stream is wired.
LEMMA StartsWired ==
    ASSUME Inv, NEW p \in Producers, NEW at, Starts(p, at)
    PROVE  /\ Types' /\ Wired' /\ On(p)' /\ pc'[p] = at
           /\ \A q \in Producers \ {p} : pc'[q] = pc[q]
<1>1. Types /\ Wired /\ ~On(p) /\ p[1] = 1 /\ p[1] \in Requests
  BY Named DEF Inv, Starts, On
<1>2. UNCHANGED <<contextVars, queue, tx, item, made, forward, rx, got, client, reading, read>>
  BY DEF Starts, guestVars
<1>3. at \in IF p[2] = "guest" THEN PumpPlaces ELSE TaskPlaces
  BY DEF Starts, PumpPlaces, TaskPlaces
<1>4. /\ pc' \in [Producers -> TaskPlaces \cup PumpPlaces]
      /\ \A q \in Producers : pc'[q] \in IF q[2] = "guest" THEN PumpPlaces ELSE TaskPlaces
      /\ pc'[p] = at /\ \A q \in Producers \ {p} : pc'[q] = pc[q]
  BY <1>1, <1>3, Becomes DEF Starts
<1>5. at # "off" /\ at # "send"
  BY DEF Starts
<1>6. create_stream(p)
  BY DEF Starts
<1>7. answer' \in [Requests -> Producers \cup {Nil}]
  <2>1. answer \in [Requests -> Producers \cup {Nil}] /\ p \in Producers \cup {Nil}
    BY <1>1 DEF Types
  <2>2. answer' = answer \/ answer' = [answer EXCEPT ![p[1]] = p]
    BY DEF Starts
  <2> QED
    BY <1>1, <2>1, <2>2
<1>8. Types'
  <2>1. /\ next_id' \in 1..4 /\ id' \in [Producers -> 0..3]
        /\ senders' \in [StreamIds -> Producers \cup {Nil}] /\ receivers' \in [StreamIds -> Producers \cup {Nil}]
    BY <1>1, <1>6, FreshId
  <2>2. aborted' = aborted /\ failed' = failed
    BY <1>2 DEF contextVars
  <2> QED
    BY <1>1, <1>2, <1>4, <1>7, <2>1, <2>2 DEF Types
<1>9. \A q \in Producers : On(q)' <=> (On(q) \/ q = p)
  BY <1>4, <1>5 DEF On
<1>10. Wired'
  <2>1. (scope = 1)'
    BY <1>1, <1>2 DEF Wired, contextVars
  <2>2. (\A q \in Producers : On(q) => q[1] = 1 /\ id[q] \in 1..(next_id - 1))'
    <3> SUFFICES ASSUME NEW q \in Producers, On(q)' PROVE q[1] = 1 /\ id'[q] \in 1..(next_id' - 1)
      OBVIOUS
    <3>1. CASE q = p
      BY <1>1, <1>6, <3>1, FreshId
    <3>2. CASE q # p
      <4>1. On(q) /\ q[1] = 1
        BY <1>1, <1>9, <3>2 DEF Wired
      <4> QED
        BY <1>1, <1>6, <3>2, <4>1, FreshId
    <3> QED
      BY <3>1, <3>2
  <2>3. (\A o, q \in Producers : On(o) /\ On(q) /\ id[o] = id[q] => o = q)'
    <3> SUFFICES ASSUME NEW o \in Producers, NEW q \in Producers, On(o)', On(q)', id'[o] = id'[q] PROVE o = q
      OBVIOUS
    <3>1. id'[p] = next_id /\ \A u \in Producers \ {p} : id'[u] = id[u] /\ (On(u) => id[u] # next_id)
      BY <1>1, <1>6, FreshId
    <3>2. (o = p \/ On(o)) /\ (q = p \/ On(q))
      BY <1>9
    <3> QED
      BY <1>1, <3>1, <3>2 DEF Wired
  <2>4. \A i \in StreamIds : senders[i] \in Producers \cup {Nil} /\ receivers[i] \in Producers \cup {Nil}
    BY <1>1 DEF Types
  <2>5. ASSUME NEW i \in StreamIds, senders'[i] # Nil PROVE On(senders[i])' /\ id'[senders'[i]] = i
    <3>1. CASE i = next_id
      <4>1. senders'[i] = p /\ id'[p] = i
        BY <1>1, <1>6, <3>1, FreshId
      <4> QED
        BY <1>4, <1>5, <4>1 DEF On
    <3>2. CASE i # next_id
      <4>1. senders'[i] = senders[i]
        BY <1>1, <1>6, <3>2, FreshId
      <4>0. On(senders[i]) /\ id[senders[i]] = i /\ senders[i] \in Producers
        BY <1>1, <2>4, <2>5, <4>1 DEF Wired
      <4>2. On(senders[i]) /\ id[senders[i]] = i /\ senders[i] \in Producers \ {p}
        BY <1>1, <4>0 DEF On
      <4>3. id'[senders[i]] = id[senders[i]] /\ pc'[senders[i]] = pc[senders[i]]
        BY <1>1, <1>4, <1>6, <4>2, FreshId
      <4> QED
        BY <4>1, <4>2, <4>3 DEF On
    <3> QED
      BY <3>1, <3>2
  <2>6. ASSUME NEW i \in StreamIds, receivers'[i] # Nil PROVE On(receivers[i])' /\ id'[receivers'[i]] = i
    <3>1. CASE i = next_id
      <4>1. receivers'[i] = p /\ id'[p] = i
        BY <1>1, <1>6, <3>1, FreshId
      <4> QED
        BY <1>4, <1>5, <4>1 DEF On
    <3>2. CASE i # next_id
      <4>1. receivers'[i] = receivers[i]
        BY <1>1, <1>6, <3>2, FreshId
      <4>0. On(receivers[i]) /\ id[receivers[i]] = i /\ receivers[i] \in Producers
        BY <1>1, <2>4, <2>6, <4>1 DEF Wired
      <4>2. On(receivers[i]) /\ id[receivers[i]] = i /\ receivers[i] \in Producers \ {p}
        BY <1>1, <4>0 DEF On
      <4>3. id'[receivers[i]] = id[receivers[i]] /\ pc'[receivers[i]] = pc[receivers[i]]
        BY <1>1, <1>4, <1>6, <4>2, FreshId
      <4> QED
        BY <4>1, <4>2, <4>3 DEF On
    <3> QED
      BY <3>1, <3>2
  <2>7. (\A q \in Producers : pc[q] = "send" => tx[q] = q)'
    BY <1>1, <1>2, <1>4, <1>5 DEF Wired
  <2> QED
    BY <2>1, <2>2, <2>3, <2>5, <2>6, <2>7 DEF Wired
<1>11. On(p)'
  BY <1>4, <1>5 DEF On
<1> QED
  BY <1>4, <1>8, <1>10, <1>11

\* A new stream carries nothing yet, and leaves the others alone.
LEMMA StartsKeeps ==
    ASSUME Inv, NEW p \in Producers, NEW at, Starts(p, at)
    PROVE  Inv'
<1>1. /\ Types /\ Wired /\ Answers /\ Flows /\ Delivered /\ ~On(p) /\ New(p) /\ p[1] \in Requests /\ p # Nil
      /\ create_stream(p)
  BY Named, NilAssumption DEF Inv, Starts, On, Answers
<1>2. UNCHANGED <<contextVars, queue, tx, item, made, forward, rx, got, client, reading, read>>
  BY DEF Starts, guestVars
<1>3. /\ Types' /\ Wired' /\ On(p)' /\ pc'[p] = at
      /\ \A q \in Producers \ {p} : pc'[q] = pc[q]
  BY StartsWired
<1>4. /\ \A r \in Requests : answer'[r] = answer[r] \/ (r = p[1] /\ answer[r] = Nil /\ forward[r] = "off" /\ answer'[r] = p)
      /\ \A r \in Requests : answer'[r] # answer[r] => p[2] = "guest"
  <2>1. answer \in [Requests -> Producers \cup {Nil}]
    BY <1>1 DEF Types
  <2>2. CASE answer' = answer
    BY <2>2
  <2>3. CASE /\ answer[p[1]] = Nil /\ forward[p[1]] = "off" /\ answer' = [answer EXCEPT ![p[1]] = p]
             /\ p[2] = "guest"
    BY <1>1, <2>1, <2>3
  <2> QED
    BY <2>2, <2>3 DEF Starts
<1>5. \A r \in Requests : answer[r] # p
  BY <1>1 DEF Answers, Answered, On
<1>6. \A r \in Requests : answer[r] \in Producers \cup {Nil}
  BY <1>1 DEF Types
<1>7. \A q \in Producers : On(q) => On(q)'
  BY <1>3 DEF On
<1>8. Answers'
  <2>1. ASSUME NEW q \in Producers, ~On(q)' PROVE New(q)'
    <3>1. ~On(q)
      BY <1>7, <2>1
    <3> QED
      BY <1>1, <1>2, <3>1 DEF Answers, New
  <2>2. ASSUME NEW r \in Requests PROVE Answered(r)'
    <3>1. Answered(r)
      BY <1>1 DEF Answers
    <3>2. CASE answer'[r] = answer[r]
      <4>1. \A q \in Producers : On(q) => pc'[q] # "off"
        BY <1>7 DEF On
      <4>2. answer[r] # Nil => pc'[answer[r]] # "off"
        BY <1>6, <3>1, <4>1 DEF Answered
      <4> QED
        BY <1>2, <3>1, <3>2, <4>2 DEF Answered, On
    <3>3. CASE answer'[r] # answer[r]
      <4>1. r = p[1] /\ forward[r] = "off" /\ answer'[r] = p /\ p[2] = "guest"
        BY <1>4, <3>3
      <4>2. p # Upload(r)
        BY <4>1, UploadOf
      <4>3. pc'[p] # "off"
        BY <1>3 DEF On
      <4> QED
        BY <1>2, <3>1, <4>1, <4>2, <4>3 DEF Answered, On
    <3> QED
      BY <3>2, <3>3
  <2> QED
    BY <2>1, <2>2 DEF Answers
<1>9. ASSUME NEW q \in Producers \ {p} PROVE Flow(q)' /\ Own(q)'
  <2>1. SameStream(q)
    <3>1. id'[q] = id[q]
      BY <1>1, FreshId
    <3> QED
      BY <1>2, <1>3, <3>1 DEF SameStream
  <2>2. SameReader(q)
    <3>1. q[1] \in Requests /\ q # Nil
      BY Named, NilAssumption
    <3> QED
      BY <1>2, <1>4, <3>1 DEF SameReader
  <2>3. On(q) => SameMaps(q)
    <3>1. On(q) => id[q] \in StreamIds \ {next_id}
      BY <1>1, FreshId, OwnId
    <3> QED
      BY <1>1, <3>1, FreshId DEF SameMaps
  <2>4. Cuts
    BY <1>2 DEF Cuts, contextVars
  <2> QED
    BY <1>1, <2>1, <2>2, <2>3, <2>4, FlowStays DEF Flows
<1>10. Flow(p)' /\ Own(p)'
  <2>1. queue'[p] = <<>> /\ made'[p] = [chunks |-> 0, whole |-> FALSE]
    BY <1>1, <1>2 DEF New
  <2>2. DOMAIN queue'[p] = {} /\ Len(queue'[p]) = 0 /\ made'[p].chunks = 0 /\ made'[p].whole = FALSE /\ 0 + 0 = 0
    BY SMT, <2>1
  <2>3. Took(p)' = 0
    <3>1. got[p[1]] = <<>> \/ answer'[p[1]] # p
      BY <1>1, <1>4, <1>5 DEF Answers, Answered
    <3>2. p[2] = "upload" => read[p[1]] = <<>>
      BY <1>1 DEF New
    <3>3. Len(<<>>) = 0
      BY SMT
    <3> QED
      BY <1>2, <3>1, <3>2, <3>3 DEF Took
  <2>4. Carries(p, 0, queue'[p], Due(p)')
    BY <2>2 DEF Carries
  <2>5. at \in {"recv", "read"}
    BY DEF Starts
  <2>6. Continues(p, 0, queue'[p], Due(p)', at, item'[p].what)
    BY <2>2, <2>5, Dues DEF Continues, NoEnd
  <2>7. Linked(p)'
    <3>1. senders'[id'[p]] = p /\ receivers'[id'[p]] = p
      BY <1>1, FreshId
    <3> QED
      BY <3>1 DEF Linked
  <2>8. Own(p)'
    BY <1>3, <2>2, <2>5 DEF Own
  <2> QED
    BY <1>3, <2>3, <2>4, <2>6, <2>7, <2>8 DEF Flow
<1>11. Delivered'
  <2> SUFFICES ASSUME NEW r \in Requests
               PROVE  /\ GuestHas(Upload(r), read[r], made[Upload(r)], reading[r])'
                      /\ (answer[r] # Nil /\ r \notin aborted \cup failed)' =>
                            /\ ClientHas(answer[r], got[r])'
                            /\ (client[r] = "ended" => (made[answer[r]].whole \/ Cut(answer[r])) /\ Len(got[r]) = made[answer[r]].chunks)'
    BY DEF Delivered, DeliveredTo
  <2>1. GuestHas(Upload(r), read[r], made[Upload(r)], reading[r])'
    <3>1. GuestHas(Upload(r), read[r], made[Upload(r)], reading[r])
      BY <1>1 DEF Delivered, DeliveredTo
    <3> QED
      BY <1>2, <3>1 DEF GuestHas
  <2>2. CASE answer'[r] = answer[r]
    <3>1. (answer[r] # Nil /\ r \notin aborted \cup failed) =>
             /\ ClientHas(answer[r], got[r])
             /\ client[r] = "ended" => (made[answer[r]].whole \/ Cut(answer[r])) /\ Len(got[r]) = made[answer[r]].chunks
      BY <1>1 DEF Delivered, DeliveredTo
    <3>2. aborted' = aborted /\ failed' = failed /\ (Cut(answer[r])' <=> Cut(answer[r]))
      BY <1>2, <2>2 DEF contextVars, Cut
    <3> QED
      BY <1>2, <2>1, <2>2, <3>1, <3>2 DEF ClientHas
  <2>3. CASE answer'[r] # answer[r]
    <3>1. got'[r] = <<>> /\ client'[r] = "reading"
      BY <1>1, <1>2, <1>4, <2>3 DEF Answers, Answered
    <3>2. DOMAIN <<>> = {}
      BY SMT
    <3> QED
      BY <2>1, <3>1, <3>2 DEF ClientHas
  <2> QED
    BY <2>2, <2>3
<1> QED
  BY <1>3, <1>8, <1>9, <1>10, <1>11 DEF Inv, Flows

\* The request starts a stream of its own.
LEMMA StartStepsKeep ==
    ASSUME Inv, NEW r \in Requests, request = 1, StartUpload(r) \/ StartFetch(r) \/ StartGuest(r)
    PROVE  Inv'
<1>1. CASE StartUpload(r)
  <2>1. <<r, "upload">> \in Producers /\ <<r, "upload">>[1] = r /\ <<r, "upload">>[2] = "upload"
    BY UploadOf DEF Upload
  <2>2. Starts(<<r, "upload">>, "recv")
    BY <1>1, <2>1 DEF StartUpload, Serving, Starts, clientVars
  <2> QED
    BY <2>1, <2>2, StartsKeeps
<1>2. CASE StartFetch(r)
  <2>1. <<r, "fetch">> \in Producers /\ <<r, "fetch">>[1] = r /\ <<r, "fetch">>[2] = "fetch"
    <3>1. "fetch" \in Kinds
      BY DEF Kinds
    <3> QED
      BY <3>1, Names
  <2>2. Starts(<<r, "fetch">>, "recv")
    BY <1>2, <2>1 DEF StartFetch, Serving, Starts, clientVars
  <2> QED
    BY <2>1, <2>2, StartsKeeps
<1>3. CASE StartGuest(r)
  <2>1. <<r, "guest">> \in Producers /\ <<r, "guest">>[1] = r /\ <<r, "guest">>[2] = "guest"
    BY GuestOf
  <2>2. Starts(<<r, "guest">>, "read")
    BY <1>3, <2>1 DEF StartGuest, Serving, Starts
  <2> QED
    BY <2>1, <2>2, StartsKeeps
<1> QED
  BY <1>1, <1>2, <1>3

-----------------------------------------------------------------------------
(* Steps of a reader *)

\* A step of a reader of p touches no other stream and no other request, and no
\* producer. It may put the receiver of p back where it was.
ReaderMoves(p) ==
    /\ UNCHANGED <<contextVars, next_id, writeVars>>
    /\ On(p) \/ (senders' = senders /\ receivers' = receivers)
    /\ \A i \in StreamIds : /\ senders'[i] = senders[i] \/ (i = id[p] /\ senders'[i] = Nil)
                            /\ receivers'[i] = receivers[i] \/ (i = id[p] /\ receivers'[i] \in {p, Nil})
    /\ \A q \in Producers \ {p} : queue'[q] = queue[q] /\ SameReader(q)
    /\ \A r \in Requests \ {p[1]} :
          /\ answer'[r] = answer[r] /\ forward'[r] = forward[r] /\ rx'[r] = rx[r] /\ got'[r] = got[r]
          /\ client'[r] = client[r] /\ reading'[r] = reading[r] /\ read'[r] = read[r]

\* It keeps the invariant if it keeps what the invariant says of p and its request.
LEMMA ReaderKeeps ==
    ASSUME Inv, NEW p \in Producers, ReaderMoves(p), Types', ~On(p) => New(p)', Answered(p[1])',
           Flow(p)', Own(p)', DeliveredTo(p[1])'
    PROVE  Inv'
<1>1. UNCHANGED <<stage, scope, aborted, failed, next_id, pc, id, tx, item, made>>
  BY DEF ReaderMoves, contextVars, writeVars
<1>2. Types /\ Wired /\ Answers /\ Flows /\ Delivered /\ p[1] \in Requests
  BY Named DEF Inv
<1>3. \A q \in Producers : On(q)' <=> On(q)
  BY <1>1 DEF On
<1>4. Wired'
  <2>1. (scope = 1)'
    BY <1>1, <1>2 DEF Wired
  <2>2. (\A q \in Producers : On(q) => q[1] = 1 /\ id[q] \in 1..(next_id - 1))'
    BY <1>1, <1>2, <1>3 DEF Wired
  <2>3. (\A o, q \in Producers : On(o) /\ On(q) /\ id[o] = id[q] => o = q)'
    BY <1>1, <1>2, <1>3 DEF Wired
  <2>4. ASSUME NEW i \in StreamIds, senders'[i] # Nil PROVE On(senders[i])' /\ id'[senders'[i]] = i
    <3>1. senders'[i] = senders[i]
      BY <2>4 DEF ReaderMoves
    <3>2. On(senders[i]) /\ id[senders[i]] = i
      BY <1>2, <2>4, <3>1 DEF Wired
    <3> QED
      BY <1>1, <3>1, <3>2 DEF On
  <2>5. ASSUME NEW i \in StreamIds, receivers'[i] # Nil PROVE On(receivers[i])' /\ id'[receivers'[i]] = i
    <3>1. CASE receivers'[i] = receivers[i]
      <4>1. On(receivers[i]) /\ id[receivers[i]] = i
        BY <1>2, <2>5, <3>1 DEF Wired
      <4> QED
        BY <1>1, <3>1, <4>1 DEF On
    <3>2. CASE receivers'[i] # receivers[i]
      <4>1. receivers'[i] = p /\ i = id[p] /\ On(p)
        BY <2>5, <3>2 DEF ReaderMoves
      <4> QED
        BY <1>1, <4>1 DEF On
    <3> QED
      BY <3>1, <3>2
  <2>6. (\A q \in Producers : pc[q] = "send" => tx[q] = q)'
    BY <1>1, <1>2 DEF Wired
  <2> QED
    BY <2>1, <2>2, <2>3, <2>4, <2>5, <2>6 DEF Wired
<1>5. Answers'
  <2>1. ASSUME NEW q \in Producers, ~On(q)' PROVE New(q)'
    <3>1. CASE q = p
      BY <1>3, <2>1, <3>1
    <3>2. CASE q # p
      <4>1. New(q) /\ queue'[q] = queue[q] /\ SameReader(q)
        BY <1>2, <1>3, <2>1, <3>2 DEF Answers, ReaderMoves
      <4> QED
        BY <1>1, <4>1 DEF New, SameReader
    <3> QED
      BY <3>1, <3>2
  <2>2. ASSUME NEW r \in Requests PROVE Answered(r)'
    <3>1. CASE r = p[1]
      BY <3>1
    <3>2. CASE r # p[1]
      <4>1. Answered(r)
        BY <1>2 DEF Answers
      <4>2. /\ answer'[r] = answer[r] /\ forward'[r] = forward[r] /\ rx'[r] = rx[r] /\ got'[r] = got[r]
            /\ client'[r] = client[r] /\ reading'[r] = reading[r] /\ read'[r] = read[r]
        BY <3>2 DEF ReaderMoves
      <4> QED
        BY <1>1, <4>1, <4>2 DEF Answered, On
    <3> QED
      BY <3>1, <3>2
  <2> QED
    BY <2>1, <2>2 DEF Answers
<1>6. Flows'
  <2>1. ASSUME NEW q \in Producers, q # p PROVE Flow(q)' /\ Own(q)'
    <3>1. SameStream(q) /\ SameReader(q) /\ Cuts
      BY <1>1, <2>1 DEF ReaderMoves, SameStream, Cuts
    <3>2. On(q) => SameMaps(q)
      <4>1. (On(q) /\ On(p)) => id[q] # id[p]
        BY <1>2, <2>1, OwnId
      <4>2. On(q) => id[q] \in StreamIds
        BY <1>2, OwnId
      <4> QED
        BY <4>1, <4>2 DEF ReaderMoves, SameMaps
    <3> QED
      BY <1>2, <3>1, <3>2, FlowStays DEF Flows
  <2> QED
    BY <2>1 DEF Flows
<1>7. Delivered'
  <2> SUFFICES ASSUME NEW r \in Requests PROVE DeliveredTo(r)'
    BY DEF Delivered
  <2>1. CASE r = p[1]
    BY <2>1
  <2>2. CASE r # p[1]
    <3>1. DeliveredTo(r)
      BY <1>2 DEF Delivered
    <3>2. /\ answer'[r] = answer[r] /\ got'[r] = got[r] /\ client'[r] = client[r]
          /\ reading'[r] = reading[r] /\ read'[r] = read[r]
      BY <2>2 DEF ReaderMoves
    <3>3. GuestHas(Upload(r), read[r], made[Upload(r)], reading[r])'
      BY <1>1, <3>1, <3>2 DEF DeliveredTo, GuestHas
    <3>4. (ClientHas(answer[r], got[r]) => ClientHas(answer[r], got[r])') /\ (Cut(answer[r])' <=> Cut(answer[r]))
      BY <1>1, <3>2 DEF ClientHas, Cut
    <3> QED
      BY <1>1, <3>1, <3>2, <3>3, <3>4 DEF DeliveredTo
  <2> QED
    BY <2>1, <2>2
<1> QED
  BY <1>4, <1>5, <1>6, <1>7 DEF Inv

\* A step of the forwarder or the client of r, whose response is p.
ForwardMoves(r, p) ==
    /\ UNCHANGED <<contextVars, next_id, writeVars, answer, guestVars>>
    /\ senders' \in {senders, [senders EXCEPT ![id[p]] = Nil]}
    /\ receivers' \in {receivers, [receivers EXCEPT ![id[p]] = Nil]}
    /\ queue' \in [Producers -> Seq(Items)] /\ \A q \in Producers \ {p} : queue'[q] = queue[q]
    /\ forward' \in [Requests -> {"off", "recv", "send", "over"}]
    /\ rx' \in [Requests -> Producers \cup {Nil}]
    /\ got' \in [Requests -> Seq(Items)]
    /\ client' \in [Requests -> {"reading", "left", "ended", "failed"}]
    /\ \A s \in Requests \ {r} :
          forward'[s] = forward[s] /\ rx'[s] = rx[s] /\ got'[s] = got[s] /\ client'[s] = client[s]

\* The types after it.
LEMMA ForwardTyped ==
    ASSUME Types, NEW r \in Requests, NEW p \in Producers, ForwardMoves(r, p), id[p] \in StreamIds
    PROVE  /\ Types'
           /\ \A j \in StreamIds : /\ senders'[j] = senders[j] \/ (j = id[p] /\ senders'[j] = Nil)
                                   /\ receivers'[j] = receivers[j] \/ (j = id[p] /\ receivers'[j] = Nil)
<1>1. UNCHANGED <<aborted, failed, next_id, pc, id, tx, item, made, answer, reading, read>>
  BY DEF ForwardMoves, contextVars, writeVars, guestVars
<1>2. /\ senders' \in [StreamIds -> Producers \cup {Nil}]
      /\ receivers' \in [StreamIds -> Producers \cup {Nil}]
      /\ \A j \in StreamIds : /\ senders'[j] = senders[j] \/ (j = id[p] /\ senders'[j] = Nil)
                              /\ receivers'[j] = receivers[j] \/ (j = id[p] /\ receivers'[j] = Nil)
  BY Removed DEF ForwardMoves
<1>3. /\ queue' \in [Producers -> Seq(Items)]
      /\ forward' \in [Requests -> {"off", "recv", "send", "over"}]
      /\ rx' \in [Requests -> Producers \cup {Nil}]
      /\ got' \in [Requests -> Seq(Items)]
      /\ client' \in [Requests -> {"reading", "left", "ended", "failed"}]
  BY DEF ForwardMoves
<1>4. Types'
  BY <1>1, <1>2, <1>3 DEF Types
<1> QED
  BY <1>2, <1>4

\* It keeps the invariant if the client has the body so far, and all of it at a clean
\* end, and the channel goes on from there.
LEMMA ForwardKeeps ==
    ASSUME Inv, NEW r \in Requests, NEW p \in Producers, answer[r] = p, ForwardMoves(r, p),
           \A k \in DOMAIN queue'[p] : queue'[p][k].from = p,
           forward'[r] # "off", forward'[r] \in {"recv", "send"} => rx'[r] = p,
           forward'[r] = "over" => client'[r] # "reading", client'[r] = "reading" => client[r] = "reading",
           (client'[r] = "reading" /\ r \notin aborted \cup failed) =>
               /\ senders' = senders
               /\ Carries(p, Len(got'[r]), queue'[p], Due(p))
               /\ Continues(p, Len(got'[r]), queue'[p], Due(p), pc[p], item[p].what),
           r \notin aborted \cup failed =>
               /\ ClientHas(p, got'[r])
               /\ client'[r] = "ended" => (made[p].whole \/ Cut(p)) /\ Len(got'[r]) = made[p].chunks
    PROVE  Inv'
<1>1. p # Nil /\ p[1] = r /\ On(p) /\ Types /\ Wired /\ Answered(r) /\ Flow(p) /\ Own(p) /\ DeliveredTo(r)
  <2>1. p # Nil /\ Types /\ Wired /\ Answered(r) /\ Flow(p) /\ Own(p) /\ DeliveredTo(r)
    BY NilAssumption DEF Inv, Answers, Flows, Delivered
  <2> QED
    BY <2>1 DEF Answered
<1>2. UNCHANGED <<stage, aborted, failed, next_id, pc, id, tx, item, made, answer, reading, read>>
  BY DEF ForwardMoves, contextVars, writeVars, guestVars
<1>3. id[p] \in StreamIds
  BY <1>1, OwnId
<1>4. /\ Types'
      /\ \A j \in StreamIds : /\ senders'[j] = senders[j] \/ (j = id[p] /\ senders'[j] = Nil)
                              /\ receivers'[j] = receivers[j] \/ (j = id[p] /\ receivers'[j] = Nil)
  BY <1>1, <1>3, ForwardTyped
<1>5. ReaderMoves(p)
  <2>1. ASSUME NEW q \in Producers \ {p} PROVE queue'[q] = queue[q] /\ SameReader(q)
    <3>1. queue'[q] = queue[q]
      BY DEF ForwardMoves
    <3>2. q[1] \in Requests
      BY Named
    <3>3. answer[q[1]] = q => q[1] # r
      OBVIOUS
    <3>4. \A s \in Requests \ {r} : forward'[s] = forward[s] /\ got'[s] = got[s] /\ client'[s] = client[s]
      BY DEF ForwardMoves
    <3> QED
      BY <1>2, <3>1, <3>2, <3>3, <3>4 DEF SameReader
  <2>2. UNCHANGED <<contextVars, next_id, writeVars>>
    BY DEF ForwardMoves
  <2>3. \A s \in Requests \ {r} :
           forward'[s] = forward[s] /\ rx'[s] = rx[s] /\ got'[s] = got[s] /\ client'[s] = client[s]
    BY DEF ForwardMoves
  <2>4. \A s \in Requests \ {p[1]} :
           /\ answer'[s] = answer[s] /\ forward'[s] = forward[s] /\ rx'[s] = rx[s] /\ got'[s] = got[s]
           /\ client'[s] = client[s] /\ reading'[s] = reading[s] /\ read'[s] = read[s]
    BY <1>1, <1>2, <2>3
  <2>5. \A j \in StreamIds : /\ senders'[j] = senders[j] \/ (j = id[p] /\ senders'[j] = Nil)
                             /\ receivers'[j] = receivers[j] \/ (j = id[p] /\ receivers'[j] \in {p, Nil})
    BY <1>4
  <2> QED
    BY <1>1, <2>1, <2>2, <2>4, <2>5 DEF ReaderMoves
<1>6. Answered(r)'
  BY <1>1, <1>2 DEF Answered, On
<1>7. Own(p)'
  BY <1>1, <1>2 DEF Own
<1>8. Flow(p)'
  <2>1. Took(p)' = Len(got'[r])
    BY <1>1, <1>2 DEF Took
  <2>2. Intact(p)' => client'[r] = "reading" /\ r \notin aborted \cup failed
    BY <1>1, <1>2 DEF Intact
  <2>3. ASSUME client'[r] = "reading", r \notin aborted \cup failed PROVE Linked(p)'
    <3>1. forward'[r] \in {"recv", "send"}
      <4>1. forward'[r] \in {"off", "recv", "send", "over"}
        BY <1>4 DEF Types
      <4> QED
        BY <2>3, <4>1
    <3>2. senders[id[p]] = p
      <4>1. Intact(p)
        BY <1>1, <2>3 DEF Intact
      <4> QED
        BY <1>1, <4>1 DEF Flow, Linked
    <3> QED
      BY <1>1, <1>2, <2>3, <3>1, <3>2 DEF Linked
  <2>4. Due(p)' = Due(p)
    BY <1>2, DueStays
  <2> QED
    BY <1>2, <2>1, <2>2, <2>3, <2>4 DEF Flow
<1>9. DeliveredTo(r)'
  <2>1. GuestHas(Upload(r), read[r], made[Upload(r)], reading[r])'
    BY <1>1, <1>2 DEF DeliveredTo, GuestHas
  <2>2. (ClientHas(p, got'[r]) => ClientHas(answer[r], got[r])') /\ (Cut(p) => Cut(answer[r])')
    BY <1>2 DEF ClientHas, Cut
  <2> QED
    BY <1>2, <2>1, <2>2 DEF DeliveredTo
<1> QED
  BY <1>1, <1>4, <1>5, <1>6, <1>7, <1>8, <1>9, ReaderKeeps

\* What is known of the response of r.
LEMMA Answering ==
    ASSUME Inv, NEW r \in Requests, answer[r] # Nil, NEW p, p = answer[r]
    PROVE  /\ p \in Producers /\ p[1] = r /\ On(p) /\ id[p] \in StreamIds /\ receivers[id[p]] \in {p, Nil}
           /\ \A k \in DOMAIN queue[p] : queue[p][k].from = p
           /\ forward[r] = "off" => client[r] = "reading" /\ got[r] = <<>>
           /\ forward[r] \in {"recv", "send"} => rx[r] = p
           /\ forward[r] = "over" => client[r] # "reading"
           /\ (client[r] = "reading" /\ r \notin aborted \cup failed) =>
                 /\ Linked(p)
                 /\ Carries(p, Len(got[r]), queue[p], Due(p))
                 /\ Continues(p, Len(got[r]), queue[p], Due(p), pc[p], item[p].what)
           /\ r \notin aborted \cup failed =>
                 /\ ClientHas(p, got[r])
                 /\ client[r] = "ended" => (made[p].whole \/ Cut(p)) /\ Len(got[r]) = made[p].chunks
<1>1. p \in Producers /\ Types /\ Wired /\ Answered(r) /\ DeliveredTo(r)
  BY DEF Inv, Types, Answers, Delivered
<1>2. p[1] = r /\ On(p)
  BY <1>1 DEF Answered
<1>3. Flow(p) /\ Own(p)
  BY <1>1 DEF Inv, Flows
<1>4. id[p] \in StreamIds /\ receivers[id[p]] \in {p, Nil}
  BY <1>1, <1>2, OwnId
<1>5. Took(p) = Len(got[r])
  BY <1>2 DEF Took
<1>6. (client[r] = "reading" /\ r \notin aborted \cup failed) => Intact(p)
  BY <1>2 DEF Intact
<1>7. (client[r] = "reading" /\ r \notin aborted \cup failed) =>
         /\ Linked(p)
         /\ Carries(p, Len(got[r]), queue[p], Due(p))
         /\ Continues(p, Len(got[r]), queue[p], Due(p), pc[p], item[p].what)
  BY <1>2, <1>3, <1>5, <1>6 DEF Flow
<1>8. \A k \in DOMAIN queue[p] : queue[p][k].from = p
  BY <1>3 DEF Own
<1>9. r \notin aborted \cup failed =>
         /\ ClientHas(p, got[r])
         /\ client[r] = "ended" => (made[p].whole \/ Cut(p)) /\ Len(got[r]) = made[p].chunks
  BY <1>1 DEF DeliveredTo
<1>10. /\ forward[r] = "off" => client[r] = "reading" /\ got[r] = <<>>
       /\ forward[r] \in {"recv", "send"} => rx[r] = p
       /\ forward[r] = "over" => client[r] # "reading"
  BY <1>1 DEF Answered
<1> QED
  BY <1>1, <1>2, <1>4, <1>7, <1>8, <1>9, <1>10

\* The types of the variables of the clients and the channels.
LEMMA ClientTypes ==
    ASSUME Inv
    PROVE  /\ queue \in [Producers -> Seq(Items)]
           /\ forward \in [Requests -> {"off", "recv", "send", "over"}]
           /\ rx \in [Requests -> Producers \cup {Nil}]
           /\ got \in [Requests -> Seq(Items)]
           /\ client \in [Requests -> {"reading", "left", "ended", "failed"}]
  BY DEF Inv, Types

\* A step in which the client gets nothing, and sees no clean end.
LEMMA ForwardStays ==
    ASSUME Inv, NEW r \in Requests, answer[r] # Nil,
           UNCHANGED <<contextVars, next_id, writeVars, answer, guestVars, queue, got>>,
           senders' \in {senders, [senders EXCEPT ![id[answer[r]]] = Nil]},
           receivers' \in {receivers, [receivers EXCEPT ![id[answer[r]]] = Nil]},
           NEW f \in {"recv", "send", "over"}, forward' = [forward EXCEPT ![r] = f],
           NEW x \in Producers \cup {Nil}, rx' = [rx EXCEPT ![r] = x],
           NEW c \in {"reading", "left", "ended", "failed"}, client' = [client EXCEPT ![r] = c],
           f \in {"recv", "send"} => x = answer[r],
           f = "over" => c # "reading", c = "reading" => client[r] = "reading" /\ senders' = senders,
           r \notin aborted \cup failed => c # "ended" \/ client[r] = "ended"
    PROVE  Inv'
<1> DEFINE p == answer[r]
<1>1. /\ p \in Producers /\ \A k \in DOMAIN queue[p] : queue[p][k].from = p
      /\ (client[r] = "reading" /\ r \notin aborted \cup failed) =>
            /\ Carries(p, Len(got[r]), queue[p], Due(p))
            /\ Continues(p, Len(got[r]), queue[p], Due(p), pc[p], item[p].what)
      /\ r \notin aborted \cup failed =>
            /\ ClientHas(p, got[r])
            /\ client[r] = "ended" => (made[p].whole \/ Cut(p)) /\ Len(got[r]) = made[p].chunks
  BY Answering
<1>2. /\ forward' \in [Requests -> {"off", "recv", "send", "over"}] /\ forward'[r] = f
      /\ \A s \in Requests \ {r} : forward'[s] = forward[s]
  BY ClientTypes
<1>3. rx' \in [Requests -> Producers \cup {Nil}] /\ rx'[r] = x /\ \A s \in Requests \ {r} : rx'[s] = rx[s]
  BY ClientTypes
<1>4. /\ client' \in [Requests -> {"reading", "left", "ended", "failed"}] /\ client'[r] = c
      /\ \A s \in Requests \ {r} : client'[s] = client[s]
  BY ClientTypes
<1>5. queue' = queue /\ queue' \in [Producers -> Seq(Items)] /\ got' = got /\ got' \in [Requests -> Seq(Items)]
  BY ClientTypes
<1>6. UNCHANGED <<contextVars, next_id, writeVars, answer, guestVars>>
  OBVIOUS
<1>7. /\ senders' \in {senders, [senders EXCEPT ![id[p]] = Nil]}
      /\ receivers' \in {receivers, [receivers EXCEPT ![id[p]] = Nil]}
  OBVIOUS
<1>8. forward'[r] # "off" /\ (forward'[r] \in {"recv", "send"} => rx'[r] = p) /\ (forward'[r] = "over" => client'[r] # "reading")
  BY <1>2, <1>3, <1>4
<1>9. /\ client'[r] = "reading" => client[r] = "reading" /\ senders' = senders
      /\ r \notin aborted \cup failed => client'[r] # "ended" \/ client[r] = "ended"
  BY <1>4
<1> HIDE DEF p
<1>10. ForwardMoves(r, p)
  BY <1>2, <1>3, <1>4, <1>5, <1>6, <1>7 DEF ForwardMoves
<1>11. answer[r] = p
  BY DEF p
<1>12. (client'[r] = "reading" /\ r \notin aborted \cup failed) =>
          /\ senders' = senders
          /\ Carries(p, Len(got'[r]), queue'[p], Due(p))
          /\ Continues(p, Len(got'[r]), queue'[p], Due(p), pc[p], item[p].what)
  BY <1>1, <1>5, <1>9
<1>13. r \notin aborted \cup failed =>
          /\ ClientHas(p, got'[r])
          /\ client'[r] = "ended" => (made[p].whole \/ Cut(p)) /\ Len(got'[r]) = made[p].chunks
  BY <1>1, <1>5, <1>9
<1>14. p \in Producers /\ \A k \in DOMAIN queue'[p] : queue'[p][k].from = p
  BY <1>1, <1>5
<1> QED
  BY <1>8, <1>9, <1>10, <1>11, <1>12, <1>13, <1>14, ForwardKeeps

\* A variable that stays the same, as one that changes at r to what it was.
LEMMA SameAt ==
    ASSUME NEW S, NEW T, NEW f \in [S -> T], NEW r \in S
    PROVE  f = [f EXCEPT ![r] = f[r]] /\ f[r] \in T
  OBVIOUS

\* read_response_object takes the receiver of the response.
LEMMA ReadResponseKeeps ==
    ASSUME Inv, NEW r \in Requests, ReadResponse(r)
    PROVE  Inv'
<1> DEFINE p == answer[r]
<1>1. /\ p # Nil /\ forward[r] = "off"
      /\ UNCHANGED <<contextVars, next_id, writeVars, answer, guestVars, queue, got>> /\ senders' = senders
  BY DEF ReadResponse
<1>2. /\ p \in Producers /\ p[1] = r /\ receivers[id[p]] \in {p, Nil} /\ client[r] = "reading"
      /\ r \notin aborted \cup failed => Linked(p)
  <2>1. /\ p \in Producers /\ p[1] = r /\ receivers[id[p]] \in {p, Nil}
        /\ forward[r] = "off" => client[r] = "reading"
        /\ (client[r] = "reading" /\ r \notin aborted \cup failed) => Linked(p)
    BY <1>1, Answering
  <2> QED
    BY <1>1, <2>1
<1>3. CASE receivers[id[p]] = Nil
  <2>1. /\ forward' = [forward EXCEPT ![r] = "over"] /\ client' = [client EXCEPT ![r] = "ended"]
        /\ receivers' = receivers /\ rx' = rx
    BY <1>3 DEF ReadResponse
  <2>2. rx' = [rx EXCEPT ![r] = rx[r]] /\ rx[r] \in Producers \cup {Nil}
    BY <2>1, ClientTypes, SameAt
  <2>3. r \in aborted \cup failed
    <3>1. p = Upload(r) => reading[r] = "off"
      BY <1>1 DEF Inv, Answers, Answered
    <3>2. p[2] = "upload" => p = Upload(r)
      BY <1>2, UploadOf
    <3>3. ~Linked(p)
      BY <1>1, <1>2, <1>3, <3>1, <3>2, NilAssumption DEF Linked
    <3> QED
      BY <1>2, <3>3
  <2> QED
    BY <1>1, <2>1, <2>2, <2>3, ForwardStays
<1>4. CASE receivers[id[p]] # Nil
  <2>1. /\ forward' = [forward EXCEPT ![r] = "recv"] /\ rx' = [rx EXCEPT ![r] = p]
        /\ receivers' = [receivers EXCEPT ![id[p]] = Nil] /\ client' = client
    BY <1>2, <1>4 DEF ReadResponse
  <2>2. client' = [client EXCEPT ![r] = client[r]]
    BY <2>1, ClientTypes, SameAt
  <2> QED
    BY <1>1, <1>2, <2>1, <2>2, ForwardStays
<1> QED
  BY <1>3, <1>4

\* The forwarder ends without a word from the stream, passes a chunk on, or finds the
\* client gone, and the client leaves.
LEMMA ForwardStepsKeep ==
    ASSUME Inv, NEW r \in Requests,
           ForwardFindsNone(r) \/ ForwardSends(r) \/ ForwardClosed(r) \/ ClientLeaves(r)
    PROVE  Inv'
<1>1. forward[r] \in {"recv", "send"}
  BY DEF ForwardFindsNone, ForwardSends, ForwardClosed, ClientLeaves
<1>2. answer[r] # Nil
  BY <1>1 DEF Inv, Answers, Answered
<1>3. /\ answer[r] \in Producers /\ rx[r] = answer[r] /\ id[answer[r]] \in StreamIds
      /\ (client[r] = "reading" /\ r \notin aborted \cup failed) => Linked(answer[r])
  <2>1. /\ answer[r] \in Producers /\ id[answer[r]] \in StreamIds
        /\ forward[r] \in {"recv", "send"} => rx[r] = answer[r]
        /\ (client[r] = "reading" /\ r \notin aborted \cup failed) => Linked(answer[r])
    BY <1>2, Answering
  <2> QED
    BY <1>1, <2>1
<1>4. client[r] \in {"reading", "left", "ended", "failed"} /\ client = [client EXCEPT ![r] = client[r]]
  BY ClientTypes, SameAt
<1>5. rx = [rx EXCEPT ![r] = rx[r]]
  BY ClientTypes, SameAt
<1>6. CASE ForwardFindsNone(r)
  <2>1. /\ UNCHANGED <<contextVars, next_id, writeVars, answer, guestVars, queue, got>>
        /\ senders' = senders /\ receivers' = receivers
        /\ forward' = [forward EXCEPT ![r] = "over"] /\ rx' = [rx EXCEPT ![r] = Nil]
        /\ client' = [client EXCEPT ![r] = IF @ = "reading" THEN "ended" ELSE @]
    BY <1>6 DEF ForwardFindsNone, ForwardOver, ForwardTo, mapVars
  <2>2. ~(client[r] = "reading" /\ r \notin aborted \cup failed)
    <3>1. ~Fed(answer[r])
      BY <1>3, <1>6 DEF ForwardFindsNone
    <3> QED
      BY <1>3, <3>1 DEF Linked, Fed
  <2>3. CASE client[r] = "reading"
    <3>1. client' = [client EXCEPT ![r] = "ended"]
      BY <2>1, <2>3
    <3> QED
      BY <1>2, <2>1, <2>2, <2>3, <3>1, ForwardStays
  <2>4. CASE client[r] # "reading"
    <3>1. client' = [client EXCEPT ![r] = client[r]]
      BY <2>1, <2>4
    <3> QED
      BY <1>2, <1>4, <2>1, <2>4, <3>1, ForwardStays
  <2> QED
    BY <2>3, <2>4
<1>7. CASE ForwardSends(r)
  <2>1. /\ UNCHANGED <<contextVars, next_id, writeVars, answer, guestVars, queue, got>>
        /\ senders' = senders /\ receivers' = receivers /\ rx' = rx /\ client' = client
        /\ forward' = [forward EXCEPT ![r] = "recv"] /\ client[r] = "reading"
    BY <1>7 DEF ForwardSends, ForwardTo, mapVars
  <2>2. rx' = [rx EXCEPT ![r] = answer[r]] /\ client' = [client EXCEPT ![r] = "reading"]
    BY <1>3, <1>4, <1>5, <2>1
  <2> QED
    BY <1>2, <1>3, <2>1, <2>2, ForwardStays
<1>8. CASE ForwardClosed(r)
  <2>1. /\ UNCHANGED <<contextVars, next_id, writeVars, answer, guestVars, queue, got>>
        /\ senders' = [senders EXCEPT ![id[answer[r]]] = Nil] /\ receivers' = [receivers EXCEPT ![id[answer[r]]] = Nil]
        /\ forward' = [forward EXCEPT ![r] = "over"] /\ rx' = [rx EXCEPT ![r] = Nil] /\ client[r] = "left"
        /\ client' = [client EXCEPT ![r] = IF @ = "reading" THEN "left" ELSE @]
    BY <1>8 DEF ForwardClosed, ForwardOver, ForwardTo, close_stream
  <2>2. client' = [client EXCEPT ![r] = "left"]
    BY <2>1
  <2> QED
    BY <1>2, <2>1, <2>2, ForwardStays
<1>9. CASE ClientLeaves(r)
  <2>1. /\ UNCHANGED <<contextVars, next_id, writeVars, answer, guestVars, queue, got>>
        /\ senders' = senders /\ receivers' = receivers /\ rx' = rx /\ forward' = forward
        /\ client' = [client EXCEPT ![r] = "left"]
    BY <1>9 DEF ClientLeaves, mapVars
  <2>2. rx' = [rx EXCEPT ![r] = answer[r]]
    BY <1>3, <1>5, <2>1
  <2>3. forward' = [forward EXCEPT ![r] = forward[r]] /\ forward[r] \in {"recv", "send", "over"}
    BY <1>1, <2>1, ClientTypes, SameAt
  <2> QED
    BY <1>1, <1>2, <1>3, <2>1, <2>2, <2>3, ForwardStays
<1> QED
  BY <1>6, <1>7, <1>8, <1>9

\* A client that has the body so far has more of it after the next chunk.
LEMMA ClientGets ==
    ASSUME NEW p, NEW g \in Seq(Items), NEW it \in Items, ClientHas(p, g), it = [from |-> p, what |-> Len(g) + 1]
    PROVE  ClientHas(p, Append(g, it)) /\ Append(g, it) \in Seq(Items) /\ Len(Append(g, it)) = Len(g) + 1
<1>1. /\ Append(g, it) \in Seq(Items) /\ Len(Append(g, it)) = Len(g) + 1
      /\ \A k \in DOMAIN Append(g, it) : (k = Len(g) + 1 /\ Append(g, it)[k] = it)
                                          \/ (k \in DOMAIN g /\ Append(g, it)[k] = g[k])
  BY SMT
<1> QED
  BY <1>1 DEF ClientHas

\* A channel after its first item is taken.
LEMMA TailTyped ==
    ASSUME NEW p, NEW q \in Seq(Items), q # <<>>, \A k \in DOMAIN q : q[k].from = p
    PROVE  /\ Head(q) \in Items /\ Tail(q) \in Seq(Items) /\ Head(q).from = p
           /\ \A k \in DOMAIN Tail(q) : Tail(q)[k].from = p
<1>1. /\ Head(q) \in Items /\ Tail(q) \in Seq(Items) /\ 1 \in DOMAIN q /\ Head(q) = q[1]
      /\ \A k \in DOMAIN Tail(q) : k + 1 \in DOMAIN q /\ Tail(q)[k] = q[k + 1]
  BY SMT
<1> QED
  BY <1>1

\* The forwarder takes what the channel holds next.
LEMMA ForwardReceivesKeeps ==
    ASSUME Inv, NEW r \in Requests, ForwardReceives(r)
    PROVE  Inv'
<1> DEFINE p == answer[r]
           it == Head(queue[p])
           cut == r \in aborted \cup failed
<1>1. forward[r] = "recv"
  BY DEF ForwardReceives
<1>2. p # Nil
  BY <1>1 DEF Inv, Answers, Answered
<1>3. /\ p \in Producers /\ \A k \in DOMAIN queue[p] : queue[p][k].from = p
      /\ forward[r] \in {"recv", "send"} => rx[r] = p
      /\ (client[r] = "reading" /\ r \notin aborted \cup failed) =>
            /\ Carries(p, Len(got[r]), queue[p], Due(p))
            /\ Continues(p, Len(got[r]), queue[p], Due(p), pc[p], item[p].what)
      /\ r \notin aborted \cup failed =>
            /\ ClientHas(p, got[r])
            /\ client[r] = "ended" => (made[p].whole \/ Cut(p)) /\ Len(got[r]) = made[p].chunks
  <2>1. answer[r] # Nil /\ answer[r] = p
    BY <1>2
  <2> HIDE DEF p
  <2>2. p \in Producers /\ \A k \in DOMAIN queue[p] : queue[p][k].from = p
    BY <2>1, Answering
  <2>3. forward[r] \in {"recv", "send"} => rx[r] = p
    BY <2>1, Answering
  <2>4. (client[r] = "reading" /\ r \notin aborted \cup failed) =>
            /\ Carries(p, Len(got[r]), queue[p], Due(p))
            /\ Continues(p, Len(got[r]), queue[p], Due(p), pc[p], item[p].what)
    BY <2>1, Answering
  <2>5. r \notin aborted \cup failed =>
            /\ ClientHas(p, got[r])
            /\ client[r] = "ended" => (made[p].whole \/ Cut(p)) /\ Len(got[r]) = made[p].chunks
    <3>1. DeliveredTo(r)
      BY DEF Inv, Delivered
    <3> QED
      BY <2>1, <3>1 DEF DeliveredTo
  <2> QED
    BY <2>2, <2>3, <2>4, <2>5
<1>4. /\ queue[p] \in Seq(Items) /\ got[r] \in Seq(Items) /\ Len(got[r]) \in Nat
      /\ client[r] \in {"reading", "left", "ended", "failed"}
  <2>1. queue[p] \in Seq(Items) /\ got[r] \in Seq(Items) /\ client[r] \in {"reading", "left", "ended", "failed"}
    BY <1>3, ClientTypes
  <2> QED
    BY SMT, <2>1
<1>5. /\ queue[p] # <<>> /\ queue' = [queue EXCEPT ![p] = Tail(@)]
      /\ UNCHANGED <<contextVars, next_id, writeVars, answer, guestVars>> /\ senders' = senders /\ receivers' = receivers
      /\ IF it.what \in Ends
         THEN ForwardOver(r, IF it.what = Done THEN "ended" ELSE "failed") /\ got' = got
         ELSE /\ ForwardTo(r, "send") /\ rx' = rx /\ client' = client
              /\ got' = IF client[r] = "reading" THEN [got EXCEPT ![r] = Append(@, it)] ELSE got
  BY <1>1, <1>3 DEF ForwardReceives, mapVars
<1>6. /\ it \in Items /\ Tail(queue[p]) \in Seq(Items) /\ \A k \in DOMAIN Tail(queue[p]) : Tail(queue[p])[k].from = p
  <2>1. queue[p] \in Seq(Items) /\ queue[p] # <<>> /\ \A k \in DOMAIN queue[p] : queue[p][k].from = p
    BY <1>3, <1>4, <1>5
  <2> HIDE DEF p
  <2> QED
    BY <2>1, TailTyped
<1>7. /\ queue' \in [Producers -> Seq(Items)] /\ queue'[p] = Tail(queue[p])
      /\ \A q \in Producers \ {p} : queue'[q] = queue[q]
  BY <1>3, <1>5, <1>6, ClientTypes
<1>8. \A k \in DOMAIN queue'[p] : queue'[p][k].from = p
  BY <1>6, <1>7
<1> HIDE DEF p
<1>9. answer[r] = p
  BY DEF p
<1>10. CASE it.what \in Ends
  <2>1. /\ forward' = [forward EXCEPT ![r] = "over"] /\ rx' = [rx EXCEPT ![r] = Nil] /\ got' = got
        /\ client' = [client EXCEPT ![r] = IF @ = "reading" THEN (IF it.what = Done THEN "ended" ELSE "failed") ELSE @]
    BY <1>5, <1>10 DEF ForwardOver, ForwardTo
  <2> DEFINE c == IF client[r] = "reading" THEN (IF it.what = Done THEN "ended" ELSE "failed") ELSE client[r]
  <2>2. c \in {"reading", "left", "ended", "failed"} /\ c # "reading"
    BY <1>4
  <2>3. client' = [client EXCEPT ![r] = c]
    BY <2>1
  <2>4. ~cut /\ c = "ended" => (made[p].whole \/ Cut(p)) /\ Len(got[r]) = made[p].chunks
    <3>1. CASE client[r] = "reading" /\ it.what = Done /\ ~cut
      <4>1. (made[p].whole \/ Cut(p)) /\ Len(got[r]) + 1 = made[p].chunks + 1
        <5>1. /\ queue[p] \in Seq(Items) /\ Len(got[r]) \in Nat /\ queue[p] # <<>>
              /\ Carries(p, Len(got[r]), queue[p], Due(p)) /\ Head(queue[p]).what = Done
          BY <1>3, <1>4, <1>5, <3>1
        <5>2. Due(p).whole /\ Len(got[r]) + 1 = Due(p).chunks + 1
          BY <5>1, CarriesDone
        <5> QED
          BY <5>2, Dues
      <4>2. made[p].chunks \in Nat
        <5>1. made[p] \in [chunks : 0..MaxChunks, whole : BOOLEAN]
          BY <1>3 DEF Inv, Types
        <5> QED
          BY SMT, <5>1, StreamsAssumption
      <4>3. Len(got[r]) = made[p].chunks
        BY SMT, <1>4, <4>1, <4>2
      <4> QED
        BY <4>1, <4>3
    <3>2. CASE client[r] # "reading"
      BY <1>3, <3>2
    <3> QED
      BY <3>1, <3>2
  <2> HIDE DEF c
  <2>5. /\ forward' \in [Requests -> {"off", "recv", "send", "over"}] /\ forward'[r] = "over"
        /\ rx' \in [Requests -> Producers \cup {Nil}] /\ got' \in [Requests -> Seq(Items)]
        /\ client' \in [Requests -> {"reading", "left", "ended", "failed"}] /\ client'[r] = c
        /\ \A s \in Requests \ {r} :
              forward'[s] = forward[s] /\ rx'[s] = rx[s] /\ got'[s] = got[s] /\ client'[s] = client[s]
    BY <2>1, <2>2, <2>3, ClientTypes
  <2>6. ForwardMoves(r, p)
    BY <1>5, <1>7, <2>5 DEF ForwardMoves
  <2>7. ~cut => /\ ClientHas(p, got'[r])
                /\ client'[r] = "ended" => (made[p].whole \/ Cut(p)) /\ Len(got'[r]) = made[p].chunks
    BY <1>3, <2>1, <2>4, <2>5
  <2> QED
    BY <1>3, <1>8, <1>9, <2>2, <2>5, <2>6, <2>7, ForwardKeeps
<1>11. CASE it.what \notin Ends
  <2>1. /\ forward' = [forward EXCEPT ![r] = "send"] /\ rx' = rx /\ client' = client
        /\ got' = IF client[r] = "reading" THEN [got EXCEPT ![r] = Append(@, it)] ELSE got
    BY <1>5, <1>11 DEF ForwardTo
  <2> DEFINE g == IF client[r] = "reading" THEN Append(got[r], it) ELSE got[r]
  <2>2. g \in Seq(Items)
    <3>1. Append(got[r], it) \in Seq(Items)
      BY SMT, <1>4, <1>6
    <3> QED
      BY <1>4, <3>1
  <2>3. got' = [got EXCEPT ![r] = g]
    <3>1. CASE client[r] = "reading"
      BY <2>1, <3>1
    <3>2. CASE client[r] # "reading"
      BY <2>1, <3>2, ClientTypes, SameAt
    <3> QED
      BY <3>1, <3>2
  <2>4. ~cut => ClientHas(p, g)
    <3>1. CASE client[r] = "reading" /\ ~cut
      <4>1. it = [from |-> p, what |-> Len(got[r]) + 1]
        BY <1>3, <1>4, <1>5, <1>11, <3>1, CarriesTail
      <4> QED
        BY <1>3, <1>4, <1>6, <3>1, <4>1, ClientGets
    <3>2. CASE client[r] # "reading"
      BY <1>3, <3>2
    <3> QED
      BY <3>1, <3>2
  <2>5. (client[r] = "reading" /\ ~cut) => /\ Carries(p, Len(g), Tail(queue[p]), Due(p))
                                           /\ Continues(p, Len(g), Tail(queue[p]), Due(p), pc[p], item[p].what)
    <3> SUFFICES ASSUME client[r] = "reading", ~cut
                 PROVE  /\ Carries(p, Len(g), Tail(queue[p]), Due(p))
                        /\ Continues(p, Len(g), Tail(queue[p]), Due(p), pc[p], item[p].what)
      OBVIOUS
    <3>1. Len(Append(got[r], it)) = Len(got[r]) + 1
      BY SMT, <1>4, <1>6
    <3>2. Carries(p, Len(got[r]) + 1, Tail(queue[p]), Due(p))
      BY <1>3, <1>4, <1>5, <1>11, CarriesTail
    <3>3. Continues(p, Len(got[r]) + 1, Tail(queue[p]), Due(p), pc[p], item[p].what)
      BY <1>3, <1>4, <1>5, <1>11, ContinuesTail
    <3> QED
      BY <3>1, <3>2, <3>3
  <2>6. client[r] = "ended" => g = got[r]
    OBVIOUS
  <2> HIDE DEF g
  <2>7. /\ forward' \in [Requests -> {"off", "recv", "send", "over"}] /\ forward'[r] = "send"
        /\ rx' \in [Requests -> Producers \cup {Nil}] /\ got' \in [Requests -> Seq(Items)] /\ got'[r] = g
        /\ client' \in [Requests -> {"reading", "left", "ended", "failed"}]
        /\ \A s \in Requests \ {r} :
              forward'[s] = forward[s] /\ rx'[s] = rx[s] /\ got'[s] = got[s] /\ client'[s] = client[s]
    BY <2>1, <2>2, <2>3, ClientTypes
  <2>8. ForwardMoves(r, p)
    BY <1>5, <1>7, <2>7 DEF ForwardMoves
  <2>9. rx'[r] = p /\ client'[r] = client[r]
    BY <1>1, <1>3, <2>1
  <2>10. ~cut => /\ ClientHas(p, got'[r])
                 /\ client'[r] = "ended" => (made[p].whole \/ Cut(p)) /\ Len(got'[r]) = made[p].chunks
    BY <1>3, <2>4, <2>6, <2>7, <2>9
  <2>11. (client'[r] = "reading" /\ ~cut) =>
            /\ Carries(p, Len(got'[r]), queue'[p], Due(p))
            /\ Continues(p, Len(got'[r]), queue'[p], Due(p), pc[p], item[p].what)
    BY <1>7, <2>5, <2>7, <2>9
  <2> QED
    BY <1>3, <1>5, <1>8, <1>9, <2>7, <2>8, <2>9, <2>10, <2>11, ForwardKeeps
<1> QED
  BY <1>10, <1>11

-----------------------------------------------------------------------------
(* The guest answers, and reads its upload *)

\* The guest answers with a fetch, or with an upload that nobody read.
LEMMA PassOnKeeps ==
    ASSUME Inv, NEW r \in Requests, PassOn(r)
    PROVE  Inv'
<1>1. /\ answer[r] = Nil /\ forward[r] = "off"
      /\ UNCHANGED <<contextVars, mapVars, queue, writeVars, forward, rx, got, client, guestVars>>
  BY DEF PassOn
<1>2. PICK p \in {<<r, "upload">>, <<r, "fetch">>} :
          /\ pc[p] # "off" /\ (p[2] = "upload" => reading[r] = "off" /\ read[r] = <<>>)
          /\ answer' = [answer EXCEPT ![r] = p]
  BY DEF PassOn
<1>3. p \in Producers /\ p[1] = r /\ p # Nil
  <2>1. "upload" \in Kinds /\ "fetch" \in Kinds
    BY DEF Kinds
  <2>2. /\ <<r, "upload">> \in Producers /\ <<r, "upload">>[1] = r
        /\ <<r, "fetch">> \in Producers /\ <<r, "fetch">>[1] = r
    BY <2>1, Names
  <2>3. p = <<r, "upload">> \/ p = <<r, "fetch">>
    BY <1>2
  <2>4. p \in Producers /\ p[1] = r
    BY <2>2, <2>3
  <2> QED
    BY <2>4, NilAssumption
<1>4. Types /\ Answered(r) /\ Flow(p) /\ Own(p) /\ DeliveredTo(r)
  BY <1>3 DEF Inv, Answers, Flows, Delivered
<1>5. /\ stage' = stage /\ scope' = scope /\ aborted' = aborted /\ failed' = failed
      /\ senders' = senders /\ receivers' = receivers /\ next_id' = next_id /\ queue' = queue
      /\ pc' = pc /\ id' = id /\ tx' = tx /\ item' = item /\ made' = made
      /\ forward' = forward /\ rx' = rx /\ got' = got /\ client' = client /\ reading' = reading /\ read' = read
  BY <1>1 DEF contextVars, mapVars, writeVars, guestVars
<1>6. got[r] = <<>> /\ client[r] = "reading"
  BY <1>1, <1>4 DEF Answered
<1>7. answer' \in [Requests -> Producers \cup {Nil}] /\ answer'[r] = p /\ \A s \in Requests \ {r} : answer'[s] = answer[s]
  BY <1>2, <1>3, <1>4 DEF Types
<1>8. Types'
  BY <1>4, <1>5, <1>7 DEF Types
<1>9. ReaderMoves(p)
  <2>1. ASSUME NEW q \in Producers, q # p PROVE SameReader(q)
    <3>1. q[1] \in Requests /\ q # Nil
      BY Named, NilAssumption
    <3> QED
      BY <1>1, <1>5, <1>7, <2>1, <3>1 DEF SameReader
  <2>2. On(p)
    BY <1>2 DEF On
  <2> QED
    BY <1>1, <1>3, <1>5, <1>7, <2>1, <2>2 DEF ReaderMoves
<1>10. Answered(r)'
  <2>1. p = Upload(r) => reading[r] = "off" /\ read[r] = <<>>
    BY <1>2, UploadOf
  <2> QED
    BY <1>1, <1>2, <1>3, <1>5, <1>6, <1>7, <2>1 DEF Answered, On
<1>11. Flow(p)'
  <2> SUFFICES ASSUME On(p)', Intact(p)'
               PROVE  (/\ Linked(p)
                       /\ Carries(p, Took(p), queue[p], Due(p))
                       /\ Continues(p, Took(p), queue[p], Due(p), pc[p], item[p].what))'
    BY DEF Flow
  <2>1. r \notin aborted \cup failed
    BY <1>3, <1>5, <1>7 DEF Intact
  <2>2. Intact(p) /\ On(p)
    BY <1>1, <1>2, <1>3, <2>1 DEF Intact, On
  <2>3. Took(p) = 0 /\ Took(p)' = 0
    <3>1. Len(<<>>) = 0
      BY SMT
    <3>2. Took(p) = 0
      BY <1>1, <1>2, <1>3, <3>1 DEF Took
    <3>3. Took(p)' = 0
      BY <1>3, <1>5, <1>6, <1>7, <3>1 DEF Took
    <3> QED
      BY <3>2, <3>3
  <2>4. /\ Linked(p) /\ Carries(p, 0, queue[p], Due(p))
        /\ Continues(p, 0, queue[p], Due(p), pc[p], item[p].what)
    BY <1>4, <2>2, <2>3 DEF Flow
  <2>5. senders[id[p]] = p /\ receivers[id[p]] = p
    BY <1>1, <1>2, <1>3, <2>4 DEF Linked
  <2>6. Linked(p)' /\ Due(p)' = Due(p)
    BY <1>5, <2>5, DueStays DEF Linked
  <2>7. Carries(p, Took(p)', queue'[p], Due(p)')
    BY <1>5, <2>3, <2>4, <2>6
  <2>8. Continues(p, Took(p)', queue'[p], Due(p)', pc'[p], item'[p].what)
    BY <1>5, <2>3, <2>4, <2>6
  <2> QED
    BY <2>6, <2>7, <2>8 DEF Carries, Continues
<1>12. Own(p)'
  BY <1>4, <1>5 DEF Own
<1>13. DeliveredTo(r)'
  <2>1. DOMAIN <<>> = {}
    BY SMT
  <2>2. ClientHas(p, got[r])
    BY <1>6, <2>1 DEF ClientHas
  <2>3. GuestHas(Upload(r), read[r], made[Upload(r)], reading[r])
    BY <1>4 DEF DeliveredTo
  <2> QED
    BY <1>5, <1>6, <1>7, <2>2, <2>3 DEF DeliveredTo
<1>14. On(p)
  BY <1>2 DEF On
<1> QED
  BY <1>3, <1>8, <1>9, <1>10, <1>11, <1>12, <1>13, <1>14, ReaderKeeps

\* A response without a stream.
LEMMA RespondInMemoryKeeps ==
    ASSUME Inv, NEW r \in Requests, RespondInMemory(r)
    PROVE  Inv'
<1> DEFINE p == Upload(r)
<1>1. /\ answer[r] = Nil /\ forward[r] = "off" /\ forward' = [forward EXCEPT ![r] = "over"]
      /\ UNCHANGED <<contextVars, mapVars, queue, writeVars, answer, rx, got, client, guestVars>>
  BY DEF RespondInMemory
<1>2. /\ stage' = stage /\ scope' = scope /\ aborted' = aborted /\ failed' = failed
      /\ senders' = senders /\ receivers' = receivers /\ next_id' = next_id /\ queue' = queue
      /\ pc' = pc /\ id' = id /\ tx' = tx /\ item' = item /\ made' = made
      /\ answer' = answer /\ rx' = rx /\ got' = got /\ client' = client /\ reading' = reading /\ read' = read
  BY <1>1 DEF contextVars, mapVars, writeVars, guestVars
<1>3. p \in Producers /\ p[1] = r /\ p # Nil
  BY UploadOf, NilAssumption
<1> HIDE DEF p
<1>4. Types /\ Answers /\ Answered(r) /\ Flow(p) /\ Own(p) /\ DeliveredTo(r)
  BY <1>3 DEF Inv, Answers, Flows, Delivered
<1>5. /\ forward' \in [Requests -> {"off", "recv", "send", "over"}] /\ forward'[r] = "over"
      /\ \A s \in Requests \ {r} : forward'[s] = forward[s]
  BY <1>1, <1>4 DEF Types
<1>6. Types'
  BY <1>2, <1>4, <1>5 DEF Types
<1>7. ReaderMoves(p)
  <2>1. ASSUME NEW q \in Producers PROVE SameReader(q)
    <3>1. q[1] \in Requests /\ q # Nil
      BY Named, NilAssumption
    <3> QED
      BY <1>1, <1>2, <1>5, <3>1 DEF SameReader
  <2> QED
    BY <1>1, <1>2, <1>3, <1>5, <2>1 DEF ReaderMoves
<1>8. ~On(p) => New(p)'
  BY <1>2, <1>3, <1>4 DEF Answers, New
<1>9. Answered(r)'
  BY <1>1, <1>2, <1>4, <1>5 DEF Answered
<1>10. Flow(p)'
  <2>1. Due(p)' = Due(p)
    BY <1>2, DueStays
  <2> QED
    BY <1>1, <1>2, <1>3, <1>4, <2>1 DEF Flow, On, Intact, Linked, Took
<1>11. Own(p)'
  BY <1>2, <1>4 DEF Own
<1>12. DeliveredTo(r)'
  BY <1>2, <1>4 DEF DeliveredTo, Cut
<1> QED
  BY <1>3, <1>6, <1>7, <1>8, <1>9, <1>10, <1>11, <1>12, ReaderKeeps


\* A step of a read of the upload of r, or of a cancellation of it, keeps the
\* invariant if the upload flows on and the guest has what it should.
LEMMA ReadKeeps ==
    ASSUME Inv, NEW r \in Requests, NEW p, p = Upload(r), On(p), answer[r] # p,
           UNCHANGED <<contextVars, next_id, writeVars, clientVars>>,
           senders' \in [StreamIds -> Producers \cup {Nil}], receivers' \in [StreamIds -> Producers \cup {Nil}],
           \A i \in StreamIds : /\ senders'[i] = senders[i] \/ (i = id[p] /\ senders'[i] = Nil)
                                /\ receivers'[i] = receivers[i] \/ (i = id[p] /\ receivers'[i] \in {p, Nil}),
           queue' \in [Producers -> Seq(Items)], \A q \in Producers \ {p} : queue'[q] = queue[q],
           \A k \in DOMAIN queue'[p] : queue'[p][k].from = p,
           reading' \in [Requests -> {"off", "recv", "drain", "over"}], read' \in [Requests -> Seq(Items)],
           \A s \in Requests \ {r} : reading'[s] = reading[s] /\ read'[s] = read[s],
           Flow(p)', GuestHas(p, read'[r], made[p], reading'[r])
    PROVE  Inv'
<1>1. /\ stage' = stage /\ scope' = scope /\ aborted' = aborted /\ failed' = failed /\ next_id' = next_id
      /\ pc' = pc /\ id' = id /\ tx' = tx /\ item' = item /\ made' = made
      /\ answer' = answer /\ forward' = forward /\ rx' = rx /\ got' = got /\ client' = client
  BY DEF contextVars, writeVars, clientVars
<1>2. p \in Producers /\ p[1] = r /\ p[2] = "upload" /\ \A q \in Producers : (q[1] = r /\ q[2] = "upload") => q = p
  BY UploadOf
<1>3. Types /\ Answered(r) /\ Own(p) /\ DeliveredTo(r)
  BY <1>2 DEF Inv, Answers, Flows, Delivered
<1>4. Types'
  BY <1>1, <1>3 DEF Types
<1>5. ReaderMoves(p)
  <2>1. ASSUME NEW q \in Producers, q # p PROVE SameReader(q)
    <3>1. q[1] \in Requests
      BY Named
    <3>2. q[2] = "upload" => q[1] # r
      BY <1>2, <2>1
    <3> QED
      BY <1>1, <3>1, <3>2 DEF SameReader
  <2> QED
    BY <1>1, <1>2, <2>1 DEF ReaderMoves
<1>6. Answered(r)'
  BY <1>1, <1>3 DEF Answered, On
<1>7. Own(p)'
  BY <1>1, <1>3 DEF Own
<1>8. DeliveredTo(r)'
  BY <1>1, <1>3 DEF DeliveredTo, Cut
<1> QED
  BY <1>2, <1>4, <1>5, <1>6, <1>7, <1>8, ReaderKeeps

\* The types of the variables of the maps and of the guest.
LEMMA GuestTypes ==
    ASSUME Inv
    PROVE  /\ senders \in [StreamIds -> Producers \cup {Nil}] /\ receivers \in [StreamIds -> Producers \cup {Nil}]
           /\ queue \in [Producers -> Seq(Items)]
           /\ reading \in [Requests -> {"off", "recv", "drain", "over"}] /\ read \in [Requests -> Seq(Items)]
  BY DEF Inv, Types

\* What is known of the upload of r when it is on, and is not the response of r.
LEMMA Uploading ==
    ASSUME Inv, NEW r \in Requests, NEW p, p = Upload(r), On(p)
    PROVE  /\ p \in Producers /\ p[1] = r /\ p[2] = "upload" /\ id[p] \in StreamIds
           /\ \A k \in DOMAIN queue[p] : queue[p][k].from = p
           /\ GuestHas(p, read[r], made[p], reading[r])
           /\ (answer[r] # p /\ reading[r] \in {"off", "recv"}) =>
                 /\ Linked(p)
                 /\ Carries(p, Len(read[r]), queue[p], Due(p))
                 /\ Continues(p, Len(read[r]), queue[p], Due(p), pc[p], item[p].what)
<1>1. p \in Producers /\ p[1] = r /\ p[2] = "upload"
  BY UploadOf
<1>2. id[p] \in StreamIds
  BY <1>1, OwnId DEF Inv
<1>3. Flow(p) /\ Own(p) /\ DeliveredTo(r)
  BY <1>1 DEF Inv, Flows, Delivered
<1>4. GuestHas(p, read[r], made[p], reading[r])
  BY <1>3 DEF DeliveredTo
<1>5. answer[r] # p => Took(p) = Len(read[r])
  BY <1>1 DEF Took
<1>6. (answer[r] # p /\ reading[r] \in {"off", "recv"}) => Intact(p)
  BY <1>1 DEF Intact
<1>7. (answer[r] # p /\ reading[r] \in {"off", "recv"}) =>
          /\ Linked(p)
          /\ Carries(p, Len(read[r]), queue[p], Due(p))
          /\ Continues(p, Len(read[r]), queue[p], Due(p), pc[p], item[p].what)
  BY <1>3, <1>5, <1>6 DEF Flow
<1>8. \A k \in DOMAIN queue[p] : queue[p][k].from = p
  BY <1>3 DEF Own
<1> QED
  BY <1>1, <1>2, <1>4, <1>7, <1>8

\* A read under way is one of an upload that is on, and is not the response.
LEMMA ReadIsOn ==
    ASSUME Inv, NEW r \in Requests, InRead(r)
    PROVE  On(Upload(r)) /\ answer[r] # Upload(r)
<1>1. reading[r] # "off"
  BY DEF InRead
<1>2. Answers /\ Upload(r) \in Producers /\ Upload(r)[1] = r /\ Upload(r)[2] = "upload" /\ Upload(r) # Nil
  BY UploadOf, NilAssumption DEF Inv
<1>3. On(Upload(r))
  BY <1>1, <1>2 DEF Answers, New
<1> QED
  BY <1>1, <1>2, <1>3 DEF Answers, Answered

\* A read takes the receiver of the upload out of the map.
LEMMA ReadStartsKeeps ==
    ASSUME Inv, NEW r \in Requests, ReadStarts(r)
    PROVE  Inv'
<1> DEFINE p == Upload(r)
<1>1. /\ pc[p] # "off" /\ answer[r] # p /\ reading[r] = "off" /\ receivers[id[p]] = p
      /\ reading' = [reading EXCEPT ![r] = "recv"] /\ receivers' = [receivers EXCEPT ![id[p]] = Nil]
      /\ UNCHANGED <<contextVars, next_id, writeVars, clientVars>> /\ senders' = senders /\ queue' = queue /\ read' = read
  BY DEF ReadStarts, Upload
<1>2. p = Upload(r) /\ On(p)
  BY <1>1 DEF On
<1> HIDE DEF p
<1>3. /\ p \in Producers /\ p[1] = r /\ p[2] = "upload" /\ id[p] \in StreamIds
      /\ \A k \in DOMAIN queue[p] : queue[p][k].from = p
      /\ GuestHas(p, read[r], made[p], reading[r])
  BY <1>2, Uploading
<1>4. /\ Linked(p) /\ Carries(p, Len(read[r]), queue[p], Due(p))
      /\ Continues(p, Len(read[r]), queue[p], Due(p), pc[p], item[p].what)
  BY <1>1, <1>2, Uploading
<1>5. /\ reading' \in [Requests -> {"off", "recv", "drain", "over"}] /\ reading'[r] = "recv"
      /\ \A s \in Requests \ {r} : reading'[s] = reading[s]
      /\ receivers' \in [StreamIds -> Producers \cup {Nil}]
      /\ \A i \in StreamIds : receivers'[i] = receivers[i] \/ (i = id[p] /\ receivers'[i] \in {p, Nil})
  BY <1>1, GuestTypes
<1>6. pc' = pc /\ id' = id /\ item' = item /\ made' = made /\ answer' = answer /\ Due(p)' = Due(p)
  BY <1>1, DueStays DEF writeVars, clientVars, contextVars
<1>7. Flow(p)'
  <2>1. Took(p)' = Len(read[r])
    BY <1>1, <1>3, <1>6 DEF Took
  <2>2. Linked(p)'
    BY <1>1, <1>3, <1>4, <1>5, <1>6 DEF Linked
  <2>3. Carries(p, Took(p)', queue'[p], Due(p)')
    BY <1>1, <1>4, <1>6, <2>1
  <2>4. Continues(p, Took(p)', queue'[p], Due(p)', pc'[p], item'[p].what)
    BY <1>1, <1>4, <1>6, <2>1
  <2> QED
    BY <2>2, <2>3, <2>4 DEF Flow, Carries, Continues
<1>8. GuestHas(p, read'[r], made[p], reading'[r])
  BY <1>1, <1>3 DEF GuestHas
<1>9. /\ senders' \in [StreamIds -> Producers \cup {Nil}] /\ queue' \in [Producers -> Seq(Items)]
      /\ read' \in [Requests -> Seq(Items)]
  BY <1>1, GuestTypes
<1>10. UNCHANGED <<contextVars, next_id, writeVars, clientVars>> /\ answer[r] # p
  BY <1>1
<1>11. \A i \in StreamIds : /\ senders'[i] = senders[i] \/ (i = id[p] /\ senders'[i] = Nil)
                            /\ receivers'[i] = receivers[i] \/ (i = id[p] /\ receivers'[i] \in {p, Nil})
  BY <1>1, <1>5
<1>12. /\ \A q \in Producers \ {p} : queue'[q] = queue[q]
       /\ \A k \in DOMAIN queue'[p] : queue'[p][k].from = p
  BY <1>1, <1>3
<1>13. /\ \A s \in Requests \ {r} : reading'[s] = reading[s] /\ read'[s] = read[s]
       /\ reading' \in [Requests -> {"off", "recv", "drain", "over"}] /\ receivers' \in [StreamIds -> Producers \cup {Nil}]
  BY <1>1, <1>5
<1> QED
  BY <1>2, <1>7, <1>8, <1>9, <1>10, <1>11, <1>12, <1>13, ReadKeeps

\* What the guest has after the next item: a chunk goes on, and an end is the last.
LEMMA GuestGets ==
    ASSUME NEW p, NEW s \in Seq(Items), NEW it \in Items, NEW m, NEW at, NEW after,
           GuestHas(p, s, m, at), at # "over",
           it.what \notin Ends => it = [from |-> p, what |-> Len(s) + 1] /\ Len(s) + 1 <= m.chunks,
           it.what \in Ends => after = "over",
           it.what = Done => m.whole /\ Len(s) + 1 = m.chunks + 1
    PROVE  GuestHas(p, Append(s, it), m, after)
<1>1. /\ Len(Append(s, it)) = Len(s) + 1
      /\ \A k \in DOMAIN Append(s, it) : (k = Len(s) + 1 /\ Append(s, it)[k] = it)
                                          \/ (k \in DOMAIN s /\ Append(s, it)[k] = s[k])
  BY SMT
<1>2. \A k \in DOMAIN s : s[k] = [from |-> p, what |-> k] /\ k <= m.chunks
  BY DEF GuestHas
<1> QED
  BY <1>1, <1>2 DEF GuestHas

\* A read takes an item, and puts the receiver back after data.
LEMMA ReadEndsKeeps ==
    ASSUME Inv, NEW r \in Requests, ReadEnds(r)
    PROVE  Inv'
<1> DEFINE p == Upload(r)
           it == Head(queue[p])
           data == it.what \notin Ends
           waits == reading[r] = "recv"
<1>1. /\ InRead(r) /\ queue[p] # <<>>
      /\ queue' = [queue EXCEPT ![p] = Tail(@)]
      /\ read' = IF waits THEN [read EXCEPT ![r] = Append(@, it)] ELSE read
      /\ receivers' = IF data THEN [receivers EXCEPT ![id[p]] = p] ELSE receivers
      /\ reading' = [reading EXCEPT ![r] = IF @ = "recv" /\ data THEN "off" ELSE "over"]
      /\ UNCHANGED <<contextVars, next_id, writeVars, clientVars>> /\ senders' = senders
  BY DEF ReadEnds, Upload
<1>2. p = Upload(r) /\ On(p) /\ answer[r] # p
  BY <1>1, ReadIsOn
<1> HIDE DEF p
<1>3. /\ p \in Producers /\ p[1] = r /\ p[2] = "upload" /\ id[p] \in StreamIds
      /\ \A k \in DOMAIN queue[p] : queue[p][k].from = p
      /\ GuestHas(p, read[r], made[p], reading[r])
  BY <1>2, Uploading
<1>4. waits => /\ Linked(p) /\ Carries(p, Len(read[r]), queue[p], Due(p))
               /\ Continues(p, Len(read[r]), queue[p], Due(p), pc[p], item[p].what)
  BY <1>1, <1>2, Uploading
<1>5. queue[p] \in Seq(Items) /\ read[r] \in Seq(Items) /\ Len(read[r]) \in Nat
  <2>1. queue[p] \in Seq(Items) /\ read[r] \in Seq(Items)
    BY <1>3, GuestTypes
  <2> QED
    BY SMT, <2>1
<1>6. it \in Items /\ Tail(queue[p]) \in Seq(Items) /\ \A k \in DOMAIN Tail(queue[p]) : Tail(queue[p])[k].from = p
  <2>1. queue[p] \in Seq(Items) /\ queue[p] # <<>> /\ \A k \in DOMAIN queue[p] : queue[p][k].from = p
    BY <1>1, <1>3, <1>5
  <2> QED
    BY <2>1, TailTyped
<1>7. /\ queue' \in [Producers -> Seq(Items)] /\ queue'[p] = Tail(queue[p])
      /\ \A q \in Producers \ {p} : queue'[q] = queue[q]
  BY <1>1, <1>3, <1>6, GuestTypes
<1>8. /\ Append(read[r], it) \in Seq(Items) /\ Len(Append(read[r], it)) = Len(read[r]) + 1
  BY SMT, <1>5, <1>6
<1>9. /\ read' \in [Requests -> Seq(Items)] /\ \A s \in Requests \ {r} : read'[s] = read[s]
      /\ read'[r] = IF waits THEN Append(read[r], it) ELSE read[r]
  BY <1>1, <1>8, GuestTypes
<1>10. /\ reading' \in [Requests -> {"off", "recv", "drain", "over"}]
       /\ reading'[r] = IF waits /\ data THEN "off" ELSE "over"
       /\ \A s \in Requests \ {r} : reading'[s] = reading[s]
  BY <1>1, GuestTypes
<1>11. /\ receivers' \in [StreamIds -> Producers \cup {Nil}]
       /\ \A i \in StreamIds : receivers'[i] = receivers[i] \/ (i = id[p] /\ receivers'[i] \in {p, Nil})
       /\ data => receivers'[id[p]] = p
  BY <1>1, <1>3, GuestTypes
<1>12. pc' = pc /\ id' = id /\ item' = item /\ made' = made /\ answer' = answer /\ Due(p)' = Due(p)
  BY <1>1, DueStays DEF writeVars, clientVars, contextVars
<1>13. (waits /\ data) => /\ Carries(p, Len(read[r]) + 1, Tail(queue[p]), Due(p))
                          /\ it = [from |-> p, what |-> Len(read[r]) + 1] /\ Len(read[r]) + 1 <= made[p].chunks
  <2> SUFFICES ASSUME waits, data
               PROVE  /\ Carries(p, Len(read[r]) + 1, Tail(queue[p]), Due(p))
                      /\ it = [from |-> p, what |-> Len(read[r]) + 1] /\ Len(read[r]) + 1 <= made[p].chunks
    OBVIOUS
  <2>1. /\ Carries(p, Len(read[r]) + 1, Tail(queue[p]), Due(p))
        /\ it = [from |-> p, what |-> Len(read[r]) + 1] /\ Len(read[r]) + 1 <= Due(p).chunks
    BY <1>1, <1>4, <1>5, CarriesTail
  <2> QED
    BY <2>1, Dues
<1>14. Flow(p)'
  <2> SUFFICES ASSUME Intact(p)'
               PROVE  (/\ Linked(p)
                       /\ Carries(p, Took(p), queue[p], Due(p))
                       /\ Continues(p, Took(p), queue[p], Due(p), pc[p], item[p].what))'
    BY DEF Flow
  <2>1. waits /\ data
    BY <1>2, <1>3, <1>10, <1>12 DEF Intact
  <2>2. Took(p)' = Len(read[r]) + 1
    BY <1>2, <1>3, <1>8, <1>9, <1>12, <2>1 DEF Took
  <2>3. Linked(p)'
    BY <1>1, <1>4, <1>11, <1>12, <2>1 DEF Linked
  <2>4. Carries(p, Took(p)', queue'[p], Due(p)')
    BY <1>7, <1>12, <1>13, <2>1, <2>2
  <2>5. Continues(p, Len(read[r]) + 1, Tail(queue[p]), Due(p), pc[p], item[p].what)
    BY <1>1, <1>4, <1>5, <2>1, ContinuesTail
  <2>6. Continues(p, Took(p)', queue'[p], Due(p)', pc'[p], item'[p].what)
    BY <1>7, <1>12, <2>2, <2>5
  <2> QED
    BY <2>3, <2>4, <2>6 DEF Carries, Continues
<1>15. GuestHas(p, read'[r], made[p], reading'[r])
  <2>1. reading[r] # "over"
    BY <1>1 DEF InRead
  <2>2. CASE waits
    <3>1. ASSUME it.what = Done PROVE made[p].whole /\ Len(read[r]) + 1 = made[p].chunks + 1
      <4>1. /\ queue[p] \in Seq(Items) /\ queue[p] # <<>> /\ Len(read[r]) \in Nat
            /\ Carries(p, Len(read[r]), queue[p], Due(p)) /\ Head(queue[p]).what = Done
        BY <1>1, <1>4, <1>5, <2>2, <3>1
      <4>2. Due(p).whole /\ Len(read[r]) + 1 = Due(p).chunks + 1
        BY <4>1, CarriesDone
      <4>3. ~Cut(p)
        BY <1>3 DEF Cut
      <4> QED
        BY <4>2, <4>3, Dues
    <3>2. it.what \in Ends => reading'[r] = "over"
      BY <1>10
    <3>3. it.what \notin Ends => it = [from |-> p, what |-> Len(read[r]) + 1] /\ Len(read[r]) + 1 <= made[p].chunks
      BY <1>13, <2>2
    <3>4. GuestHas(p, Append(read[r], it), made[p], reading'[r])
      BY <1>3, <1>5, <1>6, <2>1, <3>1, <3>2, <3>3, GuestGets
    <3> QED
      BY <1>9, <2>2, <3>4
  <2>3. CASE ~waits
    BY <1>3, <1>9, <2>1, <2>3 DEF GuestHas
  <2> QED
    BY <2>2, <2>3
<1>16. \A k \in DOMAIN queue'[p] : queue'[p][k].from = p
  BY <1>6, <1>7
<1>17. /\ senders' \in [StreamIds -> Producers \cup {Nil}]
       /\ \A i \in StreamIds : /\ senders'[i] = senders[i] \/ (i = id[p] /\ senders'[i] = Nil)
                               /\ receivers'[i] = receivers[i] \/ (i = id[p] /\ receivers'[i] \in {p, Nil})
  BY <1>1, <1>11, GuestTypes
<1>18. \A s \in Requests \ {r} : reading'[s] = reading[s] /\ read'[s] = read[s]
  BY <1>9, <1>10
<1>19. /\ UNCHANGED <<contextVars, next_id, writeVars, clientVars>>
       /\ receivers' \in [StreamIds -> Producers \cup {Nil}]
       /\ queue' \in [Producers -> Seq(Items)] /\ \A q \in Producers \ {p} : queue'[q] = queue[q]
       /\ reading' \in [Requests -> {"off", "recv", "drain", "over"}] /\ read' \in [Requests -> Seq(Items)]
  BY <1>1, <1>7, <1>9, <1>10, <1>11
<1> HIDE DEF it, data, waits
<1> QED
  BY <1>2, <1>14, <1>15, <1>16, <1>17, <1>18, <1>19, ReadKeeps

\* A read that stops, and a cancellation, end what the guest reads.
LEMMA ReadStopsKeeps ==
    ASSUME Inv, NEW r \in Requests, ReadStops(r) \/ CancelUpload(r)
    PROVE  Inv'
<1> DEFINE p == Upload(r)
<1>1. /\ UNCHANGED <<contextVars, next_id, writeVars, clientVars>> /\ queue' = queue /\ read' = read
      /\ \/ InRead(r) /\ senders' = senders /\ receivers' = receivers
         \/ /\ pc[p] # "off" /\ answer[r] # p /\ reading[r] \in {"off", "recv"}
            /\ senders' = [senders EXCEPT ![id[p]] = Nil] /\ receivers' = [receivers EXCEPT ![id[p]] = Nil]
      /\ \E at \in {"drain", "over"} : reading' = [reading EXCEPT ![r] = at]
  <2>1. CASE ReadStops(r)
    BY <2>1 DEF ReadStops, Upload, mapVars
  <2>2. CASE CancelUpload(r)
    BY <2>2 DEF CancelUpload, Upload, close_stream
  <2> QED
    BY <2>1, <2>2
<1>2. p = Upload(r) /\ On(p) /\ answer[r] # p /\ reading[r] # "over"
  BY <1>1, ReadIsOn DEF On, InRead
<1> HIDE DEF p
<1>3. /\ p \in Producers /\ p[1] = r /\ p[2] = "upload" /\ id[p] \in StreamIds
      /\ \A k \in DOMAIN queue[p] : queue[p][k].from = p
      /\ GuestHas(p, read[r], made[p], reading[r])
  BY <1>2, Uploading
<1>4. /\ reading' \in [Requests -> {"off", "recv", "drain", "over"}] /\ reading'[r] \notin {"off", "recv"}
      /\ \A s \in Requests \ {r} : reading'[s] = reading[s]
  BY <1>1, GuestTypes
<1>5. /\ senders' \in [StreamIds -> Producers \cup {Nil}] /\ receivers' \in [StreamIds -> Producers \cup {Nil}]
      /\ \A i \in StreamIds : /\ senders'[i] = senders[i] \/ (i = id[p] /\ senders'[i] = Nil)
                              /\ receivers'[i] = receivers[i] \/ (i = id[p] /\ receivers'[i] \in {p, Nil})
  BY <1>1, <1>3, GuestTypes
<1>6. answer' = answer
  BY <1>1 DEF clientVars
<1>7. Flow(p)'
  BY <1>2, <1>3, <1>4, <1>6 DEF Flow, Intact
<1>8. GuestHas(p, read'[r], made[p], reading'[r])
  BY <1>1, <1>2, <1>3 DEF GuestHas
<1>9. queue' \in [Producers -> Seq(Items)] /\ read' \in [Requests -> Seq(Items)]
  BY <1>1, GuestTypes
<1> QED
  BY <1>1, <1>2, <1>3, <1>4, <1>5, <1>7, <1>8, <1>9, ReadKeeps


-----------------------------------------------------------------------------
(* The invariant holds *)

\* A context starts with no stream.
LEMMA InitInv == Init => IInv
<1> SUFFICES ASSUME Init PROVE IInv
  OBVIOUS
<1>1. 1 \in Requests /\ 0 \in 0..3 /\ 1 \in 1..4 /\ 0 \in 0..MaxChunks /\ <<>> \in Seq(Items) /\ DOMAIN <<>> = {}
  BY SMT, StreamsAssumption DEF Requests
<1>2. [chunks |-> 0, whole |-> FALSE] \in [chunks : 0..MaxChunks, whole : BOOLEAN]
  BY SMT, <1>1
<1>3. ASSUME NEW p \in Producers PROVE [from |-> p, what |-> Done] \in Items
  <2>1. Done \in (1..MaxChunks) \cup Ends
    BY DEF Ends
  <2> QED
    BY <1>3, <2>1 DEF Items
<1>4. Types
  BY <1>1, <1>2, <1>3 DEF Init, Types, TaskPlaces, PumpPlaces
<1>5. \A p \in Producers : ~On(p) /\ p[1] \in Requests
  BY Named DEF Init, On
<1>6. Wired
  BY <1>5 DEF Init, Wired
<1>7. Answers
  <2>1. ASSUME NEW p \in Producers PROVE New(p)
    BY <1>5 DEF Init, New
  <2>2. ASSUME NEW r \in Requests PROVE Answered(r)
    BY DEF Init, Answered
  <2> QED
    BY <2>1, <2>2 DEF Answers
<1>8. Flows
  <2>1. ASSUME NEW p \in Producers PROVE Flow(p) /\ Own(p)
    <3>1. Flow(p)
      BY <1>5 DEF Flow
    <3>2. queue[p] = <<>> /\ ~made[p].whole /\ pc[p] = "off"
      BY DEF Init
    <3> QED
      BY <1>1, <3>1, <3>2 DEF Own
  <2> QED
    BY <2>1 DEF Flows
<1>9. Delivered
  <2>1. ASSUME NEW r \in Requests PROVE DeliveredTo(r)
    BY <1>1 DEF Init, DeliveredTo, GuestHas
  <2> QED
    BY <2>1 DEF Delivered
<1> QED
  BY <1>1, <1>4, <1>6, <1>7, <1>8, <1>9 DEF Init, IInv, Inv

\* What the guest does in its request.
LEMMA GuestKeeps ==
    ASSUME Inv, request = 1, NEW r \in Requests, Guest(r)
    PROVE  Inv'
<1>1. CASE StartUpload(r) \/ StartFetch(r) \/ StartGuest(r)
  BY <1>1, StartStepsKeep
<1>2. CASE PassOn(r)
  BY <1>2, PassOnKeeps
<1>3. CASE RespondInMemory(r)
  BY <1>3, RespondInMemoryKeeps
<1>4. CASE ReadStarts(r)
  BY <1>4, ReadStartsKeeps
<1>5. CASE ReadEnds(r)
  BY <1>5, ReadEndsKeeps
<1>6. CASE ReadStops(r) \/ CancelUpload(r)
  BY <1>6, ReadStopsKeeps
<1>7. CASE RequestEnds(r) \/ RequestFails(r) \/ Abort(r)
  BY <1>7, RequestStepsKeep
<1> QED
  BY <1>1, <1>2, <1>3, <1>4, <1>5, <1>6, <1>7 DEF Guest

\* Every step of the event loop, of a forwarder and of a client.
LEMMA ServingKeeps ==
    ASSUME Inv, NEW r \in Requests, PumpReads(r) \/ EventLoop(r) \/ Forwarder(r) \/ ClientLeaves(r)
    PROVE  Inv'
<1>1. CASE PumpReads(r)
  BY <1>1, PumpReadsKeeps
<1>2. CASE ReadResponse(r)
  BY <1>2, ReadResponseKeeps
<1>3. CASE PumpWrites(r)
  BY <1>3, PumpWritesKeeps
<1>4. CASE PumpResumes(r)
  BY <1>4, PumpResumesKeeps
<1>5. CASE PumpEnds(r)
  BY <1>5, PumpEndsKeeps
<1>6. CASE LoopTurn(r)
  BY <1>6, LoopTurnKeeps
<1>7. CASE ForwardReceives(r)
  BY <1>7, ForwardReceivesKeeps
<1>8. CASE ForwardFindsNone(r) \/ ForwardSends(r) \/ ForwardClosed(r) \/ ClientLeaves(r)
  BY <1>8, ForwardStepsKeep
<1> QED
  BY <1>1, <1>2, <1>3, <1>4, <1>5, <1>6, <1>7, <1>8 DEF EventLoop, Forwarder

\* Only the reuse of the context changes the request it serves.
LEMMA SameRequest ==
    ASSUME Next, ~NextRequest
    PROVE  request' = request
<1>1. CASE BeginRequest \/ ContextGoes
  BY <1>1 DEF BeginRequest, ContextGoes
<1>2. ASSUME NEW p \in Producers, TaskReceives(p) \/ Task(p) PROVE request' = request
  BY <1>2 DEF TaskReceives, Task, TaskLooksUp, TaskSends, TaskFindsClosed, contextVars
<1>3. ASSUME NEW r \in Requests, Guest(r) PROVE request' = request
  BY <1>3 DEF Guest, StartUpload, StartFetch, StartGuest, PassOn, RespondInMemory, ReadStarts, ReadEnds,
              ReadStops, CancelUpload, RequestEnds, RequestFails, Abort, contextVars
<1>4. ASSUME NEW r \in Requests, PumpReads(r) \/ EventLoop(r) PROVE request' = request
  BY <1>4 DEF PumpReads, EventLoop, ReadResponse, PumpWrites, PumpResumes, PumpEnds, LoopTurn, contextVars
<1>5. ASSUME NEW r \in Requests, Forwarder(r) \/ ClientLeaves(r) PROVE request' = request
  BY <1>5 DEF Forwarder, ForwardReceives, ForwardFindsNone, ForwardSends, ForwardClosed, ClientLeaves, contextVars
<1> QED
  BY <1>1, <1>2, <1>3, <1>4, <1>5 DEF Next

\* Every step keeps the invariant, whatever runs when.
LEMMA NextKeeps ==
    ASSUME IInv, [Next]_vars
    PROVE  IInv'
<1>1. CASE UNCHANGED vars
  <2>1. UNCHANGED <<request, stage, scope, aborted, failed, mapVars, queue, writeVars, clientVars, guestVars>>
    BY <1>1 DEF vars, contextVars
  <2>2. Inv => Inv'
    <3> SUFFICES ASSUME Inv PROVE Inv'
      OBVIOUS
    <3>1. aborted \subseteq Requests /\ failed \subseteq Requests
      BY DEF Inv, Types
    <3> QED
      BY <2>1, <3>1, ContextKeeps DEF Cuts
  <2> QED
    BY <2>1, <2>2 DEF IInv
<1>2. CASE NextRequest
  <2>1. request \in Requests /\ request < N /\ request' = request + 1
    BY <1>2 DEF NextRequest, IInv
  <2>2. request' \in Requests /\ request' # 1
    BY SMT, <2>1, StreamsAssumption DEF Requests
  <2> QED
    BY <2>2 DEF IInv
<1>3. CASE Next /\ ~NextRequest
  <2>1. request' = request
    BY <1>3, SameRequest
  <2>2. ASSUME request = 1 PROVE Inv'
    <3>1. Inv
      BY <2>2 DEF IInv
    <3>2. ~BeginRequest
      BY <2>2, <3>1 DEF Inv, Wired, BeginRequest
    <3>3. ASSUME NEW p \in Producers, TaskReceives(p) \/ Task(p) PROVE Inv'
      BY <3>1, <3>3, TaskReceivesKeeps, TaskLooksUpKeeps, TaskSendsKeeps, TaskFindsClosedKeeps DEF Task
    <3>4. ASSUME NEW r \in Requests, Guest(r) PROVE Inv'
      BY <2>2, <3>1, <3>4, GuestKeeps
    <3>5. ASSUME NEW r \in Requests, PumpReads(r) \/ EventLoop(r) \/ Forwarder(r) \/ ClientLeaves(r) PROVE Inv'
      BY <3>1, <3>5, ServingKeeps
    <3>6. CASE ContextGoes
      BY <3>1, <3>6, ContextGoesKeeps
    <3> QED
      BY <1>3, <3>2, <3>3, <3>4, <3>5, <3>6 DEF Next
  <2> QED
    BY <2>1, <2>2 DEF IInv
<1> QED
  BY <1>1, <1>2, <1>3

\* The invariant holds of every behaviour of the streams.
THEOREM StreamsInvariant == Spec => []IInv
<1>1. IInv /\ [Next]_vars => IInv'
  BY NextKeeps
<1> QED
  BY <1>1, InitInv, PTL DEF Spec


\* A sequence whose items are those of the whole body, and as many, is the body.
LEMMA IsBody ==
    ASSUME NEW p, NEW s \in Seq(Items), \A i \in DOMAIN s : s[i] = [from |-> p, what |-> i]
    PROVE  s = [k \in 1..Len(s) |-> [from |-> p, what |-> k]]
<1>1. DOMAIN s = 1..Len(s) /\ s = [k \in DOMAIN s |-> s[k]]
  BY SMT
<1> QED
  BY <1>1

\* As long as no other request uses the context, a client that sees its response end
\* has all that was taken from the source of the body, and the source had ended well,
\* but for a fetch passed on that a dropped context cut short (spawn_stream_reader):
\* whatever the marks, the lengths of the bodies and the order in which tasks, pump,
\* forwarder, client and the end of the context come.
THEOREM EndsWhole == Spec => []WholeUntilReuse
<1>1. IInv => WholeUntilReuse
  <2> SUFFICES ASSUME IInv, request = 1, NEW r \in Requests, client[r] = "ended", r \notin aborted \cup failed
               PROVE  got[r] = Body(answer[r]) /\ (made[answer[r]].whole \/ Cut(answer[r]))
    BY DEF WholeUntilReuse
  <2>1. Types /\ Answered(r) /\ DeliveredTo(r)
    BY DEF IInv, Inv, Answers, Delivered
  <2>2. answer[r] # Nil /\ answer[r] \in Producers /\ got[r] \in Seq(Items)
    <3>1. answer[r] # Nil
      BY <2>1 DEF Answered
    <3>2. answer[r] \in Producers \cup {Nil} /\ got[r] \in Seq(Items)
      BY <2>1 DEF Types
    <3> QED
      BY <3>1, <3>2
  <2>3. /\ ClientHas(answer[r], got[r]) /\ (made[answer[r]].whole \/ Cut(answer[r]))
        /\ Len(got[r]) = made[answer[r]].chunks
    BY <2>1, <2>2 DEF DeliveredTo
  <2>4. got[r] = Body(answer[r])
    <3>1. \A i \in DOMAIN got[r] : got[r][i] = [from |-> answer[r], what |-> i]
      BY <2>3 DEF ClientHas
    <3>2. got[r] = [k \in 1..Len(got[r]) |-> [from |-> answer[r], what |-> k]]
      BY <2>2, <3>1, IsBody
    <3> QED
      BY <2>3, <3>2 DEF Body
  <2> QED
    BY <2>3, <2>4
<1> QED
  BY <1>1, StreamsInvariant, PTL

\* What the guest of the first request reads is what its client sent, in order, and
\* it sees the end only after all of it, whoever takes the receiver out of the map
\* and puts it back meanwhile (read_chunk, native_stream_cancel).
THEOREM ReadsUpload == Spec => []ReadsAreUpload
<1>1. IInv => ReadsAreUpload
  <2> SUFFICES ASSUME IInv, request = 1, NEW r \in Requests, NEW i \in DOMAIN read[r]
               PROVE  \/ i \in DOMAIN Body(<<r, "upload">>) /\ read[r][i] = Body(<<r, "upload">>)[i]
                      \/ /\ i = Len(read[r]) /\ read[r][i].what \in Ends
                         /\ read[r][i].what = Done =>
                               made[<<r, "upload">>].whole /\ i = made[<<r, "upload">>].chunks + 1
    BY DEF ReadsAreUpload
  <2> DEFINE p == <<r, "upload">>
  <2>1. Types /\ DeliveredTo(r) /\ read[r] \in Seq(Items) /\ p \in Producers
    BY UploadOf DEF IInv, Inv, Delivered, Types, Upload
  <2>2. \/ read[r][i] = [from |-> p, what |-> i] /\ i <= made[p].chunks
        \/ /\ i = Len(read[r]) /\ read[r][i].what \in Ends
           /\ read[r][i].what = Done => made[p].whole /\ i = made[p].chunks + 1
    BY <2>1 DEF DeliveredTo, GuestHas, Upload
  <2>3. ASSUME i <= made[p].chunks PROVE i \in 1..made[p].chunks
    <3>1. made[p] \in [chunks : 0..MaxChunks, whole : BOOLEAN]
      BY <2>1 DEF Types
    <3>2. made[p].chunks \in Nat
      BY SMT, <3>1, StreamsAssumption
    <3> QED
      BY SMT, <2>1, <2>3, <3>2
  <2> HIDE DEF p
  <2>4. i <= made[p].chunks => i \in DOMAIN Body(p) /\ Body(p)[i] = [from |-> p, what |-> i]
    BY <2>3 DEF Body
  <2> QED
    BY <2>2, <2>4 DEF p
<1> QED
  BY <1>1, StreamsInvariant, PTL

\* As long as the context serves its first request, a stream holds only what the
\* task it was made for wrote: what StreamsApart says, which reuse breaks.
THEOREM ApartUntilReuse == Spec => [](request = 1 => StreamsApart)
<1>1. IInv => (request = 1 => StreamsApart)
  BY DEF IInv, Inv, Flows, Own, StreamsApart
<1> QED
  BY <1>1, StreamsInvariant, PTL

=============================================================================
