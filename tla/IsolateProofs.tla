--------------------------- MODULE IsolateProofs ---------------------------
(***************************************************************************)
(* Proofs about what the isolates of a process share with V8's threads.    *)
(*                                                                         *)
(* Foreground tasks, for any number of isolates, addresses, loops and      *)
(* threads: a queue has the tasks of one isolate only, and no post is      *)
(* missed by the loops that wait. Neither is inductive. The first needs    *)
(* that a queue is of one isolate for good and in the map under the        *)
(* address of a living one only (Numbered, Mapped), and that the task of a *)
(* post on its way is of the isolate whose queue it found (TasksOwn). The  *)
(* second needs that a loop that waits is in the list of wakers, woken or  *)
(* about to be, and in the list, outside of a poll, only if the queue is   *)
(* empty (Registered).                                                     *)
(*                                                                         *)
(* Buffers, for any limit and buffers of any size: their memory stays      *)
(* within its limit. An allocation decides on a count that it read a while *)
(* ago. What makes that safe is that frees only lower the count, so that   *)
(* the count it read is never below the present one.                       *)
(***************************************************************************)
EXTENDS ForegroundTasks, TLAPS

\* Zenon proves the leaves, but for those that cite SMT: numbers, sequences, records.
USE Zenon

-----------------------------------------------------------------------------
(* Foreground tasks *)

Lives == {"unborn", "made", "live", "forgetting", "forgotten", "disposed"}
States == {"unborn", "parked", "polling", "ran", "done"}
Posting ==
    [stage : {"idle", "found", "pushed"}, task : 0..MaxTasks, queue : 0..MaxQueues, wakes : SUBSET Loops]

IsolatesTyped ==
    /\ life \in [Isolates -> Lives] /\ key \in [Isolates -> Addresses \cup {None}]
    /\ foreground \in [Isolates -> 0..MaxQueues] /\ FOREGROUND \in [Addresses -> 0..MaxQueues]
    /\ queues \in 0..MaxQueues

QueuesTyped ==
    /\ ready \in [Queues -> Seq(Tasks)] /\ delayed \in [Queues -> SUBSET Tasks]
    /\ wakers \in [Queues -> SUBSET Loops]

PostsTyped ==
    /\ posting \in [Threads -> Posting] /\ posted \in 0..MaxTasks
    /\ task_of \in [Tasks -> Isolates \cup {None}]

LoopsTyped ==
    /\ on \in [Loops -> Isolates \cup {None}] /\ state \in [Loops -> States]
    /\ notified \subseteq Loops /\ waker \subseteq Loops

\* An address is of one isolate at a time.
Addressed ==
    /\ \A i \in Isolates : Exists(i) => key[i] \in Addresses
    /\ \A i, j \in Isolates : Exists(i) /\ Exists(j) /\ key[i] = key[j] => i = j

\* A queue is of one isolate for good, which has it from register on.
Numbered ==
    /\ \A i \in Isolates : foreground[i] <= queues
    /\ \A i \in Isolates : life[i] \in {"live", "forgetting", "forgotten"} => foreground[i] # 0
    /\ \A i \in Isolates : life[i] \in {"unborn", "made"} => foreground[i] = 0
    /\ \A i, j \in Isolates : foreground[i] = foreground[j] /\ foreground[i] # 0 => i = j
    /\ \A a \in Addresses : FOREGROUND[a] <= queues

\* A queue that is not made yet is empty.
Fresh == \A q \in Queues : q > queues => ready[q] = <<>> /\ delayed[q] = {}

\* A post is about a queue that is made, and wakes nobody before it has pushed.
Finding ==
    \A t \in Threads :
       /\ posting[t].stage = "found" => posting[t].queue \in 1..queues
       /\ posting[t].stage # "pushed" => posting[t].wakes = {}

\* The map has the queue of an isolate while it lives, at its address, and then no more.
Mapped ==
    /\ \A i \in Isolates : life[i] = "live" => FOREGROUND[key[i]] = foreground[i]
    /\ \A i \in Isolates, a \in Addresses :
          foreground[i] # 0 /\ FOREGROUND[a] = foreground[i] => life[i] = "live" /\ key[i] = a

\* A task that is in a queue, or on its way there, is posted.
TasksPosted ==
    /\ \A q \in Queues : \A k \in delayed[q] : k <= posted
    /\ \A q \in Queues : \A n \in DOMAIN ready[q] : ready[q][n] <= posted
    /\ \A t \in Threads : posting[t].stage # "idle" => posting[t].task \in 1..posted

\* What is in the queue of an isolate, or on its way there, is a task of it.
Owns(i, q) ==
    /\ \A k \in delayed[q] : task_of[k] = i
    /\ \A n \in DOMAIN ready[q] : task_of[ready[q][n]] = i
    /\ \A t \in Threads : posting[t].stage = "found" /\ posting[t].queue = q => task_of[posting[t].task] = i

TasksOwn == \A i \in Isolates : foreground[i] # 0 => Owns(i, foreground[i])

\* A loop is on an isolate that lives, and its waker is in the queue of that one only.
Waits(l) == state[l] \in {"parked", "polling", "ran"}

Woken(l) == l \in notified \/ \E t \in Threads : l \in posting[t].wakes

LoopsLive ==
    /\ \A l \in Loops : Waits(l) => on[l] \in Isolates /\ life[on[l]] = "live"
    /\ \A q \in Queues : \A l \in wakers[q] : Waits(l) /\ q = foreground[on[l]]

\* A loop that waits is in the list of wakers or is woken; and in the list only if it
\* has seen the queue empty since, or is looking at it.
Listed(l, q) ==
    /\ l \in wakers[q] \/ Woken(l)
    /\ l \in wakers[q] /\ state[l] # "polling" => ready[q] = <<>>

Registered == \A l \in Loops : Waits(l) => Listed(l, foreground[on[l]])

IInv ==
    /\ IsolatesTyped /\ QueuesTyped /\ PostsTyped /\ LoopsTyped
    /\ Addressed /\ Numbered /\ Fresh /\ Finding /\ Mapped /\ TasksPosted /\ TasksOwn
    /\ LoopsLive /\ Registered

\* A waiter knows the waker that it put into a list.
Known == \A q \in Queues : wakers[q] \subseteq waker

-----------------------------------------------------------------------------
(* What a step that leaves the variables of a conjunct alone keeps *)

\* The isolates and the maps of queues keep their types ...
LEMMA IsolatesTypedSame ==
    ASSUME IsolatesTyped, UNCHANGED <<life, key, foreground, FOREGROUND, queues>> PROVE IsolatesTyped'
BY DEF IsolatesTyped

\* ... so do the queues ...
LEMMA QueuesTypedSame == ASSUME QueuesTyped, UNCHANGED <<ready, delayed, wakers>> PROVE QueuesTyped'
BY DEF QueuesTyped

\* ... the posts of V8's threads ...
LEMMA PostsTypedSame == ASSUME PostsTyped, UNCHANGED <<posting, posted, task_of>> PROVE PostsTyped'
BY DEF PostsTyped

\* ... and the loops.
LEMMA LoopsTypedSame == ASSUME LoopsTyped, UNCHANGED <<on, state, notified, waker>> PROVE LoopsTyped'
BY DEF LoopsTyped

\* No two living isolates share an address.
LEMMA AddressedSame == ASSUME Addressed, UNCHANGED <<life, key>> PROVE Addressed'
BY DEF Addressed, Exists

\* A queue stays of one isolate.
LEMMA NumberedSame ==
    ASSUME Numbered, UNCHANGED <<life, foreground, FOREGROUND, queues>> PROVE Numbered'
BY DEF Numbered

\* A queue not made yet is empty.
LEMMA FreshSame == ASSUME Fresh, UNCHANGED <<queues, ready, delayed>> PROVE Fresh'
BY DEF Fresh

\* A post under way holds a queue that was made.
LEMMA FindingSame == ASSUME Finding, UNCHANGED <<queues, posting>> PROVE Finding'
BY DEF Finding

\* The map has the queue of each isolate that lives.
LEMMA MappedSame == ASSUME Mapped, UNCHANGED <<life, key, foreground, FOREGROUND>> PROVE Mapped'
BY DEF Mapped

\* What a queue holds was posted.
LEMMA TasksPostedSame ==
    ASSUME TasksPosted, UNCHANGED <<ready, delayed, posting, posted>> PROVE TasksPosted'
BY DEF TasksPosted

\* What a queue holds is for its isolate.
LEMMA TasksOwnSame ==
    ASSUME TasksOwn, UNCHANGED <<foreground, ready, delayed, posting, task_of>> PROVE TasksOwn'
BY DEF TasksOwn, Owns

\* A loop runs on an isolate that lives.
LEMMA LoopsLiveSame ==
    ASSUME LoopsLive, UNCHANGED <<life, foreground, wakers, on, state>> PROVE LoopsLive'
BY DEF LoopsLive, Waits

\* A loop that waits is in the list of wakers, or woken.
LEMMA RegisteredSame ==
    ASSUME Registered, UNCHANGED <<foreground, ready, wakers, posting, on, state, notified>>
    PROVE  Registered'
BY DEF Registered, Listed, Waits, Woken

\* The queue of an isolate that has one is one of the queues.
LEMMA OwnQueue ==
    ASSUME MaxQueues \in Nat, IInv, NEW i \in Isolates, foreground[i] # 0
    PROVE  foreground[i] \in 1..queues /\ foreground[i] \in Queues
BY SMT DEF IInv, IsolatesTyped, Numbered, Queues

\* A loop that waits is on a living isolate with a queue.
LEMMA LoopQueue ==
    ASSUME MaxQueues \in Nat, IInv, NEW l \in Loops, Waits(l)
    PROVE  on[l] \in Isolates /\ life[on[l]] = "live" /\ foreground[on[l]] \in Queues
<1>1. on[l] \in Isolates /\ life[on[l]] = "live"
  BY DEF IInv, LoopsLive
<1>2. foreground[on[l]] # 0
  BY <1>1 DEF IInv, Numbered
<1> QED
  BY <1>1, <1>2, OwnQueue

\* Where tasks only leave the queues, an isolate still owns what is left.
LEMMA FewerTasks ==
    ASSUME MaxQueues \in Nat, IInv, UNCHANGED <<foreground, posting, task_of>>,
           \A q \in Queues :
              /\ delayed'[q] \subseteq delayed[q]
              /\ \A n \in DOMAIN ready'[q] : \E m \in DOMAIN ready[q] : ready'[q][n] = ready[q][m]
    PROVE  TasksOwn'
<1> SUFFICES ASSUME NEW i \in Isolates, foreground[i] # 0 PROVE Owns(i, foreground[i])'
  BY DEF TasksOwn
<1>1. foreground[i] \in Queues /\ Owns(i, foreground[i])
  BY OwnQueue DEF IInv, TasksOwn
<1> DEFINE q == foreground[i]
<1> HIDE DEF q
<1>2. \A k \in delayed'[q] : task_of[k] = i
  BY <1>1 DEF Owns, q
<1>3. \A n \in DOMAIN ready'[q] : task_of[ready'[q][n]] = i
  BY SMT, <1>1 DEF Owns, q
<1>4. \A t \in Threads : posting[t].stage = "found" /\ posting[t].queue = q => task_of[posting[t].task] = i
  BY <1>1 DEF Owns, q
<1> QED
  BY <1>2, <1>3, <1>4 DEF Owns, q

-----------------------------------------------------------------------------
(* The isolate *)

\* The new isolate is at a free address, and has no queue yet.
LEMMA NewIsolateKeeps ==
    ASSUME MaxTasks \in Nat, MaxQueues \in Nat, IInv, NEW i \in Isolates, NEW a \in Addresses, NewIsolate(i, a)
    PROVE  IInv'
<1> USE DEF IInv
<1>1. IsolatesTyped'
  BY DEF NewIsolate, isolateVars, postVars, loopVars, IsolatesTyped, Lives
<1>2. Addressed'
  BY DEF NewIsolate, isolateVars, postVars, loopVars, IsolatesTyped, Addressed, Exists
<1>3. Numbered'
  BY DEF NewIsolate, isolateVars, postVars, loopVars, IsolatesTyped, Numbered
<1>4. Mapped'
  BY DEF NewIsolate, isolateVars, postVars, loopVars, IsolatesTyped, Mapped
<1>5. LoopsLive'
  BY DEF NewIsolate, isolateVars, postVars, loopVars, IsolatesTyped, LoopsLive, Waits
<1>6. (QueuesTyped /\ PostsTyped /\ LoopsTyped /\ Fresh /\ Finding /\ TasksPosted
       /\ TasksOwn /\ Registered)'
  BY QueuesTypedSame, PostsTypedSame, LoopsTypedSame, FreshSame, FindingSame, TasksPostedSame,
         TasksOwnSame, RegisteredSame DEF NewIsolate, isolateVars, postVars, loopVars
<1> QED
  BY <1>1, <1>2, <1>3, <1>4, <1>5, <1>6

\* The new queue is above every queue made so far: it is empty, and nobody has it.
LEMMA RegisterKeeps ==
    ASSUME MaxTasks \in Nat, MaxQueues \in Nat, IInv, NEW i \in Isolates, Register(i)
    PROVE  IInv'
<1> USE DEF IInv
<1>a. key[i] \in Addresses /\ queues + 1 \in Queues
  BY SMT DEF Register, IsolatesTyped, Addressed, Exists, Queues
<1>b. \A l \in Loops : Waits(l) => on[l] # i /\ foreground'[on[l]] = foreground[on[l]] /\ life'[on[l]] = life[on[l]]
  BY DEF Register, IsolatesTyped, LoopsLive
<1>c. /\ \A j \in Isolates : foreground'[j] = IF j = i THEN queues + 1 ELSE foreground[j]
      /\ \A a \in Addresses : FOREGROUND'[a] = IF a = key[i] THEN queues + 1 ELSE FOREGROUND[a]
  BY <1>a DEF Register, QueueFor, IsolatesTyped
<1>d. \A j \in Isolates : foreground[j] # queues + 1
  BY SMT DEF IsolatesTyped, Numbered
<1>1. IsolatesTyped'
  BY SMT, <1>a DEF Register, QueueFor, isolateVars, postVars, loopVars, IsolatesTyped, Lives
<1>2. Addressed'
  BY SMT, <1>a DEF Register, QueueFor, isolateVars, postVars, loopVars, IsolatesTyped, Addressed,
         Exists
<1>3. Numbered'
  BY SMT, <1>a DEF Register, QueueFor, isolateVars, postVars, loopVars, IsolatesTyped, Numbered
<1>4. Fresh'
  <2>1. \A q \in Queues : q > queues + 1 => q > queues
    BY SMT DEF IsolatesTyped, Queues
  <2> QED
    BY <2>1 DEF Register, Fresh
<1>5. Finding'
  <2>1. 1..queues \subseteq 1..(queues + 1)
    BY SMT DEF IsolatesTyped
  <2> QED
    BY <2>1 DEF Register, postVars, Finding
<1>6. Mapped'
  <2>1. ASSUME NEW j \in Isolates, life'[j] = "live" PROVE FOREGROUND'[key[j]] = foreground'[j]
    <3>1. CASE j = i
      BY <1>a, <1>c, <3>1
    <3>2. CASE j # i
      <4>1. life[j] = "live" /\ key[j] \in Addresses /\ key[j] # key[i]
        BY <2>1, <3>2 DEF Register, IsolatesTyped, Addressed, Exists
      <4> QED
        BY <1>c, <3>2, <4>1 DEF Mapped
    <3> QED
      BY <3>1, <3>2
  <2>2. ASSUME NEW j \in Isolates, NEW a \in Addresses, foreground'[j] # 0, FOREGROUND'[a] = foreground'[j]
        PROVE  life'[j] = "live" /\ key[j] = a
    <3>1. FOREGROUND[a] # queues + 1
      BY SMT DEF IsolatesTyped, Numbered
    <3>2. CASE j = i
      BY <1>c, <2>2, <3>1, <3>2 DEF Register, IsolatesTyped
    <3>3. CASE j # i
      <4>1. FOREGROUND[a] = foreground[j] /\ foreground[j] # 0
        BY <1>c, <1>d, <2>2, <3>3
      <4> QED
        BY <3>3, <4>1 DEF Register, IsolatesTyped, Mapped
    <3> QED
      BY <3>2, <3>3
  <2>3. key' = key
    BY DEF Register
  <2> QED
    BY <2>1, <2>2, <2>3 DEF Mapped
<1>7. TasksOwn'
  <2>1. Owns(i, queues + 1)
    <3>1. queues + 1 > queues /\ \A t \in Threads : posting[t].stage = "found" => posting[t].queue # queues + 1
      BY SMT DEF IsolatesTyped, PostsTyped, Posting, Finding
    <3>2. ready[queues + 1] = <<>> /\ delayed[queues + 1] = {}
      BY <1>a, <3>1 DEF Fresh
    <3> QED
      BY SMT, <3>1, <3>2 DEF Owns
  <2>2. \A j \in Isolates : foreground'[j] # 0 => Owns(j, foreground'[j])
    BY <1>c, <2>1 DEF TasksOwn
  <2> QED
    BY <2>2 DEF Register, postVars, TasksOwn, Owns
<1>8. LoopsLive'
  BY SMT, <1>b DEF Register, loopVars, QueuesTyped, LoopsLive, Waits
<1>9. Registered'
  BY SMT, <1>b DEF Register, postVars, loopVars, Registered, Listed, Waits, Woken
<1>10. (QueuesTyped /\ PostsTyped /\ LoopsTyped /\ TasksPosted)'
  BY QueuesTypedSame, PostsTypedSame, LoopsTypedSame, TasksPostedSame DEF Register, QueueFor,
         isolateVars, postVars, loopVars
<1> QED
  BY <1>1, <1>2, <1>3, <1>4, <1>5, <1>6, <1>7, <1>8, <1>9, <1>10

\* Nobody waits any more, and the map has the queue of nobody else at the address.
LEMMA ForgetKeeps ==
    ASSUME MaxTasks \in Nat, MaxQueues \in Nat, IInv, NEW i \in Isolates, Forget(i)
    PROVE  IInv'
<1> USE DEF IInv
<1>a. key[i] \in Addresses
  BY DEF Forget, Addressed, Exists
<1>1. IsolatesTyped'
  BY SMT, <1>a DEF Forget, LoopsOn, isolateVars, postVars, loopVars, IsolatesTyped, Lives
<1>2. Addressed'
  <2>1. key' = key /\ \A j \in Isolates : Exists(j)' <=> Exists(j)
    BY DEF Forget, IsolatesTyped, Exists
  <2> QED
    BY <2>1 DEF Addressed
<1>3. Numbered'
  BY SMT, <1>a DEF Forget, LoopsOn, isolateVars, postVars, loopVars, IsolatesTyped, Numbered
<1>4. Mapped'
  <2>1. FOREGROUND[key[i]] = foreground[i] /\ foreground[i] # 0
    BY DEF Forget, Mapped, Numbered
  <2>2. \A a \in Addresses : FOREGROUND'[a] = IF a = key[i] THEN 0 ELSE FOREGROUND[a]
    BY <1>a, <2>1 DEF Forget, IsolatesTyped
  <2>3. \A j \in Isolates : life'[j] = "live" => j # i /\ life[j] = "live" /\ key[j] \in Addresses /\ key[j] # key[i]
    BY DEF Forget, IsolatesTyped, Addressed, Exists
  <2>4. \A j \in Isolates : j # i => life'[j] = life[j]
    BY DEF Forget, IsolatesTyped
  <2>5. \A j \in Isolates : life'[j] = "live" => FOREGROUND'[key[j]] = foreground[j]
    BY <2>2, <2>3 DEF Mapped
  <2>6. ASSUME NEW j \in Isolates, NEW a \in Addresses, foreground[j] # 0, FOREGROUND'[a] = foreground[j]
        PROVE  life'[j] = "live" /\ key[j] = a
    <3>1. a # key[i] /\ FOREGROUND[a] = foreground[j]
      BY <2>2, <2>6
    <3>2. life[j] = "live" /\ key[j] = a
      BY <2>6, <3>1 DEF Mapped
    <3> QED
      BY <2>4, <3>1, <3>2
  <2> QED
    BY SMT, <2>5, <2>6 DEF Forget, Mapped
<1>5. LoopsLive'
  BY <1>a DEF Forget, LoopsOn, isolateVars, postVars, loopVars, IsolatesTyped, LoopsLive,
         Waits
<1>6. (QueuesTyped /\ PostsTyped /\ LoopsTyped /\ Fresh /\ Finding /\ TasksPosted
       /\ TasksOwn /\ Registered)'
  BY QueuesTypedSame, PostsTypedSame, LoopsTypedSame, FreshSame, FindingSame, TasksPostedSame,
         TasksOwnSame, RegisteredSame DEF Forget, LoopsOn, isolateVars, postVars, loopVars
<1> QED
  BY <1>1, <1>2, <1>3, <1>4, <1>5, <1>6

\* What stays in a queue was in it.
LEMMA ForgetTasksKeeps ==
    ASSUME MaxTasks \in Nat, MaxQueues \in Nat, IInv, NEW i \in Isolates, ForgetTasks(i)
    PROVE  IInv'
<1> USE DEF IInv
<1>a. foreground[i] \in Queues
  BY OwnQueue DEF ForgetTasks, Numbered
<1>1. IsolatesTyped'
  BY <1>a DEF ForgetTasks, isolateVars, postVars, loopVars, IsolatesTyped, Lives
<1>2. QueuesTyped'
  BY SMT, <1>a DEF ForgetTasks, isolateVars, postVars, loopVars, QueuesTyped
<1>3. Addressed'
  <2>1. key' = key /\ \A j \in Isolates : Exists(j)' => Exists(j)
    BY DEF ForgetTasks, IsolatesTyped, Exists
  <2> QED
    BY <2>1 DEF Addressed
<1>4. Numbered'
  BY <1>a DEF ForgetTasks, isolateVars, postVars, loopVars, IsolatesTyped, Numbered
<1>5. Fresh'
  BY <1>a DEF ForgetTasks, isolateVars, postVars, loopVars, QueuesTyped, Fresh
<1>6. Mapped'
  BY <1>a DEF ForgetTasks, isolateVars, postVars, loopVars, IsolatesTyped, Mapped
<1>7. TasksPosted'
  BY SMT, <1>a DEF ForgetTasks, isolateVars, postVars, loopVars, QueuesTyped, PostsTyped,
         TasksPosted
<1>8. TasksOwn'
  <2>1. ASSUME NEW q \in Queues
        PROVE  /\ delayed'[q] \subseteq delayed[q]
               /\ \A n \in DOMAIN ready'[q] : \E m \in DOMAIN ready[q] : ready'[q][n] = ready[q][m]
    <3>1. CASE q = foreground[i]
      <4>1. delayed'[q] = {} /\ ready'[q] = <<>>
        BY <3>1 DEF ForgetTasks, QueuesTyped
      <4> QED
        BY SMT, <4>1
    <3>2. CASE q # foreground[i]
      <4>1. delayed'[q] = delayed[q] /\ ready'[q] = ready[q]
        BY <3>2 DEF ForgetTasks, QueuesTyped
      <4> QED
        BY <4>1
    <3> QED
      BY <3>1, <3>2
  <2> QED
    BY <2>1, FewerTasks DEF ForgetTasks, postVars
<1>9. LoopsLive'
  BY <1>a DEF ForgetTasks, isolateVars, postVars, loopVars, IsolatesTyped, LoopsLive, Waits
<1>10. Registered'
  BY SMT, <1>a DEF ForgetTasks, isolateVars, postVars, loopVars, Registered, Listed, Waits, Woken
<1>11. (PostsTyped /\ LoopsTyped /\ Finding)'
  BY PostsTypedSame, LoopsTypedSame, FindingSame DEF ForgetTasks, isolateVars, postVars,
         loopVars
<1> QED
  BY <1>1, <1>2, <1>3, <1>4, <1>5, <1>6, <1>7, <1>8, <1>9, <1>10, <1>11

\* The dead isolate is in no map.
LEMMA DisposeKeeps ==
    ASSUME MaxTasks \in Nat, MaxQueues \in Nat, IInv, NEW i \in Isolates, Dispose(i)
    PROVE  IInv'
<1> USE DEF IInv
<1>1. IsolatesTyped'
  BY DEF Dispose, isolateVars, postVars, loopVars, IsolatesTyped, Lives
<1>2. Addressed'
  BY DEF Dispose, isolateVars, postVars, loopVars, IsolatesTyped, Addressed, Exists
<1>3. Numbered'
  BY DEF Dispose, isolateVars, postVars, loopVars, IsolatesTyped, Numbered
<1>4. Mapped'
  BY DEF Dispose, isolateVars, postVars, loopVars, IsolatesTyped, Mapped
<1>5. LoopsLive'
  BY DEF Dispose, isolateVars, postVars, loopVars, IsolatesTyped, LoopsLive, Waits
<1>6. (QueuesTyped /\ PostsTyped /\ LoopsTyped /\ Fresh /\ Finding /\ TasksPosted
       /\ TasksOwn /\ Registered)'
  BY QueuesTypedSame, PostsTypedSame, LoopsTypedSame, FreshSame, FindingSame, TasksPostedSame,
         TasksOwnSame, RegisteredSame DEF Dispose, isolateVars, postVars, loopVars
<1> QED
  BY <1>1, <1>2, <1>3, <1>4, <1>5, <1>6

-----------------------------------------------------------------------------
(* A post *)

\* The queue found is that of the isolate itself, or of nobody: an address is of one.
LEMMA TasksAtKeeps ==
    ASSUME MaxTasks \in Nat, MaxQueues \in Nat, IInv, NEW t \in Threads, NEW i \in Isolates, TasksAt(t, i)
    PROVE  IInv'
<1> USE DEF IInv
<1>a. key[i] \in Addresses /\ posted + 1 \in Tasks /\ (FOREGROUND[key[i]] = 0 => queues + 1 \in Queues)
  BY SMT DEF TasksAt, IsolatesTyped, PostsTyped, Addressed, Tasks, Queues
<1> DEFINE q == IF FOREGROUND[key[i]] = 0 THEN queues + 1 ELSE FOREGROUND[key[i]]
           post == [stage |-> "found", task |-> posted + 1, queue |-> q, wakes |-> {}]
<1>b. q \in Queues /\ q \in 1..queues' /\ queues <= queues' /\ queues \in Nat /\ queues' \in 0..MaxQueues
  BY SMT, <1>a DEF TasksAt, IsolatesTyped, Numbered, Queues
<1>c. \A j \in Isolates : foreground[j] # 0 /\ foreground[j] = q => life[j] = "live" /\ key[j] = key[i]
  <2>1. \A j \in Isolates : foreground[j] # queues + 1
    BY SMT DEF IsolatesTyped, Numbered
  <2> QED
    BY <1>a, <2>1 DEF Mapped
<1>d. \A j \in Isolates : life[j] = "live" /\ key[j] = key[i] => q = foreground[j]
  BY DEF Mapped, Numbered
<1>e. FOREGROUND' = [FOREGROUND EXCEPT ![key[i]] = q] /\ posting' = [posting EXCEPT ![t] = post]
  BY DEF TasksAt
<1> HIDE DEF q
<1>f. /\ \A a \in Addresses : FOREGROUND'[a] = IF a = key[i] THEN q ELSE FOREGROUND[a]
      /\ \A s \in Threads : posting'[s] = IF s = t THEN post ELSE posting[s]
  BY <1>e, Zenon DEF IsolatesTyped, PostsTyped
<1>g. posted \in Nat /\ posted' = posted + 1 /\ \A k \in Tasks : k <= posted => task_of'[k] = task_of[k]
  BY SMT DEF TasksAt, PostsTyped, Tasks
<1>1. IsolatesTyped'
  BY SMT, <1>a, <1>b, <1>e DEF TasksAt, isolateVars, IsolatesTyped, Queues
<1>2. PostsTyped'
  <2>1. post \in Posting
    BY SMT, <1>a, <1>b DEF Posting, Queues, Tasks
  <2>2. posting' \in [Threads -> Posting]
    BY <1>e, <2>1 DEF PostsTyped
  <2> QED
    BY SMT, <1>a, <2>2 DEF TasksAt, PostsTyped, Tasks
<1>3. Numbered'
  <2>1. \A n \in Int : n <= queues => n <= queues'
    BY SMT, <1>b
  <2>2. \A j \in Isolates : foreground[j] <= queues'
    BY SMT, <2>1 DEF IsolatesTyped, Numbered
  <2>3. \A a \in Addresses : FOREGROUND'[a] <= queues'
    BY SMT, <1>b, <1>f, <2>1 DEF IsolatesTyped, Numbered
  <2> QED
    BY <2>2, <2>3 DEF TasksAt, isolateVars, Numbered
<1>4. Fresh'
  <2>1. \A p \in Queues : p > queues' => p > queues
    BY SMT, <1>b DEF Queues
  <2> QED
    BY <2>1 DEF TasksAt, Fresh
<1>5. Finding'
  <2>1. 1..queues \subseteq 1..queues'
    BY SMT, <1>b
  <2> QED
    BY SMT, <1>b, <1>f, <2>1 DEF Finding
<1>6. Mapped'
  <2>1. \A j \in Isolates : life[j] = "live" => key[j] \in Addresses
    BY DEF Addressed, Exists
  <2>2. \A j \in Isolates : life[j] = "live" => FOREGROUND'[key[j]] = foreground[j]
    BY <1>d, <1>f, <2>1, Zenon DEF Mapped
  <2>3. ASSUME NEW j \in Isolates, NEW a \in Addresses, foreground[j] # 0, FOREGROUND'[a] = foreground[j]
        PROVE  life[j] = "live" /\ key[j] = a
    <3>1. CASE a = key[i]
      BY <1>c, <1>f, <2>3, <3>1, Zenon
    <3>2. CASE a # key[i]
      <4>1. FOREGROUND[a] = foreground[j]
        BY <1>f, <2>3, <3>2, Zenon
      <4> QED
        BY <2>3, <4>1, Zenon DEF Mapped
    <3> QED
      BY <3>1, <3>2
  <2>4. UNCHANGED <<life, key, foreground>>
    BY DEF TasksAt, isolateVars
  <2> QED
    BY <2>2, <2>3, <2>4 DEF Mapped
<1>7. TasksPosted'
  <2>1. \A n \in Int : n <= posted => n <= posted'
    BY SMT, <1>g
  <2>2. ASSUME NEW s \in Threads, posting'[s].stage # "idle" PROVE posting'[s].task \in 1..posted'
    <3>1. CASE s = t
      <4>1. posting'[s].task = posted + 1
        BY SMT, <1>f, <3>1
      <4> QED
        BY SMT, <1>g, <4>1
    <3>2. CASE s # t
      <4>1. posting'[s] = posting[s]
        BY <1>f, <3>2, Zenon
      <4>2. posting[s].task \in 1..posted
        BY <2>2, <4>1, Zenon DEF TasksPosted
      <4> QED
        BY SMT, <1>g, <4>1, <4>2
    <3> QED
      BY <3>1, <3>2
  <2>3. ASSUME NEW p \in Queues
        PROVE  /\ \A k \in delayed[p] : k <= posted'
               /\ \A n \in DOMAIN ready[p] : ready[p][n] <= posted'
    <3>1. /\ \A k \in delayed[p] : k \in Int /\ k <= posted
          /\ \A n \in DOMAIN ready[p] : ready[p][n] \in Int /\ ready[p][n] <= posted
      BY SMT DEF QueuesTyped, Tasks, TasksPosted
    <3> QED
      BY <2>1, <3>1, Zenon
  <2> QED
    BY <2>2, <2>3, Zenon DEF TasksAt, TasksPosted
<1>8. TasksOwn'
  <2> SUFFICES ASSUME NEW j \in Isolates, foreground[j] # 0 PROVE Owns(j, foreground[j])'
    BY Zenon DEF TasksAt, isolateVars, TasksOwn
  <2>1. foreground[j] \in Queues /\ Owns(j, foreground[j]) /\ foreground' = foreground
    BY OwnQueue DEF TasksAt, isolateVars, TasksOwn
  <2> DEFINE p == foreground[j]
  <2> HIDE DEF p
  <2>2. \A k \in delayed[p] : k \in Tasks /\ k <= posted
    BY <2>1 DEF QueuesTyped, TasksPosted, p
  <2>3. \A n \in DOMAIN ready[p] : ready[p][n] \in Tasks /\ ready[p][n] <= posted
    BY SMT, <2>1 DEF QueuesTyped, TasksPosted, p
  <2>4. \A k \in delayed[p] : task_of'[k] = j
    BY <1>g, <2>1, <2>2 DEF Owns, p
  <2>5. \A n \in DOMAIN ready[p] : task_of'[ready[p][n]] = j
    BY <1>g, <2>1, <2>3 DEF Owns, p
  <2>6. ASSUME NEW s \in Threads, posting'[s].stage = "found", posting'[s].queue = p
        PROVE  task_of'[posting'[s].task] = j
    <3>1. CASE s = t
      <4>1. j = i
        BY SMT, <1>c, <1>f, <2>6, <3>1 DEF TasksAt, Addressed, Exists, p
      <4> QED
        BY <1>a, <1>f, <3>1, <4>1, Zenon DEF TasksAt, PostsTyped
    <3>2. CASE s # t
      <4>1. posting'[s] = posting[s] /\ posting[s].task \in Tasks /\ posting[s].task <= posted
        BY SMT, <1>f, <2>6, <3>2 DEF PostsTyped, TasksPosted, Tasks
      <4> QED
        BY <1>g, <2>1, <2>6, <4>1, Zenon DEF Owns, p
    <3> QED
      BY <3>1, <3>2
  <2> QED
    BY <2>1, <2>4, <2>5, <2>6, Zenon DEF TasksAt, Owns, p
<1>9. Registered'
  <2>1. \A l \in Loops : Woken(l) => Woken(l)'
    BY <1>f, Zenon DEF TasksAt, loopVars, Woken, Finding
  <2> QED
    BY <2>1, Zenon DEF TasksAt, isolateVars, loopVars, Registered, Listed, Waits
<1>10. (QueuesTyped /\ LoopsTyped /\ Addressed /\ LoopsLive)'
  BY QueuesTypedSame, LoopsTypedSame, AddressedSame, LoopsLiveSame DEF TasksAt, isolateVars,
         postVars, loopVars
<1> QED
  BY <1>1, <1>2, <1>3, <1>4, <1>5, <1>6, <1>7, <1>8, <1>9, <1>10

\* The loops that are out of the list from here on are those that the thread wakes.
LEMMA PostKeeps ==
    ASSUME MaxTasks \in Nat, MaxQueues \in Nat, IInv, NEW t \in Threads, Post(t)
    PROVE  IInv'
<1> USE DEF IInv
<1>a. posting[t].queue \in Queues /\ posting[t].task \in Tasks /\ posting[t].queue \in 1..queues
  BY SMT DEF Post, IsolatesTyped, PostsTyped, Finding, TasksPosted, Queues, Tasks
<1>b. /\ \A q \in Queues : ready'[q] = IF q = posting[t].queue THEN Append(ready[q], posting[t].task) ELSE ready[q]
      /\ \A q \in Queues : wakers'[q] = IF q = posting[t].queue THEN {} ELSE wakers[q]
  BY <1>a DEF Post, QueuesTyped
<1>c. /\ \A s \in Threads : s # t => posting'[s] = posting[s]
      /\ posting'[t] = [posting[t] EXCEPT !.stage = "pushed", !.wakes = wakers[posting[t].queue]]
  BY DEF Post, PostsTyped
<1>d. posting'[t].stage = "pushed" /\ posting'[t].wakes = wakers[posting[t].queue]
  BY SMT, <1>c DEF PostsTyped, Posting
<1>1. QueuesTyped'
  BY SMT, <1>a DEF Post, isolateVars, postVars, loopVars, QueuesTyped
<1>2. PostsTyped'
  <2>1. posting'[t] \in Posting
    BY <1>a, <1>c, Zenon DEF QueuesTyped, PostsTyped, Posting
  <2> QED
    BY <1>c, <2>1 DEF Post, PostsTyped
<1>3. Fresh'
  <2>1. \A q \in Queues : q > queues => q # posting[t].queue
    BY SMT, <1>a DEF IsolatesTyped, Queues
  <2> QED
    BY <1>b, <2>1 DEF Post, Fresh
<1>4. Finding'
  BY <1>a DEF Post, isolateVars, postVars, loopVars, PostsTyped, Posting, Finding
<1>5. TasksPosted'
  <2>1. posted' = posted /\ delayed' = delayed
    BY DEF Post
  <2>2. \A q \in Queues : \A n \in DOMAIN ready'[q] : ready'[q][n] <= posted
    <3> SUFFICES ASSUME NEW q \in Queues PROVE \A n \in DOMAIN ready'[q] : ready'[q][n] <= posted
      OBVIOUS
    <3>1. /\ ready[q] \in Seq(Tasks) /\ \A n \in DOMAIN ready[q] : ready[q][n] <= posted
          /\ ready'[q] = ready[q] \/ ready'[q] = Append(ready[q], posting[t].task)
      BY <1>b DEF QueuesTyped, TasksPosted
    <3>2. posting[t].task <= posted
      BY SMT DEF Post, PostsTyped, TasksPosted
    <3>3. \A n \in DOMAIN Append(ready[q], posting[t].task) : Append(ready[q], posting[t].task)[n] <= posted
      <4>1. \A n \in DOMAIN Append(ready[q], posting[t].task) :
              \/ n \in DOMAIN ready[q] /\ Append(ready[q], posting[t].task)[n] = ready[q][n]
              \/ Append(ready[q], posting[t].task)[n] = posting[t].task
        BY SMT, <1>a, <3>1
      <4> QED
        BY <3>1, <3>2, <4>1
    <3> QED
      BY <3>1, <3>3
  <2>3. posting'[t].task = posting[t].task
    BY SMT, <1>c DEF PostsTyped, Posting
  <2>4. \A s \in Threads : posting'[s].stage # "idle" => posting'[s].task \in 1..posted
    BY <1>c, <2>3 DEF Post, TasksPosted
  <2> QED
    BY <2>1, <2>2, <2>4 DEF TasksPosted
<1>6. TasksOwn'
  <2> SUFFICES ASSUME NEW j \in Isolates, foreground[j] # 0 PROVE Owns(j, foreground[j])'
    BY DEF Post, isolateVars, TasksOwn
  <2>1. foreground[j] \in Queues /\ Owns(j, foreground[j]) /\ foreground' = foreground
    BY OwnQueue DEF Post, isolateVars, TasksOwn
  <2> DEFINE p == foreground[j]
  <2> HIDE DEF p
  <2>2. \A n \in DOMAIN ready'[p] : task_of[ready'[p][n]] = j
    <3>1. ready[p] \in Seq(Tasks) /\ \A n \in DOMAIN ready[p] : task_of[ready[p][n]] = j
      BY <2>1 DEF QueuesTyped, Owns, p
    <3>2. CASE p = posting[t].queue
      <4>1. ready'[p] = Append(ready[p], posting[t].task) /\ task_of[posting[t].task] = j
        BY <1>b, <2>1, <3>2, Zenon DEF Post, Owns, p
      <4> QED
        BY SMT, <1>a, <3>1, <4>1
    <3>3. CASE p # posting[t].queue
      BY <1>b, <2>1, <3>1, <3>3, Zenon DEF p
    <3> QED
      BY <3>2, <3>3
  <2>3. \A s \in Threads : posting'[s].stage = "found" => posting'[s] = posting[s]
    BY <1>c, <1>d, Zenon
  <2>4. \A s \in Threads : posting'[s].stage = "found" /\ posting'[s].queue = p => task_of[posting'[s].task] = j
    BY <2>1, <2>3 DEF Owns, p
  <2>5. \A k \in delayed[p] : task_of[k] = j
    BY <2>1 DEF Owns, p
  <2> QED
    BY <2>1, <2>2, <2>4, <2>5, Zenon DEF Post, Owns, p
<1>7. LoopsLive'
  BY SMT, <1>a DEF Post, isolateVars, postVars, loopVars, IsolatesTyped, LoopsLive, Waits
<1>8. Registered'
  <2> SUFFICES ASSUME NEW l \in Loops, Waits(l) PROVE Listed(l, foreground[on[l]])'
    BY DEF Post, loopVars, Registered, Waits
  <2>1. foreground[on[l]] \in Queues /\ Listed(l, foreground[on[l]]) /\ foreground' = foreground /\ on' = on
    BY LoopQueue DEF Post, isolateVars, loopVars, Registered
  <2> DEFINE q == foreground[on[l]]
  <2> HIDE DEF q
  <2>2. posting[t].wakes = {}
    BY DEF Post, Finding
  <2>3. Woken(l) => Woken(l)'
    BY <1>c, <2>2, Zenon DEF Post, loopVars, Woken
  <2>4. CASE q = posting[t].queue
    <3>1. l \notin wakers'[q] /\ (l \in wakers[q] => Woken(l)')
      BY <1>b, <1>d, <2>1, <2>4 DEF Woken, q
    <3> QED
      BY <2>1, <2>3, <3>1 DEF Listed, q
  <2>5. CASE q # posting[t].queue
    <3>1. wakers'[q] = wakers[q] /\ ready'[q] = ready[q] /\ state' = state
      BY <1>b, <2>1, <2>5 DEF Post, loopVars, q
    <3> QED
      BY <2>1, <2>3, <3>1 DEF Listed, q
  <2> QED
    BY <2>4, <2>5
<1>9. (IsolatesTyped /\ LoopsTyped /\ Addressed /\ Numbered /\ Mapped)'
  BY IsolatesTypedSame, LoopsTypedSame, AddressedSame, NumberedSame, MappedSame DEF Post,
         isolateVars, postVars, loopVars
<1> QED
  BY <1>1, <1>2, <1>3, <1>4, <1>5, <1>6, <1>7, <1>8, <1>9

\* Nobody was to be woken.
LEMMA PostDelayedKeeps ==
    ASSUME MaxTasks \in Nat, MaxQueues \in Nat, IInv, NEW t \in Threads, PostDelayed(t)
    PROVE  IInv'
<1> USE DEF IInv
<1>a. posting[t].queue \in Queues /\ posting[t].task \in Tasks /\ posting[t].queue \in 1..queues
  BY SMT DEF PostDelayed, IsolatesTyped, PostsTyped, Finding, TasksPosted, Queues, Tasks
<1>b. \A q \in Queues : delayed'[q] = IF q = posting[t].queue THEN delayed[q] \cup {posting[t].task} ELSE delayed[q]
  BY <1>a, Zenon DEF PostDelayed, QueuesTyped
<1>c. \A s \in Threads : posting'[s] = IF s = t THEN Idle ELSE posting[s]
  BY DEF PostDelayed, PostsTyped
<1>1. QueuesTyped'
  BY <1>a DEF PostDelayed, Idle, isolateVars, postVars, loopVars, QueuesTyped
<1>2. PostsTyped'
  BY SMT, <1>a DEF PostDelayed, Idle, isolateVars, postVars, loopVars, PostsTyped, Posting
<1>3. Fresh'
  <2>1. \A q \in Queues : q > queues => q # posting[t].queue
    BY SMT, <1>a DEF IsolatesTyped, Queues
  <2> QED
    BY <1>b, <2>1 DEF PostDelayed, Fresh
<1>4. Finding'
  BY <1>a DEF PostDelayed, Idle, isolateVars, postVars, loopVars, PostsTyped, Posting, Finding
<1>5. TasksPosted'
  BY SMT, <1>a DEF PostDelayed, Idle, isolateVars, postVars, loopVars, QueuesTyped, PostsTyped,
         TasksPosted
<1>6. TasksOwn'
  <2> SUFFICES ASSUME NEW j \in Isolates, foreground[j] # 0 PROVE Owns(j, foreground[j])'
    BY Zenon DEF PostDelayed, isolateVars, TasksOwn
  <2>1. foreground[j] \in Queues /\ Owns(j, foreground[j]) /\ foreground' = foreground
    BY OwnQueue, Zenon DEF PostDelayed, isolateVars, TasksOwn
  <2> DEFINE p == foreground[j]
  <2> HIDE DEF p
  <2>2. p = posting[t].queue => task_of[posting[t].task] = j
    BY <2>1 DEF PostDelayed, Owns, p
  <2>3. \A k \in delayed'[p] : task_of[k] = j
    <3>1. /\ \A k \in delayed[p] : task_of[k] = j
          /\ delayed'[p] = IF p = posting[t].queue THEN delayed[p] \cup {posting[t].task} ELSE delayed[p]
      BY <1>b, <2>1 DEF Owns, p
    <3> QED
      BY <2>2, <3>1
  <2>4. \A s \in Threads : posting'[s].stage = "found" => posting'[s] = posting[s]
    BY SMT, <1>c DEF Idle
  <2> QED
    BY <2>1, <2>3, <2>4, Zenon DEF PostDelayed, Owns, p
<1>7. Registered'
  <2>1. \A l \in Loops : Woken(l) => Woken(l)'
    BY <1>c DEF PostDelayed, loopVars, Woken, Finding
  <2> QED
    BY <2>1, Zenon DEF PostDelayed, isolateVars, loopVars, Registered, Listed, Waits
<1>8. (IsolatesTyped /\ LoopsTyped /\ Addressed /\ Numbered /\ Mapped /\ LoopsLive)'
  BY IsolatesTypedSame, LoopsTypedSame, AddressedSame, NumberedSame, MappedSame, LoopsLiveSame
         DEF PostDelayed, Idle, isolateVars, postVars, loopVars
<1> QED
  BY <1>1, <1>2, <1>3, <1>4, <1>5, <1>6, <1>7, <1>8

\* Who waits and was to be woken is notified.
LEMMA WakeKeeps ==
    ASSUME MaxTasks \in Nat, MaxQueues \in Nat, IInv, NEW t \in Threads, Wake(t)
    PROVE  IInv'
<1> USE DEF IInv
<1>a. posting[t].wakes \subseteq Loops
  BY DEF PostsTyped, Posting
<1>1. PostsTyped'
  <2>1. Idle \in Posting
    BY SMT DEF Idle, Posting
  <2> QED
    BY <2>1 DEF Wake, PostsTyped
<1>2. LoopsTyped'
  BY <1>a DEF Wake, LoopsTyped
<1>3. Finding'
  BY <1>a DEF Wake, Idle, isolateVars, postVars, loopVars, PostsTyped, Posting, Finding
<1>4. TasksPosted'
  BY <1>a DEF Wake, Idle, isolateVars, postVars, loopVars, QueuesTyped, PostsTyped,
         TasksPosted
<1>5. TasksOwn'
  <2>1. \A s \in Threads : posting'[s].stage = "found" => posting'[s] = posting[s]
    BY DEF Wake, Idle, PostsTyped
  <2>2. UNCHANGED <<foreground, delayed, ready, task_of>>
    BY DEF Wake, isolateVars
  <2>3. ASSUME NEW j \in Isolates, NEW p, Owns(j, p)
        PROVE  /\ \A k \in delayed[p] : task_of[k] = j
               /\ \A n \in DOMAIN ready[p] : task_of[ready[p][n]] = j
               /\ \A s \in Threads : posting'[s].stage = "found" /\ posting'[s].queue = p =>
                     task_of[posting'[s].task] = j
    BY <2>1, <2>3 DEF Owns
  <2>4. \A j \in Isolates : foreground[j] # 0 => Owns(j, foreground[j])'
    BY SMT, <2>2, <2>3 DEF TasksOwn, Owns
  <2> QED
    BY <2>2, <2>4 DEF TasksOwn
<1>6. Registered'
  BY SMT, <1>a DEF Wake, Idle, isolateVars, postVars, loopVars, Registered, Listed, Waits, Woken
<1>7. (IsolatesTyped /\ QueuesTyped /\ Addressed /\ Numbered /\ Fresh /\ Mapped /\ LoopsLive)'
  BY IsolatesTypedSame, QueuesTypedSame, AddressedSame, NumberedSame, FreshSame, MappedSame,
         LoopsLiveSame DEF Wake, Idle, isolateVars, postVars, loopVars
<1> QED
  BY <1>1, <1>2, <1>3, <1>4, <1>5, <1>6, <1>7

-----------------------------------------------------------------------------
(* The loops *)

\* A loop starts woken.
LEMMA StartLoopKeeps ==
    ASSUME MaxTasks \in Nat, MaxQueues \in Nat, IInv, NEW l \in Loops, NEW i \in Isolates, StartLoop(l, i)
    PROVE  IInv'
<1> USE DEF IInv
<1>1. LoopsTyped'
  BY DEF StartLoop, isolateVars, postVars, loopVars, LoopsTyped, States
<1>2. LoopsLive'
  <2>1. \A m \in Loops : Waits(m) => m # l /\ Waits(m)' /\ on'[m] = on[m]
    BY DEF StartLoop, LoopsTyped, Waits
  <2>2. \A m \in Loops : Waits(m)' => (m = l /\ on'[m] = i) \/ Waits(m)
    BY DEF StartLoop, LoopsTyped, Waits
  <2>3. \A m \in Loops : Waits(m)' => on'[m] \in Isolates /\ life[on'[m]] = "live"
    BY <2>1, <2>2 DEF StartLoop, LoopsLive
  <2>4. \A q \in Queues : \A m \in wakers[q] : Waits(m)' /\ q = foreground[on'[m]]
    BY <2>1 DEF QueuesTyped, LoopsLive
  <2> QED
    BY <2>3, <2>4 DEF StartLoop, isolateVars, LoopsLive
<1>3. Registered'
  <2> SUFFICES ASSUME NEW m \in Loops, Waits(m)' PROVE Listed(m, foreground[on[m]])'
    BY DEF Registered
  <2>1. foreground' = foreground /\ wakers' = wakers /\ ready' = ready /\ (Woken(m) => Woken(m)')
    BY DEF StartLoop, isolateVars, postVars, Woken
  <2>2. CASE m = l
    <3>1. on'[m] = i /\ foreground[i] \in Queues /\ ~ Waits(l) /\ Woken(m)'
      BY <2>2, OwnQueue, Zenon DEF StartLoop, LoopsTyped, Numbered, Waits, Woken
    <3>2. m \notin wakers[foreground[i]]
      BY <2>2, <3>1, Zenon DEF LoopsLive
    <3> QED
      BY <2>1, <3>1, <3>2, Zenon DEF Listed
  <2>3. CASE m # l
    <3>1. on'[m] = on[m] /\ state'[m] = state[m] /\ Waits(m)
      BY <2>3 DEF StartLoop, LoopsTyped, Waits
    <3> QED
      BY <2>1, <3>1, Zenon DEF Registered, Listed
  <2> QED
    BY <2>2, <2>3
<1>4. (IsolatesTyped /\ QueuesTyped /\ PostsTyped /\ Addressed /\ Numbered /\ Fresh
       /\ Finding /\ Mapped /\ TasksPosted /\ TasksOwn)'
  BY IsolatesTypedSame, QueuesTypedSame, PostsTypedSame, AddressedSame, NumberedSame,
         FreshSame, FindingSame, MappedSame, TasksPostedSame, TasksOwnSame DEF StartLoop,
         isolateVars, postVars, loopVars
<1> QED
  BY <1>1, <1>2, <1>3, <1>4

\* The loop is in the list before it is no longer notified.
LEMMA PollKeeps ==
    ASSUME MaxTasks \in Nat, MaxQueues \in Nat, IInv, NEW l \in Loops, Poll(l)
    PROVE  IInv'
<1> USE DEF IInv
<1>a. on[l] \in Isolates /\ foreground[on[l]] \in Queues
  BY LoopQueue, Zenon DEF Poll, Waits
<1>1. QueuesTyped'
  BY <1>a, Zenon DEF Poll, Polls, Registers, isolateVars, postVars, loopVars, QueuesTyped
<1>2. LoopsTyped'
  BY <1>a DEF Poll, Polls, Registers, isolateVars, postVars, loopVars, LoopsTyped, States
<1>3. LoopsLive'
  BY SMT, <1>a DEF Poll, Polls, Registers, isolateVars, postVars, loopVars, IsolatesTyped,
         LoopsLive, Waits
<1>4. Registered'
  <2> SUFFICES ASSUME NEW m \in Loops, Waits(m)' PROVE Listed(m, foreground[on[m]])'
    BY DEF Registered
  <2>1. foreground' = foreground /\ on' = on /\ ready' = ready
    BY DEF Poll, Polls, isolateVars
  <2>2. CASE m = l
    <3>1. l \in wakers'[foreground[on[l]]] /\ state'[l] = "polling"
      BY <1>a DEF Poll, Registers, QueuesTyped, LoopsTyped
    <3> QED
      BY <2>1, <2>2, <3>1, Zenon DEF Listed
  <2>3. CASE m # l
    <3>1. state'[m] = state[m] /\ Waits(m)
      BY <2>3 DEF Poll, LoopsTyped, Waits
    <3>2. Listed(m, foreground[on[m]]) /\ foreground[on[m]] \in Queues
      BY <3>1, LoopQueue, Zenon DEF Registered
    <3>3. m \in wakers'[foreground[on[m]]] <=> m \in wakers[foreground[on[m]]]
      BY <1>a, <2>3, <3>2, Zenon DEF Poll, Registers, QueuesTyped
    <3>4. Woken(m) => Woken(m)'
      BY <2>3, Zenon DEF Poll, Polls, postVars, Woken
    <3> QED
      BY <2>1, <3>1, <3>2, <3>3, <3>4, Zenon DEF Listed
  <2> QED
    BY <2>2, <2>3
<1>5. (IsolatesTyped /\ PostsTyped /\ Addressed /\ Numbered /\ Fresh /\ Finding /\ Mapped
       /\ TasksPosted /\ TasksOwn)'
  BY Zenon, IsolatesTypedSame, PostsTypedSame, AddressedSame, NumberedSame, FreshSame, FindingSame,
         MappedSame, TasksPostedSame, TasksOwnSame DEF Poll, Polls, Registers, isolateVars, postVars,
         loopVars
<1> QED
  BY <1>1, <1>2, <1>3, <1>4, <1>5

\* What is left in the queue was in it, and the loop still polls.
LEMMA RunReadyKeeps ==
    ASSUME MaxTasks \in Nat, MaxQueues \in Nat, IInv, NEW l \in Loops, RunReady(l)
    PROVE  IInv'
<1> USE DEF IInv
<1>a. on[l] \in Isolates /\ foreground[on[l]] \in Queues
  BY LoopQueue DEF RunReady, Waits
<1>1. QueuesTyped'
  BY SMT, <1>a DEF RunReady, Polls, isolateVars, postVars, loopVars, QueuesTyped
<1>2. Fresh'
  BY <1>a DEF RunReady, Polls, isolateVars, postVars, loopVars, QueuesTyped, Fresh
<1>3. TasksPosted'
  BY SMT, <1>a DEF RunReady, Polls, isolateVars, postVars, loopVars, QueuesTyped, PostsTyped,
         TasksPosted
<1>4. TasksOwn'
  <2>1. ASSUME NEW q \in Queues
        PROVE  \A n \in DOMAIN ready'[q] : \E m \in DOMAIN ready[q] : ready'[q][n] = ready[q][m]
    <3>1. CASE q = foreground[on[l]]
      <4>1. ready[q] \in Seq(Tasks) /\ ready[q] # <<>> /\ ready'[q] = Tail(ready[q])
        BY <1>a, <3>1 DEF RunReady, QueuesTyped
      <4>2. \A n \in DOMAIN Tail(ready[q]) : n + 1 \in DOMAIN ready[q] /\ Tail(ready[q])[n] = ready[q][n + 1]
        BY SMT, <4>1
      <4> QED
        BY <4>1, <4>2
    <3>2. CASE q # foreground[on[l]]
      <4>1. ready'[q] = ready[q]
        BY <3>2 DEF RunReady, QueuesTyped
      <4> QED
        BY <4>1
    <3> QED
      BY <3>1, <3>2
  <2> QED
    BY <2>1, FewerTasks, Zenon DEF RunReady, Polls, isolateVars, postVars
<1>5. Registered'
  BY SMT, <1>a DEF RunReady, Polls, isolateVars, postVars, loopVars, Registered, Listed, Waits,
         Woken
<1>6. (IsolatesTyped /\ PostsTyped /\ LoopsTyped /\ Addressed /\ Numbered /\ Finding
       /\ Mapped /\ LoopsLive)'
  BY Zenon, IsolatesTypedSame, PostsTypedSame, LoopsTypedSame, AddressedSame, NumberedSame,
         FindingSame, MappedSame, LoopsLiveSame DEF RunReady, Polls, isolateVars, postVars, loopVars
<1> QED
  BY <1>1, <1>2, <1>3, <1>4, <1>5, <1>6

\* The ready tasks stay.
LEMMA RunDelayedKeeps ==
    ASSUME MaxTasks \in Nat, MaxQueues \in Nat, IInv, NEW l \in Loops, RunDelayed(l)
    PROVE  IInv'
<1> USE DEF IInv
<1>a. on[l] \in Isolates /\ foreground[on[l]] \in Queues
  BY LoopQueue, Zenon DEF RunDelayed, Waits
<1>1. QueuesTyped'
  BY <1>a DEF RunDelayed, Polls, isolateVars, postVars, loopVars, QueuesTyped
<1>2. Fresh'
  BY <1>a DEF RunDelayed, Polls, isolateVars, postVars, loopVars, QueuesTyped, Fresh
<1>3. TasksPosted'
  BY SMT, <1>a, Zenon DEF RunDelayed, Polls, isolateVars, postVars, loopVars, QueuesTyped, PostsTyped,
         TasksPosted
<1>4. TasksOwn'
  <2>1. \A q \in Queues : delayed'[q] \subseteq delayed[q]
    BY <1>a, Zenon DEF RunDelayed, QueuesTyped
  <2>2. \A q \in Queues : \A n \in DOMAIN ready[q] : \E m \in DOMAIN ready[q] : ready[q][n] = ready[q][m]
    OBVIOUS
  <2> QED
    BY <2>1, <2>2, FewerTasks, Zenon DEF RunDelayed, Polls, isolateVars, postVars
<1>5. (IsolatesTyped /\ PostsTyped /\ LoopsTyped /\ Addressed /\ Numbered /\ Finding
       /\ Mapped /\ LoopsLive /\ Registered)'
  BY Zenon, IsolatesTypedSame, PostsTypedSame, LoopsTypedSame, AddressedSame, NumberedSame,
         FindingSame, MappedSame, LoopsLiveSame, RegisteredSame DEF RunDelayed, Polls, isolateVars,
         postVars, loopVars
<1> QED
  BY <1>1, <1>2, <1>3, <1>4, <1>5

\* The loop is in the list, and has just seen the queue empty.
LEMMA RunEndsKeeps ==
    ASSUME MaxTasks \in Nat, MaxQueues \in Nat, IInv, NEW l \in Loops, RunEnds(l)
    PROVE  IInv'
<1> USE DEF IInv
<1>a. on[l] \in Isolates /\ foreground[on[l]] \in Queues
  BY LoopQueue DEF RunEnds, Waits
<1>1. LoopsTyped'
  BY <1>a DEF RunEnds, Polls, isolateVars, postVars, loopVars, LoopsTyped, States
<1>2. LoopsLive'
  BY SMT, <1>a DEF RunEnds, Polls, isolateVars, postVars, loopVars, IsolatesTyped, LoopsLive, Waits
<1>3. Registered'
  BY SMT, <1>a DEF RunEnds, Polls, isolateVars, postVars, loopVars, Registered, Listed, Waits,
         Woken
<1>4. (IsolatesTyped /\ QueuesTyped /\ PostsTyped /\ Addressed /\ Numbered /\ Fresh
       /\ Finding /\ Mapped /\ TasksPosted /\ TasksOwn)'
  BY Zenon, IsolatesTypedSame, QueuesTypedSame, PostsTypedSame, AddressedSame, NumberedSame,
         FreshSame, FindingSame, MappedSame, TasksPostedSame, TasksOwnSame DEF RunEnds, Polls,
         isolateVars, postVars, loopVars
<1> QED
  BY <1>1, <1>2, <1>3, <1>4

\* Nothing of the queue changes.
LEMMA ParkKeeps ==
    ASSUME MaxTasks \in Nat, MaxQueues \in Nat, IInv, NEW l \in Loops, Park(l)
    PROVE  IInv'
<1> USE DEF IInv
<1>1. LoopsTyped'
  BY DEF Park, Polls, isolateVars, postVars, loopVars, LoopsTyped, States
<1>2. LoopsLive'
  BY SMT DEF Park, Polls, isolateVars, postVars, loopVars, IsolatesTyped, LoopsLive, Waits
<1>3. Registered'
  BY SMT DEF Park, Polls, isolateVars, postVars, loopVars, Registered, Listed, Waits, Woken
<1>4. (IsolatesTyped /\ QueuesTyped /\ PostsTyped /\ Addressed /\ Numbered /\ Fresh
       /\ Finding /\ Mapped /\ TasksPosted /\ TasksOwn)'
  BY IsolatesTypedSame, QueuesTypedSame, PostsTypedSame, AddressedSame, NumberedSame,
         FreshSame, FindingSame, MappedSame, TasksPostedSame, TasksOwnSame DEF Park, Polls,
         isolateVars, postVars, loopVars
<1> QED
  BY <1>1, <1>2, <1>3, <1>4

\* The loop is woken.
LEMMA WakeIoKeeps ==
    ASSUME MaxTasks \in Nat, MaxQueues \in Nat, IInv, NEW l \in Loops, WakeIo(l)
    PROVE  IInv'
<1> USE DEF IInv
<1>1. LoopsTyped'
  BY DEF WakeIo, Polls, isolateVars, postVars, loopVars, LoopsTyped, States
<1>2. Registered'
  BY DEF WakeIo, Polls, isolateVars, postVars, loopVars, Registered, Listed, Waits, Woken
<1>3. (IsolatesTyped /\ QueuesTyped /\ PostsTyped /\ Addressed /\ Numbered /\ Fresh
       /\ Finding /\ Mapped /\ TasksPosted /\ TasksOwn /\ LoopsLive)'
  BY IsolatesTypedSame, QueuesTypedSame, PostsTypedSame, AddressedSame, NumberedSame,
         FreshSame, FindingSame, MappedSame, TasksPostedSame, TasksOwnSame, LoopsLiveSame DEF WakeIo,
         Polls, isolateVars, postVars, loopVars
<1> QED
  BY <1>1, <1>2, <1>3

\* The loop is in no list, and waits no more.
LEMMA EndLoopKeeps ==
    ASSUME MaxTasks \in Nat, MaxQueues \in Nat, IInv, Known, NEW l \in Loops, EndLoop(l)
    PROVE  IInv'
<1> USE DEF IInv
<1>a. on[l] \in Isolates /\ foreground[on[l]] \in Queues
  BY LoopQueue DEF EndLoop, Waits
<1>b. wakers' = [wakers EXCEPT ![foreground[on[l]]] = wakers[foreground[on[l]]] \ {l}]
  <2>1. wakers[foreground[on[l]]] \ ({l} \cap waker) = wakers[foreground[on[l]]] \ {l}
    BY <1>a, Zenon DEF Known
  <2> QED
    BY <2>1, Zenon DEF EndLoop, Leaves
<1>1. QueuesTyped'
  BY <1>a, <1>b, Zenon DEF EndLoop, Polls, isolateVars, postVars, loopVars, QueuesTyped
<1>2. LoopsTyped'
  BY <1>a DEF EndLoop, Polls, isolateVars, postVars, loopVars, LoopsTyped, States
<1>3. LoopsLive'
  <2>1. \A m \in Loops : Waits(m)' <=> Waits(m) /\ m # l
    BY DEF EndLoop, LoopsTyped, Waits
  <2>2. \A q \in Queues : wakers'[q] = IF q = foreground[on[l]] THEN wakers[q] \ {l} ELSE wakers[q]
    BY <1>a, <1>b, Zenon DEF QueuesTyped
  <2>3. \A q \in Queues : \A m \in wakers[q] : m \in Loops /\ Waits(m) /\ q = foreground[on[m]]
    BY Zenon DEF QueuesTyped, LoopsLive
  <2>4. ASSUME NEW q \in Queues, NEW m \in wakers'[q]
        PROVE  m \in Loops /\ m # l /\ Waits(m) /\ q = foreground[on[m]]
    <3>1. m \in wakers[q] /\ (q = foreground[on[l]] => m # l)
      BY <2>2, <2>4
    <3>2. m \in Loops /\ Waits(m) /\ q = foreground[on[m]]
      BY <2>3, <3>1
    <3> QED
      BY <3>1, <3>2
  <2> QED
    BY <2>1, <2>4, Zenon DEF EndLoop, Polls, isolateVars, LoopsLive
<1>4. Registered'
  <2> SUFFICES ASSUME NEW m \in Loops, Waits(m)' PROVE Listed(m, foreground[on[m]])'
    BY DEF Registered
  <2>1. foreground' = foreground /\ on' = on /\ ready' = ready
    BY DEF EndLoop, Polls, isolateVars
  <2>2. CASE m = l
    BY <2>2, Zenon DEF EndLoop, LoopsTyped, Waits
  <2>3. CASE m # l
    <3>1. state'[m] = state[m] /\ Waits(m)
      BY <2>3 DEF EndLoop, LoopsTyped, Waits
    <3>2. Listed(m, foreground[on[m]]) /\ foreground[on[m]] \in Queues
      BY <3>1, LoopQueue, Zenon DEF Registered
    <3>3. m \in wakers'[foreground[on[m]]] <=> m \in wakers[foreground[on[m]]]
      BY <1>a, <1>b, <2>3, <3>2, Zenon DEF QueuesTyped
    <3>4. Woken(m) => Woken(m)'
      BY <2>3, Zenon DEF EndLoop, Polls, postVars, Woken
    <3> QED
      BY <2>1, <3>1, <3>2, <3>3, <3>4, Zenon DEF Listed
  <2> QED
    BY <2>2, <2>3
<1>5. (IsolatesTyped /\ PostsTyped /\ Addressed /\ Numbered /\ Fresh /\ Finding /\ Mapped
       /\ TasksPosted /\ TasksOwn)'
  BY Zenon, IsolatesTypedSame, PostsTypedSame, AddressedSame, NumberedSame, FreshSame, FindingSame,
         MappedSame, TasksPostedSame, TasksOwnSame DEF EndLoop, Polls, isolateVars, postVars,
         loopVars
<1> QED
  BY <1>1, <1>2, <1>3, <1>4, <1>5

-----------------------------------------------------------------------------
(* The invariant *)

\* A waiter puts its waker into the list and keeps it, and takes both away.
LEMMA KnownKeeps ==
    ASSUME MaxTasks \in Nat, MaxQueues \in Nat, IInv, IInv', Known, [Next]_vars
    PROVE  Known'
<1>1. QueuesTyped /\ QueuesTyped' /\ LoopsLive'
  BY DEF IInv
<1>2. CASE UNCHANGED <<wakers, waker>>
  BY <1>2 DEF Known
<1>3. ASSUME NEW t \in Threads, Post(t) PROVE Known'
  BY <1>1, <1>3 DEF Post, loopVars, QueuesTyped, Known
<1>4. ASSUME NEW l \in Loops, Poll(l) PROVE Known'
  BY <1>1, <1>4 DEF Poll, Registers, QueuesTyped, Known
<1>5. ASSUME NEW l \in Loops, EndLoop(l) PROVE Known'
  <2>1. ASSUME NEW q \in Queues, NEW m \in wakers'[q] PROVE m \in waker /\ m # l
    <3>1. m \in wakers[q]
      BY <1>1, <1>5, <2>1 DEF EndLoop, Leaves, QueuesTyped
    <3>2. ~Waits(l)'
      BY <1>5 DEF EndLoop, Waits, IInv, LoopsTyped
    <3> QED
      BY <1>1, <2>1, <3>1, <3>2 DEF Known, LoopsLive
  <2> QED
    BY <1>5, <2>1 DEF EndLoop, Known
<1> QED
  BY <1>2, <1>3, <1>4, <1>5 DEF Next, NewIsolate, Register, Forget, ForgetTasks, Dispose, TasksAt, PostDelayed,
     Wake, StartLoop, LoopStep, RunReady, RunDelayed, RunEnds, Park, WakeIo, vars, loopVars

\* The invariant holds before the first isolate is made.
LEMMA InitHolds == ASSUME MaxTasks \in Nat, MaxQueues \in Nat, Init PROVE IInv
<1> USE DEF Init, Idle
<1>1. IsolatesTyped /\ QueuesTyped /\ PostsTyped /\ LoopsTyped
  BY SMT DEF IsolatesTyped, QueuesTyped, PostsTyped, LoopsTyped, Lives, States, Posting, Queues, Tasks
<1>2. Addressed /\ Numbered /\ Fresh /\ Finding /\ Mapped
  BY SMT DEF Addressed, Exists, Numbered, Fresh, Finding, Mapped
<1>3. TasksPosted /\ TasksOwn /\ LoopsLive /\ Registered
  BY SMT DEF TasksPosted, TasksOwn, LoopsLive, Registered, Waits
<1> QED
  BY <1>1, <1>2, <1>3 DEF IInv

\* A step that changes nothing keeps the invariant.
LEMMA StutterKeeps == ASSUME IInv, UNCHANGED vars PROVE IInv'
BY IsolatesTypedSame, QueuesTypedSame, PostsTypedSame, LoopsTypedSame, AddressedSame, NumberedSame,
   FreshSame, FindingSame, MappedSame, TasksPostedSame, TasksOwnSame, LoopsLiveSame, RegisteredSame
   DEF IInv, vars, isolateVars, postVars, loopVars

\* The invariant holds in every state: every step of an isolate, a thread that posts
\* and a loop keeps it.
LEMMA Invariance == ASSUME MaxTasks \in Nat, MaxQueues \in Nat PROVE Spec => []IInv
<1>1. Init => IInv /\ Known
  BY InitHolds DEF Init, Known
<1>2. ASSUME IInv, Known, [Next]_vars PROVE IInv'
  <2>1. CASE UNCHANGED vars
    BY <1>2, <2>1, StutterKeeps
  <2>2. ASSUME NEW i \in Isolates, NEW a \in Addresses, NewIsolate(i, a) PROVE IInv'
    BY <1>2, <2>2, NewIsolateKeeps
  <2>3. ASSUME NEW i \in Isolates, Register(i) \/ Forget(i) \/ ForgetTasks(i) \/ Dispose(i) PROVE IInv'
    BY <1>2, <2>3, RegisterKeeps, ForgetKeeps, ForgetTasksKeeps, DisposeKeeps
  <2>4. ASSUME NEW t \in Threads, NEW i \in Isolates, TasksAt(t, i) PROVE IInv'
    BY <1>2, <2>4, TasksAtKeeps
  <2>5. ASSUME NEW t \in Threads, Post(t) \/ PostDelayed(t) \/ Wake(t) PROVE IInv'
    BY <1>2, <2>5, PostKeeps, PostDelayedKeeps, WakeKeeps
  <2>6. ASSUME NEW l \in Loops, NEW i \in Isolates, StartLoop(l, i) PROVE IInv'
    BY <1>2, <2>6, StartLoopKeeps
  <2>7. ASSUME NEW l \in Loops, LoopStep(l) PROVE IInv'
    BY <1>2, <2>7, PollKeeps, RunReadyKeeps, RunDelayedKeeps, RunEndsKeeps, ParkKeeps DEF LoopStep
  <2>8. ASSUME NEW l \in Loops, WakeIo(l) \/ EndLoop(l) PROVE IInv'
    BY <1>2, <2>8, WakeIoKeeps, EndLoopKeeps
  <2> QED
    BY <1>2, <2>1, <2>2, <2>3, <2>4, <2>5, <2>6, <2>7, <2>8 DEF Next
<1>3. IInv /\ Known /\ [Next]_vars => (IInv /\ Known)'
  BY <1>2, KnownKeeps
<1> QED
  BY <1>1, <1>3, PTL DEF Spec

-----------------------------------------------------------------------------
(* The properties *)

\* In every state, a post for an isolate that lives finds the queue that its loops wait
\* on, and the tasks in it are its own, whatever dead isolates had its address
\* (register, forget and tasks_at of platform.rs).
THEOREM QueueSafety == ASSUME MaxTasks \in Nat, MaxQueues \in Nat PROVE Spec => []QueueOwn
<1>1. ASSUME IInv PROVE QueueOwn
  <2> SUFFICES ASSUME NEW i \in Isolates, life[i] = "live"
               PROVE  /\ FOREGROUND[key[i]] = foreground[i]
                      /\ \A k \in delayed[foreground[i]] \cup Ready(i) : task_of[k] = i
    BY DEF QueueOwn
  <2>1. FOREGROUND[key[i]] = foreground[i] /\ foreground[i] # 0
    BY <1>1 DEF IInv, Mapped, Numbered
  <2>2. \A k \in delayed[foreground[i]] : task_of[k] = i
    BY <1>1, <2>1, Zenon DEF IInv, TasksOwn, Owns
  <2>3. \A k \in Ready(i) : task_of[k] = i
    BY SMT, <1>1, <2>1 DEF IInv, TasksOwn, Owns, Ready
  <2> QED
    BY <2>1, <2>2, <2>3
<1> QED
  BY <1>1, Invariance, PTL

\* In every state, while a task is ready and loops of the isolate wait, one of them is at
\* the queue, is woken, or will be by a thread that has taken its waker: registering
\* before the queue is looked at leaves no moment at which a post wakes nobody
\* (Waiter::register and post of platform.rs, await_event_loop).
THEOREM WakeSafety == ASSUME MaxTasks \in Nat, MaxQueues \in Nat PROVE Spec => []NoWakeMissed
<1>1. ASSUME IInv PROVE NoWakeMissed
  <2> SUFFICES ASSUME NEW i \in Isolates, Ready(i) # {}, NEW l \in LoopsOn(i)
               PROVE  l \in notified \/ state[l] = "polling" \/ \E t \in Threads : l \in posting[t].wakes
    BY DEF NoWakeMissed
  <2>1. l \in Loops /\ on[l] = i /\ Waits(l)
    BY DEF LoopsOn, Waits
  <2>2. ready[foreground[i]] # <<>>
    <3>1. DOMAIN ready[foreground[i]] # {}
      BY DEF Ready
    <3> QED
      BY SMT, <3>1
  <2>3. CASE l \in wakers[foreground[i]]
    BY <1>1, <2>1, <2>2, <2>3 DEF IInv, Registered, Listed
  <2>4. CASE l \notin wakers[foreground[i]]
    BY <1>1, <2>1, <2>4 DEF IInv, Registered, Listed, Woken
  <2> QED
    BY <2>3, <2>4
<1> QED
  BY <1>1, Invariance, PTL

-----------------------------------------------------------------------------
(* Buffers *)

CONSTANTS max, MaxBytes
VARIABLES count, memory_limit_hit, stage, n, count_loaded, held

B == INSTANCE BufferAllocator

\* The counts are natural numbers: count is a usize, and nothing takes it below zero.
Counts == count \in Nat /\ n \in Nat /\ count_loaded \in Nat /\ held \in Nat

\* The count an allocation has read bounds the present one, while it decides.
LoadedBounds == stage = "loaded" => count <= count_loaded

BufferInv == Counts /\ B!CountExact /\ LoadedBounds /\ B!WithinLimit

\* Each step of an allocation, and a free between any two of them, keeps the invariant.
LEMMA BufferKeeps ==
    ASSUME max \in Nat, MaxBytes \in Nat, BufferInv, [B!Next]_(B!vars)
    PROVE  BufferInv'
<1> USE DEF BufferInv, Counts, B!CountExact, LoadedBounds, B!WithinLimit
<1>1. ASSUME NEW bytes \in 0..MaxBytes, B!Allocate(bytes) \/ B!AllocateUninitialized(bytes)
      PROVE  BufferInv'
  BY SMT, <1>1 DEF B!Allocate, B!AllocateUninitialized
<1>2. ASSUME NEW bytes \in 0..MaxBytes, B!Free(bytes)
      PROVE  BufferInv'
  BY SMT, <1>2 DEF B!Free
<1>3. CASE B!Load
  BY SMT, <1>3 DEF B!Load
<1>4. CASE B!Grant
  <2>1. held + n <= count_loaded
    BY SMT, <1>4 DEF B!Grant
  <2> QED
    BY SMT, <1>4, <2>1 DEF B!Grant, B!Exceeds
<1>5. CASE B!Deny
  BY SMT, <1>5 DEF B!Deny
<1>6. CASE B!Rollback
  BY SMT, <1>6 DEF B!Rollback, B!RolledBack
<1>7. CASE B!TurnEnds
  BY SMT, <1>7 DEF B!TurnEnds
<1>8. CASE UNCHANGED B!vars
  BY SMT, <1>8 DEF B!vars
<1> QED
  BY <1>1, <1>2, <1>3, <1>4, <1>5, <1>6, <1>7, <1>8 DEF B!Next

\* The invariant holds in every behaviour.
LEMMA BufferInvariance ==
    ASSUME max \in Nat, MaxBytes \in Nat
    PROVE  B!Spec => []BufferInv
<1>1. B!Init => BufferInv
  BY SMT DEF B!Init, BufferInv, Counts, B!CountExact, LoadedBounds, B!WithinLimit
<1>2. BufferInv /\ [B!Next]_(B!vars) => BufferInv'
  BY BufferKeeps
<1> QED
  BY <1>1, <1>2, PTL DEF B!Spec

\* For any limit and any sizes, the buffers that V8 holds are within the limit after
\* every step of allocate and free, on whatever thread a free comes.
THEOREM LimitSafety ==
    ASSUME max \in Nat, MaxBytes \in Nat
    PROVE  B!Spec => []B!WithinLimit
<1>1. BufferInv => B!WithinLimit
  BY DEF BufferInv
<1> QED
  BY <1>1, BufferInvariance, PTL

\* "Without this, failed allocations would permanently use up the quota": for any limit,
\* the count is what V8 holds and what one allocation is about to hold or to give back.
THEOREM CountSafety ==
    ASSUME max \in Nat, MaxBytes \in Nat
    PROVE  B!Spec => []B!CountExact
<1>1. BufferInv => B!CountExact
  BY DEF BufferInv
<1> QED
  BY <1>1, BufferInvariance, PTL
=============================================================================
