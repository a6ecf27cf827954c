--------------------------- MODULE SchedulerProofs ---------------------------
(***************************************************************************)
(* What Scheduler guarantees for any programs, any number of requests and  *)
(* any inline budget. The inductive invariants are: Types; Carriers, what  *)
(* the messages, the tasks and the answers of an op say of it; Waiting,    *)
(* which ops have callbacks; and Shots, how often a timer may still fire.  *)
(***************************************************************************)
EXTENDS Scheduler, TLAPS

\* Zenon proves the leaves, but for those that cite SMT: numbers, sequences, records.
USE Zenon

-----------------------------------------------------------------------------
(* Queues *)

\* What a queue holds after a send ...
LEMMA Sent ==
    ASSUME NEW S, NEW s \in Seq(S), NEW m
    PROVE  /\ \A k \in DOMAIN Append(s, m) :
                 (k \in DOMAIN s /\ Append(s, m)[k] = s[k]) \/ (k = Len(s) + 1 /\ Append(s, m)[k] = m)
           /\ \A k \in DOMAIN s : k \in DOMAIN Append(s, m) /\ Append(s, m)[k] = s[k]
           /\ Len(s) + 1 \in DOMAIN Append(s, m) /\ Append(s, m)[Len(s) + 1] = m
           /\ Len(s) + 1 \notin DOMAIN s
  BY SMT

\* ... which leaves what it held where it was ...
LEMMA Grows ==
    ASSUME NEW S, NEW s \in Seq(S), NEW u, u = s \/ \E m : u = Append(s, m)
    PROVE  \A k \in DOMAIN s : k \in DOMAIN u /\ u[k] = s[k]
<1>1. CASE u = s
  BY <1>1
<1>2. ASSUME NEW m, u = Append(s, m) PROVE \A k \in DOMAIN s : k \in DOMAIN u /\ u[k] = s[k]
  BY SMT, <1>2
<1> QED
  BY <1>1, <1>2

\* ... and after its first message is taken.
LEMMA Taken ==
    ASSUME NEW S, NEW s \in Seq(S), s # <<>>
    PROVE  /\ \A k \in DOMAIN Tail(s) : k + 1 \in DOMAIN s /\ Tail(s)[k] = s[k + 1]
           /\ \A k \in DOMAIN s : k = 1 \/ (k - 1 \in DOMAIN Tail(s) /\ Tail(s)[k - 1] = s[k])
           /\ 1 \in DOMAIN s /\ Head(s) = s[1] /\ 1 \in Int
           /\ \A k \in DOMAIN s : k \in Int
  BY SMT

-----------------------------------------------------------------------------
(* Types *)

AnswerTypes ==
    {"FetchStreamingSuccess", "FetchError", "BindingUpgrade", "Result", "Error", "StreamChunk"}

Messages ==
    [type : {"BeginRequest"}, by : Nat] \cup [type : OpKinds, id : Ops, by : Nat]
    \cup [type : {"Schedule"}, id : Timers, interval : BOOLEAN] \cup [type : {"ClearTimer"}, id : Timers]

Answers == [type : AnswerTypes, id : Ops, by : Nat] \cup [type : {"ExecuteTimer"}, id : Timers]

Types ==
    /\ program \in Programs /\ request \in Nat
    /\ next_id \in Nat \ {0} /\ next_timer \in Nat \ {0}
    /\ owner \in [Ops -> Nat] /\ DOMAIN promise = Ops
    /\ scheduler_rx \in Seq(Messages) /\ callback_rx \in Seq(Answers) /\ batch \in Seq(Answers)
    /\ tasks \subseteq [kind : OpKinds, id : Ops, by : Nat, scope : Nat] /\ scope \in Nat
    /\ timers \subseteq [id : Timers, interval : BOOLEAN]
    /\ timer_owner \in [Timers -> Nat] /\ ran \in [Timers -> Nat]
    /\ round = FALSE => batch = <<>>

\* An op the guest makes, and a timer it sets, has an id of its program.
LEMMA OpsOfProgram ==
    ASSUME Types
    PROVE  /\ next_id <= Len(program.ops) => next_id \in Ops
           /\ next_timer <= program.timers => next_timer \in Timers
  BY SMT, SchedulerAssumption DEF Types, Ops, Timers

\* A context that serves no request yet is of its types.
LEMMA TypesInit == Init => Types
  BY SMT DEF Init, Types

\* The guest makes an op: it sends a message for it, or settles it at once.
Sending(kind) ==
    /\ scheduler_rx' = Append(scheduler_rx, [type |-> kind, id |-> next_id, by |-> request])
    /\ promise' = [promise EXCEPT ![next_id] = "pending"]
    /\ IF kind = "read"
       THEN /\ stream_callbacks' = stream_callbacks \cup {next_id}
            /\ UNCHANGED <<fetch_callbacks, fetch_error_callbacks>>
       ELSE /\ fetch_callbacks' = fetch_callbacks \cup {next_id}
            /\ fetch_error_callbacks' = fetch_error_callbacks \cup {next_id}
            /\ UNCHANGED stream_callbacks
    /\ UNCHANGED unanswered

Settling ==
    /\ \E outcome \in {"resolved", "rejected"} : promise' = [promise EXCEPT ![next_id] = outcome]
    /\ UNCHANGED <<scheduler_rx, tables, unanswered>>

\* A native the guest calls settles the promise at once, or registers its callbacks
\* and sends one message.
LEMMA GuestOpsMake ==
    ASSUME GuestOps
    PROVE  /\ Asks /\ next_id <= Len(program.ops)
           /\ Settling \/ \E kind \in OpKinds : program.ops[next_id] = kind /\ Sending(kind)
<1> USE DEF Makes, Registers, Sends, Sending, OpKinds, FetchKinds, BindingKinds, RequestKinds
<1>1. CASE NativeFetchStreaming
  BY <1>1 DEF NativeFetchStreaming
<1>2. CASE NativeBindingStorage \/ NativeBindingKv \/ NativeBindingDatabase
  BY <1>2 DEF NativeBindingStorage, NativeBindingKv, NativeBindingDatabase
<1>3. CASE NativeBindingD1 \/ NativeBindingDurableObject
  BY <1>3 DEF NativeBindingD1, NativeBindingDurableObject
<1>4. CASE NativeStreamRead
  BY <1>4 DEF NativeStreamRead
<1>5. CASE NativeBindingInvoke
  BY <1>5 DEF NativeBindingInvoke, Settling
<1>6. CASE \E kind \in {"assets", "worker"} : NativeBindingRequest(kind)
  BY <1>6 DEF NativeBindingRequest
<1> QED
  BY <1>1, <1>2, <1>3, <1>4, <1>5, <1>6 DEF GuestOps

\* A task that ends answers its op, with a chunk if and only if the op is a read.
Answering(t) ==
    \E type \in AnswerTypes : Tells(t, type) /\ (type = "StreamChunk" <=> t.kind = "read")

\* Each way a task ends, cancelled or not, is one answer of a kind that fits its op.
LEMMA TasksAnswer ==
    ASSUME NEW t \in tasks, Types,
           Cancelled(t) \/ FetchEnds(t) \/ BindingEnds(t) \/ D1Ends(t) \/ InvokeEnds(t)
           \/ RequestEnds(t) \/ StreamRead(t)
    PROVE  Answering(t)
<1> USE DEF Answering, AnswerTypes, OpKinds, FetchKinds, BindingKinds, RequestKinds
<1>1. t.kind \in OpKinds
  BY DEF Types
<1>2. CASE Cancelled(t)
  <2>1. FailureOf(t.kind) \in AnswerTypes /\ (FailureOf(t.kind) = "StreamChunk" <=> t.kind = "read")
    BY <1>1 DEF FailureOf
  <2> QED
    BY <1>2, <2>1 DEF Cancelled
<1>3. CASE FetchEnds(t) \/ BindingEnds(t) \/ D1Ends(t) \/ InvokeEnds(t)
  BY <1>3 DEF FetchEnds, BindingEnds, D1Ends, InvokeEnds
<1>4. CASE RequestEnds(t) \/ StreamRead(t)
  BY <1>4 DEF RequestEnds, AnswerBindingRequest, StreamRead
<1> QED
  BY <1>2, <1>3, <1>4

\* The round hands the answer m to the callbacks of its op.
Delivering(m) ==
    \/ /\ m.type = "StreamChunk"
       /\ stream_callbacks' = stream_callbacks \ {m.id}
       /\ promise' = IF m.id \in stream_callbacks THEN [promise EXCEPT ![m.id] = "resolved"] ELSE promise
       /\ UNCHANGED <<fetch_callbacks, fetch_error_callbacks, unanswered>>
    \/ /\ m.type # "StreamChunk" /\ TakesBoth(m.id) /\ UNCHANGED unanswered
       /\ \E o \in {"resolved", "rejected"}, table \in {fetch_callbacks, fetch_error_callbacks} :
             promise' = IF m.id \in table THEN [promise EXCEPT ![m.id] = o] ELSE promise
    \/ /\ m.type # "StreamChunk" /\ TakesBoth(m.id)
       /\ m.id \in fetch_callbacks /\ unanswered' = unanswered \cup {m.id} /\ UNCHANGED promise

DispatchOp ==
    DispatchFetchSuccess \/ DispatchFetchError \/ DispatchBindingUpgrade \/ DispatchBinding
    \/ DispatchStreamChunk

\* The dispatch of an answer takes it off the round and settles at most its own op.
LEMMA DispatchDelivers ==
    ASSUME DispatchOp
    PROVE  /\ batch # <<>> /\ round /\ Head(batch).type # "ExecuteTimer" /\ batch' = Tail(batch)
           /\ Delivering(Head(batch))
           /\ UNCHANGED <<reqVars, round, next_id, owner, scheduler_rx, callback_rx, scopeVars, tasks,
                          timerVars>>
<1> USE DEF Due, Dispatched, Settles, Delivering, timerVars, guestTimerVars
<1>1. CASE DispatchFetchSuccess
  BY <1>1 DEF DispatchFetchSuccess
<1>2. CASE DispatchFetchError
  BY <1>2 DEF DispatchFetchError
<1>3. CASE DispatchBindingUpgrade
  BY <1>3 DEF DispatchBindingUpgrade
<1>4. CASE DispatchBinding
  BY <1>4 DEF DispatchBinding
<1>5. CASE DispatchStreamChunk
  BY <1>5 DEF DispatchStreamChunk
<1> QED
  BY <1>1, <1>2, <1>3, <1>4, <1>5 DEF DispatchOp

\* What the loop and the round take from the head of a queue.
LEMMA HeadOfLoop ==
    ASSUME Types, scheduler_rx # <<>>
    PROVE  LET m == Head(scheduler_rx)
           IN  /\ Tail(scheduler_rx) \in Seq(Messages)
               /\ m.type \in OpKinds => m.id \in Ops /\ m.by \in Nat
               /\ m.type = "BeginRequest" => m.by \in Nat
               /\ m.type = "Schedule" => m.id \in Timers /\ m.interval \in BOOLEAN
               /\ m.type = "ClearTimer" => m.id \in Timers
<1>1. Head(scheduler_rx) \in Messages /\ Tail(scheduler_rx) \in Seq(Messages)
  BY SMT DEF Types
<1> QED
  BY <1>1 DEF Messages, OpKinds, FetchKinds, BindingKinds, RequestKinds

\* What the dispatch looks at next is an answer or a timer.
LEMMA HeadOfRound ==
    ASSUME Types, batch # <<>>
    PROVE  LET m == Head(batch)
           IN  /\ Tail(batch) \in Seq(Answers)
               /\ m.type # "ExecuteTimer" => m.type \in AnswerTypes /\ m.id \in Ops /\ m.by \in Nat
               /\ m.type = "ExecuteTimer" => m.id \in Timers
<1>1. Head(batch) \in Answers /\ Tail(batch) \in Seq(Answers)
  BY SMT DEF Types
<1> QED
  BY <1>1 DEF Answers, AnswerTypes

\* Every step keeps the types.
LEMMA TypesStep == Types /\ [Next]_vars => Types'
<1> SUFFICES ASSUME Types, [Next]_vars PROVE Types'
  OBVIOUS
<1> USE DEF reqVars, turnVars, opVars, tables, scopeVars, timerVars, guestTimerVars, loopTimerVars
<1>1. CASE Start
  BY SMT, <1>1 DEF Start, ClearTables, ClearGuestState, Types, Messages
<1>2. CASE HangUp \/ Respond \/ End \/ Abort
  BY <1>2 DEF HangUp, Respond, End, Abort, Types
<1>3. CASE Gone
  BY SMT, <1>3 DEF Gone, Types
<1>4. CASE GuestOps
  <2>1. next_id \in Ops
    BY <1>4, GuestOpsMake, OpsOfProgram
  <2>2. CASE Settling
    BY SMT, <1>4, <2>1, <2>2, GuestOpsMake DEF Settling, Asks, Types
  <2>3. ASSUME NEW kind \in OpKinds, Sending(kind) PROVE Types'
    <3>1. [type |-> kind, id |-> next_id, by |-> request] \in Messages
      BY <2>1 DEF Messages, Types
    <3> QED
      BY SMT, <1>4, <2>1, <2>3, <3>1, GuestOpsMake DEF Sending, Asks, Types
  <2> QED
    BY <1>4, <2>2, <2>3, GuestOpsMake
<1>5. ASSUME NEW interval \in BOOLEAN, SetTimer(interval) PROVE Types'
  <2>1. next_timer \in Timers
    BY <1>5, OpsOfProgram DEF SetTimer
  <2>2. [type |-> "Schedule", id |-> next_timer, interval |-> interval] \in Messages
    BY <2>1 DEF Messages
  <2> QED
    BY SMT, <1>5, <2>1, <2>2 DEF SetTimer, GuestTimer, Types
<1>6. ASSUME NEW i \in Timers, ClearTimeout(i) PROVE Types'
  BY SMT, <1>6 DEF ClearTimeout, GuestTimer, Types, Messages
<1>7. CASE Spawn
  <2>1. tasks' \subseteq [kind : OpKinds, id : Ops, by : Nat, scope : Nat]
    <3> DEFINE m == Head(scheduler_rx)
    <3>1. m.type \in OpKinds /\ m.id \in Ops /\ m.by \in Nat /\ scope \in Nat
      BY <1>7, HeadOfLoop DEF Spawn, IsNext, Types
    <3>2. tasks' = tasks \cup {[kind |-> m.type, id |-> m.id, by |-> m.by, scope |-> scope]}
      BY <1>7 DEF Spawn
    <3> QED
      BY SMT, <3>1, <3>2 DEF Types
  <2>2. scheduler_rx' \in Seq(Messages)
    BY <1>7, HeadOfLoop DEF Spawn, IsNext, Handled
  <2> QED
    BY <1>7, <2>1, <2>2 DEF Spawn, Handled, Types
<1>8. CASE BeginRequest
  BY <1>8, HeadOfLoop DEF BeginRequest, IsNext, OpensScope, Handled, Types
<1>9. CASE Schedule \/ ClearTimer
  <2>1. scheduler_rx' \in Seq(Messages)
    BY <1>9, HeadOfLoop DEF Schedule, ClearTimer, IsNext, Handled
  <2>2. timers' \subseteq [id : Timers, interval : BOOLEAN]
    <3> DEFINE m == Head(scheduler_rx)
    <3>1. CASE Schedule
      <4>1. m.id \in Timers /\ m.interval \in BOOLEAN
        BY <3>1, HeadOfLoop DEF Schedule, IsNext
      <4>2. timers' = timers \cup {[id |-> m.id, interval |-> m.interval]}
        BY <3>1 DEF Schedule
      <4> QED
        BY SMT, <4>1, <4>2 DEF Types
    <3> QED
      BY <1>9, <3>1 DEF ClearTimer, Types
  <2> QED
    BY <1>9, <2>1, <2>2 DEF Schedule, ClearTimer, Handled, Types
<1>10. ASSUME NEW t \in timers, Fire(t) PROVE Types'
  <2>1. [type |-> "ExecuteTimer", id |-> t.id] \in Answers
    BY DEF Types, Answers
  <2>2. callback_rx' \in Seq(Answers)
    <3>1. Append(callback_rx, [type |-> "ExecuteTimer", id |-> t.id]) \in Seq(Answers)
      BY SMT, <2>1 DEF Types
    <3> QED
      BY <1>10, <3>1 DEF Fire, Types
  <2>3. timers' \subseteq timers
    BY <1>10 DEF Fire
  <2> QED
    BY <1>10, <2>2, <2>3 DEF Fire, Types
<1>11. ASSUME NEW t \in tasks, Answering(t) PROVE Types'
  <2>1. \A type \in AnswerTypes : [type |-> type, id |-> t.id, by |-> t.by] \in Answers
    BY DEF Types, Answers
  <2> QED
    BY SMT, <1>11, <2>1 DEF Answering, Tells, Types
<1>12. ASSUME NEW t \in tasks, Panics(t) PROVE Types'
  BY <1>12 DEF Panics, Types
<1>13. CASE TakeRound \/ EndRound
  BY SMT, <1>13 DEF TakeRound, EndRound, Types
<1>14. CASE DispatchOp
  <2>1. Tail(batch) \in Seq(Answers) /\ round
    BY <1>14, HeadOfRound, DispatchDelivers
  <2>2. DOMAIN promise' = Ops
    BY <1>14, DispatchDelivers DEF Delivering, Types
  <2> QED
    BY <1>14, <2>1, <2>2, DispatchDelivers DEF Types
<1>15. CASE ExecuteTimer
  <2>1. batch' \in Seq(Answers) /\ round /\ Head(batch).id \in Timers
    BY <1>15, HeadOfRound DEF ExecuteTimer, Due, Dispatched
  <2>2. ran' \in [Timers -> Nat]
    BY SMT, <1>15, <2>1 DEF ExecuteTimer, Types
  <2> QED
    BY <1>15, <2>1, <2>2 DEF ExecuteTimer, Dispatched, Types
<1>16. CASE UNCHANGED vars
  BY <1>16 DEF vars, Types
<1> QED
  BY <1>1, <1>2, <1>3, <1>4, <1>5, <1>6, <1>7, <1>8, <1>9, <1>10, <1>11, <1>12, <1>13, <1>14, <1>15,
     <1>16, TasksAnswer DEF Next, LoopStep, Dispatch, DispatchOp

-----------------------------------------------------------------------------
(* What carries an op is of that op: it names its kind and the request that made it. *)

MessageOk(m) ==
    m.type \in OpKinds => m.id < next_id /\ m.by = owner[m.id] /\ m.type = program.ops[m.id]

TaskOk(t) == t.id < next_id /\ t.by = owner[t.id] /\ t.kind = program.ops[t.id]

AnswerOk(m) ==
    m.type # "ExecuteTimer"
       => m.id < next_id /\ m.by = owner[m.id] /\ (m.type = "StreamChunk" <=> program.ops[m.id] = "read")

Carriers ==
    /\ \A k \in DOMAIN scheduler_rx : MessageOk(scheduler_rx[k])
    /\ \A t \in tasks : TaskOk(t)
    /\ \A k \in DOMAIN callback_rx : AnswerOk(callback_rx[k])
    /\ \A k \in DOMAIN batch : AnswerOk(batch[k])

\* Nothing is on its way in a new context.
LEMMA CarriersInit == Init => Carriers
  BY SMT DEF Init, Carriers

\* A message stays of its op while the ops made so far are what they were, ...
LEMMA OkFrame ==
    ASSUME Types, UNCHANGED <<program, next_id, owner>>
    PROVE  /\ \A m : MessageOk(m)' <=> MessageOk(m)
           /\ \A m : AnswerOk(m)' <=> AnswerOk(m)
           /\ \A t : TaskOk(t)' <=> TaskOk(t)
  BY DEF MessageOk, AnswerOk, TaskOk

\* ... and when the guest makes another.
LEMMA OkAsks ==
    ASSUME Types, Asks
    PROVE  /\ \A m \in Messages : MessageOk(m) => MessageOk(m)'
           /\ \A m \in Answers : AnswerOk(m) => AnswerOk(m)'
           /\ \A t \in tasks : TaskOk(t) => TaskOk(t)'
<1> USE DEF Asks, reqVars, Types, Ops
<1>0. \A i \in Ops : i \in Nat
  BY SMT, SchedulerAssumption DEF Ops
<1>1. \A i \in Ops : i < next_id => i < next_id' /\ owner'[i] = owner[i]
  BY SMT, <1>0
<1>2. ASSUME NEW m \in Messages, MessageOk(m) PROVE MessageOk(m)'
  BY <1>1, <1>2 DEF MessageOk, Messages, OpKinds, FetchKinds, BindingKinds, RequestKinds
<1>3. ASSUME NEW m \in Answers, AnswerOk(m) PROVE AnswerOk(m)'
  BY <1>1, <1>3 DEF AnswerOk, Answers, AnswerTypes
<1>4. ASSUME NEW t \in tasks, TaskOk(t) PROVE TaskOk(t)'
  BY <1>1, <1>4 DEF TaskOk
<1> QED
  BY <1>2, <1>3, <1>4

\* Messages, tasks and answers go on saying what is so of their op, whose id is not
\* given to another.
LEMMA CarriersStep == Types /\ Carriers /\ [Next]_vars => Carriers'
<1> SUFFICES ASSUME Types, Carriers, [Next]_vars PROVE Carriers'
  OBVIOUS
<1> USE DEF reqVars, turnVars, opVars, tables, scopeVars, timerVars, guestTimerVars, loopTimerVars
<1>0. scheduler_rx \in Seq(Messages) /\ callback_rx \in Seq(Answers) /\ batch \in Seq(Answers)
  BY DEF Types
<1>1. CASE Start
  <2>1. MessageOk([type |-> "BeginRequest", by |-> request + 1])
    BY DEF MessageOk, OpKinds, FetchKinds, BindingKinds, RequestKinds
  <2> QED
    BY SMT, <1>0, <1>1, <2>1, OkFrame, Sent DEF Start, ClearTables, Carriers
<1>2. CASE HangUp \/ Respond \/ End \/ Abort
  BY <1>2, OkFrame DEF HangUp, Respond, End, Abort, Carriers
<1>3. CASE Gone
  BY SMT, <1>3, OkFrame DEF Gone, Carriers
<1>4. CASE GuestOps
  <2>1. Asks /\ next_id \in Ops /\ next_id \in Nat
    BY <1>4, GuestOpsMake, OpsOfProgram DEF Types
  <2>2. \A k \in DOMAIN scheduler_rx : scheduler_rx[k] \in Messages /\ MessageOk(scheduler_rx[k])
    BY SMT, <1>0 DEF Carriers
  <2>3. /\ \A t \in tasks' : TaskOk(t)'
        /\ (\A k \in DOMAIN callback_rx : AnswerOk(callback_rx[k]))'
        /\ (\A k \in DOMAIN batch : AnswerOk(batch[k]))'
    <3>1. UNCHANGED <<tasks, callback_rx, batch>>
      BY <2>1 DEF Asks
    <3>2. \A k \in DOMAIN callback_rx : callback_rx[k] \in Answers /\ AnswerOk(callback_rx[k])
      BY SMT, <1>0 DEF Carriers
    <3>3. \A k \in DOMAIN batch : batch[k] \in Answers /\ AnswerOk(batch[k])
      BY SMT, <1>0 DEF Carriers
    <3> QED
      BY <2>1, <3>1, <3>2, <3>3, OkAsks DEF Carriers
  <2>4. CASE Settling
    BY <2>1, <2>2, <2>3, <2>4, OkAsks DEF Settling, Carriers
  <2>5. ASSUME NEW kind \in OpKinds, program.ops[next_id] = kind, Sending(kind) PROVE Carriers'
    <3>1. PICK m : m = [type |-> kind, id |-> next_id, by |-> request]
      OBVIOUS
    <3>2. MessageOk(m)'
      BY SMT, <2>1, <2>5, <3>1 DEF MessageOk, Asks, Types
    <3>3. scheduler_rx' = Append(scheduler_rx, m)
      BY <2>5, <3>1 DEF Sending
    <3>4. \A k \in DOMAIN scheduler_rx' :
             scheduler_rx'[k] = m \/ (scheduler_rx'[k] \in Messages /\ MessageOk(scheduler_rx'[k]))
      BY SMT, <1>0, <2>2, <3>3, Sent
    <3>5. (\A k \in DOMAIN scheduler_rx : MessageOk(scheduler_rx[k]))'
      BY <2>1, <3>2, <3>4, OkAsks
    <3> QED
      BY <2>3, <3>5 DEF Carriers
  <2> QED
    BY <1>4, <2>4, <2>5, GuestOpsMake
<1>5. ASSUME NEW interval \in BOOLEAN, SetTimer(interval) PROVE Carriers'
  <2>1. MessageOk([type |-> "Schedule", id |-> next_timer, interval |-> interval])
    BY DEF MessageOk, OpKinds, FetchKinds, BindingKinds, RequestKinds
  <2> QED
    BY SMT, <1>0, <1>5, <2>1, OkFrame, Sent DEF SetTimer, GuestTimer, Carriers
<1>6. ASSUME NEW i \in Timers, ClearTimeout(i) PROVE Carriers'
  <2>1. MessageOk([type |-> "ClearTimer", id |-> i])
    BY DEF MessageOk, OpKinds, FetchKinds, BindingKinds, RequestKinds
  <2> QED
    BY SMT, <1>0, <1>6, <2>1, OkFrame, Sent DEF ClearTimeout, GuestTimer, Carriers
<1>7. CASE LoopStep
  <2>1. /\ UNCHANGED <<program, next_id, owner, callback_rx, batch>>
        /\ scheduler_rx # <<>> /\ scheduler_rx' = Tail(scheduler_rx)
    BY <1>7 DEF LoopStep, Spawn, BeginRequest, Schedule, ClearTimer, IsNext, Handled
  <2>2. \A k \in DOMAIN scheduler_rx' : MessageOk(scheduler_rx'[k])
    BY <1>0, <2>1, Taken DEF Carriers
  <2>3. \A t \in tasks' : TaskOk(t)
    <3>1. CASE Spawn
      <4> DEFINE m == Head(scheduler_rx)
                 t == [kind |-> m.type, id |-> m.id, by |-> m.by, scope |-> scope]
      <4>1. MessageOk(m) /\ m.type \in OpKinds
        BY <1>0, <2>1, <3>1, Taken DEF Carriers, Spawn, IsNext
      <4>2. TaskOk(t)
        BY <4>1 DEF MessageOk, TaskOk
      <4>3. tasks' = tasks \cup {t}
        BY <3>1 DEF Spawn
      <4> QED
        BY <4>2, <4>3 DEF Carriers
    <3>2. CASE BeginRequest \/ Schedule \/ ClearTimer
      BY <3>2 DEF BeginRequest, Schedule, ClearTimer, Carriers
    <3> QED
      BY <1>7, <3>1, <3>2 DEF LoopStep
  <2> QED
    BY <2>1, <2>2, <2>3, OkFrame DEF Carriers
<1>8. ASSUME NEW t \in timers, Fire(t) PROVE Carriers'
  <2>1. AnswerOk([type |-> "ExecuteTimer", id |-> t.id])
    BY DEF AnswerOk
  <2>2. UNCHANGED <<program, next_id, owner, scheduler_rx, tasks, batch>>
    BY <1>8 DEF Fire
  <2>3. callback_rx' \in {callback_rx, Append(callback_rx, [type |-> "ExecuteTimer", id |-> t.id])}
    BY <1>8 DEF Fire
  <2>4. \A k \in DOMAIN callback_rx' : AnswerOk(callback_rx'[k])
    <3>1. CASE UNCHANGED callback_rx
      BY <3>1 DEF Carriers
    <3>2. CASE callback_rx' = Append(callback_rx, [type |-> "ExecuteTimer", id |-> t.id])
      <4>1. \A k \in DOMAIN callback_rx' :
               \/ k \in DOMAIN callback_rx /\ callback_rx'[k] = callback_rx[k]
               \/ callback_rx'[k] = [type |-> "ExecuteTimer", id |-> t.id]
        BY SMT, <1>0, <3>2, Sent
      <4> QED
        BY <2>1, <4>1 DEF Carriers
    <3> QED
      BY <2>3, <3>1, <3>2
  <2> QED
    BY <2>2, <2>4, OkFrame DEF Carriers
<1>9. ASSUME NEW t \in tasks, Answering(t) PROVE Carriers'
  <2>1. PICK type \in AnswerTypes : Tells(t, type) /\ (type = "StreamChunk" <=> t.kind = "read")
    BY <1>9 DEF Answering
  <2> DEFINE m == [type |-> type, id |-> t.id, by |-> t.by]
  <2>2. AnswerOk(m)
    BY <2>1 DEF Carriers, TaskOk, AnswerOk
  <2>3. callback_rx' = Append(callback_rx, m) /\ tasks' = tasks \ {t}
    BY <2>1 DEF Tells
  <2>4. UNCHANGED <<program, next_id, owner, scheduler_rx, batch>>
    BY <2>1 DEF Tells
  <2> QED
    BY SMT, <1>0, <2>2, <2>3, <2>4, OkFrame, Sent DEF Carriers
<1>10. ASSUME NEW t \in tasks, Panics(t) PROVE Carriers'
  BY <1>10, OkFrame DEF Panics, Carriers
<1>11. CASE TakeRound \/ EndRound
  BY SMT, <1>11, OkFrame DEF TakeRound, EndRound, Carriers
<1>12. CASE Dispatch
  <2>1. /\ UNCHANGED <<program, next_id, owner, scheduler_rx, callback_rx, tasks>>
        /\ batch # <<>> /\ batch' = Tail(batch)
    BY <1>12, DispatchDelivers DEF Dispatch, DispatchOp, ExecuteTimer, Due, Dispatched
  <2> QED
    BY <1>0, <2>1, OkFrame, Taken DEF Carriers
<1>13. CASE UNCHANGED vars
  BY <1>13, OkFrame DEF vars, Carriers
<1> QED
  BY <1>1, <1>2, <1>3, <1>4, <1>5, <1>6, <1>7, <1>8, <1>9, <1>10, <1>11, <1>12, <1>13, TasksAnswer
     DEF Next

-----------------------------------------------------------------------------
(* What the guest waits for *)

\* What is to come: an id not given out yet is nobody's. An op that has callbacks is
\* pending, and the request that made it runs; its kind says which callbacks.
WaitingOf(i) ==
    /\ i >= next_id => promise[i] = "none"
    /\ i \in fetch_callbacks => program.ops[i] # "read"
    /\ i \in stream_callbacks => program.ops[i] = "read"
    /\ i \in fetch_callbacks \cup stream_callbacks => promise[i] = "pending" /\ owner[i] = request
    /\ (promise[i] = "pending" /\ i \notin unanswered)
          => Carried(i) /\ i \in fetch_callbacks \cup stream_callbacks

Waiting ==
    /\ fetch_error_callbacks = fetch_callbacks
    /\ \A i \in Ops : WaitingOf(i)

\* No op waits in a new context.
LEMMA WaitingInit == Init => Waiting
<1> SUFFICES ASSUME Init PROVE Waiting
  OBVIOUS
<1>1. ASSUME NEW i \in Ops PROVE WaitingOf(i)
  BY DEF Init, WaitingOf
<1> QED
  BY <1>1 DEF Init, Waiting

\* An op is carried on until its answer is dispatched, its host panics, or its context
\* is reset or dropped.
Ends(i) ==
    \/ Start \/ Gone
    \/ DispatchOp /\ Head(batch).id = i
    \/ \E t \in tasks : Panics(t) /\ t.id = i

\* A message becomes a task, a task an answer, and an answer one of the round.
LEMMA CarriedOn ==
    ASSUME Types, [Next]_vars, NEW i \in Ops, Carried(i), ~Ends(i)
    PROVE  Carried(i)'
<1> USE DEF reqVars, turnVars, opVars, tables, scopeVars, timerVars, guestTimerVars, loopTimerVars
<1> DEFINE InRx ==
             \E k \in DOMAIN scheduler_rx : scheduler_rx[k].type \in OpKinds /\ scheduler_rx[k].id = i
           InTasks == \E t \in tasks : t.id = i
           InInbox == \E k \in DOMAIN callback_rx : IsAnswerTo(callback_rx[k], i)
           InBatch == \E k \in DOMAIN batch : IsAnswerTo(batch[k], i)
<1>0. scheduler_rx \in Seq(Messages) /\ callback_rx \in Seq(Answers) /\ batch \in Seq(Answers)
  BY DEF Types
<1>1. CASE HangUp \/ Respond \/ End \/ Abort \/ EndRound
  BY <1>1 DEF HangUp, Respond, End, Abort, EndRound, Carried, IsAnswerTo
<1>2. CASE GuestOps \/ (\E interval \in BOOLEAN : SetTimer(interval)) \/ (\E j \in Timers : ClearTimeout(j))
  <2>1. UNCHANGED <<tasks, callback_rx, batch>>
    BY <1>2, GuestOpsMake DEF SetTimer, ClearTimeout, GuestTimer, Asks
  <2>2. UNCHANGED scheduler_rx \/ \E m : scheduler_rx' = Append(scheduler_rx, m)
    BY <1>2, GuestOpsMake DEF SetTimer, ClearTimeout, Settling, Sending
  <2>3. \A k \in DOMAIN scheduler_rx : k \in DOMAIN scheduler_rx' /\ scheduler_rx'[k] = scheduler_rx[k]
    BY <1>0, <2>2, Grows
  <2> QED
    BY <2>1, <2>3 DEF Carried, IsAnswerTo
<1>3. CASE LoopStep
  <2>1. UNCHANGED <<callback_rx, batch>> /\ scheduler_rx # <<>> /\ scheduler_rx' = Tail(scheduler_rx)
    BY <1>3 DEF LoopStep, Spawn, BeginRequest, Schedule, ClearTimer, IsNext, Handled
  <2>2. tasks \subseteq tasks'
    BY <1>3 DEF LoopStep, Spawn, BeginRequest, Schedule, ClearTimer
  <2>3. CASE InTasks \/ InInbox \/ InBatch
    BY <2>1, <2>2, <2>3 DEF Carried, IsAnswerTo
  <2>4. CASE InRx
    <3>1. PICK k \in DOMAIN scheduler_rx : scheduler_rx[k].type \in OpKinds /\ scheduler_rx[k].id = i
      BY <2>4
    <3>2. CASE k = 1
      <4>1. Head(scheduler_rx).type \in OpKinds /\ Head(scheduler_rx).id = i
        BY <1>0, <2>1, <3>1, <3>2, Taken
      <4>2. Spawn
        BY <1>3, <4>1 DEF LoopStep, BeginRequest, Schedule, ClearTimer, IsNext, OpKinds, FetchKinds,
                          BindingKinds, RequestKinds
      <4>3. \E t \in tasks' : t.id = i
        <5> DEFINE m == Head(scheduler_rx)
                   t == [kind |-> m.type, id |-> m.id, by |-> m.by, scope |-> scope]
        <5>1. t \in tasks'
          BY <4>2 DEF Spawn
        <5>2. t.id = i
          BY <4>1
        <5> QED
          BY <5>1, <5>2
      <4> QED
        BY <4>3 DEF Carried
    <3>3. CASE k # 1
      <4>1. k - 1 \in DOMAIN scheduler_rx' /\ scheduler_rx'[k - 1] = scheduler_rx[k]
        BY <1>0, <2>1, <3>3, Taken
      <4> QED
        BY <3>1, <4>1 DEF Carried
    <3> QED
      BY <3>2, <3>3
  <2> QED
    BY <2>3, <2>4 DEF Carried
<1>4. ASSUME NEW t \in timers, Fire(t) PROVE Carried(i)'
  <2>1. UNCHANGED <<scheduler_rx, tasks, batch>>
    BY <1>4 DEF Fire
  <2>2. UNCHANGED callback_rx \/ \E m : callback_rx' = Append(callback_rx, m)
    BY <1>4 DEF Fire
  <2>3. \A k \in DOMAIN callback_rx : k \in DOMAIN callback_rx' /\ callback_rx'[k] = callback_rx[k]
    BY <1>0, <2>2, Grows
  <2> QED
    BY <2>1, <2>3 DEF Carried, IsAnswerTo
<1>5. ASSUME NEW t \in tasks, Answering(t) PROVE Carried(i)'
  <2>1. PICK type \in AnswerTypes : Tells(t, type)
    BY <1>5 DEF Answering
  <2> DEFINE m == [type |-> type, id |-> t.id, by |-> t.by]
  <2>2. callback_rx' = Append(callback_rx, m) /\ tasks' = tasks \ {t} /\ UNCHANGED <<scheduler_rx, batch>>
    BY <2>1 DEF Tells
  <2>3. /\ \A k \in DOMAIN callback_rx : k \in DOMAIN callback_rx' /\ callback_rx'[k] = callback_rx[k]
        /\ Len(callback_rx) + 1 \in DOMAIN callback_rx' /\ callback_rx'[Len(callback_rx) + 1] = m
    BY SMT, <1>0, <2>2, Sent
  <2>4. CASE t.id = i
    <3>1. IsAnswerTo(callback_rx'[Len(callback_rx) + 1], i)
      BY SMT, <2>1, <2>3, <2>4 DEF IsAnswerTo, AnswerTypes
    <3> QED
      BY <2>3, <3>1 DEF Carried, IsAnswerTo
  <2>5. CASE t.id # i
    BY <2>2, <2>3, <2>5 DEF Carried, IsAnswerTo
  <2> QED
    BY <2>4, <2>5
<1>6. ASSUME NEW t \in tasks, Panics(t) PROVE Carried(i)'
  BY <1>6 DEF Panics, Carried, IsAnswerTo, Ends
<1>7. CASE TakeRound
  BY SMT, <1>7 DEF TakeRound, Carried, IsAnswerTo, Types
<1>8. CASE Dispatch
  <2>1. UNCHANGED <<scheduler_rx, callback_rx, tasks>> /\ batch # <<>> /\ batch' = Tail(batch)
    BY <1>8, DispatchDelivers DEF Dispatch, DispatchOp, ExecuteTimer, Due, Dispatched
  <2>2. ~IsAnswerTo(Head(batch), i)
    BY <1>8 DEF Ends, Dispatch, DispatchOp, ExecuteTimer, Due, IsAnswerTo
  <2>3. \A k \in DOMAIN batch :
           IsAnswerTo(batch[k], i) => k - 1 \in DOMAIN batch' /\ batch'[k - 1] = batch[k]
    BY <1>0, <2>1, <2>2, Taken
  <2> QED
    BY <2>1, <2>3 DEF Carried, IsAnswerTo
<1>9. CASE UNCHANGED vars
  BY <1>9 DEF vars, Carried, IsAnswerTo
<1> QED
  BY <1>1, <1>2, <1>3, <1>4, <1>5, <1>6, <1>7, <1>8, <1>9, TasksAnswer DEF Next, Ends

\* A step that changes nothing the guest knows of its ops leaves what it waits for.
LEMMA WaitingFrame ==
    ASSUME Types, Waiting, [Next]_vars, NEW i \in Ops, ~Ends(i),
           UNCHANGED <<program, request, next_id, owner, promise, tables, unanswered>>
    PROVE  WaitingOf(i)'
<1>1. WaitingOf(i)
  BY DEF Waiting
<1>2. Carried(i) => Carried(i)'
  BY CarriedOn
<1> QED
  BY <1>1, <1>2 DEF WaitingOf, tables

\* An op has its callbacks for as long as it is pending, and is carried all the while.
LEMMA WaitingStep == Types /\ Carriers /\ Waiting /\ [Next]_vars => Waiting'
<1> SUFFICES ASSUME Types, Carriers, Waiting, [Next]_vars PROVE Waiting'
  OBVIOUS
<1> USE DEF reqVars, turnVars, opVars, tables, scopeVars, timerVars, guestTimerVars, loopTimerVars
<1> DEFINE Same == UNCHANGED <<program, request, next_id, owner, promise, tables, unanswered>>
<1>0. \A i \in Ops : i \in Nat /\ WaitingOf(i)
  BY SMT, SchedulerAssumption DEF Ops, Waiting
<1>1. ASSUME NEW i \in Ops, Start \/ Gone PROVE WaitingOf(i)'
  <2>1. promise'[i] # "pending" /\ (promise[i] = "none" => promise'[i] = "none")
    BY <1>1 DEF Start, Gone
  <2>2. fetch_callbacks' = {} /\ stream_callbacks' = {} /\ next_id' = next_id
    BY <1>1 DEF Start, Gone, ClearTables
  <2> QED
    BY <1>0, <2>1, <2>2 DEF WaitingOf
<1>2. ASSUME NEW i \in Ops, GuestOps PROVE WaitingOf(i)'
  <2>1. Asks /\ next_id \in Ops /\ next_id \in Nat /\ DOMAIN promise = Ops /\ owner \in [Ops -> Nat]
    BY <1>2, GuestOpsMake, OpsOfProgram DEF Types
  <2>2. ~Ends(i)
    <3>1. next_id' # next_id
      BY SMT, <2>1 DEF Asks
    <3> QED
      BY <3>1, DispatchDelivers DEF Ends, Start, ClearTables, Gone, Panics
  <2>3. CASE i # next_id
    <3>1. /\ owner'[i] = owner[i] /\ promise'[i] = promise[i]
          /\ i \in fetch_callbacks' <=> i \in fetch_callbacks
          /\ i \in stream_callbacks' <=> i \in stream_callbacks
          /\ UNCHANGED <<program, request, unanswered>> /\ next_id' = next_id + 1
      <4>1. owner'[i] = owner[i] /\ UNCHANGED <<program, request>> /\ next_id' = next_id + 1
        BY <2>1, <2>3 DEF Asks
      <4>2. promise'[i] = promise[i] /\ UNCHANGED unanswered
        BY <1>2, <2>1, <2>3, GuestOpsMake DEF Settling, Sending
      <4>3. /\ i \in fetch_callbacks' <=> i \in fetch_callbacks
            /\ i \in stream_callbacks' <=> i \in stream_callbacks
        BY <1>2, <2>3, GuestOpsMake DEF Settling, Sending
      <4> QED
        BY <4>1, <4>2, <4>3
    <3>2. Carried(i) => Carried(i)'
      BY <2>2, CarriedOn
    <3> QED
      BY SMT, <1>0, <2>1, <3>1, <3>2 DEF WaitingOf
  <2>4. CASE i = next_id
    <3>1. /\ owner'[i] = request /\ next_id' = next_id + 1 /\ UNCHANGED <<program, request>>
          /\ i \notin fetch_callbacks \cup stream_callbacks
      BY SMT, <1>0, <2>1, <2>4 DEF Asks, WaitingOf
    <3>2. CASE Settling
      BY SMT, <2>1, <2>4, <3>1, <3>2 DEF Settling, WaitingOf
    <3>3. ASSUME NEW kind \in OpKinds, program.ops[next_id] = kind, Sending(kind) PROVE WaitingOf(i)'
      <4> DEFINE m == [type |-> kind, id |-> next_id, by |-> request]
      <4>1. scheduler_rx' = Append(scheduler_rx, m) /\ scheduler_rx \in Seq(Messages)
        BY <3>3 DEF Sending, Types
      <4>2. /\ Len(scheduler_rx) + 1 \in DOMAIN scheduler_rx'
            /\ scheduler_rx'[Len(scheduler_rx) + 1].type \in OpKinds
            /\ scheduler_rx'[Len(scheduler_rx) + 1].id = i
        BY SMT, <2>4, <4>1, Sent
      <4>3. Carried(i)'
        BY <4>2 DEF Carried
      <4>4. promise'[i] = "pending"
        BY <2>1, <2>4, <3>3 DEF Sending
      <4>5. /\ kind = "read" => i \in stream_callbacks' /\ i \notin fetch_callbacks'
            /\ kind # "read" => i \in fetch_callbacks' /\ i \notin stream_callbacks'
        BY <2>4, <3>1, <3>3 DEF Sending
      <4> QED
        BY SMT, <2>1, <2>4, <3>1, <3>3, <4>3, <4>4, <4>5 DEF WaitingOf
    <3> QED
      BY <1>2, <3>2, <3>3, GuestOpsMake
  <2> QED
    BY <2>3, <2>4
<1>3. ASSUME NEW i \in Ops, NEW t \in tasks, Panics(t) PROVE WaitingOf(i)'
  <2>1. UNCHANGED <<program, request, next_id, owner, promise, tables>>
    BY <1>3 DEF Panics
  <2>2. CASE t.id = i
    BY <1>0, <1>3, <2>1, <2>2 DEF Panics, WaitingOf
  <2>3. CASE t.id # i
    <3>1. i \in unanswered' <=> i \in unanswered
      BY <1>3, <2>3 DEF Panics
    <3>2. Carried(i) => Carried(i)'
      BY <1>3, <2>3 DEF Panics, Carried, IsAnswerTo
    <3> QED
      BY <1>0, <2>1, <3>1, <3>2 DEF WaitingOf
  <2> QED
    BY <2>2, <2>3
<1>4. ASSUME NEW i \in Ops, DispatchOp PROVE WaitingOf(i)'
  <2> DEFINE m == Head(batch)
  <2>1. /\ UNCHANGED <<program, request, next_id, owner>> /\ Delivering(m)
        /\ batch # <<>> /\ m.type # "ExecuteTimer" /\ batch \in Seq(Answers) /\ DOMAIN promise = Ops
    BY <1>4, DispatchDelivers DEF Types
  <2>2. CASE m.id # i
    <3>1. ~Ends(i)
      <4>1. ~Start
        BY SMT, <2>1 DEF Start, Types
      <4>2. ~Gone
        BY <1>4, DispatchDelivers DEF Gone
      <4>3. ASSUME NEW t \in tasks PROVE ~Panics(t)
        <5>1. Len(batch') # Len(batch)
          BY SMT, <1>4, <2>1, DispatchDelivers
        <5> QED
          BY <5>1 DEF Panics
      <4> QED
        BY <2>2, <4>1, <4>2, <4>3 DEF Ends
    <3>2. Carried(i) => Carried(i)'
      BY <3>1, CarriedOn
    <3>3. /\ promise'[i] = promise[i]
          /\ i \in fetch_callbacks' <=> i \in fetch_callbacks
          /\ i \in stream_callbacks' <=> i \in stream_callbacks
          /\ i \in unanswered' <=> i \in unanswered
      BY <2>1, <2>2 DEF Delivering, TakesBoth
    <3> QED
      BY <1>0, <2>1, <3>2, <3>3 DEF WaitingOf
  <2>3. CASE m.id = i
    <3>1. m.type = "StreamChunk" <=> program.ops[i] = "read"
      BY SMT, <2>1, <2>3, Taken DEF Carriers, AnswerOk
    <3>2. i < next_id
      BY SMT, <2>1, <2>3, Taken DEF Carriers, AnswerOk
    <3>3. i \notin fetch_callbacks' \cup stream_callbacks'
      BY <1>0, <2>1, <2>3, <3>1 DEF Delivering, TakesBoth, WaitingOf
    <3>4. promise'[i] # "pending" \/ i \in unanswered'
      BY <1>0, <2>1, <2>3, <3>1 DEF Delivering, TakesBoth, WaitingOf, Waiting
    <3> QED
      BY SMT, <1>0, <2>1, <3>2, <3>3, <3>4, OpsOfProgram DEF WaitingOf, Types
  <2> QED
    BY <2>2, <2>3
<1>5. ASSUME NEW i \in Ops, Same, ~Start, ~Gone, ~DispatchOp, ~\E t \in tasks : Panics(t)
      PROVE  WaitingOf(i)'
  BY <1>5, WaitingFrame DEF Ends
<1>6. GuestOps \/ Start \/ Gone \/ DispatchOp \/ (\E t \in tasks : Panics(t)) \/ Same
  <2>1. CASE HangUp \/ Respond \/ End \/ Abort \/ TakeRound \/ EndRound
    BY <2>1 DEF HangUp, Respond, End, Abort, TakeRound, EndRound
  <2>2. ASSUME NEW interval \in BOOLEAN, SetTimer(interval) PROVE Same
    BY <2>2 DEF SetTimer, GuestTimer
  <2>3. ASSUME NEW i \in Timers, ClearTimeout(i) PROVE Same
    BY <2>3 DEF ClearTimeout, GuestTimer
  <2>4. CASE LoopStep
    BY <2>4 DEF LoopStep, Spawn, BeginRequest, Schedule, ClearTimer, Handled
  <2>5. ASSUME NEW t \in timers, Fire(t) PROVE Same
    BY <2>5 DEF Fire
  <2>6. ASSUME NEW t \in tasks, Answering(t) PROVE Same
    BY <2>6 DEF Answering, Tells
  <2>7. CASE ExecuteTimer
    BY <2>7 DEF ExecuteTimer, Dispatched
  <2>8. CASE UNCHANGED vars
    BY <2>8 DEF vars
  <2> QED
    BY <2>1, <2>2, <2>3, <2>4, <2>5, <2>6, <2>7, <2>8, TasksAnswer DEF Next, Dispatch, DispatchOp
<1>7. \A i \in Ops : WaitingOf(i)'
  BY <1>1, <1>2, <1>3, <1>4, <1>5, <1>6
<1>8. fetch_error_callbacks' = fetch_callbacks'
  <2>1. fetch_error_callbacks = fetch_callbacks
    BY DEF Waiting
  <2>2. CASE Start \/ Gone
    BY <2>2 DEF Start, ClearTables, Gone
  <2>3. CASE GuestOps
    BY <2>1, <2>3, GuestOpsMake DEF Settling, Sending
  <2>4. CASE DispatchOp
    BY <2>1, <2>4, DispatchDelivers DEF Delivering, TakesBoth
  <2>5. CASE \E t \in tasks : Panics(t)
    BY <2>1, <2>5 DEF Panics
  <2> QED
    BY <1>6, <2>1, <2>2, <2>3, <2>4, <2>5
<1> QED
  BY <1>7, <1>8 DEF Waiting

OpsInv == Types /\ Carriers /\ Waiting

\* The invariant about ops holds in every state.
LEMMA OpsInvariant == Spec => []OpsInv
<1>1. Init => OpsInv
  BY TypesInit, CarriersInit, WaitingInit DEF OpsInv
<1>2. OpsInv /\ [Next]_vars => OpsInv'
  BY TypesStep, CarriersStep, WaitingStep DEF OpsInv
<1> QED
  BY <1>1, <1>2, PTL DEF Spec

\* No answer is lost on its way, whatever the programs, the requests and the order in
\* which the loop, the tasks and the rounds take their steps: an op that the guest
\* waits for keeps its callbacks and what carries it (run_event_loop, dispatch.rs).
THEOREM AnswersArrive == Spec => []NoAnswerLost
<1>1. Waiting => NoAnswerLost
  <2> SUFFICES ASSUME Waiting, NEW i \in Ops
               PROVE  /\ (i \in fetch_callbacks) = (i \in fetch_error_callbacks)
                      /\ (promise[i] = "pending" /\ i \notin unanswered)
                            => Carried(i) /\ i \in fetch_callbacks \cup stream_callbacks
                      /\ promise[i] # "pending" => i \notin fetch_callbacks \cup stream_callbacks
    BY DEF NoAnswerLost
  <2> QED
    BY DEF Waiting, WaitingOf
<1> QED
  BY <1>1, OpsInvariant, PTL DEF OpsInv

\* A promise is settled by the answer to its own op, in the request that made it: ids
\* are never given out twice, and reset() leaves no callback of an earlier request.
THEOREM AnswersReachTheirOp == Spec => AnswersOwn
<1> DEFINE Own(i) ==
             (promise[i] = "pending" /\ promise'[i] \in {"resolved", "rejected"})
                => /\ batch # <<>> /\ Head(batch).id = i
                   /\ Head(batch).by = owner[i] /\ owner[i] = request
           Settle == \A i \in Ops : Own(i)
<1>1. OpsInv /\ [Next]_vars => [Settle]_vars
  <2> SUFFICES ASSUME OpsInv, Next, NEW i \in Ops, promise[i] = "pending",
                      promise'[i] \in {"resolved", "rejected"}
               PROVE  /\ batch # <<>> /\ Head(batch).id = i
                      /\ Head(batch).by = owner[i] /\ owner[i] = request
    OBVIOUS
  <2>0. WaitingOf(i) /\ DOMAIN promise = Ops /\ batch \in Seq(Answers) /\ next_id \in Nat
    BY DEF OpsInv, Waiting, Types
  <2> USE DEF reqVars, turnVars, opVars, tables, scopeVars, timerVars, guestTimerVars, loopTimerVars
  <2>1. DispatchOp
    <3>1. ~(Start \/ Gone)
      BY DEF Start, Gone
    <3>2. ~GuestOps
      <4>1. i # next_id
        BY SMT, <2>0 DEF WaitingOf
      <4> QED
        BY <2>0, <4>1, GuestOpsMake DEF Settling, Sending
    <3>3. ~UNCHANGED promise
      OBVIOUS
    <3>4. ~(HangUp \/ Respond \/ End \/ Abort \/ TakeRound \/ EndRound \/ ExecuteTimer)
      BY <3>3 DEF HangUp, Respond, End, Abort, TakeRound, EndRound, ExecuteTimer
    <3>5. ~(LoopStep \/ (\E interval \in BOOLEAN : SetTimer(interval)) \/ \E j \in Timers : ClearTimeout(j))
      BY <3>3 DEF LoopStep, Spawn, BeginRequest, Schedule, ClearTimer, Handled, SetTimer, ClearTimeout,
                  GuestTimer
    <3>6. \A t \in tasks : ~Answering(t) /\ ~Panics(t)
      BY <3>3 DEF Answering, Tells, Panics
    <3>7. \A t \in timers : ~Fire(t)
      BY <3>3 DEF Fire
    <3> QED
      BY <3>1, <3>2, <3>4, <3>5, <3>6, <3>7, TasksAnswer DEF Next, Dispatch, DispatchOp, OpsInv
  <2>2. batch # <<>> /\ Head(batch).type # "ExecuteTimer" /\ Delivering(Head(batch))
    BY <2>1, DispatchDelivers
  <2>3. Head(batch).id = i /\ i \in fetch_callbacks \cup stream_callbacks
    BY <2>0, <2>2 DEF Delivering, OpsInv, Waiting
  <2>4. AnswerOk(Head(batch))
    BY <2>0, <2>2, Taken DEF OpsInv, Carriers
  <2> QED
    BY <2>0, <2>2, <2>3, <2>4 DEF WaitingOf, AnswerOk
<1> QED
  BY <1>1, OpsInvariant, PTL DEF Spec, AnswersOwn

-----------------------------------------------------------------------------
(* Timers *)

\* A message of this type for the id is in the queue, and it is the only one.
Has(s, type, i)  == \E k \in DOMAIN s : s[k].type = type /\ s[k].id = i
Once(s, type, i) ==
    \A k, l \in DOMAIN s :
       (s[k].type = type /\ s[k].id = i /\ s[l].type = type /\ s[l].id = i) => k = l

\* A send adds the message sent and no other ...
LEMMA HasSent ==
    ASSUME NEW S, NEW s \in Seq(S), NEW m, NEW type, NEW i
    PROVE  /\ Has(Append(s, m), type, i) => Has(s, type, i) \/ (m.type = type /\ m.id = i)
           /\ (Once(s, type, i) /\ ~(m.type = type /\ m.id = i)) => Once(Append(s, m), type, i)
           /\ ~Has(s, type, i) => Once(Append(s, m), type, i)
<1> DEFINE u == Append(s, m)
<1>1. /\ \A k \in DOMAIN u : (k \in DOMAIN s /\ u[k] = s[k]) \/ (k = Len(s) + 1 /\ u[k] = m)
  BY Sent
<1> HIDE DEF u
<1>2. /\ Has(u, type, i) => Has(s, type, i) \/ (m.type = type /\ m.id = i)
      /\ (Once(s, type, i) /\ ~(m.type = type /\ m.id = i)) => Once(u, type, i)
      /\ ~Has(s, type, i) => Once(u, type, i)
  BY <1>1 DEF Has, Once
<1> QED
  BY <1>2 DEF u

\* ... and taking the first message takes it out.
LEMMA HasTaken ==
    ASSUME NEW S, NEW s \in Seq(S), s # <<>>, NEW type, NEW i
    PROVE  /\ Has(Tail(s), type, i) => Has(s, type, i)
           /\ Once(s, type, i) => Once(Tail(s), type, i)
           /\ (Once(s, type, i) /\ Head(s).type = type /\ Head(s).id = i) => ~Has(Tail(s), type, i)
           /\ (Head(s).type = type /\ Head(s).id = i) => Has(s, type, i)
<1> DEFINE u == Tail(s)
<1>1. /\ \A k \in DOMAIN u : k \in Int /\ k >= 1 /\ k + 1 \in DOMAIN s /\ u[k] = s[k + 1]
      /\ 1 \in DOMAIN s /\ Head(s) = s[1]
  BY SMT
<1> HIDE DEF u
<1>2. Has(u, type, i) => Has(s, type, i)
  BY <1>1 DEF Has
<1>3. Once(s, type, i) => Once(u, type, i)
  BY SMT, <1>1 DEF Once
<1>4. (Once(s, type, i) /\ Head(s).type = type /\ Head(s).id = i) => ~Has(u, type, i)
  BY SMT, <1>1 DEF Has, Once
<1>5. (Head(s).type = type /\ Head(s).id = i) => Has(s, type, i)
  BY <1>1 DEF Has
<1> QED
  BY <1>2, <1>3, <1>4, <1>5 DEF u

\* Where the next shot of a timer may be: asked for, set, on its way, or in the round.
Asked(i)   == Has(scheduler_rx, "Schedule", i)
Armed(i)   == \E t \in timers : t.id = i
Rung(i)    == Has(callback_rx, "ExecuteTimer", i)
Ringing(i) == Has(batch, "ExecuteTimer", i)

Single(i) ==
    /\ Once(scheduler_rx, "Schedule", i)
    /\ Once(callback_rx, "ExecuteTimer", i) /\ Once(batch, "ExecuteTimer", i)

\* The loop knows it as a timeout.
AskedPlain(i) ==
    \A k \in DOMAIN scheduler_rx :
       scheduler_rx[k].type = "Schedule" /\ scheduler_rx[k].id = i => scheduler_rx[k].interval = FALSE

Plain(i) ==
    /\ AskedPlain(i)
    /\ \A t \in timers : t.id = i => t.interval = FALSE

\* A timeout has one shot, and none once it ran.
OneShot(i) ==
    /\ Single(i) /\ Plain(i)
    /\ Asked(i) => ~Armed(i) /\ ~Rung(i) /\ ~Ringing(i) /\ ran[i] = 0
    /\ Armed(i) => ~Rung(i) /\ ~Ringing(i) /\ ran[i] = 0
    /\ Rung(i) => ~Ringing(i) /\ ran[i] = 0
    /\ Ringing(i) => ran[i] = 0

ShotsOf(i) ==
    /\ i >= next_timer
          => /\ ~Asked(i) /\ ~Armed(i) /\ ~Rung(i) /\ ~Ringing(i) /\ ran[i] = 0
             /\ i \notin timer_callbacks \cup interval_ids \cup cleared
    /\ i \in timer_callbacks => timer_owner[i] = request /\ i \notin cleared
    /\ i \in timer_callbacks \ interval_ids => OneShot(i)

Shots == \A i \in Timers : ShotsOf(i)

\* No timer is set in a new context.
LEMMA ShotsInit == Init => Shots
<1> SUFFICES ASSUME Init, NEW i \in Timers PROVE ShotsOf(i)
  BY DEF Shots
<1> QED
  BY SMT DEF Init, ShotsOf, Asked, Armed, Rung, Ringing, Has

\* A step that brings no shot of the timer ...
Quieter(i) ==
    /\ Asked(i)' => Asked(i)
    /\ Armed(i)' => Armed(i)
    /\ Rung(i)' => Rung(i)
    /\ Ringing(i)' => Ringing(i)
    /\ Single(i) => Single(i)'
    /\ Plain(i) => Plain(i)'
    /\ ran'[i] = ran[i]

\* ... and tells the guest nothing new of it keeps what is known of it.
Keeps(i) ==
    /\ next_timer \in Nat /\ next_timer' \in Nat /\ next_timer' >= next_timer
    /\ i \in timer_callbacks' => i \in timer_callbacks
    /\ i >= next_timer => (i \notin interval_ids \cup cleared => i \notin interval_ids' \cup cleared')
    /\ i \in timer_callbacks'
          => /\ request' = request /\ timer_owner'[i] = timer_owner[i]
             /\ i \in cleared' => i \in cleared
             /\ i \in interval_ids => i \in interval_ids'

\* A step that lets a timer be, or takes a shot from it, keeps its shots.
LEMMA QuietStep ==
    ASSUME NEW i \in Timers, i \in Nat, ShotsOf(i), Quieter(i), Keeps(i)
    PROVE  ShotsOf(i)'
<1>1. OneShot(i) => OneShot(i)'
  BY DEF OneShot, Quieter
<1> QED
  BY SMT, <1>1 DEF ShotsOf, Quieter, Keeps

\* What the steps do to the queues that brings no shot.
LEMMA LoopQuiet ==
    ASSUME Types, NEW i,
           \/ UNCHANGED scheduler_rx \/ scheduler_rx' = <<>>
           \/ scheduler_rx # <<>> /\ scheduler_rx' = Tail(scheduler_rx)
           \/ \E m : scheduler_rx' = Append(scheduler_rx, m) /\ ~(m.type = "Schedule" /\ m.id = i)
    PROVE  /\ Asked(i)' => Asked(i)
           /\ Once(scheduler_rx, "Schedule", i) => Once(scheduler_rx, "Schedule", i)'
           /\ AskedPlain(i) => AskedPlain(i)'
<1>0. scheduler_rx \in Seq(Messages)
  BY DEF Types
<1>1. CASE UNCHANGED scheduler_rx \/ scheduler_rx' = <<>>
  BY SMT, <1>1 DEF Asked, Has, Once, AskedPlain
<1>2. CASE scheduler_rx # <<>> /\ scheduler_rx' = Tail(scheduler_rx)
  <2>1. AskedPlain(i) => AskedPlain(i)'
    BY SMT, <1>0, <1>2, Taken DEF AskedPlain
  <2>2. /\ Has(scheduler_rx', "Schedule", i) => Has(scheduler_rx, "Schedule", i)
        /\ Once(scheduler_rx, "Schedule", i) => Once(scheduler_rx', "Schedule", i)
    BY <1>0, <1>2, HasTaken
  <2> QED
    BY <2>1, <2>2 DEF Asked, Has, Once
<1>3. ASSUME NEW m, scheduler_rx' = Append(scheduler_rx, m), ~(m.type = "Schedule" /\ m.id = i)
      PROVE  /\ Asked(i)' => Asked(i)
             /\ Once(scheduler_rx, "Schedule", i) => Once(scheduler_rx, "Schedule", i)'
             /\ AskedPlain(i) => AskedPlain(i)'
  <2>1. AskedPlain(i) => AskedPlain(i)'
    BY SMT, <1>0, <1>3, Sent DEF AskedPlain
  <2>2. /\ Has(scheduler_rx', "Schedule", i) => Has(scheduler_rx, "Schedule", i)
        /\ Once(scheduler_rx, "Schedule", i) => Once(scheduler_rx', "Schedule", i)
    BY <1>0, <1>3, HasSent
  <2> QED
    BY <2>1, <2>2 DEF Asked, Has, Once
<1> QED
  BY <1>1, <1>2, <1>3

\* Answers of other kinds leave the shots that wait in the inbox as they were ...
LEMMA InboxQuiet ==
    ASSUME Types, NEW i,
           \/ UNCHANGED callback_rx \/ callback_rx' = <<>>
           \/ \E m : callback_rx' = Append(callback_rx, m) /\ ~(m.type = "ExecuteTimer" /\ m.id = i)
    PROVE  /\ Rung(i)' => Rung(i)
           /\ Once(callback_rx, "ExecuteTimer", i) => Once(callback_rx, "ExecuteTimer", i)'
<1>0. callback_rx \in Seq(Answers)
  BY DEF Types
<1>1. CASE UNCHANGED callback_rx \/ callback_rx' = <<>>
  BY SMT, <1>1 DEF Rung, Has, Once
<1>2. ASSUME NEW m, callback_rx' = Append(callback_rx, m), ~(m.type = "ExecuteTimer" /\ m.id = i)
      PROVE  /\ Has(callback_rx', "ExecuteTimer", i) => Has(callback_rx, "ExecuteTimer", i)
             /\ Once(callback_rx, "ExecuteTimer", i) => Once(callback_rx', "ExecuteTimer", i)
  BY <1>0, <1>2, HasSent
<1> QED
  BY <1>1, <1>2 DEF Rung, Has, Once

\* ... and so does a round that goes on or ends.
LEMMA RoundQuiet ==
    ASSUME Types, NEW i,
           UNCHANGED batch \/ batch' = <<>> \/ (batch # <<>> /\ batch' = Tail(batch))
    PROVE  /\ Ringing(i)' => Ringing(i)
           /\ Once(batch, "ExecuteTimer", i) => Once(batch, "ExecuteTimer", i)'
<1>0. batch \in Seq(Answers)
  BY DEF Types
<1>1. CASE UNCHANGED batch \/ batch' = <<>>
  BY SMT, <1>1 DEF Ringing, Has, Once
<1>2. CASE batch # <<>> /\ batch' = Tail(batch)
  <2>1. /\ Has(batch', "ExecuteTimer", i) => Has(batch, "ExecuteTimer", i)
        /\ Once(batch, "ExecuteTimer", i) => Once(batch', "ExecuteTimer", i)
    BY <1>0, <1>2, HasTaken
  <2> QED
    BY <2>1 DEF Ringing, Has, Once
<1> QED
  BY <1>1, <1>2

\* A step that is quiet on each of the queues, on the timers and on the runs of i.
LEMMA AllQuiet ==
    ASSUME Types, NEW i,
           \/ UNCHANGED scheduler_rx \/ scheduler_rx' = <<>>
           \/ scheduler_rx # <<>> /\ scheduler_rx' = Tail(scheduler_rx)
           \/ \E m : scheduler_rx' = Append(scheduler_rx, m) /\ ~(m.type = "Schedule" /\ m.id = i),
           \/ UNCHANGED callback_rx \/ callback_rx' = <<>>
           \/ \E m : callback_rx' = Append(callback_rx, m) /\ ~(m.type = "ExecuteTimer" /\ m.id = i),
           UNCHANGED batch \/ batch' = <<>> \/ (batch # <<>> /\ batch' = Tail(batch)),
           \A t \in timers' : t \in timers \/ t.id # i,
           ran'[i] = ran[i]
    PROVE  Quieter(i)
<1>1. /\ Asked(i)' => Asked(i)
      /\ Once(scheduler_rx, "Schedule", i) => Once(scheduler_rx, "Schedule", i)'
      /\ AskedPlain(i) => AskedPlain(i)'
  BY LoopQuiet
<1>2. /\ Rung(i)' => Rung(i)
      /\ Once(callback_rx, "ExecuteTimer", i) => Once(callback_rx, "ExecuteTimer", i)'
  BY InboxQuiet
<1>3. /\ Ringing(i)' => Ringing(i)
      /\ Once(batch, "ExecuteTimer", i) => Once(batch, "ExecuteTimer", i)'
  BY RoundQuiet
<1>4. Armed(i)' => Armed(i)
  BY DEF Armed
<1>5. Plain(i) => Plain(i)'
  BY <1>1 DEF Plain
<1> QED
  BY <1>1, <1>2, <1>3, <1>4, <1>5 DEF Quieter, Single

\* Setting, firing, running and clearing a timer keep its shots.
LEMMA ShotsStep == Types /\ Shots /\ [Next]_vars => Shots'
<1> SUFFICES ASSUME Types, Shots, [Next]_vars, NEW i \in Timers PROVE ShotsOf(i)'
  BY DEF Shots
<1> USE DEF reqVars, turnVars, opVars, tables, scopeVars, timerVars, guestTimerVars, loopTimerVars
<1>0. ShotsOf(i) /\ i \in Nat /\ next_timer \in Nat
  BY SMT, SchedulerAssumption DEF Shots, Types, Timers
<1>1. CASE UNCHANGED <<scheduler_rx, callback_rx, batch, request, timers, guestTimerVars>>
  <2>1. Quieter(i)
    BY <1>1, AllQuiet
  <2> QED
    BY SMT, <1>0, <1>1, <2>1, QuietStep DEF Keeps
<1>2. CASE Start
  <2>1. /\ scheduler_rx' = Append(scheduler_rx, [type |-> "BeginRequest", by |-> request + 1])
        /\ callback_rx' = <<>> /\ batch' = <<>> /\ UNCHANGED <<timers, ran>>
    BY <1>2 DEF Start
  <2>2. [type |-> "BeginRequest", by |-> request + 1].type # "Schedule"
    OBVIOUS
  <2>3. Quieter(i)
    BY <2>1, <2>2, AllQuiet
  <2> QED
    BY SMT, <1>0, <1>2, <2>3, QuietStep DEF Keeps, Start, ClearGuestState
<1>3. CASE Gone
  <2>1. Quieter(i)
    BY <1>3, AllQuiet DEF Gone
  <2> QED
    BY SMT, <1>0, <1>3, <2>1, QuietStep DEF Keeps, Gone
<1>4. CASE GuestOps
  <2>1. UNCHANGED <<callback_rx, batch, request, timers, guestTimerVars>>
    BY <1>4, GuestOpsMake DEF Asks
  <2>2. UNCHANGED scheduler_rx
        \/ \E m : scheduler_rx' = Append(scheduler_rx, m) /\ ~(m.type = "Schedule" /\ m.id = i)
    <3>1. CASE Settling
      BY <3>1 DEF Settling
    <3>2. ASSUME NEW kind \in OpKinds, Sending(kind)
          PROVE  \E m : scheduler_rx' = Append(scheduler_rx, m) /\ ~(m.type = "Schedule" /\ m.id = i)
      <4> WITNESS [type |-> kind, id |-> next_id, by |-> request]
      <4> QED
        BY <3>2 DEF Sending, OpKinds, FetchKinds, BindingKinds, RequestKinds
    <3> QED
      BY <1>4, <3>1, <3>2, GuestOpsMake
  <2>3. Quieter(i)
    BY <2>1, <2>2, AllQuiet
  <2> QED
    BY SMT, <1>0, <2>1, <2>3, QuietStep DEF Keeps
<1>5. ASSUME NEW interval \in BOOLEAN, SetTimer(interval) PROVE ShotsOf(i)'
  <2> DEFINE m == [type |-> "Schedule", id |-> next_timer, interval |-> interval]
  <2>1. /\ scheduler_rx' = Append(scheduler_rx, m) /\ scheduler_rx \in Seq(Messages)
        /\ UNCHANGED <<callback_rx, batch, request, timers, ran, cleared>>
        /\ next_timer' = next_timer + 1
    BY <1>5 DEF SetTimer, GuestTimer, Types
  <2>2. CASE i # next_timer
    <3>1. Quieter(i)
      BY <2>1, <2>2, AllQuiet
    <3>2. Keeps(i)
      BY SMT, <1>0, <1>5, <2>1, <2>2 DEF Keeps, SetTimer, Types
    <3> QED
      BY <1>0, <3>1, <3>2, QuietStep
  <2>3. CASE i = next_timer
    <3>1. /\ ~Asked(i) /\ ~Armed(i) /\ ~Rung(i) /\ ~Ringing(i) /\ ran[i] = 0
          /\ i \notin timer_callbacks \cup interval_ids \cup cleared
      BY SMT, <1>0, <2>3 DEF ShotsOf
    <3>2. ~Armed(i)' /\ ~Rung(i)' /\ ~Ringing(i)' /\ ran'[i] = 0 /\ i \notin cleared'
      BY <2>1, <3>1 DEF Armed, Rung, Ringing, Has
    <3>3. Single(i)'
      <4>1. Once(scheduler_rx', "Schedule", i)
        BY <2>1, <3>1, HasSent DEF Asked
      <4>2. Once(callback_rx', "ExecuteTimer", i) /\ Once(batch', "ExecuteTimer", i)
        BY <2>1, <3>1 DEF Rung, Ringing, Has, Once
      <4> QED
        BY <4>1, <4>2 DEF Single, Once
    <3>4. interval = FALSE => Plain(i)'
      <4>1. interval = FALSE => AskedPlain(i)'
        BY SMT, <2>1, <3>1, Sent DEF AskedPlain, Asked, Has
      <4> QED
        BY <3>2, <4>1 DEF Plain, Armed
    <3>5. timer_owner'[i] = request /\ (interval = TRUE => i \in interval_ids')
      BY <1>5, <2>3 DEF SetTimer, Types
    <3> QED
      BY SMT, <1>0, <2>1, <2>3, <3>2, <3>3, <3>4, <3>5 DEF ShotsOf, OneShot
  <2> QED
    BY <2>2, <2>3
<1>6. ASSUME NEW j \in Timers, ClearTimeout(j) PROVE ShotsOf(i)'
  <2>1. /\ scheduler_rx' = Append(scheduler_rx, [type |-> "ClearTimer", id |-> j])
        /\ UNCHANGED <<callback_rx, batch, request, timers, ran>>
    BY <1>6 DEF ClearTimeout, GuestTimer
  <2>2. [type |-> "ClearTimer", id |-> j].type # "Schedule"
    OBVIOUS
  <2>3. Quieter(i)
    BY <2>1, <2>2, AllQuiet
  <2>4. Keeps(i)
    BY SMT, <1>0, <1>6, <2>1 DEF Keeps, ClearTimeout
  <2> QED
    BY <1>0, <2>3, <2>4, QuietStep
<1>7. CASE LoopStep
  <2>1. /\ scheduler_rx # <<>> /\ scheduler_rx' = Tail(scheduler_rx) /\ scheduler_rx \in Seq(Messages)
        /\ UNCHANGED <<callback_rx, batch, request, guestTimerVars>>
    BY <1>7 DEF LoopStep, Spawn, BeginRequest, Schedule, ClearTimer, IsNext, Handled, Types
  <2> DEFINE m == Head(scheduler_rx)
  <2>2. Keeps(i)
    BY SMT, <1>0, <2>1 DEF Keeps
  <2>3. CASE ~(Schedule /\ m.id = i)
    <3>1. \A t \in timers' : t \in timers \/ t.id # i
      BY SMT, <1>7, <2>3 DEF LoopStep, Spawn, BeginRequest, Schedule, ClearTimer
    <3>2. Quieter(i)
      BY <2>1, <3>1, AllQuiet
    <3> QED
      BY <1>0, <2>2, <3>2, QuietStep
  <2>4. CASE Schedule /\ m.id = i
    <3>1. m.type = "Schedule" /\ timers' = timers \cup {[id |-> m.id, interval |-> m.interval]}
      BY <2>4 DEF Schedule, IsNext
    <3>2. Asked(i) /\ i < next_timer
      <4>1. Asked(i)
        BY <2>1, <2>4, <3>1, HasTaken DEF Asked
      <4> QED
        BY SMT, <1>0, <4>1 DEF ShotsOf
    <3>3. OneShot(i) => OneShot(i)'
      <4> SUFFICES ASSUME OneShot(i) PROVE OneShot(i)'
        OBVIOUS
      <4>1. ~Asked(i)'
        <5>1. ~Has(scheduler_rx', "Schedule", i)
          BY <2>1, <2>4, <3>1, HasTaken DEF OneShot, Single
        <5> QED
          BY <5>1 DEF Asked, Has
      <4>2. ~Rung(i)' /\ ~Ringing(i)' /\ ran'[i] = 0
        BY <2>1, <3>2 DEF OneShot, Rung, Ringing, Has
      <4>3. Single(i)'
        BY <2>1, <4>1, <4>2 DEF Single, Once, Asked, Rung, Ringing, Has
      <4>4. Plain(i)'
        <5>1. m.interval = FALSE
          BY <2>1, <2>4, <3>1, Taken DEF OneShot, Plain, AskedPlain
        <5>2. \A t \in timers' : t.id = i => t.interval = FALSE
          BY SMT, <3>1, <5>1 DEF OneShot, Plain
        <5>3. AskedPlain(i)'
          BY <4>1 DEF AskedPlain, Asked, Has
        <5> QED
          BY <5>2, <5>3 DEF Plain
      <4> QED
        BY <4>1, <4>2, <4>3, <4>4 DEF OneShot
    <3> QED
      BY <1>0, <2>1, <3>2, <3>3 DEF ShotsOf
  <2> QED
    BY <2>3, <2>4
<1>8. ASSUME NEW t \in timers, Fire(t) PROVE ShotsOf(i)'
  <2> DEFINE m == [type |-> "ExecuteTimer", id |-> t.id]
  <2>1. /\ UNCHANGED <<scheduler_rx, batch, request, guestTimerVars>> /\ callback_rx \in Seq(Answers)
        /\ timers' \subseteq timers
        /\ UNCHANGED callback_rx \/ callback_rx' = Append(callback_rx, m)
    BY <1>8 DEF Fire, Types
  <2>2. Keeps(i)
    BY SMT, <1>0, <2>1 DEF Keeps
  <2>3. CASE UNCHANGED callback_rx \/ t.id # i
    <3>1. UNCHANGED callback_rx
          \/ \E n : callback_rx' = Append(callback_rx, n) /\ ~(n.type = "ExecuteTimer" /\ n.id = i)
      <4>1. t.id # i => ~(m.type = "ExecuteTimer" /\ m.id = i)
        OBVIOUS
      <4> QED
        BY <2>1, <2>3, <4>1
    <3>2. Quieter(i)
      BY <2>1, <3>1, AllQuiet
    <3> QED
      BY <1>0, <2>2, <3>2, QuietStep
  <2>4. CASE ~UNCHANGED callback_rx /\ t.id = i
    <3>1. Armed(i) /\ i < next_timer
      BY SMT, <1>0, <2>4 DEF Armed, ShotsOf
    <3>2. OneShot(i) => OneShot(i)'
      <4> SUFFICES ASSUME OneShot(i) PROVE OneShot(i)'
        OBVIOUS
      <4>1. t.interval = FALSE /\ ~Asked(i) /\ ~Rung(i) /\ ~Ringing(i) /\ ran[i] = 0
        BY <2>4, <3>1 DEF OneShot, Plain
      <4>2. timers' = timers \ {t} /\ callback_rx' = Append(callback_rx, m)
        BY <1>8, <2>1, <2>4, <4>1 DEF Fire
      <4>3. ~Armed(i)'
        <5>1. \A u \in timers : u.id = i => u = t
          BY SMT, <2>4, <4>1 DEF OneShot, Plain, Types
        <5> QED
          BY <4>2, <5>1 DEF Armed
      <4>4. ~Asked(i)' /\ ~Ringing(i)' /\ ran'[i] = 0
        BY <2>1, <4>1 DEF Asked, Ringing, Has
      <4>5. Single(i)'
        <5>1. Once(callback_rx', "ExecuteTimer", i)
          BY <2>1, <4>1, <4>2, HasSent DEF Rung
        <5> QED
          BY <4>4, <5>1 DEF Single, Once, Asked, Ringing, Has
      <4>6. Plain(i)'
        BY <4>3, <4>4 DEF Plain, AskedPlain, Armed, Asked, Has
      <4> QED
        BY <4>3, <4>4, <4>5, <4>6 DEF OneShot
    <3> QED
      BY <1>0, <2>1, <3>1, <3>2 DEF ShotsOf
  <2> QED
    BY <2>3, <2>4
<1>9. ASSUME NEW t \in tasks, Answering(t) PROVE ShotsOf(i)'
  <2>1. PICK type \in AnswerTypes : Tells(t, type)
    BY <1>9 DEF Answering
  <2> DEFINE m == [type |-> type, id |-> t.id, by |-> t.by]
  <2>2. m.type # "ExecuteTimer"
    BY DEF AnswerTypes
  <2>3. /\ callback_rx' = Append(callback_rx, m)
        /\ UNCHANGED <<scheduler_rx, batch, request, timers, guestTimerVars>>
    BY <2>1 DEF Tells
  <2>4. Quieter(i)
    BY <2>2, <2>3, AllQuiet
  <2> QED
    BY SMT, <1>0, <2>3, <2>4, QuietStep DEF Keeps
<1>10. CASE TakeRound
  <2>1. /\ batch' = callback_rx /\ callback_rx' = <<>> /\ batch = <<>>
        /\ UNCHANGED <<scheduler_rx, request, timers, guestTimerVars>>
    BY SMT, <1>10 DEF TakeRound, Types
  <2>2. /\ ~Rung(i)' /\ (Ringing(i)' <=> Rung(i)) /\ ~Ringing(i)
        /\ (Asked(i)' <=> Asked(i)) /\ (Armed(i)' <=> Armed(i))
    BY SMT, <2>1 DEF Asked, Armed, Rung, Ringing, Has
  <2>3. /\ Single(i) => Single(i)'
        /\ Plain(i) => Plain(i)'
    BY <2>1 DEF Single, Once, Plain, AskedPlain
  <2>4. OneShot(i) => OneShot(i)'
    BY <2>1, <2>2, <2>3 DEF OneShot
  <2> QED
    BY <1>0, <2>1, <2>2, <2>4 DEF ShotsOf
<1>11. CASE DispatchOp
  <2>1. /\ batch # <<>> /\ batch' = Tail(batch)
        /\ UNCHANGED <<scheduler_rx, callback_rx, request, timers, guestTimerVars>>
    BY <1>11, DispatchDelivers
  <2>2. Quieter(i)
    BY <2>1, AllQuiet
  <2> QED
    BY SMT, <1>0, <2>1, <2>2, QuietStep DEF Keeps
<1>12. CASE ExecuteTimer
  <2> DEFINE m == Head(batch)
  <2>1. /\ batch # <<>> /\ batch' = Tail(batch) /\ m.type = "ExecuteTimer" /\ batch \in Seq(Answers)
        /\ UNCHANGED <<scheduler_rx, callback_rx, request, timers, next_timer, timer_owner, cleared,
                       interval_ids>>
        /\ timer_callbacks' \subseteq timer_callbacks
    BY <1>12 DEF ExecuteTimer, Due, Dispatched, Types
  <2>2. CASE m.id # i
    <3>1. ran'[i] = ran[i]
      BY <1>12, <2>2 DEF ExecuteTimer, Types
    <3>2. Quieter(i)
      BY <2>1, <3>1, AllQuiet
    <3> QED
      BY SMT, <1>0, <2>1, <3>2, QuietStep DEF Keeps
  <2>3. CASE m.id = i
    <3>1. Ringing(i) /\ i < next_timer
      <4>1. Ringing(i)
        BY <2>1, <2>3, HasTaken DEF Ringing
      <4> QED
        BY SMT, <1>0, <4>1 DEF ShotsOf
    <3>2. OneShot(i) => OneShot(i)'
      <4> SUFFICES ASSUME OneShot(i) PROVE OneShot(i)'
        OBVIOUS
      <4>1. ~Asked(i) /\ ~Armed(i) /\ ~Rung(i)
        BY <3>1 DEF OneShot
      <4>2. ~Asked(i)' /\ ~Armed(i)' /\ ~Rung(i)'
        BY <2>1, <4>1 DEF Asked, Armed, Rung, Has
      <4>3. ~Ringing(i)'
        <5>1. ~Has(batch', "ExecuteTimer", i)
          BY <2>1, <2>3, HasTaken DEF OneShot, Single
        <5> QED
          BY <5>1 DEF Ringing, Has
      <4>4. Single(i)' /\ Plain(i)'
        BY <4>2, <4>3 DEF Single, Once, Plain, AskedPlain, Asked, Armed, Rung, Ringing, Has
      <4> QED
        BY <4>2, <4>3, <4>4 DEF OneShot
    <3> QED
      BY <1>0, <2>1, <3>1, <3>2 DEF ShotsOf
  <2> QED
    BY <2>2, <2>3
<1>13. CASE HangUp \/ Respond \/ End \/ Abort \/ EndRound \/ (\E t \in tasks : Panics(t)) \/ UNCHANGED vars
  <2>1. UNCHANGED <<scheduler_rx, callback_rx, batch, request, timers, guestTimerVars>>
    BY <1>13 DEF HangUp, Respond, End, Abort, EndRound, Panics, vars
  <2> QED
    BY <1>1, <2>1
<1> QED
  BY <1>2, <1>3, <1>4, <1>5, <1>6, <1>7, <1>8, <1>9, <1>10, <1>11, <1>12, <1>13, TasksAnswer
     DEF Next, Dispatch, DispatchOp

ShotsInv == Types /\ Shots

\* The invariant about timers holds in every state.
LEMMA ShotsInvariant == Spec => []ShotsInv
<1>1. Init => ShotsInv
  BY TypesInit, ShotsInit DEF ShotsInv
<1>2. ShotsInv /\ [Next]_vars => ShotsInv'
  BY TypesStep, ShotsStep DEF ShotsInv
<1> QED
  BY <1>1, <1>2, PTL DEF Spec

\* A timer callback runs only in the request that set it, never once it is cleared,
\* and more than once only if it is an interval, although the loop knows nothing of
\* the reset of the guest and lets the timers of an earlier request tick on.
THEOREM TimersStayOwn == Spec => TimerOwn
<1> DEFINE Own(i) ==
             ran'[i] > ran[i]
                => /\ timer_owner[i] = request /\ i \notin cleared
                   /\ ran[i] > 0 => i \in interval_ids
           Runs == \A i \in Timers : Own(i)
<1>1. ShotsInv /\ [Next]_vars => [Runs]_vars
  <2> SUFFICES ASSUME ShotsInv, Next, NEW i \in Timers, ran'[i] > ran[i]
               PROVE  /\ timer_owner[i] = request /\ i \notin cleared
                      /\ ran[i] > 0 => i \in interval_ids
    OBVIOUS
  <2> USE DEF reqVars, turnVars, opVars, tables, scopeVars, timerVars, guestTimerVars, loopTimerVars
  <2>0. ShotsOf(i) /\ ran[i] \in Nat /\ batch \in Seq(Answers) /\ ran \in [Timers -> Nat]
    BY DEF ShotsInv, Shots, Types
  <2>1. ~UNCHANGED ran
    BY SMT, <2>0
  <2>2. ExecuteTimer
    <3>1. ~(Start \/ Gone \/ HangUp \/ Respond \/ End \/ Abort \/ TakeRound \/ EndRound)
      BY <2>1 DEF Start, Gone, HangUp, Respond, End, Abort, TakeRound, EndRound
    <3>2. ~GuestOps /\ ~DispatchOp
      BY <2>1, GuestOpsMake, DispatchDelivers DEF Asks
    <3>3. ~(LoopStep \/ (\E interval \in BOOLEAN : SetTimer(interval)) \/ \E j \in Timers : ClearTimeout(j))
      BY <2>1 DEF LoopStep, Spawn, BeginRequest, Schedule, ClearTimer, Handled, SetTimer, ClearTimeout
    <3>4. \A t \in tasks : ~Answering(t) /\ ~Panics(t)
      BY <2>1 DEF Answering, Tells, Panics
    <3>5. \A t \in timers : ~Fire(t)
      BY <2>1 DEF Fire
    <3> QED
      BY <3>1, <3>2, <3>3, <3>4, <3>5, TasksAnswer DEF Next, Dispatch, DispatchOp, ShotsInv
  <2>3. batch # <<>> /\ Head(batch).type = "ExecuteTimer" /\ Head(batch).id = i /\ i \in timer_callbacks
    BY SMT, <2>0, <2>2 DEF ExecuteTimer, Due
  <2>4. Ringing(i)
    BY <2>0, <2>3, HasTaken DEF Ringing
  <2> QED
    BY SMT, <2>0, <2>3, <2>4 DEF ShotsOf, OneShot
<1> QED
  BY <1>1, ShotsInvariant, PTL DEF Spec, TimerOwn
=============================================================================
