---------------------------- MODULE GuardsProofs ----------------------------
(***************************************************************************)
(* What Guards guarantees for any number of requests, any budgets and any  *)
(* bounds. The inductive invariants are: Turns, the shape of a turn;       *)
(* MemoryOwed, who answers for the flag of the isolate; FreshIds, Clock    *)
(* and Accounts, the books of the CPU enforcers; OwnTerminations, whose    *)
(* limit a pending termination is about; and EventGuards, the flags that   *)
(* remember the cut of an event.                                           *)
(***************************************************************************)
EXTENDS Guards, TLAPS

\* Zenon proves the leaves, but for those that cite SMT: numbers, sequences, records.
USE Zenon

\* The phases of an event, of a request that was not executed yet, and of one
\* that can have a turn.
Served == EventPhases \cup {"socket"}
Before == {"new", "cold", "ready", "load", "reset"}
Running == Served \cup {"load", "reset"}

\* The stages in which the thread's CPU counts, and those in which the turn holds
\* the isolate.
Timed == {"timed", "check", "js", "over", "disarmed"}
Held == Timed \cup {"begun", "counted"}

\* A turn belongs to a request that is on its way, holds the isolate for the id
\* of that request, and a request whose set-up failed has no more turns.
Turns ==
    /\ phase \in [Requests -> Before \cup Served \cup {"done"}]
    /\ stage \in Held \cup {"idle", "open", "ended", "verdict"}
    /\ runner = None <=> stage = "idle"
    /\ runner # None => runner \in Requests /\ phase[runner] \in Running
    /\ stage = "verdict" => phase[runner] \in Served
    /\ stage \in Held => holder = IdOf(runner)
    /\ DOMAIN outcome = Requests
    /\ \A r \in Requests : outcome[r] = "init" => phase[r] = "done"
    /\ \A r \in Requests : phase[r] = "socket" => r \in Sockets

\* Turns holds before any request has one.
LEMMA TurnsInit == Init => Turns
  BY SMT, GuardsAssumption DEF Init, Turns, Before, Held, Timed

\* What the other threads, the clocks and the allocations of JS leave alone.
LEMMA OthersLeaveTurns ==
    DeadlinePasses \/ Watchdog \/ TimerFires \/ SignalThread \/ Spend
        \/ (\E r \in Requests : JsOverruns(r))
    => UNCHANGED <<phase, runner, stage, result, holder, outcome>>
  BY DEF DeadlinePasses, Watchdog, WatchTake, WatchFlag, WatchTerminate, TimerFires,
         SignalThread, SignalTake, SignalSwap, SignalTerminate, Spend, JsOverruns,
         turnVars, v8Vars, eventVars

\* Turn::begin, Turn::end and the verdicts keep the shape of a turn, and the other
\* threads do not touch it.
LEMMA TurnsNext == Turns /\ [Next]_vars => Turns'
<1> SUFFICES ASSUME Turns, [Next]_vars PROVE Turns'
  OBVIOUS
<1> USE GuardsAssumption DEF Turns, IdOf, Served, Before, Running, Timed, Held, EventPhases,
        TaskPhases
<1>1. CASE UNCHANGED vars
  BY <1>1 DEF vars, turnVars, v8Vars, eventVars
<1>2. CASE DeadlinePasses \/ Watchdog \/ TimerFires \/ SignalThread \/ Spend
           \/ \E r \in Requests : JsOverruns(r)
  BY <1>2, OthersLeaveTurns
<1>3. ASSUME NEW r \in Requests, TurnStep(r) PROVE Turns'
  <2>1. CASE TurnBegin(r)
    BY <2>1 DEF TurnBegin, AfterBegin, LoopPhases, eventVars
  <2>2. CASE CpuBegin(r)
    BY <2>2 DEF CpuBegin, v8Vars, eventVars
  <2>3. CASE CpuArm(r)
    BY <2>3 DEF CpuArm, AfterBegin, v8Vars, eventVars
  <2>4. CASE LoopCheck(r)
    BY <2>4 DEF LoopCheck, v8Vars, eventVars
  <2>5. CASE CpuDisarm(r)
    BY <2>5 DEF CpuDisarm, v8Vars, eventVars
  <2>6. CASE CpuAccount(r)
    BY <2>6 DEF CpuAccount, v8Vars, eventVars
  <2>7. CASE TurnEnd(r)
    BY <2>7 DEF TurnEnd, eventVars
  <2>8. CASE LoadEnds(r)
    BY <2>8 DEF LoadEnds, Close, v8Vars
  <2>9. CASE ResetEnds(r)
    BY <2>9 DEF ResetEnds, Close, v8Vars
  <2>10. CASE EventTurnEnds(r)
    <3>1. \A next \in After(r) \ {"verdict"} : next \in Served /\ (next = "socket" => r \in Sockets)
      BY DEF After
    <3>2. CASE UNCHANGED phase
      BY <2>10, <3>2 DEF EventTurnEnds, ToVerdict, Close, v8Vars
    <3>3. CASE \E next \in After(r) \ {"verdict"} : Close /\ phase' = [phase EXCEPT ![r] = next]
      BY SMT, <2>10, <3>1, <3>3 DEF EventTurnEnds, Close, v8Vars
    <3> QED
      BY <2>10, <3>2, <3>3 DEF EventTurnEnds, ToVerdict, Close
  <2>11. CASE SocketTurnEnds(r)
    BY <2>11 DEF SocketTurnEnds, ToVerdict, Close, v8Vars
  <2>12. CASE Verdict(r)
    BY SMT, <2>12 DEF Verdict, Close, v8Vars
  <2> QED
    BY <1>3, <2>1, <2>2, <2>3, <2>4, <2>5, <2>6, <2>7, <2>8, <2>9, <2>10, <2>11, <2>12
       DEF TurnStep
<1>4. ASSUME NEW r \in Requests, Wake(r) PROVE Turns'
  <2>1. CASE ResetStart(r)
    BY <2>1 DEF ResetStart, Open
  <2>2. CASE SetUp(r)
    BY <2>2 DEF SetUp, Open
  <2>3. CASE SetUpFails(r)
    BY <2>3 DEF SetUpFails, turnVars
  <2>4. CASE Exec(r)
    BY <2>4 DEF Exec, turnVars
  <2>5. CASE EventTurn(r)
    BY <2>5 DEF EventTurn, Open, v8Vars, eventVars
  <2>6. CASE SocketTurn(r)
    BY <2>6 DEF SocketTurn, Open, v8Vars, eventVars
  <2>7. CASE LoopExpires(r)
    BY <2>7 DEF LoopExpires, LoopPhases, v8Vars, eventVars
  <2> QED
    BY <1>4, <2>1, <2>2, <2>3, <2>4, <2>5, <2>6, <2>7 DEF Wake
<1>5. ASSUME NEW r \in Requests, JsEnds(r) \/ JsCut(r) PROVE Turns'
  BY <1>5 DEF JsEnds, JsCut, v8Vars, eventVars
<1> QED
  BY <1>1, <1>2, <1>3, <1>4, <1>5 DEF Next

-----------------------------------------------------------------------------
(* Memory *)

\* Until a set-up fails, the flag of the isolate is only set in a turn of the
\* request that overran, after its JS started, and what Turn::end moved to a
\* request was its own.
MemoryOwed ==
    (\A r \in Requests : outcome[r] # "init") =>
        /\ memory_hit \subseteq overran
        /\ memory_limit_hit => runner \in overran /\ stage \in {"js", "over", "disarmed", "counted"}

\* Only three steps answer.
LEMMA OutcomeSteps ==
    ASSUME [Next]_vars, ~UNCHANGED outcome
    PROVE  \E q \in Requests : LoadEnds(q) \/ Verdict(q) \/ SetUpFails(q)
<1>1. ASSUME NEW q \in Requests, TurnStep(q), ~LoadEnds(q), ~Verdict(q) PROVE UNCHANGED outcome
  BY <1>1 DEF TurnStep, TurnBegin, CpuBegin, CpuArm, LoopCheck, CpuDisarm, CpuAccount, TurnEnd,
              ResetEnds, EventTurnEnds, SocketTurnEnds, eventVars
<1>2. ASSUME NEW q \in Requests, Wake(q), ~SetUpFails(q) PROVE UNCHANGED outcome
  BY <1>2 DEF Wake, ResetStart, SetUp, Exec, EventTurn, SocketTurn, LoopExpires, eventVars
<1>3. ASSUME NEW q \in Requests, JsEnds(q) \/ JsCut(q) PROVE UNCHANGED outcome
  BY <1>3 DEF JsEnds, JsCut, eventVars
<1>4. UNCHANGED vars => UNCHANGED outcome
  BY DEF vars, eventVars
<1> QED
  BY <1>1, <1>2, <1>3, <1>4, OthersLeaveTurns DEF Next

\* An outcome is only written over that of a request on its way.
LEMMA InitStays ==
    ASSUME Turns, [Next]_vars, NEW r \in Requests, outcome[r] = "init"
    PROVE  outcome'[r] = "init"
<1> USE GuardsAssumption DEF Turns, Running, Served, EventPhases, TaskPhases, Before
<1>1. ASSUME NEW q \in Requests, LoadEnds(q) \/ Verdict(q) PROVE outcome'[r] = "init"
  BY <1>1 DEF LoadEnds, Verdict
<1>2. ASSUME NEW q \in Requests, SetUpFails(q) PROVE outcome'[r] = "init"
  BY <1>2 DEF SetUpFails
<1> QED
  BY <1>1, <1>2, OutcomeSteps

\* The flag is set by the JS of a turn and taken by the end of that turn.
LEMMA MemoryNext == Turns /\ MemoryOwed /\ [Next]_vars => MemoryOwed'
<1> SUFFICES ASSUME Turns, MemoryOwed, [Next]_vars, \A r \in Requests : outcome'[r] # "init"
             PROVE  /\ memory_hit' \subseteq overran'
                    /\ memory_limit_hit' => /\ runner' \in overran'
                                            /\ stage' \in {"js", "over", "disarmed", "counted"}
  BY DEF MemoryOwed
<1>0. /\ memory_hit \subseteq overran
      /\ memory_limit_hit => runner \in overran /\ stage \in {"js", "over", "disarmed", "counted"}
  BY InitStays DEF MemoryOwed
<1> USE <1>0 DEF Turns, v8Vars, turnVars, seenVars, eventVars
<1>1. CASE UNCHANGED vars
  BY <1>1 DEF vars
<1>2. CASE DeadlinePasses \/ Watchdog \/ TimerFires \/ SignalThread \/ Spend
  <2>1. UNCHANGED <<memory_hit, memory_limit_hit, overran, runner, stage>>
    BY <1>2 DEF DeadlinePasses, Watchdog, WatchTake, WatchFlag, WatchTerminate, TimerFires,
                SignalThread, SignalTake, SignalSwap, SignalTerminate, Spend
  <2> QED
    BY <2>1
<1>3. ASSUME NEW r \in Requests,
             \/ TurnBegin(r) \/ CpuBegin(r) \/ CpuArm(r) \/ LoopCheck(r) \/ CpuDisarm(r)
             \/ CpuAccount(r)
      PROVE  /\ memory_hit' \subseteq overran'
             /\ memory_limit_hit' => /\ runner' \in overran'
                                     /\ stage' \in {"js", "over", "disarmed", "counted"}
  BY SMT, <1>3 DEF TurnBegin, CpuBegin, CpuArm, LoopCheck, CpuDisarm, CpuAccount
<1>4. ASSUME NEW r \in Requests, TurnEnd(r)
      PROVE  memory_hit' \subseteq overran' /\ ~memory_limit_hit'
  BY <1>4 DEF TurnEnd, MemoryFlagAfterTurn
<1>5. ASSUME NEW r \in Requests,
             LoadEnds(r) \/ ResetEnds(r) \/ EventTurnEnds(r) \/ SocketTurnEnds(r) \/ Verdict(r)
      PROVE  memory_hit' \subseteq overran' /\ ~memory_limit_hit'
  <2>1. stage \in {"ended", "verdict"} /\ UNCHANGED <<memory_hit, memory_limit_hit, overran>>
    BY <1>5 DEF LoadEnds, ResetEnds, EventTurnEnds, SocketTurnEnds, Verdict
  <2>2. ~memory_limit_hit
    BY SMT, <2>1
  <2> QED
    BY <2>1, <2>2
<1>6. ASSUME NEW r \in Requests, Wake(r)
      PROVE  memory_hit' \subseteq overran' /\ ~memory_limit_hit'
  <2>1. stage = "idle"
    BY <1>6 DEF Wake, ResetStart, SetUp, SetUpFails, Exec, EventTurn, SocketTurn, LoopExpires, Open
  <2>2. CASE SetUpFails(r)
    BY <2>2 DEF SetUpFails
  <2>3. ~memory_limit_hit
    BY SMT, <2>1
  <2>4. CASE EventTurn(r) \/ SocketTurn(r) \/ LoopExpires(r)
    <3>1. UNCHANGED <<memory_hit, memory_limit_hit, overran>>
      BY <2>4 DEF EventTurn, SocketTurn, LoopExpires
    <3> QED
      BY <2>3, <3>1
  <2>5. CASE ResetStart(r)
    BY <2>3, <2>5 DEF ResetStart
  <2>6. CASE SetUp(r) \/ Exec(r)
    <3>1. memory_hit' = memory_hit \ {r} /\ UNCHANGED <<memory_limit_hit, overran>>
      BY <2>6 DEF SetUp, Exec
    <3> QED
      BY <2>3, <3>1
  <2> QED
    BY <1>6, <2>2, <2>4, <2>5, <2>6 DEF Wake
<1>7. ASSUME NEW r \in Requests, JsEnds(r) \/ JsCut(r) \/ JsOverruns(r)
      PROVE  /\ memory_hit' \subseteq overran'
             /\ memory_limit_hit' => /\ runner' \in overran'
                                     /\ stage' \in {"js", "over", "disarmed", "counted"}
  <2>1. CASE JsEnds(r)
    BY <2>1 DEF JsEnds
  <2>2. CASE JsCut(r)
    BY <2>2 DEF JsCut
  <2>3. CASE JsOverruns(r)
    BY <2>3 DEF JsOverruns
  <2> QED
    BY <1>7, <2>1, <2>2, <2>3
<1> QED
  BY <1>1, <1>2, <1>3, <1>4, <1>5, <1>6, <1>7 DEF Next, TurnStep

\* The request that ends for memory is one that allocated past a limit, however
\* the turns of the requests interleave, as long as no set-up has failed.
THEOREM MemoryBlame == Spec => []MemoryBlameInTurns
<1>1. Init => MemoryOwed
  BY DEF Init, MemoryOwed
<1>2. MemoryOwed => MemoryBlameInTurns
  BY DEF MemoryOwed, MemoryBlameInTurns
<1> QED
  BY <1>1, <1>2, TurnsInit, TurnsNext, MemoryNext, PTL DEF Spec

-----------------------------------------------------------------------------
(* CPU *)

\* A signal that was sent and that the signal thread is not done with.
Pending(id) == id \in signals \/ (signal # None /\ signal[1] = id)

Fresh(id) == id \notin terminated /\ id \notin cut /\ ~Pending(id)

\* An id that no load, reset or event has yet is unmarked everywhere, and only an
\* id in use has a timer.
FreshOf(r) ==
    /\ phase[r] \in Before => Fresh(<<r, "event">>)
    /\ phase[r] \in {"new", "cold", "reset"} => Fresh(<<r, "load">>)
    /\ phase[r] = "new" => Fresh(<<r, "reset">>)
    /\ <<r, "load">> \in targets => phase[r] = "load"
    /\ <<r, "reset">> \in targets => phase[r] = "reset"
    /\ <<r, "event">> \in targets => phase[r] \in Served

FreshIds == \A r \in Requests : FreshOf(r)

\* A timer is armed in a turn that counts, for no less than what remains.
Clock ==
    /\ cpu \in Nat /\ turn_started \in Nat /\ turn_started <= cpu
    /\ remaining \in [Requests -> Nat] /\ used \in [Requests -> Nat]
    /\ stage \in {"begun", "timed"} => budget > 0
    /\ timer # None => /\ budget > 0
                       /\ timer \in Nat
                       /\ stage \in {"check", "js", "over"}
                       /\ timer >= turn_started + remaining[runner]

\* Arming, disarming and accounting keep the books of the thread's CPU clock.
LEMMA ClockNext == Turns /\ Clock /\ [Next]_vars => Clock'
<1> SUFFICES ASSUME Turns, Clock, [Next]_vars PROVE Clock'
  OBVIOUS
<1> USE GuardsAssumption DEF Clock
<1>1. CASE UNCHANGED vars
  BY <1>1 DEF vars, cpuVars, turnVars
<1>2. CASE DeadlinePasses \/ Watchdog \/ SignalThread
  BY <1>2 DEF DeadlinePasses, Watchdog, WatchTake, WatchFlag, WatchTerminate, SignalThread,
              SignalTake, SignalSwap, SignalTerminate, cpuVars, turnVars
<1>3. CASE TimerFires
  BY <1>3 DEF TimerFires
<1>4. CASE Spend
  BY SMT, <1>4 DEF Spend, turnVars, Turns
<1>5. ASSUME NEW r \in Requests, TurnStep(r) PROVE Clock'
  <2>1. CASE TurnBegin(r)
    BY <2>1 DEF TurnBegin, AfterBegin, cpuVars
  <2>2. CASE CpuBegin(r)
    BY SMT, <2>2 DEF CpuBegin
  <2>3. CASE CpuArm(r)
    <3>1. timer' \in Nat /\ timer' >= turn_started' + remaining'[runner'] /\ stage' \in {"check", "js"}
      BY SMT, <2>3 DEF CpuArm, AfterBegin
    <3> QED
      BY <2>3, <3>1 DEF CpuArm
  <2>4. CASE LoopCheck(r)
    BY <2>4 DEF LoopCheck, cpuVars
  <2>5. CASE CpuDisarm(r)
    BY <2>5 DEF CpuDisarm
  <2>6. CASE CpuAccount(r)
    <3>1. Left(r) \in Nat
      BY SMT DEF Left
    <3> QED
      BY <2>6, <3>1 DEF CpuAccount
  <2>7. CASE TurnEnd(r)
    BY <2>7 DEF TurnEnd, cpuVars
  <2>8. CASE LoadEnds(r) \/ ResetEnds(r) \/ EventTurnEnds(r) \/ SocketTurnEnds(r) \/ Verdict(r)
    <3>1. timer = None /\ UNCHANGED cpuVars
      BY <2>8 DEF LoadEnds, ResetEnds, EventTurnEnds, SocketTurnEnds, Verdict
    <3>2. stage' \in {"idle", "verdict"}
      BY <2>8 DEF LoadEnds, ResetEnds, EventTurnEnds, SocketTurnEnds, Verdict, Close, ToVerdict
    <3> QED
      BY <3>1, <3>2 DEF cpuVars
  <2> QED
    BY <1>5, <2>1, <2>2, <2>3, <2>4, <2>5, <2>6, <2>7, <2>8 DEF TurnStep
<1>6. ASSUME NEW r \in Requests, Wake(r) PROVE Clock'
  <2>1. stage = "idle"
    BY <1>6 DEF Turns, Wake, ResetStart, SetUp, SetUpFails, Exec, EventTurn, SocketTurn, LoopExpires,
                Open
  <2>2. timer = None
    BY <2>1
  <2>3. CASE ResetStart(r)
    BY <2>2, <2>3 DEF ResetStart, NewEnforcer, Open
  <2>4. CASE SetUp(r)
    BY <2>2, <2>4 DEF SetUp, NewEnforcer, Open
  <2>5. CASE Exec(r)
    BY <2>1, <2>2, <2>5 DEF Exec, NewEnforcer, turnVars
  <2>6. CASE SocketTurn(r)
    BY <2>2, <2>6 DEF SocketTurn, Refilled, Open
  <2>7. CASE SetUpFails(r) \/ EventTurn(r) \/ LoopExpires(r)
    BY <2>1, <2>2, <2>7 DEF SetUpFails, EventTurn, LoopExpires, Open, turnVars, cpuVars
  <2> QED
    BY <1>6, <2>3, <2>4, <2>5, <2>6, <2>7 DEF Wake
<1>7. ASSUME NEW r \in Requests, JsEnds(r) \/ JsCut(r) \/ JsOverruns(r) PROVE Clock'
  BY <1>7 DEF JsEnds, JsCut, JsOverruns, cpuVars, turnVars
<1> QED
  BY <1>1, <1>2, <1>3, <1>4, <1>5, <1>6, <1>7 DEF Next

\* An enforcer that is not made yet has no signal and no mark, and every step keeps
\* it so.
LEMMA FreshNext == Turns /\ Clock /\ FreshIds /\ [Next]_vars => FreshIds'
<1> SUFFICES ASSUME Turns, Clock, FreshIds, [Next]_vars, NEW q \in Requests PROVE FreshOf(q)'
  BY DEF FreshIds
<1>0. FreshOf(q)
  BY DEF FreshIds
<1> USE <1>0, GuardsAssumption DEF FreshOf, Fresh, Pending, IdOf, Before, Running, Served, EventPhases,
        TaskPhases
<1>1. CASE UNCHANGED vars
  BY <1>1 DEF vars, signalVars, eventVars, seenVars
<1>2. CASE DeadlinePasses \/ Watchdog \/ Spend
  BY <1>2 DEF DeadlinePasses, Watchdog, WatchTake, WatchFlag, WatchTerminate, Spend, signalVars,
              eventVars, seenVars
<1>3. CASE TimerFires
  <2>1. runner \in Requests /\ phase[runner] \in Running
    BY <1>3 DEF TimerFires, Turns, Clock
  <2> QED
    BY <1>3, <2>1 DEF TimerFires, eventVars, seenVars
<1>4. ASSUME NEW id \in Ids, SignalTake(id) PROVE FreshOf(q)'
  BY <1>4 DEF SignalTake, eventVars, seenVars
<1>5. CASE SignalSwap
  BY <1>5 DEF SignalSwap, eventVars, seenVars
<1>6. CASE SignalTerminate
  BY <1>6 DEF SignalTerminate, eventVars, seenVars
<1>7. ASSUME NEW r \in Requests, TurnStep(r) PROVE FreshOf(q)'
  <2>1. CASE TurnBegin(r) \/ CpuBegin(r) \/ CpuArm(r) \/ LoopCheck(r) \/ CpuDisarm(r) \/ TurnEnd(r)
    BY <2>1 DEF TurnBegin, CpuBegin, CpuArm, LoopCheck, CpuDisarm, TurnEnd, signalVars, eventVars,
                seenVars
  <2>2. CASE CpuAccount(r)
    BY <2>2 DEF CpuAccount, Turns, eventVars, seenVars
  <2>3. CASE LoadEnds(r)
    BY SMT, <2>3 DEF LoadEnds, DropGuards, Turns, seenVars
  <2>4. CASE ResetEnds(r)
    BY <2>4 DEF ResetEnds, DropGuards, Turns, seenVars
  <2>5. CASE EventTurnEnds(r) \/ SocketTurnEnds(r)
    <3>1. UNCHANGED <<signalVars, seenVars>> /\ phase[r] \in Served
      BY <2>5 DEF EventTurnEnds, SocketTurnEnds
    <3>2. q # r => phase'[q] = phase[q]
      BY <2>5 DEF EventTurnEnds, SocketTurnEnds, ToVerdict, Turns
    <3>3. phase'[r] \in Served
      BY <2>5 DEF EventTurnEnds, SocketTurnEnds, ToVerdict, After, Turns
    <3> QED
      BY <3>1, <3>2, <3>3 DEF signalVars, seenVars
  <2>6. CASE Verdict(r)
    BY SMT, <2>6 DEF Verdict, DropGuards, Turns, seenVars
  <2> QED
    BY <1>7, <2>1, <2>2, <2>3, <2>4, <2>5, <2>6 DEF TurnStep
<1>8. ASSUME NEW r \in Requests, Wake(r) PROVE FreshOf(q)'
  <2>1. CASE ResetStart(r)
    BY <2>1 DEF ResetStart, NewEnforcer, Turns, seenVars
  <2>2. CASE SetUp(r)
    BY <2>2 DEF SetUp, NewEnforcer, Turns, seenVars
  <2>3. CASE SetUpFails(r)
    BY <2>3 DEF SetUpFails, Turns, signalVars
  <2>4. CASE Exec(r)
    BY <2>4 DEF Exec, NewEnforcer, Turns, seenVars
  <2>5. CASE EventTurn(r) \/ SocketTurn(r) \/ LoopExpires(r)
    BY <2>5 DEF EventTurn, SocketTurn, LoopExpires, signalVars, eventVars, seenVars
  <2> QED
    BY <1>8, <2>1, <2>2, <2>3, <2>4, <2>5 DEF Wake
<1>9. ASSUME NEW r \in Requests, JsEnds(r) \/ JsCut(r) \/ JsOverruns(r) PROVE FreshOf(q)'
  BY <1>9 DEF JsEnds, JsCut, JsOverruns, Turns, signalVars, eventVars, seenVars
<1> QED
  BY <1>1, <1>2, <1>3, <1>4, <1>5, <1>6, <1>7, <1>8, <1>9 DEF Next, SignalThread

\* The CPU of the turn of r since its begin_turn.
Turned(r) == IF runner = r /\ stage \in Timed THEN cpu - turn_started ELSE 0

\* r has used its budget: the books say so, or will once its turn is counted.
Exhausted(r) ==
    /\ used[r] >= budget
    /\ \/ IdOf(r) \in terminated
       \/ runner = r /\ stage \in Timed /\ Turned(r) >= remaining[r]

\* What a request used and what remains to it cover its budget, and it is marked
\* or signalled as out of CPU only when it is.
AccountOf(r) ==
    IdOf(r) \in targets =>
        /\ budget > 0
        /\ used[r] + remaining[r] >= budget + Turned(r)
        /\ Pending(IdOf(r)) \/ IdOf(r) \in terminated => Exhausted(r)

Accounts == \A r \in Requests : AccountOf(r)

\* AccountOf looks at nothing else; a request without a timer has no account.
LEMMA AccountFrame ==
    ASSUME NEW r \in Requests, AccountOf(r), UNCHANGED <<cpu, turn_started, signals, signal, terminated>>,
           used'[r] = used[r], remaining'[r] = remaining[r], IdOf(r)' = IdOf(r),
           IdOf(r) \in targets' => IdOf(r) \in targets,
           \/ budget = 0
           \/ (runner = r /\ stage \in Timed) <=> (runner' = r /\ stage' \in Timed)
    PROVE  AccountOf(r)'
  BY SMT, GuardsAssumption DEF AccountOf, Turned, Exhausted, Pending

\* A request whose enforcer is not registered has no account to keep.
LEMMA NoAccount ==
    ASSUME NEW r \in Requests, IdOf(r)' \notin targets' PROVE AccountOf(r)'
  BY DEF AccountOf

\* Every turn takes from what remains what it adds to what was used, and a signal is
\* only raised once nothing remains.
LEMMA AccountsNext == Turns /\ Clock /\ FreshIds /\ Accounts /\ [Next]_vars => Accounts'
<1> SUFFICES ASSUME Turns, Clock, FreshIds, Accounts, [Next]_vars, NEW q \in Requests
             PROVE  AccountOf(q)'
  BY DEF Accounts
<1>0. AccountOf(q) /\ FreshOf(q)
  BY DEF Accounts, FreshIds
<1> USE <1>0, GuardsAssumption
<1>1. CASE UNCHANGED vars \/ DeadlinePasses \/ Watchdog
  <2>1. UNCHANGED <<cpuVars, signalVars, phase, runner, stage>>
    BY <1>1 DEF vars, DeadlinePasses, Watchdog, WatchTake, WatchFlag, WatchTerminate, turnVars,
                eventVars
  <2> QED
    BY <2>1, AccountFrame DEF cpuVars, signalVars, IdOf
<1>2. CASE TimerFires
  <2>1. /\ runner \in Requests /\ stage \in Timed
        /\ cpu >= turn_started + remaining[runner]
    BY SMT, <1>2 DEF TimerFires, Turns, Clock, Timed
  <2>2. CASE q = runner
    BY SMT, <1>2, <2>1, <2>2
       DEF TimerFires, Clock, AccountOf, Turned, Exhausted, Pending, IdOf, turnVars, eventVars
  <2>3. CASE q # runner
    BY <1>2, <2>1, <2>3
       DEF TimerFires, Clock, AccountOf, Turned, Exhausted, Pending, IdOf, turnVars, eventVars
  <2> QED
    BY <2>2, <2>3
<1>3. ASSUME NEW id \in Ids, SignalTake(id) PROVE AccountOf(q)'
  BY <1>3 DEF SignalTake, AccountOf, Turned, Exhausted, Pending, IdOf, turnVars, cpuVars, eventVars
<1>4. CASE SignalSwap \/ SignalTerminate
  BY SMT, <1>4 DEF SignalSwap, SignalTerminate, AccountOf, Turned, Exhausted, Pending, IdOf, turnVars,
              cpuVars, eventVars
<1>5. CASE Spend
  BY SMT, <1>5 DEF Spend, Timed, Clock, AccountOf, Turned, Exhausted, Pending, IdOf, turnVars, signalVars,
              eventVars
<1>6. ASSUME NEW r \in Requests, TurnStep(r) PROVE AccountOf(q)'
  <2>1. CASE TurnBegin(r)
    <3>1. UNCHANGED <<cpuVars, signalVars, phase, runner>>
      BY <2>1 DEF TurnBegin, eventVars
    <3>2. budget = 0 \/ (stage \notin Timed /\ stage' \notin Timed)
      BY SMT, <2>1 DEF TurnBegin, Timed
    <3> QED
      BY <3>1, <3>2, AccountFrame DEF IdOf, cpuVars, signalVars
  <2>2. CASE CpuBegin(r)
    BY SMT, <2>2 DEF CpuBegin, Timed, Clock, AccountOf, Turned, Exhausted, Pending, IdOf, signalVars,
                eventVars
  <2>3. CASE CpuArm(r) \/ CpuDisarm(r)
    BY <2>3 DEF CpuArm, CpuDisarm, AfterBegin, Timed, AccountOf, Turned, Exhausted, Pending, IdOf,
                signalVars, eventVars
  <2>4. CASE LoopCheck(r)
    BY <2>4, AccountFrame DEF LoopCheck, Timed, IdOf, cpuVars, signalVars, eventVars
  <2>5. CASE CpuAccount(r)
    BY SMT, <2>5 DEF CpuAccount, Left, Timed, Clock, AccountOf, Turned, Exhausted, Pending, IdOf, eventVars
  <2>6. CASE TurnEnd(r)
    <3>1. UNCHANGED <<cpuVars, signalVars, phase, runner>>
      BY <2>6 DEF TurnEnd, eventVars
    <3>2. budget = 0 \/ (stage \notin Timed /\ stage' \notin Timed)
      BY SMT, <2>6 DEF TurnEnd, Timed
    <3> QED
      BY <3>1, <3>2, AccountFrame DEF IdOf, cpuVars, signalVars
  <2>7. CASE LoadEnds(r) \/ ResetEnds(r) \/ Verdict(r)
    <3>1. /\ UNCHANGED <<cpuVars, signals, signal, terminated>> /\ targets' \subseteq targets
          /\ runner' = None /\ stage \notin Timed
      BY <2>7 DEF LoadEnds, ResetEnds, Verdict, DropGuards, Close, Timed
    <3>2. q # r => phase'[q] = phase[q]
      BY <2>7 DEF LoadEnds, ResetEnds, Verdict, Turns
    <3>3. CASE q = r /\ ~(Verdict(r) /\ UNCHANGED targets)
      <4>1. IdOf(r)' \notin targets'
        BY <2>7, <3>3 DEF LoadEnds, ResetEnds, Verdict, DropGuards, Turns, FreshOf, IdOf, Served,
                          EventPhases, TaskPhases
      <4> QED
        BY <3>3, <4>1, NoAccount
    <3>4. CASE q # r \/ (Verdict(r) /\ UNCHANGED targets)
      <4>1. IdOf(q)' = IdOf(q)
        BY <3>2, <3>4 DEF Verdict, Turns, IdOf, Served, EventPhases, TaskPhases
      <4> QED
        BY <3>1, <4>1, AccountFrame DEF cpuVars
    <3> QED
      BY <3>3, <3>4
  <2>8. CASE EventTurnEnds(r) \/ SocketTurnEnds(r)
    <3>1. UNCHANGED <<cpuVars, signalVars>> /\ stage \notin Timed /\ stage' \notin Timed
      BY <2>8 DEF EventTurnEnds, SocketTurnEnds, ToVerdict, Close, Timed
    <3>2. IdOf(q)' = IdOf(q)
      BY <2>8 DEF EventTurnEnds, SocketTurnEnds, ToVerdict, After, Turns, IdOf, EventPhases, TaskPhases
    <3> QED
      BY <3>1, <3>2, AccountFrame DEF cpuVars, signalVars
  <2> QED
    BY <1>6, <2>1, <2>2, <2>3, <2>4, <2>5, <2>6, <2>7, <2>8 DEF TurnStep
<1>7. ASSUME NEW r \in Requests, Wake(r) PROVE AccountOf(q)'
  <2>1. stage = "idle" /\ stage' \notin Timed
    BY <1>7 DEF Turns, Wake, ResetStart, SetUp, SetUpFails, Exec, EventTurn, SocketTurn, LoopExpires,
                Open, turnVars, Timed
  <2>2. CASE ResetStart(r) \/ SetUp(r) \/ Exec(r)
    <3>1. q # r => phase'[q] = phase[q] /\ remaining'[q] = remaining[q] /\ used'[q] = used[q]
      BY <2>2 DEF ResetStart, SetUp, Exec, NewEnforcer, Turns, Clock
    <3>2. /\ UNCHANGED <<cpu, turn_started, signals, signal, terminated>>
          /\ targets' \subseteq targets \cup {IdOf(r)'}
      BY <2>2 DEF ResetStart, SetUp, Exec, NewEnforcer, Turns, IdOf
    <3>3. CASE q # r
      <4>1. IdOf(q)' = IdOf(q) /\ IdOf(q) # IdOf(r)'
        BY <3>1, <3>3 DEF IdOf
      <4>2. IdOf(q) \in targets' => IdOf(q) \in targets
        BY <3>2, <4>1
      <4>3. ~(runner = q /\ stage \in Timed) /\ ~(runner' = q /\ stage' \in Timed)
        BY <2>1 DEF Timed
      <4> QED
        BY <3>1, <3>2, <3>3, <4>1, <4>2, <4>3, AccountFrame
    <3>4. CASE q = r
      <4>1. ~Pending(IdOf(r))' /\ IdOf(r)' \notin terminated'
        BY <2>2, <3>2, <3>4 DEF ResetStart, SetUp, Exec, Turns, FreshOf, Fresh, Pending, IdOf, Before
      <4>2. remaining'[r] = budget /\ used'[r] = 0 /\ (budget = 0 => targets' = targets)
        BY SMT, <2>2 DEF ResetStart, SetUp, Exec, NewEnforcer, Clock
      <4>3. IdOf(r)' \notin targets
        BY <2>2, <3>4 DEF ResetStart, SetUp, Exec, Turns, FreshOf, IdOf, Served, EventPhases, TaskPhases
      <4> QED
        BY SMT, <2>1, <3>4, <4>1, <4>2, <4>3 DEF AccountOf, Turned
    <3> QED
      BY <3>3, <3>4
  <2>3. CASE SetUpFails(r)
    <3>1. q # r => phase'[q] = phase[q]
      BY SMT, <2>3 DEF SetUpFails
    <3>2. q = r => IdOf(q)' \notin targets'
      BY <2>3 DEF SetUpFails, Turns, FreshOf, IdOf, Served, EventPhases, TaskPhases, signalVars
    <3> QED
      BY <2>1, <2>3, <3>1, <3>2, NoAccount, AccountFrame DEF SetUpFails, IdOf, cpuVars, signalVars
  <2>4. CASE SocketTurn(r)
    BY SMT, <2>1, <2>4 DEF SocketTurn, Refilled, Clock, AccountOf, Turned, Exhausted, Pending, IdOf, Timed,
                      signalVars, eventVars
  <2>5. CASE EventTurn(r) \/ LoopExpires(r)
    BY <2>1, <2>5, AccountFrame DEF EventTurn, LoopExpires, IdOf, Timed, cpuVars, signalVars, eventVars
  <2> QED
    BY <1>7, <2>2, <2>3, <2>4, <2>5 DEF Wake
<1>8. ASSUME NEW r \in Requests, JsEnds(r) \/ JsCut(r) \/ JsOverruns(r) PROVE AccountOf(q)'
  <2>1. /\ UNCHANGED <<cpuVars, signalVars, phase, runner>>
        /\ stage \in Timed /\ stage' \in Timed
    BY <1>8 DEF JsEnds, JsCut, JsOverruns, Timed, turnVars, eventVars
  <2> QED
    BY <2>1, AccountFrame DEF IdOf, cpuVars, signalVars
<1> QED
  BY <1>1, <1>2, <1>3, <1>4, <1>5, <1>6, <1>7, <1>8 DEF Next, SignalThread

\* A request is marked as out of CPU only once its turns used a whole budget since
\* it got it, however late its signals arrive.
THEOREM CpuExact == Spec => []CpuLimitExact
<1>1. Init => Clock
  BY SMT, GuardsAssumption DEF Init, Clock
<1>2. Init => FreshIds
  BY DEF Init, FreshIds, FreshOf, Fresh, Pending
<1>3. Init => Accounts
  BY DEF Init, Accounts, AccountOf
<1>4. Accounts => CpuLimitExact
  BY DEF Accounts, AccountOf, Exhausted, CpuLimitExact
<1> QED
  BY <1>1, <1>2, <1>3, <1>4, TurnsInit, TurnsNext, ClockNext, FreshNext, AccountsNext, PTL DEF Spec

-----------------------------------------------------------------------------
(* Whose limit a termination is about *)

\* A limit of the load, reset or event was reached.
Reached(id) == (\E g \in passed : g[1] = id) \/ id \in terminated \/ id[1] \in overran

\* What the watchdog took out had passed.
Queues ==
    /\ deadlines \in Seq(WallGuards) /\ due \in Seq(WallGuards)
    /\ made \in [Requests -> Nat] /\ wall \in [Requests -> WallGuards \cup {None}]
    /\ \A i \in DOMAIN due : due[i] \in passed
    /\ flagged => due # <<>>

\* The watchdog and the signal thread only work on ids whose limit was reached,
\* and so a termination that is pending in a turn is about the holder of the turn.
OwnTerminations ==
    /\ signal # None /\ signal[2] = "terminate" => signal[1] \in terminated
    /\ stage \in Held /\ terminating => Reached(IdOf(runner))

\* What watch() splits off a queue, and what it leaves.
LEMMA SplitOff ==
    ASSUME NEW S, NEW s \in Seq(S), NEW n \in DOMAIN s
    PROVE  /\ \A i \in DOMAIN SubSeq(s, 1, n) : i \in DOMAIN s /\ SubSeq(s, 1, n)[i] = s[i]
           /\ \A i \in DOMAIN SubSeq(s, n + 1, Len(s)) :
                 i + n \in DOMAIN s /\ SubSeq(s, n + 1, Len(s))[i] = s[i + n]
<1>1. n \in 1..Len(s) /\ Len(s) \in Nat
  BY SMT
<1>2. /\ DOMAIN SubSeq(s, 1, n) = 1..n
      /\ \A i \in 1..n : i \in DOMAIN s /\ SubSeq(s, 1, n)[i] = s[i]
  BY SMT, <1>1
<1>3. /\ DOMAIN SubSeq(s, n + 1, Len(s)) = 1..(Len(s) - n)
      /\ \A i \in 1..(Len(s) - n) : i + n \in DOMAIN s /\ SubSeq(s, n + 1, Len(s))[i] = s[i + n]
  BY SMT, <1>1
<1> QED
  BY <1>2, <1>3

\* What a guard that drops leaves of the deadlines.
LEMMA WithdrawnFrom ==
    ASSUME deadlines \in Seq(WallGuards), NEW r
    PROVE  /\ Withdrawn(r) \in Seq(WallGuards)
           /\ \A i \in DOMAIN Withdrawn(r) : \E j \in DOMAIN deadlines : Withdrawn(r)[i] = deadlines[j]
<1> DEFINE at == {i \in DOMAIN deadlines : deadlines[i] = wall[r]}
           k == CHOOSE i \in at : TRUE
           a == SubSeq(deadlines, 1, k - 1)
           b == SubSeq(deadlines, k + 1, Len(deadlines))
<1>1. CASE at = {}
  BY <1>1 DEF Withdrawn
<1>2. CASE at # {}
  <2>1. k \in 1..Len(deadlines) /\ Len(deadlines) \in Nat
    BY SMT, <1>2
  <2>2. Withdrawn(r) = a \o b
    BY <1>2 DEF Withdrawn
  <2> HIDE DEF k
  <2>3. /\ a \in Seq(WallGuards) /\ Len(a) = k - 1 /\ \A i \in 1..(k - 1) : a[i] = deadlines[i]
        /\ b \in Seq(WallGuards) /\ Len(b) = Len(deadlines) - k
        /\ \A i \in 1..(Len(deadlines) - k) : b[i] = deadlines[k + i]
    BY SMT, <2>1
  <2> HIDE DEF a, b
  <2>4. a \o b \in Seq(WallGuards) /\ Len(a \o b) = Len(deadlines) - 1
    <3>1. a \o b \in Seq(WallGuards) /\ Len(a \o b) = Len(a) + Len(b)
      BY SMT, <2>3
    <3> QED
      BY SMT, <2>1, <2>3, <3>1
  <2>5. ASSUME NEW i \in 1..(Len(deadlines) - 1)
        PROVE  \E j \in 1..Len(deadlines) : (a \o b)[i] = deadlines[j]
    <3>1. CASE i < k
      BY SMT, <2>1, <2>3, <3>1
    <3>2. CASE i >= k
      <4>1. (a \o b)[i] = b[i - (k - 1)] /\ i - (k - 1) \in 1..(Len(deadlines) - k)
        BY SMT, <2>1, <2>3, <3>2
      <4>2. b[i - (k - 1)] = deadlines[i + 1]
        BY SMT, <2>1, <2>3, <4>1
      <4> QED
        BY SMT, <2>1, <4>1, <4>2
    <3>3. i < k \/ i >= k
      BY SMT, <2>1
    <3> QED
      BY <3>1, <3>2, <3>3
  <2>6. DOMAIN (a \o b) = 1..(Len(deadlines) - 1) /\ DOMAIN deadlines = 1..Len(deadlines)
    BY SMT, <2>4
  <2> QED
    BY <2>2, <2>4, <2>5, <2>6, Zenon
<1> QED
  BY <1>1, <1>2

\* A guard that is made joins the deadlines that stay.
LEMMA GuardMade ==
    ASSUME Queues, NEW r \in Requests, NEW id \in Ids, NEW kept \in Seq(WallGuards),
           NewGuard(r, id, kept)
    PROVE  /\ deadlines' \in Seq(WallGuards)
           /\ made' \in [Requests -> Nat] /\ wall' \in [Requests -> WallGuards \cup {None}]
           /\ \A q \in Requests : q # r => wall'[q] = wall[q]
           /\ \A i \in DOMAIN deadlines' :
                 \/ \E j \in DOMAIN kept : deadlines'[i] = kept[j]
                 \/ wall_limit /\ deadlines'[i] = wall'[r] /\ wall'[r][1] = id
<1> DEFINE g == <<id, made[r] + 1>>
<1>1. CASE wall_limit
  <2>1. g \in WallGuards /\ made[r] + 1 \in Nat /\ g[1] = id
    BY SMT, <1>1, GuardsAssumption DEF NewGuard, Queues, WallGuards
  <2>2. /\ made' = [made EXCEPT ![r] = made[r] + 1] /\ wall' = [wall EXCEPT ![r] = g]
        /\ deadlines' = Append(kept, g)
    BY <1>1 DEF NewGuard
  <2> HIDE DEF g
  <2>3. made' \in [Requests -> Nat] /\ wall' \in [Requests -> WallGuards \cup {None}] /\ wall'[r] = g
    BY <2>1, <2>2 DEF Queues
  <2>4. /\ Append(kept, g) \in Seq(WallGuards) /\ DOMAIN Append(kept, g) = 1..(Len(kept) + 1)
        /\ \A i \in 1..Len(kept) : Append(kept, g)[i] = kept[i]
        /\ Append(kept, g)[Len(kept) + 1] = g /\ Len(kept) \in Nat
    BY SMT, <2>1
  <2>5. ASSUME NEW i \in 1..(Len(kept) + 1)
        PROVE  (\E j \in DOMAIN kept : Append(kept, g)[i] = kept[j]) \/ Append(kept, g)[i] = g
    BY SMT, <2>4
  <2>6. \A q \in Requests : q # r => wall'[q] = wall[q]
    BY <2>2 DEF Queues
  <2> QED
    BY <1>1, <2>1, <2>2, <2>3, <2>4, <2>5, <2>6
<1>2. CASE ~wall_limit
  BY <1>2 DEF NewGuard, Queues
<1> QED
  BY <1>1, <1>2

\* A guard that drops leaves the queues as they should be.
LEMMA GuardDropped ==
    ASSUME Queues, NEW r \in Requests, deadlines' = Withdrawn(r), wall' = [wall EXCEPT ![r] = None],
           UNCHANGED <<due, flagged, passed, made>>
    PROVE  Queues'
<1>1. deadlines' \in Seq(WallGuards)
  BY WithdrawnFrom DEF Queues
<1>2. wall' \in [Requests -> WallGuards \cup {None}]
  BY DEF Queues
<1> QED
  BY <1>1, <1>2 DEF Queues

\* What the watchdog takes out is a deadline that passed.
LEMMA QueuesNext == Turns /\ Queues /\ [Next]_vars => Queues'
<1> SUFFICES ASSUME Turns, Queues, [Next]_vars PROVE Queues'
  OBVIOUS
<1>0. ASSUME UNCHANGED <<wallVars, guardVars>> PROVE Queues'
  BY <1>0 DEF Queues, wallVars, guardVars
<1>1. CASE UNCHANGED vars
  BY <1>0, <1>1 DEF vars
<1>2. CASE DeadlinePasses
  BY <1>2 DEF DeadlinePasses, Queues, guardVars
<1>3. CASE WatchTake
  <2>1. PICK n \in DOMAIN deadlines :
            /\ \A i \in DOMAIN deadlines : deadlines[i] \in passed <=> i <= n
            /\ due' = SubSeq(deadlines, 1, n)
            /\ deadlines' = SubSeq(deadlines, n + 1, Len(deadlines))
    BY <1>3 DEF WatchTake
  <2>2. n \in 1..Len(deadlines) /\ Len(deadlines) \in Nat
    BY SMT DEF Queues
  <2>3. /\ due' \in Seq(WallGuards) /\ deadlines' \in Seq(WallGuards) /\ Len(due') = n
        /\ \A i \in 1..n : due'[i] = deadlines[i]
    BY SMT, <2>1, <2>2 DEF Queues
  <2>4. \A i \in DOMAIN due' : due'[i] \in passed
    BY SMT, <2>1, <2>2, <2>3
  <2>5. due = <<>> /\ ~flagged /\ UNCHANGED <<flagged, passed, made, wall>>
    BY <1>3 DEF WatchTake, Queues, guardVars
  <2> QED
    BY <2>3, <2>4, <2>5 DEF Queues
<1>4. CASE WatchFlag
  BY <1>4 DEF WatchFlag, Queues, guardVars
<1>5. CASE WatchTerminate
  <2>1. due # <<>> /\ due' = Tail(due)
    BY <1>5 DEF WatchTerminate, Queues
  <2>2. due' \in Seq(WallGuards) /\ \A i \in DOMAIN due' : i + 1 \in DOMAIN due /\ due'[i] = due[i + 1]
    BY SMT, <2>1 DEF Queues
  <2>3. ~flagged' /\ UNCHANGED <<deadlines, passed, made, wall>>
    BY <1>5 DEF WatchTerminate, guardVars
  <2> QED
    BY <2>2, <2>3 DEF Queues
<1>6. CASE TimerFires \/ SignalThread \/ Spend
  BY <1>0, <1>6 DEF TimerFires, SignalThread, SignalTake, SignalSwap, SignalTerminate, Spend
<1>7. ASSUME NEW r \in Requests,
             \/ TurnBegin(r) \/ CpuBegin(r) \/ CpuArm(r) \/ LoopCheck(r) \/ CpuDisarm(r)
             \/ CpuAccount(r) \/ TurnEnd(r) \/ JsEnds(r) \/ JsCut(r) \/ JsOverruns(r)
      PROVE  Queues'
  BY <1>0, <1>7 DEF TurnBegin, CpuBegin, CpuArm, LoopCheck, CpuDisarm, CpuAccount, TurnEnd, JsEnds,
                    JsCut, JsOverruns
<1>8. ASSUME NEW r \in Requests, LoadEnds(r) \/ ResetEnds(r) PROVE Queues'
  BY <1>8, GuardDropped DEF LoadEnds, ResetEnds, DropGuards
<1>9. ASSUME NEW r \in Requests, EventTurnEnds(r) \/ Verdict(r) PROVE Queues'
  <2>1. UNCHANGED <<due, flagged, passed, made>>
    BY <1>9 DEF EventTurnEnds, Verdict
  <2>2. \/ UNCHANGED <<deadlines, wall>>
        \/ deadlines' = Withdrawn(r) /\ wall' = [wall EXCEPT ![r] = None]
    BY <1>9 DEF EventTurnEnds, Verdict, DropGuards
  <2> QED
    BY <2>1, <2>2, GuardDropped DEF Queues
<1>10. ASSUME NEW r \in Requests, SocketTurnEnds(r) PROVE Queues'
  <2>1. UNCHANGED <<due, flagged, passed>>
    BY <1>10 DEF SocketTurnEnds
  <2>2. CASE NewGuard(r, IdOf(r), Withdrawn(r))
    <3>1. IdOf(r) \in Ids /\ Withdrawn(r) \in Seq(WallGuards)
      BY <1>10, WithdrawnFrom DEF SocketTurnEnds, IdOf, Ids, Queues
    <3> QED
      BY <2>1, <2>2, <3>1, GuardMade DEF Queues
  <2>3. CASE UNCHANGED made /\ deadlines' = Withdrawn(r) /\ wall' = [wall EXCEPT ![r] = None]
    BY <2>1, <2>3, GuardDropped
  <2> QED
    BY <1>10, <2>2, <2>3 DEF SocketTurnEnds
<1>11. ASSUME NEW r \in Requests, Wake(r) PROVE Queues'
  <2>1. CASE ResetStart(r) \/ SetUp(r) \/ Exec(r) \/ SocketTurn(r)
    <3>1. \E id \in Ids : NewGuard(r, id, deadlines)
      BY <2>1 DEF ResetStart, SetUp, Exec, SocketTurn, IdOf, Ids
    <3>2. UNCHANGED <<due, flagged, passed>>
      BY <2>1 DEF ResetStart, SetUp, Exec, SocketTurn
    <3> QED
      BY <3>1, <3>2, GuardMade DEF Queues
  <2>2. CASE SetUpFails(r) \/ EventTurn(r)
    BY <1>0, <2>2 DEF SetUpFails, EventTurn
  <2>3. CASE LoopExpires(r)
    BY <2>3 DEF LoopExpires, Queues, guardVars
  <2> QED
    BY <1>11, <2>1, <2>2, <2>3 DEF Wake
<1> QED
  BY <1>1, <1>2, <1>3, <1>4, <1>5, <1>6, <1>7, <1>8, <1>9, <1>10, <1>11
     DEF Next, Watchdog, TurnStep

\* The watchdog and the signal thread terminate the holder of the turn only on a
\* limit of its own, and Turn::begin cancels what was left pending.
LEMMA TerminationsNext ==
    Turns /\ Queues /\ OwnTerminations /\ [Next]_vars => OwnTerminations'
<1> SUFFICES ASSUME Turns, Queues, OwnTerminations, [Next]_vars PROVE OwnTerminations'
  OBVIOUS
\* A limit that was reached stays so: a step that neither signals nor terminates
\* keeps the invariant as long as the turn stays what it is, or is over.
<1>0. ASSUME passed \subseteq passed', terminated \subseteq terminated', overran \subseteq overran',
             UNCHANGED signal, terminating' => terminating,
             \/ stage' \notin Held
             \/ stage \in Held /\ IdOf(runner)' = IdOf(runner)
      PROVE  OwnTerminations'
  BY <1>0 DEF OwnTerminations, Reached
<1>1. CASE UNCHANGED vars
  BY <1>0, <1>1 DEF vars, turnVars, v8Vars, wallVars, signalVars, eventVars, seenVars, IdOf
<1>2. CASE DeadlinePasses \/ WatchTake \/ WatchFlag \/ TimerFires \/ Spend
  <2>1. /\ passed \subseteq passed'
        /\ UNCHANGED <<terminated, overran, signal, terminating, phase, runner, stage>>
    BY <1>2 DEF DeadlinePasses, WatchTake, WatchFlag, TimerFires, Spend, turnVars, v8Vars, wallVars,
                signalVars, eventVars, seenVars
  <2> QED
    BY <2>1, <1>0 DEF IdOf
<1>3. CASE WatchTerminate
  <2>1. Head(due) \in passed
    BY SMT, <1>3 DEF WatchTerminate, Queues
  <2>2. /\ UNCHANGED <<passed, terminated, overran, signal, phase, runner, stage, holder>>
        /\ terminating' => terminating \/ holder = Head(due)[1]
    BY <1>3 DEF WatchTerminate, Terminate, TurnHolds, turnVars, signalVars, eventVars, seenVars
  <2> QED
    BY <2>1, <2>2 DEF OwnTerminations, Reached, Turns, IdOf
<1>4. ASSUME NEW id \in Ids, SignalTake(id) PROVE OwnTerminations'
  <2>1. UNCHANGED <<passed, terminated, overran, terminating, phase, runner, stage>>
    BY <1>4 DEF SignalTake, turnVars, v8Vars, wallVars, eventVars, seenVars
  <2>2. signal' # None => signal'[2] = "swap"
    BY <1>4 DEF SignalTake
  <2> QED
    BY <2>1, <2>2 DEF OwnTerminations, Reached, IdOf
<1>5. CASE SignalSwap
  <2>1. /\ UNCHANGED <<passed, overran, terminating, phase, runner, stage>>
        /\ terminated \subseteq terminated'
    BY <1>5 DEF SignalSwap, turnVars, v8Vars, wallVars, eventVars, seenVars
  <2>2. signal' # None => signal'[1] \in terminated'
    BY <1>5 DEF SignalSwap
  <2> QED
    BY <2>1, <2>2 DEF OwnTerminations, Reached, IdOf
<1>6. CASE SignalTerminate
  <2>1. /\ UNCHANGED <<passed, terminated, overran, phase, runner, stage, holder>> /\ signal' = None
        /\ signal[1] \in terminated /\ (terminating' => terminating \/ holder = signal[1])
    BY <1>6 DEF SignalTerminate, Terminate, TurnHolds, OwnTerminations, turnVars, wallVars, eventVars,
                seenVars
  <2> QED
    BY <2>1 DEF OwnTerminations, Reached, Turns, IdOf
<1>7. ASSUME NEW r \in Requests, TurnStep(r) PROVE OwnTerminations'
  <2>1. CASE TurnBegin(r)
    BY <2>1 DEF TurnBegin, OwnTerminations, signalVars
  <2>2. CASE CpuBegin(r) \/ CpuArm(r) \/ LoopCheck(r) \/ CpuDisarm(r)
    <3>1. /\ UNCHANGED <<passed, terminated, overran, signal, terminating, phase, runner>>
          /\ stage \in Held
      BY <2>2 DEF CpuBegin, CpuArm, LoopCheck, CpuDisarm, Held, Timed, v8Vars, wallVars, signalVars,
                  eventVars, seenVars
    <3> QED
      BY <3>1, <1>0 DEF IdOf
  <2>3. CASE CpuAccount(r)
    <3>1. /\ UNCHANGED <<passed, overran, signal, terminating, phase, runner>>
          /\ stage \in Held /\ terminated \subseteq terminated'
      BY <2>3 DEF CpuAccount, Held, Timed, v8Vars, wallVars, eventVars, seenVars
    <3> QED
      BY <3>1, <1>0 DEF IdOf
  <2>4. CASE TurnEnd(r) \/ LoadEnds(r) \/ ResetEnds(r) \/ EventTurnEnds(r) \/ SocketTurnEnds(r)
             \/ Verdict(r)
    <3>1. stage' \notin Held
      BY <2>4 DEF TurnEnd, LoadEnds, ResetEnds, EventTurnEnds, SocketTurnEnds, Verdict, Close,
                  ToVerdict, Held, Timed
    <3>2. UNCHANGED <<terminated, signal>>
      BY <2>4 DEF TurnEnd, LoadEnds, ResetEnds, EventTurnEnds, SocketTurnEnds, Verdict, signalVars
    <3> QED
      BY <3>1, <3>2 DEF OwnTerminations
  <2> QED
    BY <1>7, <2>1, <2>2, <2>3, <2>4 DEF TurnStep
<1>8. ASSUME NEW r \in Requests, Wake(r) PROVE OwnTerminations'
  <2>1. stage' \notin Held
    BY <1>8 DEF Turns, Wake, ResetStart, SetUp, SetUpFails, Exec, EventTurn, SocketTurn, LoopExpires,
                Open, turnVars, Held, Timed
  <2>2. UNCHANGED <<terminated, signal>>
    BY <1>8 DEF Wake, ResetStart, SetUp, SetUpFails, Exec, EventTurn, SocketTurn, LoopExpires,
                signalVars
  <2> QED
    BY <2>1, <2>2 DEF OwnTerminations
<1>9. ASSUME NEW r \in Requests, JsEnds(r) \/ JsCut(r) PROVE OwnTerminations'
  <2>1. /\ UNCHANGED <<passed, terminated, overran, signal, phase, runner>> /\ stage \in Held
        /\ terminating' => terminating
    BY SMT, <1>9 DEF JsEnds, JsCut, Held, Timed, v8Vars, wallVars, signalVars, eventVars, seenVars
  <2> QED
    BY <2>1, <1>0 DEF IdOf
<1>10. ASSUME NEW r \in Requests, JsOverruns(r) PROVE OwnTerminations'
  <2>1. runner' = r /\ r \in overran' /\ UNCHANGED <<terminated, signal, phase>>
    BY <1>10 DEF JsOverruns, turnVars, signalVars, eventVars
  <2> QED
    BY <2>1 DEF OwnTerminations, Reached, IdOf
<1> QED
  BY <1>1, <1>2, <1>3, <1>4, <1>5, <1>6, <1>7, <1>8, <1>9, <1>10 DEF Next, Watchdog, SignalThread

\* The JS of a turn is only stopped when a limit of that very load, reset or event
\* was reached, however late the watchdog and the signal thread act.
THEOREM OwnLimitCuts == Spec => CutByOwnLimit
<1> DEFINE Own == \A id \in cut' \ cut :
                     \/ \E g \in passed : g[1] = id
                     \/ id \in terminated
                     \/ id[1] \in overran
<1>1. Init => Queues /\ OwnTerminations
  BY SMT DEF Init, Queues, OwnTerminations, Held, Timed
<1>2. Turns /\ OwnTerminations /\ [Next]_vars => [Own]_vars
  <2> SUFFICES ASSUME Turns, OwnTerminations, [Next]_vars PROVE Own
    OBVIOUS
  <2>1. ASSUME NEW r \in Requests, JsCut(r) PROVE Own
    BY <2>1 DEF JsCut, Turns, OwnTerminations, Reached, Held, Timed
  <2>2. UNCHANGED cut \/ \E r \in Requests : JsCut(r)
    <3>1. DeadlinePasses \/ Watchdog \/ TimerFires \/ SignalThread \/ Spend => UNCHANGED cut
      BY DEF DeadlinePasses, Watchdog, WatchTake, WatchFlag, WatchTerminate, TimerFires, SignalThread,
             SignalTake, SignalSwap, SignalTerminate, Spend, seenVars
    <3>2. ASSUME NEW r \in Requests, TurnStep(r) PROVE UNCHANGED cut
      BY <3>2 DEF TurnStep, TurnBegin, CpuBegin, CpuArm, LoopCheck, CpuDisarm, CpuAccount, TurnEnd,
                  LoadEnds, ResetEnds, EventTurnEnds, SocketTurnEnds, Verdict, seenVars
    <3>3. ASSUME NEW r \in Requests, Wake(r) PROVE UNCHANGED cut
      BY <3>3 DEF Wake, ResetStart, SetUp, SetUpFails, Exec, EventTurn, SocketTurn, LoopExpires,
                  seenVars
    <3>4. ASSUME NEW r \in Requests, JsEnds(r) \/ JsOverruns(r) PROVE UNCHANGED cut
      BY <3>4 DEF JsEnds, JsOverruns, seenVars
    <3>5. UNCHANGED vars => UNCHANGED cut
      BY DEF vars, seenVars
    <3> QED
      BY <3>1, <3>2, <3>3, <3>4, <3>5 DEF Next
  <2> QED
    BY <2>1, <2>2
<1>3. CutByOwnLimit <=> [][Own]_vars
  BY DEF CutByOwnLimit
<1> HIDE DEF Own
<1> QED
  BY <1>1, <1>2, <1>3, TurnsInit, TurnsNext, QueuesNext, TerminationsNext, PTL DEF Spec

-----------------------------------------------------------------------------
(* What remembers that an event was cut *)

\* An event has at most one wall-clock guard: a socket turn, and the waitUntil
\* work of a socket, have one of their own only where there is a limit.
OneGuard == Sockets = {} \/ ~wall_limit

\* The watchdog sets the flag before it terminates; without a limit it has no work.
Watches ==
    /\ flagged => Head(due) \in triggered
    /\ \/ wall_limit
       \/ DOMAIN deadlines = {} /\ due = <<>> /\ passed = {} /\ triggered = {}

\* A deadline of an event that stands is the one the event holds.
GuardOf(r) ==
    /\ \A i \in DOMAIN deadlines : deadlines[i][1] = <<r, "event">> =>
          phase[r] \notin Before /\ (phase[r] \in Served => wall[r] = deadlines[i])
    /\ \A i \in DOMAIN due : due[i][1] = <<r, "event">> =>
          phase[r] \notin Before /\ (phase[r] \in Served => wall[r] = due[i])

EventGuards == \A r \in Requests : GuardOf(r)

\* A flag that check_termination_reason reads says that the event was stopped, or
\* will once Turn::end has taken the flag of the isolate.
Seen(r) ==
    \/ r \in hit
    \/ wall[r] \in triggered
    \/ <<r, "event">> \in terminated
    \/ r \in memory_hit
    \/ runner = r /\ stage \in Held /\ memory_limit_hit

\* A flag remembers each termination of an event, and each cut.
CutOf(r) ==
    phase[r] \in Served =>
        /\ <<r, "event">> \in cut => Seen(r)
        /\ runner = r /\ stage \in Held /\ terminating => Seen(r)

CutsSeen == \A r \in Requests : CutOf(r)

\* The watchdog keeps to its order, the flag first.
LEMMA WatchesNext == Turns /\ Queues /\ Watches /\ [Next]_vars => Watches'
<1> SUFFICES ASSUME Turns, Queues, Watches, [Next]_vars PROVE Watches'
  OBVIOUS
<1>0. ASSUME UNCHANGED <<due, flagged, passed, triggered>>,
             \A i \in DOMAIN deadlines' : wall_limit \/ i \in DOMAIN deadlines
                                         \/ \E j \in DOMAIN deadlines : TRUE
      PROVE  Watches'
  BY <1>0 DEF Watches
<1>1. CASE UNCHANGED vars \/ TimerFires \/ SignalThread \/ Spend
  <2>1. UNCHANGED wallVars
    BY <1>1 DEF vars, TimerFires, SignalThread, SignalTake, SignalSwap, SignalTerminate, Spend
  <2> QED
    BY <2>1 DEF Watches, wallVars
<1>2. CASE DeadlinePasses
  BY <1>2 DEF DeadlinePasses, Watches
<1>3. CASE WatchTake
  BY <1>3 DEF WatchTake, Watches, Queues
<1>4. CASE WatchFlag
  BY <1>4 DEF WatchFlag, Watches
<1>5. CASE WatchTerminate
  BY <1>5 DEF WatchTerminate, Watches, Queues
<1>6. ASSUME NEW r \in Requests,
             \/ TurnBegin(r) \/ CpuBegin(r) \/ CpuArm(r) \/ LoopCheck(r) \/ CpuDisarm(r)
             \/ CpuAccount(r) \/ TurnEnd(r) \/ JsEnds(r) \/ JsCut(r) \/ JsOverruns(r)
             \/ SetUpFails(r) \/ EventTurn(r)
      PROVE  Watches'
  <2>1. UNCHANGED wallVars
    BY <1>6 DEF TurnBegin, CpuBegin, CpuArm, LoopCheck, CpuDisarm, CpuAccount, TurnEnd, JsEnds,
                JsCut, JsOverruns, SetUpFails, EventTurn
  <2> QED
    BY <2>1 DEF Watches, wallVars
<1>7. ASSUME NEW r \in Requests,
             \/ LoadEnds(r) \/ ResetEnds(r) \/ EventTurnEnds(r) \/ SocketTurnEnds(r) \/ Verdict(r)
             \/ ResetStart(r) \/ SetUp(r) \/ Exec(r) \/ SocketTurn(r)
      PROVE  Watches'
  <2>1. UNCHANGED <<due, flagged, passed, triggered>>
    BY <1>7 DEF LoadEnds, ResetEnds, EventTurnEnds, SocketTurnEnds, Verdict, ResetStart, SetUp, Exec,
                SocketTurn
  <2>2. wall_limit \/ deadlines' \in {deadlines, Withdrawn(r)}
    BY <1>7 DEF LoadEnds, ResetEnds, EventTurnEnds, SocketTurnEnds, Verdict, ResetStart, SetUp, Exec,
                SocketTurn, NewGuard, DropGuards
  <2>3. \A i \in DOMAIN Withdrawn(r) : \E j \in DOMAIN deadlines : TRUE
    BY WithdrawnFrom DEF Queues
  <2> QED
    BY <1>0, <2>1, <2>2, <2>3
<1>8. ASSUME NEW r \in Requests, LoopExpires(r) PROVE Watches'
  BY <1>8 DEF LoopExpires, Watches
<1> QED
  BY <1>1, <1>2, <1>3, <1>4, <1>5, <1>6, <1>7, <1>8 DEF Next, Watchdog, TurnStep, Wake

\* The guards of an event stay the event's as long as none is made or changed.
LEMMA GuardFrame ==
    ASSUME NEW q \in Requests, GuardOf(q),
           \A i \in DOMAIN deadlines' : \E j \in DOMAIN deadlines : deadlines'[i] = deadlines[j],
           \A i \in DOMAIN due' : \E j \in DOMAIN due : due'[i] = due[j],
           phase'[q] \in Before => phase[q] \in Before,
           phase'[q] \in Served => phase[q] \in Before \/ (phase[q] \in Served /\ wall'[q] = wall[q])
    PROVE  GuardOf(q)'
<1>1. ASSUME NEW i \in DOMAIN deadlines', deadlines'[i][1] = <<q, "event">>
      PROVE  phase'[q] \notin Before /\ (phase'[q] \in Served => wall'[q] = deadlines'[i])
  <2>1. PICK j \in DOMAIN deadlines : deadlines'[i] = deadlines[j]
    OBVIOUS
  <2> QED
    BY <1>1, <2>1 DEF GuardOf
<1>2. ASSUME NEW i \in DOMAIN due', due'[i][1] = <<q, "event">>
      PROVE  phase'[q] \notin Before /\ (phase'[q] \in Served => wall'[q] = due'[i])
  <2>1. PICK j \in DOMAIN due : due'[i] = due[j]
    OBVIOUS
  <2> QED
    BY <1>2, <2>1 DEF GuardOf
<1> QED
  BY <1>1, <1>2 DEF GuardOf

\* With one guard for each event, the deadline that stands is the one whose flag the
\* event reads.
LEMMA EventGuardsNext ==
    OneGuard /\ Turns /\ Queues /\ Watches /\ EventGuards /\ [Next]_vars => EventGuards'
<1> SUFFICES ASSUME OneGuard, Turns, Queues, Watches, EventGuards, [Next]_vars, NEW q \in Requests
             PROVE  GuardOf(q)'
  BY DEF EventGuards
<1>0. GuardOf(q)
  BY DEF EventGuards
<1>1. CASE UNCHANGED vars \/ DeadlinePasses \/ WatchFlag \/ TimerFires \/ SignalThread \/ Spend
  <2>1. UNCHANGED <<deadlines, due, phase, wall>>
    BY <1>1 DEF vars, DeadlinePasses, WatchFlag, TimerFires, SignalThread, SignalTake, SignalSwap,
                SignalTerminate, Spend, wallVars, guardVars, eventVars
  <2> QED
    BY <1>0, <2>1 DEF GuardOf
<1>2. CASE WatchTake
  <2>1. PICK n \in DOMAIN deadlines :
            /\ due' = SubSeq(deadlines, 1, n)
            /\ deadlines' = SubSeq(deadlines, n + 1, Len(deadlines))
    BY <1>2 DEF WatchTake
  <2>2. n \in 1..Len(deadlines) /\ Len(deadlines) \in Nat
    BY SMT DEF Queues
  <2>3. /\ \A i \in DOMAIN due' : i \in DOMAIN deadlines /\ due'[i] = deadlines[i]
        /\ \A i \in DOMAIN deadlines' : i + n \in DOMAIN deadlines /\ deadlines'[i] = deadlines[i + n]
    <3>1. deadlines \in Seq(WallGuards)
      BY DEF Queues
    <3> QED
      BY <2>1, <3>1, SplitOff
  <2>4. UNCHANGED <<phase, wall>>
    BY <1>2 DEF WatchTake, guardVars, eventVars
  <2> QED
    BY <1>0, <2>3, <2>4 DEF GuardOf
<1>3. CASE WatchTerminate
  <2>1. /\ UNCHANGED <<deadlines, phase, wall>>
        /\ \A i \in DOMAIN due' : i + 1 \in DOMAIN due /\ due'[i] = due[i + 1]
    BY SMT, <1>3 DEF WatchTerminate, Queues, guardVars, eventVars
  <2> QED
    BY <1>0, <2>1, GuardFrame
<1>4. ASSUME NEW r \in Requests,
             \/ TurnBegin(r) \/ CpuBegin(r) \/ CpuArm(r) \/ LoopCheck(r) \/ CpuDisarm(r)
             \/ CpuAccount(r) \/ TurnEnd(r) \/ JsEnds(r) \/ JsCut(r) \/ JsOverruns(r)
             \/ EventTurn(r) \/ LoopExpires(r)
      PROVE  GuardOf(q)'
  <2>1. UNCHANGED <<deadlines, due, phase, wall>>
    BY <1>4 DEF TurnBegin, CpuBegin, CpuArm, LoopCheck, CpuDisarm, CpuAccount, TurnEnd, JsEnds, JsCut,
                JsOverruns, EventTurn, LoopExpires, wallVars, guardVars, eventVars
  <2> QED
    BY <1>0, <2>1 DEF GuardOf
<1>5. ASSUME NEW r \in Requests,
             LoadEnds(r) \/ ResetEnds(r) \/ Verdict(r) \/ SetUpFails(r) \/ EventTurnEnds(r)
      PROVE  GuardOf(q)'
  <2>1. due' = due /\ (deadlines' = deadlines \/ deadlines' = Withdrawn(r))
    BY <1>5 DEF LoadEnds, ResetEnds, Verdict, SetUpFails, EventTurnEnds, DropGuards, wallVars
  <2>2. \A i \in DOMAIN deadlines' : \E j \in DOMAIN deadlines : deadlines'[i] = deadlines[j]
    BY SMT, <2>1, WithdrawnFrom DEF Queues
  <2>3. q # r => phase'[q] = phase[q] /\ wall'[q] = wall[q]
    BY <1>5 DEF LoadEnds, ResetEnds, Verdict, SetUpFails, EventTurnEnds, ToVerdict, Close, DropGuards,
                guardVars, Turns, Queues
  <2>4. CASE q = r /\ (LoadEnds(r) \/ ResetEnds(r) \/ SetUpFails(r))
    <3>1. phase[q] \in Before /\ phase'[q] \notin Served
      BY <2>4 DEF LoadEnds, ResetEnds, SetUpFails, Turns, Before, Served, EventPhases, TaskPhases
    <3> QED
      BY <1>0, <2>1, <2>2, <3>1, GuardFrame
  <2>5. CASE q = r /\ Verdict(r)
    <3>1. phase'[q] = "done" \/ (phase'[q] = "drain" /\ phase[q] \in Served /\ wall' = wall)
      BY <2>5 DEF Verdict, Turns
    <3>2. phase'[q] \notin Before
      BY <3>1 DEF Before
    <3>3. phase'[q] \in Served => phase[q] \in Served /\ wall'[q] = wall[q]
      BY <3>1 DEF Served, EventPhases, TaskPhases
    <3> QED
      BY <1>0, <2>1, <2>2, <3>2, <3>3, GuardFrame
  <2>6. CASE q = r /\ EventTurnEnds(r)
    <3>1. phase[q] \in Served /\ phase'[q] \notin Before
      BY <2>6 DEF EventTurnEnds, ToVerdict, Close, After, Turns, Before, Served, EventPhases, TaskPhases
    <3>2. wall'[q] = wall[q] \/ q \in Sockets
      BY <2>6 DEF EventTurnEnds, After
    <3>3. CASE q \in Sockets
      BY SMT, <2>1, <2>2, <3>3 DEF OneGuard, Watches, GuardOf
    <3>4. CASE wall'[q] = wall[q]
      BY <1>0, <2>1, <2>2, <3>1, <3>4, GuardFrame
    <3> QED
      BY <3>2, <3>3, <3>4
  <2> QED
    BY <1>0, <1>5, <2>1, <2>2, <2>3, <2>4, <2>5, <2>6, GuardFrame
<1>6. ASSUME NEW r \in Requests, SocketTurn(r) \/ SocketTurnEnds(r) PROVE GuardOf(q)'
  <2>1. ~wall_limit
    BY <1>6 DEF SocketTurn, SocketTurnEnds, Turns, OneGuard
  <2>2. due' = due /\ (deadlines' = deadlines \/ deadlines' = Withdrawn(r))
    BY <1>6, <2>1 DEF SocketTurn, SocketTurnEnds, NewGuard
  <2>3. \A i \in DOMAIN deadlines' : \E j \in DOMAIN deadlines : deadlines'[i] = deadlines[j]
    BY SMT, <2>2, WithdrawnFrom DEF Queues
  <2> QED
    BY SMT, <2>1, <2>2, <2>3 DEF Watches, GuardOf
<1>7. ASSUME NEW r \in Requests, ResetStart(r) \/ SetUp(r) \/ Exec(r) PROVE GuardOf(q)'
  <2> DEFINE id == IdOf(r)'
  <2>1. /\ NewGuard(r, id, deadlines) /\ id \in Ids /\ due' = due
        /\ phase[r] \in Before
        /\ \/ phase'[r] \in Before \ Served /\ id # <<r, "event">>
           \/ phase'[r] \in Served \ Before
    BY <1>7 DEF ResetStart, SetUp, Exec, IdOf, Ids, Turns, Before, Served, EventPhases, TaskPhases
  <2>2. id[1] = r
    BY DEF IdOf
  <2>3. /\ \A i \in DOMAIN deadlines' :
              \/ \E j \in DOMAIN deadlines : deadlines'[i] = deadlines[j]
              \/ deadlines'[i] = wall'[r] /\ wall'[r][1] = id
        /\ q # r => wall'[q] = wall[q]
    BY SMT, <2>1, GuardMade DEF Queues
  <2>4. q # r => phase'[q] = phase[q]
    BY <1>7 DEF ResetStart, SetUp, Exec, Turns
  <2> HIDE DEF id
  <2>5. ASSUME NEW i \in DOMAIN deadlines', deadlines'[i][1] = <<q, "event">>
        PROVE  phase'[q] \notin Before /\ (phase'[q] \in Served => wall'[q] = deadlines'[i])
    <3>1. CASE \E j \in DOMAIN deadlines : deadlines'[i] = deadlines[j]
      BY <1>0, <2>1, <2>3, <2>4, <2>5, <3>1 DEF GuardOf
    <3>2. CASE deadlines'[i] = wall'[r] /\ wall'[r][1] = id
      <4>1. q = r /\ id = <<r, "event">>
        BY SMT, <2>2, <2>5, <3>2
      <4> QED
        BY <2>1, <3>2, <4>1
    <3> QED
      BY <2>3, <3>1, <3>2
  <2>6. ASSUME NEW i \in DOMAIN due', due'[i][1] = <<q, "event">>
        PROVE  phase'[q] \notin Before /\ (phase'[q] \in Served => wall'[q] = due'[i])
    BY <1>0, <2>1, <2>3, <2>4, <2>6 DEF GuardOf
  <2> QED
    BY <2>5, <2>6 DEF GuardOf
<1> QED
  BY <1>1, <1>2, <1>3, <1>4, <1>5, <1>6, <1>7 DEF Next, Watchdog, TurnStep, Wake

\* The flags that remember the cut of an event stay set while the event goes on.
LEMMA CutFrame ==
    ASSUME NEW q \in Requests, CutOf(q), phase'[q] \in Served => phase[q] \in Served,
           hit \subseteq hit', triggered \subseteq triggered', terminated \subseteq terminated',
           wall'[q] = wall[q] \/ wall[q] \notin triggered,
           q \in memory_hit => q \in memory_hit',
           runner = q /\ stage \in Held /\ memory_limit_hit =>
               q \in memory_hit' \/ (runner' = q /\ stage' \in Held /\ memory_limit_hit'),
           <<q, "event">> \in cut' => <<q, "event">> \in cut \/ (runner = q /\ stage \in Held /\ terminating),
           runner' = q /\ stage' \in Held /\ terminating' => runner = q /\ stage \in Held /\ terminating
    PROVE  CutOf(q)'
  BY DEF CutOf, Seen

\* No step forgets that an event was cut: a flag that says so is read before the
\* event ends.
LEMMA CutsNext ==
    /\ OneGuard /\ Turns /\ Clock /\ Queues /\ OwnTerminations /\ FreshIds
    /\ Watches /\ EventGuards /\ CutsSeen /\ [Next]_vars
    => CutsSeen'
<1> SUFFICES ASSUME OneGuard, Turns, Clock, Queues, OwnTerminations, FreshIds, Watches, EventGuards,
                    CutsSeen, [Next]_vars, NEW q \in Requests
             PROVE  CutOf(q)'
  BY DEF CutsSeen
<1>0. CutOf(q) /\ GuardOf(q) /\ FreshOf(q)
  BY DEF CutsSeen, EventGuards, FreshIds
<1>1. CASE UNCHANGED vars \/ DeadlinePasses \/ WatchTake \/ WatchFlag \/ TimerFires \/ Spend
  <2>1. /\ UNCHANGED <<phase, hit, terminated, wall, memory_hit, memory_limit_hit, runner, stage, cut,
                       terminating>>
        /\ triggered \subseteq triggered'
    BY <1>1 DEF vars, DeadlinePasses, WatchTake, WatchFlag, TimerFires, Spend, turnVars, v8Vars,
                wallVars, guardVars, signalVars, eventVars, seenVars
  <2> QED
    BY <1>0, <2>1, CutFrame
<1>2. ASSUME NEW id \in Ids, SignalTake(id) PROVE CutOf(q)'
  BY <1>0, <1>2, CutFrame DEF SignalTake, turnVars, v8Vars, wallVars, guardVars, eventVars, seenVars
<1>3. CASE SignalSwap
  BY <1>0, <1>3, CutFrame DEF SignalSwap, turnVars, v8Vars, wallVars, guardVars, eventVars, seenVars
<1>4. CASE WatchTerminate \/ SignalTerminate
  <2>1. UNCHANGED <<phase, hit, triggered, terminated, wall, memory_hit, memory_limit_hit, runner, stage, cut>>
    BY <1>4 DEF WatchTerminate, SignalTerminate, turnVars, wallVars, guardVars, signalVars, eventVars,
                seenVars
  <2>2. ASSUME runner = q, stage \in Held, terminating', ~terminating, phase[q] \in Served
        PROVE  Seen(q)
    <3>1. holder = <<q, "event">>
      BY <2>2 DEF Turns, IdOf, Served, EventPhases, TaskPhases
    <3>2. CASE WatchTerminate
      <4>1. holder = Head(due)[1] /\ Head(due) \in triggered /\ due # <<>>
        BY <2>2, <3>2 DEF WatchTerminate, Terminate, TurnHolds, Watches, Queues
      <4>2. 1 \in DOMAIN due /\ Head(due) = due[1]
        BY SMT, <4>1 DEF Queues
      <4>3. wall[q] = Head(due)
        BY <1>0, <2>2, <3>1, <4>1, <4>2 DEF GuardOf
      <4> QED
        BY <4>1, <4>3 DEF Seen
    <3>3. CASE SignalTerminate
      BY <2>2, <3>1, <3>3 DEF SignalTerminate, Terminate, TurnHolds, OwnTerminations, Seen
    <3> QED
      BY <1>4, <3>2, <3>3
  <2> QED
    BY <1>0, <2>1, <2>2 DEF CutOf, Seen
<1>5. ASSUME NEW r \in Requests, TurnStep(r) PROVE CutOf(q)'
  <2>1. CASE TurnBegin(r)
    <3>1. /\ UNCHANGED <<phase, hit, triggered, terminated, wall, memory_hit, cut>>
          /\ stage \notin Held /\ ~terminating'
      BY <2>1 DEF TurnBegin, Held, Timed, wallVars, guardVars, signalVars, eventVars, seenVars
    <3> QED
      BY <1>0, <3>1, CutFrame
  <2>2. CASE CpuBegin(r) \/ CpuArm(r) \/ LoopCheck(r) \/ CpuDisarm(r) \/ CpuAccount(r)
    <3>1. /\ UNCHANGED <<phase, hit, triggered, wall, memory_hit, memory_limit_hit, terminating, runner, cut>>
          /\ stage \in Held /\ stage' \in Held /\ terminated \subseteq terminated'
      BY <2>2 DEF CpuBegin, CpuArm, LoopCheck, CpuDisarm, CpuAccount, AfterBegin, Held, Timed, v8Vars,
                  wallVars, guardVars, signalVars, eventVars, seenVars
    <3> QED
      BY <1>0, <3>1, CutFrame
  <2>3. CASE TurnEnd(r)
    <3>1. /\ UNCHANGED <<phase, hit, triggered, terminated, wall, cut>> /\ stage' \notin Held
          /\ memory_hit \subseteq memory_hit' /\ (memory_limit_hit => runner \in memory_hit')
      BY <2>3 DEF TurnEnd, Held, Timed, wallVars, guardVars, signalVars, eventVars, seenVars
    <3> QED
      BY <1>0, <3>1, CutFrame
  <2>4. CASE LoadEnds(r) \/ ResetEnds(r) \/ EventTurnEnds(r) \/ SocketTurnEnds(r) \/ Verdict(r)
    <3>1. /\ UNCHANGED <<triggered, terminated, memory_hit, memory_limit_hit, cut>> /\ hit \subseteq hit'
      BY <2>4 DEF LoadEnds, ResetEnds, EventTurnEnds, SocketTurnEnds, Verdict, v8Vars, signalVars,
                  seenVars
    <3>2. stage \notin Held /\ stage' \notin Held
      BY <2>4 DEF LoadEnds, ResetEnds, EventTurnEnds, SocketTurnEnds, Verdict, ToVerdict, Close, Held,
                  Timed
    <3>3. phase'[q] \in Served => phase[q] \in Served
      BY <2>4 DEF LoadEnds, ResetEnds, EventTurnEnds, SocketTurnEnds, Verdict, ToVerdict, Close, Turns,
                  Served, EventPhases, TaskPhases
    <3>4. phase'[q] \in Served => wall'[q] = wall[q] \/ wall[q] \notin triggered
      <4>1. CASE LoadEnds(r) \/ ResetEnds(r) \/ Verdict(r)
        BY <4>1 DEF LoadEnds, ResetEnds, Verdict, DropGuards, Turns, Queues, Served, EventPhases,
                    TaskPhases
      <4>2. CASE EventTurnEnds(r)
        BY <4>2 DEF EventTurnEnds, After, Turns, Queues, OneGuard, Watches
      <4>3. CASE SocketTurnEnds(r)
        BY <4>3 DEF SocketTurnEnds, Turns, OneGuard, Watches
      <4> QED
        BY <2>4, <4>1, <4>2, <4>3
    <3>5. CASE phase'[q] \in Served
      BY <1>0, <3>1, <3>2, <3>3, <3>4, <3>5, CutFrame
    <3> QED
      BY <3>5 DEF CutOf
  <2> QED
    BY <1>5, <2>1, <2>2, <2>3, <2>4 DEF TurnStep
<1>6. ASSUME NEW r \in Requests, Wake(r) PROVE CutOf(q)'
  <2>1. stage \notin Held /\ stage' \notin Held
    BY <1>6 DEF Turns, Wake, ResetStart, SetUp, SetUpFails, Exec, EventTurn, SocketTurn, LoopExpires,
                Open, turnVars, Held, Timed
  <2>2. UNCHANGED <<hit, terminated, cut>> /\ triggered \subseteq triggered'
    BY <1>6 DEF Wake, ResetStart, SetUp, SetUpFails, Exec, EventTurn, SocketTurn, LoopExpires,
                wallVars, guardVars, signalVars, seenVars
  <2>3. CASE q = r /\ (ResetStart(r) \/ SetUp(r) \/ SetUpFails(r))
    BY <2>3 DEF ResetStart, SetUp, SetUpFails, Turns, CutOf, Served, EventPhases, TaskPhases
  <2>4. CASE q = r /\ Exec(r)
    BY <1>0, <2>1, <2>2, <2>4 DEF Exec, FreshOf, Fresh, Before, CutOf
  <2>5. CASE q # r \/ EventTurn(r) \/ SocketTurn(r) \/ LoopExpires(r)
    <3>1. phase'[q] = phase[q] /\ (q \in memory_hit => q \in memory_hit')
      BY <1>6, <2>5 DEF Wake, ResetStart, SetUp, SetUpFails, Exec, EventTurn, SocketTurn, LoopExpires,
                        Turns, v8Vars, eventVars
    <3>2. wall'[q] = wall[q]
      <4>1. CASE ResetStart(r) \/ SetUp(r) \/ Exec(r) \/ SocketTurn(r)
        <5>1. SocketTurn(r) => ~wall_limit
          BY DEF SocketTurn, Turns, OneGuard
        <5> QED
          BY <2>5, <4>1, <5>1 DEF ResetStart, SetUp, Exec, SocketTurn, NewGuard, Queues, EventTurn,
                                  LoopExpires, guardVars
      <4>2. CASE SetUpFails(r) \/ EventTurn(r) \/ LoopExpires(r)
        BY <4>2 DEF SetUpFails, EventTurn, LoopExpires, guardVars
      <4> QED
        BY <1>6, <4>1, <4>2 DEF Wake
    <3> QED
      BY <1>0, <2>1, <2>2, <3>1, <3>2, CutFrame
  <2> QED
    BY <1>6, <2>3, <2>4, <2>5 DEF Wake
<1>7. ASSUME NEW r \in Requests, JsEnds(r) \/ JsCut(r) PROVE CutOf(q)'
  <2>1. /\ UNCHANGED <<phase, hit, triggered, terminated, wall, memory_hit, memory_limit_hit, runner>>
        /\ stage \in Held /\ stage' \in Held /\ (terminating' => terminating)
    BY SMT, <1>7 DEF JsEnds, JsCut, Held, Timed, v8Vars, wallVars, guardVars, signalVars, eventVars, seenVars
  <2>2. <<q, "event">> \in cut' => <<q, "event">> \in cut \/ (runner = q /\ terminating)
    BY SMT, <1>7 DEF JsEnds, JsCut, IdOf, seenVars
  <2> QED
    BY <1>0, <2>1, <2>2, CutFrame
<1>8. ASSUME NEW r \in Requests, JsOverruns(r) PROVE CutOf(q)'
  <2>1. /\ UNCHANGED <<phase, hit, triggered, terminated, wall, memory_hit, runner, stage, cut>>
        /\ memory_limit_hit' /\ (runner # r => terminating' = terminating) /\ runner = r
    BY <1>8 DEF JsOverruns, turnVars, wallVars, guardVars, signalVars, eventVars
  <2> QED
    BY <1>0, <2>1 DEF CutOf, Seen
<1> QED
  BY <1>1, <1>2, <1>3, <1>4, <1>5, <1>6, <1>7, <1>8 DEF Next, Watchdog, SignalThread

\* exec and drain_waituntil never answer Ok for an event whose JS a guard cut, as
\* long as an event has one wall-clock guard. An open socket under a wall-clock limit
\* has one per turn, and its cut may go unseen.
THEOREM CutFails ==
    ASSUME OneGuard PROVE Spec => CutEventFails
<1> DEFINE Fails == \A r \in Requests :
                       (outcome'[r] # outcome[r] /\ outcome'[r] \in {"ok", "kept"})
                           => <<r, "event">> \notin cut
           IInv == /\ Turns /\ Clock /\ FreshIds /\ Queues /\ OwnTerminations
                   /\ Watches /\ EventGuards /\ CutsSeen
<1>1. Init => IInv
  <2> SUFFICES ASSUME Init PROVE IInv
    OBVIOUS
  <2>1. Clock /\ Queues /\ OwnTerminations /\ Watches
    BY SMT, GuardsAssumption DEF Init, Clock, Queues, OwnTerminations, Watches, Held, Timed
  <2>2. FreshIds
    BY DEF Init, FreshIds, FreshOf, Fresh, Pending
  <2>3. EventGuards
    <3>1. DOMAIN deadlines = {} /\ DOMAIN due = {}
      BY SMT DEF Init
    <3> QED
      BY <3>1 DEF EventGuards, GuardOf
  <2>4. CutsSeen
    BY GuardsAssumption DEF Init, CutsSeen, CutOf
  <2> QED
    BY <2>1, <2>2, <2>3, <2>4, TurnsInit
<1>2. IInv /\ [Next]_vars => IInv'
  BY TurnsNext, ClockNext, FreshNext, QueuesNext, TerminationsNext, WatchesNext, EventGuardsNext,
     CutsNext
<1>3. IInv /\ [Next]_vars => [Fails]_vars
  <2> SUFFICES ASSUME IInv, [Next]_vars, NEW q \in Requests,
                      outcome'[q] # outcome[q], outcome'[q] \in {"ok", "kept"}
               PROVE  <<q, "event">> \notin cut
    OBVIOUS
  <2>1. PICK r \in Requests : LoadEnds(r) \/ Verdict(r) \/ SetUpFails(r)
    <3>1. ~UNCHANGED outcome
      OBVIOUS
    <3> QED
      BY <3>1, OutcomeSteps
  <2>2. CASE LoadEnds(r)
    BY <2>2 DEF LoadEnds, Reason, Turns
  <2>3. CASE SetUpFails(r)
    BY <2>3 DEF SetUpFails, Turns
  <2>4. CASE Verdict(r)
    <3>1. /\ q = r /\ runner = q /\ stage \notin Held
          /\ Reason(q, q \in hit \/ wall[q] \in triggered) = "ok"
      BY <2>4 DEF Verdict, Reason, Turns, Held, Timed
    <3>2. IdOf(q) = <<q, "event">> /\ phase[q] \in Served
      BY <2>4, <3>1 DEF Verdict, Turns, IdOf, Served, EventPhases, TaskPhases
    <3>3. ~Seen(q)
      BY <3>1, <3>2 DEF Reason, Seen
    <3> QED
      BY <3>2, <3>3 DEF CutsSeen, CutOf
  <2> QED
    BY <2>1, <2>2, <2>3, <2>4
<1>4. CutEventFails <=> [][Fails]_vars
  BY DEF CutEventFails
<1> HIDE DEF Fails, IInv
<1> QED
  BY <1>1, <1>2, <1>3, <1>4, PTL DEF Spec
=============================================================================
