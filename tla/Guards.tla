------------------------------- MODULE Guards -------------------------------
(***************************************************************************)
(* The limits of the requests that share one isolate: the turn             *)
(* (security/turn.rs), the wall-clock watchdog (security/timeout_guard.rs),*)
(* the CPU enforcer and its signal thread (security/cpu_enforcer.rs, as    *)
(* built for Linux), and the life of an event from the load or the reset   *)
(* of its context to the end of its waitUntil work (execution_context.rs). *)
(*                                                                         *)
(* Three threads interleave: the isolate's, which runs one turn at a time  *)
(* under the isolate lock, the watchdog and the signal thread. V8 is       *)
(* external: terminate_execution asks JS to stop, JS that runs stops at    *)
(* some later point, and cancel_terminate_execution withdraws the request. *)
(*                                                                         *)
(* Wall-clock time is abstract: the deadline at the head of the queue may  *)
(* pass at any moment. All guards of an isolate have one timeout, so they  *)
(* expire in the order they are made.                                      *)
(*                                                                         *)
(* A definition named X_Variant is a plausible mistake in X, kept to show  *)
(* which property notices it; no specification uses one.                   *)
(***************************************************************************)
EXTENDS Integers, Sequences

CONSTANTS
    Requests,    \* requests of one owner, multiplexed on the isolate
    start,       \* how each comes: to a warm context ("new"), to none ("cold"), or
                 \* with its context reset or loaded already ("ready")
    Sockets,     \* those whose answer is a WebSocket the guest reads
    None,
    wall_limit,  \* max_wall_clock_time_ms is not 0
    budget,      \* max_cpu_time_ms, in units of CPU; 0 turns the limit off
    MaxCpu,      \* bound: units of CPU the thread spends
    MaxGuards    \* bound: wall-clock guards a request makes

ASSUME GuardsAssumption ==
    /\ start \in [Requests -> {"new", "cold", "ready"}]
    /\ Sockets \subseteq Requests
    /\ None \notin Requests
    /\ wall_limit \in BOOLEAN
    /\ budget \in Nat /\ MaxCpu \in Nat /\ MaxGuards \in Nat

\* The ids of next_request_id: each load, each reset and each event has its own.
Ids == Requests \X {"load", "reset", "event"}

\* A wall-clock guard is the n-th one made for an id.
WallGuards == Ids \X (1..MaxGuards)

VARIABLES
    phase,              \* where each request stands in execute_pinned and exec
    runner,             \* the request whose turn the isolate thread runs
    stage,              \* where that turn stands
    result,             \* what its JS left: the loop exits, waits, or failed
    holder,             \* Turn.holder
    terminating,        \* V8: a terminate_execution not yet taken or cancelled
    memory_limit_hit,   \* LockerManagedIsolate.memory_limit_hit
    memory_hit,         \* requests whose ExecutionContext.memory_hit is set
    deadlines,          \* WATCHDOG.deadlines, the earliest first
    due,                \* what the watchdog took out and has not terminated yet
    flagged,            \* it has set the flag of the first of them
    triggered,          \* guards whose triggered flag is set
    wall,               \* the guard a request holds
    made,               \* how many guards a request made
    hit,                \* requests whose WallClock::PerTurn.hit is set
    cpu,                \* the thread's CPU clock
    remaining,          \* CpuEnforcer.remaining
    turn_started,       \* CpuEnforcer.turn_started, of the turn that runs
    timer,              \* the CPU clock at which the armed timer fires
    targets,            \* TARGETS: ids whose timer exists
    signals,            \* SIGALRMs on their way to the signal thread, by id
    signal,             \* the one the signal thread works on: <<id, step>>
    terminated,         \* ids whose CpuEnforcer.terminated is set
    outcome,            \* what exec, or the load before it, answered
    passed,             \* history: guards whose deadline passed while they stood
    used,               \* history: CPU a request used since it got its budget
    overran,            \* history: requests that allocated past a memory limit
    cut,                \* history: ids whose JS was stopped in a turn
    stopped             \* history: requests stopped while their context was set up

turnVars   == <<runner, stage, result>>
v8Vars     == <<holder, terminating, memory_limit_hit, memory_hit>>
wallVars   == <<deadlines, due, flagged, triggered, passed>>
guardVars  == <<wall, made, hit>>
cpuVars    == <<cpu, remaining, turn_started, timer, used>>
signalVars == <<targets, signals, signal, terminated>>
eventVars  == <<phase, outcome>>
seenVars   == <<overran, cut, stopped>>
vars == <<turnVars, v8Vars, wallVars, guardVars, cpuVars, signalVars, eventVars, seenVars>>

\* Phases whose turns are polls of await_event_loop, which checks the guards
\* first; the others run one turn without that check.
LoopPhases == {"respond", "stream", "socket", "drain"}

\* The phases of a task event, and of any event under the deadline of the event.
TaskPhases == {"trigger", "respond", "read"}
EventPhases == TaskPhases \cup {"stream", "drain"}

IdOf(r) == <<r, IF phase[r] \in {"load", "reset"} THEN phase[r] ELSE "event">>

Init ==
    /\ phase = start
    /\ runner = None /\ stage = "idle" /\ result = "exit"
    /\ holder = None /\ terminating = FALSE
    /\ memory_limit_hit = FALSE /\ memory_hit = {}
    /\ deadlines = <<>> /\ due = <<>> /\ flagged = FALSE
    /\ triggered = {} /\ passed = {}
    /\ wall = [r \in Requests |-> None] /\ made = [r \in Requests |-> 0]
    /\ hit = {}
    /\ cpu = 0 /\ remaining = [r \in Requests |-> 0] /\ turn_started = 0
    /\ timer = None /\ used = [r \in Requests |-> 0]
    /\ targets = {} /\ signals = {} /\ signal = None /\ terminated = {}
    /\ outcome = [r \in Requests |-> "none"]
    /\ overran = {} /\ cut = {} /\ stopped = {}

-----------------------------------------------------------------------------
(* security/turn.rs *)

TurnHolds_Any(id) == holder # None

TurnHolds(id) == holder = id

\* Turn::terminate, from another thread.
Terminate(id) == terminating' = (terminating \/ TurnHolds(id))

-----------------------------------------------------------------------------
(* security/timeout_guard.rs *)

\* TimeoutGuard::new for `id` of r, `kept` being the deadlines that stay; a limit
\* of 0 makes a guard without a deadline.
NewGuard(r, id, kept) ==
    LET g == <<id, made[r] + 1>>
    IN  IF wall_limit
        THEN /\ made[r] < MaxGuards
             /\ made' = [made EXCEPT ![r] = @ + 1]
             /\ wall' = [wall EXCEPT ![r] = g]
             /\ deadlines' = Append(kept, g)
        ELSE deadlines' = kept /\ UNCHANGED <<made, wall>>

\* The deadlines once r drops its guard: its entry is removed, if it is there.
Withdrawn(r) ==
    LET at == {i \in DOMAIN deadlines : deadlines[i] = wall[r]}
        i  == CHOOSE i \in at : TRUE
    IN  IF at = {} THEN deadlines
        ELSE SubSeq(deadlines, 1, i - 1) \o SubSeq(deadlines, i + 1, Len(deadlines))

\* Time reaches the earliest deadline not reached yet.
DeadlinePasses ==
    /\ \E i \in DOMAIN deadlines :
          /\ deadlines[i] \notin passed
          /\ \A j \in 1..(i - 1) : deadlines[j] \in passed
          /\ passed' = passed \cup {deadlines[i]}
    /\ UNCHANGED <<deadlines, due, flagged, triggered>>
    /\ UNCHANGED <<turnVars, v8Vars, guardVars, cpuVars, signalVars, eventVars, seenVars>>

\* watch() splits off the deadlines up to now, and lets go of the lock.
WatchTake ==
    /\ due = <<>>
    /\ \E n \in DOMAIN deadlines :
          /\ \A i \in DOMAIN deadlines : deadlines[i] \in passed <=> i <= n
          /\ due' = SubSeq(deadlines, 1, n)
          /\ deadlines' = SubSeq(deadlines, n + 1, Len(deadlines))
    /\ UNCHANGED <<flagged, triggered, passed>>
    /\ UNCHANGED <<turnVars, v8Vars, guardVars, cpuVars, signalVars, eventVars, seenVars>>

WatchFlag_Never ==
    /\ due # <<>> /\ ~flagged
    /\ flagged' = TRUE
    /\ UNCHANGED <<deadlines, due, triggered, passed>>
    /\ UNCHANGED <<turnVars, v8Vars, guardVars, cpuVars, signalVars, eventVars, seenVars>>

WatchFlag ==
    /\ due # <<>> /\ ~flagged
    /\ flagged' = TRUE
    /\ triggered' = triggered \cup {Head(due)}
    /\ UNCHANGED <<deadlines, due, passed>>
    /\ UNCHANGED <<turnVars, v8Vars, guardVars, cpuVars, signalVars, eventVars, seenVars>>

WatchTerminate ==
    /\ flagged
    /\ Terminate(Head(due)[1])
    /\ flagged' = FALSE /\ due' = Tail(due)
    /\ UNCHANGED <<deadlines, triggered, passed>>
    /\ UNCHANGED <<holder, memory_limit_hit, memory_hit>>
    /\ UNCHANGED <<turnVars, guardVars, cpuVars, signalVars, eventVars, seenVars>>

-----------------------------------------------------------------------------
(* security/cpu_enforcer.rs *)

\* The kernel sends SIGALRM once the thread has run as long as the timer was
\* armed for; the timer is one-shot.
TimerFires ==
    /\ timer # None /\ cpu >= timer
    /\ signals' = signals \cup {IdOf(runner)}
    /\ timer' = None
    /\ UNCHANGED <<targets, signal, terminated, cpu, remaining, turn_started, used>>
    /\ UNCHANGED <<turnVars, v8Vars, wallVars, guardVars, eventVars, seenVars>>

\* The signal thread takes a signal; one whose timer is gone has no target.
SignalTake(id) ==
    /\ signal = None /\ id \in signals
    /\ signals' = signals \ {id}
    /\ signal' = IF id \in targets THEN <<id, "swap">> ELSE None
    /\ UNCHANGED <<targets, terminated>>
    /\ UNCHANGED <<turnVars, v8Vars, wallVars, guardVars, cpuVars, eventVars, seenVars>>

SignalSwap ==
    /\ signal # None /\ signal[2] = "swap"
    /\ terminated' = terminated \cup {signal[1]}
    /\ signal' = IF signal[1] \in terminated THEN None ELSE <<signal[1], "terminate">>
    /\ UNCHANGED <<targets, signals>>
    /\ UNCHANGED <<turnVars, v8Vars, wallVars, guardVars, cpuVars, eventVars, seenVars>>

SignalTerminate ==
    /\ signal # None /\ signal[2] = "terminate"
    /\ Terminate(signal[1])
    /\ signal' = None
    /\ UNCHANGED <<targets, signals, terminated, holder, memory_limit_hit, memory_hit>>
    /\ UNCHANGED <<turnVars, wallVars, guardVars, cpuVars, eventVars, seenVars>>

\* The thread of a turn spends CPU, from the reading of begin_turn to the one of
\* end_turn.
Spend ==
    /\ runner # None /\ budget > 0
    /\ stage \in {"timed", "check", "js", "over", "disarmed"}
    /\ cpu < MaxCpu
    /\ cpu' = cpu + 1
    /\ used' = [used EXCEPT ![runner] = @ + 1]
    /\ UNCHANGED <<remaining, turn_started, timer>>
    /\ UNCHANGED <<turnVars, v8Vars, wallVars, guardVars, signalVars, eventVars, seenVars>>

-----------------------------------------------------------------------------
(* The isolate thread: a turn, from the lock to its release. *)

\* CpuEnforcer::new; a budget of 0 makes none.
NewEnforcer(r, id) ==
    /\ remaining' = [remaining EXCEPT ![r] = budget]
    /\ used' = [used EXCEPT ![r] = 0]
    /\ targets' = IF budget > 0 THEN targets \cup {id} ELSE targets
    /\ UNCHANGED <<cpu, turn_started, timer>>

\* Both guards of r drop.
DropGuards(r) ==
    /\ deadlines' = Withdrawn(r)
    /\ wall' = [wall EXCEPT ![r] = None]
    /\ targets' = targets \ {IdOf(r)}

Open(r) == runner = None /\ runner' = r /\ stage' = "open"

Close == runner' = None /\ stage' = "idle"

\* Loop phases go on with the check of the guards, the others with JS.
AfterBegin(r) == IF phase[r] \in LoopPhases THEN "check" ELSE "js"

\* Turn::begin.
TurnBegin(r) ==
    /\ runner = r /\ stage = "open"
    /\ holder' = IdOf(r)
    /\ terminating' = FALSE
    /\ stage' = IF budget > 0 THEN "begun" ELSE AfterBegin(r)
    /\ UNCHANGED <<runner, result, memory_limit_hit, memory_hit>>
    /\ UNCHANGED <<wallVars, guardVars, cpuVars, signalVars, eventVars, seenVars>>

\* CpuEnforcer::begin_turn reads the clock, then arms the timer.
CpuBegin(r) ==
    /\ runner = r /\ stage = "begun"
    /\ turn_started' = cpu
    /\ stage' = "timed"
    /\ UNCHANGED <<cpu, remaining, timer, used, runner, result>>
    /\ UNCHANGED <<v8Vars, wallVars, guardVars, signalVars, eventVars, seenVars>>

CpuArm(r) ==
    /\ runner = r /\ stage = "timed"
    /\ timer' = cpu + (IF remaining[r] = 0 THEN 1 ELSE remaining[r])
    /\ stage' = AfterBegin(r)
    /\ UNCHANGED <<cpu, remaining, turn_started, used, runner, result>>
    /\ UNCHANGED <<v8Vars, wallVars, guardVars, signalVars, eventVars, seenVars>>

WallTriggered(r) == IF phase[r] = "socket" THEN r \in hit ELSE wall[r] \in triggered

is_terminated(r) ==
    \/ terminating
    \/ r \in memory_hit
    \/ WallTriggered(r)
    \/ IdOf(r) \in terminated

\* await_event_loop checks the guards before it runs JS.
LoopCheck(r) ==
    /\ runner = r /\ stage = "check"
    /\ IF is_terminated(r)
       THEN stage' = "over" /\ result' = "err"
       ELSE stage' = "js" /\ UNCHANGED result
    /\ UNCHANGED runner
    /\ UNCHANGED <<v8Vars, wallVars, guardVars, cpuVars, signalVars, eventVars, seenVars>>

\* What a turn's JS leaves: its loop exits or waits for more, or it failed.
Results(r) == IF phase[r] \in LoopPhases THEN {"exit", "wait", "err"} ELSE {"exit", "err"}

JsEnds(r) ==
    /\ runner = r /\ stage = "js"
    /\ stage' = "over" /\ result' \in Results(r)
    /\ UNCHANGED runner
    /\ UNCHANGED <<v8Vars, wallVars, guardVars, cpuVars, signalVars, eventVars, seenVars>>

\* V8 stops JS that was asked to terminate: no more guest code runs in the turn
\* (Guest::Terminated). Whether the request still reads as pending depends on
\* where it was taken.
JsCut(r) ==
    /\ runner = r /\ stage = "js" /\ terminating
    /\ cut' = cut \cup {IdOf(r)}
    /\ terminating' \in BOOLEAN
    /\ stage' = "over" /\ result' \in Results(r)
    /\ UNCHANGED <<runner, holder, memory_limit_hit, memory_hit, overran, stopped>>
    /\ UNCHANGED <<wallVars, guardVars, cpuVars, signalVars, eventVars>>

\* JS allocates past the heap limit, whose callback terminates as well, or past
\* the ArrayBuffer limit, which only sets the flag.
JsOverruns(r) ==
    /\ runner = r /\ stage = "js" /\ ~memory_limit_hit
    /\ memory_limit_hit' = TRUE
    /\ overran' = overran \cup {r}
    /\ terminating' \in {terminating, TRUE}
    /\ UNCHANGED <<holder, memory_hit, cut, stopped>>
    /\ UNCHANGED <<turnVars, wallVars, guardVars, cpuVars, signalVars, eventVars>>

\* The TurnGuard drops. CpuEnforcer::end_turn disarms the timer ...
CpuDisarm(r) ==
    /\ runner = r /\ stage = "over" /\ budget > 0
    /\ timer' = None
    /\ stage' = "disarmed"
    /\ UNCHANGED <<cpu, remaining, turn_started, used, runner, result>>
    /\ UNCHANGED <<v8Vars, wallVars, guardVars, signalVars, eventVars, seenVars>>

Left(r) == IF cpu - turn_started >= remaining[r] THEN 0 ELSE remaining[r] - (cpu - turn_started)

CpuAccount_NoMark(r) ==
    /\ runner = r /\ stage = "disarmed"
    /\ remaining' = [remaining EXCEPT ![r] = Left(r)]
    /\ stage' = "counted"
    /\ UNCHANGED <<terminated, cpu, turn_started, timer, used, runner, result, targets, signals, signal>>
    /\ UNCHANGED <<v8Vars, wallVars, guardVars, eventVars, seenVars>>

\* ... then takes the CPU of the turn from the budget.
CpuAccount(r) ==
    /\ runner = r /\ stage = "disarmed"
    /\ remaining' = [remaining EXCEPT ![r] = Left(r)]
    /\ terminated' = IF Left(r) = 0 THEN terminated \cup {IdOf(r)} ELSE terminated
    /\ stage' = "counted"
    /\ UNCHANGED <<cpu, turn_started, timer, used, runner, result, targets, signals, signal>>
    /\ UNCHANGED <<v8Vars, wallVars, guardVars, eventVars, seenVars>>

MemoryFlagAfterTurn_Kept == memory_limit_hit

\* Turn::end swaps the flag of the isolate.
MemoryFlagAfterTurn == FALSE

TurnEnd(r) ==
    /\ runner = r /\ stage = IF budget > 0 THEN "counted" ELSE "over"
    /\ holder' = None
    /\ memory_hit' = IF memory_limit_hit THEN memory_hit \cup {r} ELSE memory_hit
    /\ memory_limit_hit' = MemoryFlagAfterTurn
    /\ stage' = "ended"
    /\ UNCHANGED <<runner, result, terminating>>
    /\ UNCHANGED <<wallVars, guardVars, cpuVars, signalVars, eventVars, seenVars>>

-----------------------------------------------------------------------------
(* The life of a request on the isolate thread. *)

\* reset(): cancels a termination left over, then clears the guest state in a
\* turn of its own.
ResetStart(r) ==
    /\ phase[r] = "new" /\ Open(r)
    /\ phase' = [phase EXCEPT ![r] = "reset"]
    /\ terminating' = FALSE
    /\ NewGuard(r, <<r, "reset">>, deadlines) /\ NewEnforcer(r, <<r, "reset">>)
    /\ UNCHANGED <<result, holder, memory_limit_hit, memory_hit, due, flagged, triggered,
                   passed, hit, signals, signal, terminated, outcome>>
    /\ UNCHANGED seenVars

\* new_with_pooled_isolate runs the set-up of the context outside of any turn,
\* then loads the script in one.
SetUp(r) ==
    /\ phase[r] = "cold" /\ Open(r) /\ ~terminating
    /\ phase' = [phase EXCEPT ![r] = "load"]
    /\ NewGuard(r, <<r, "load">>, deadlines) /\ NewEnforcer(r, <<r, "load">>)
    /\ memory_hit' = memory_hit \ {r}
    /\ UNCHANGED <<result, holder, terminating, memory_limit_hit, due, flagged, triggered,
                   passed, hit, signals, signal, terminated, outcome>>
    /\ UNCHANGED seenVars

\* The set-up fails: its JS is stopped by a termination it finds, or it
\* allocates past a memory limit.
SetUpFails(r) ==
    /\ phase[r] = "cold" /\ runner = None
    /\ IF terminating
       THEN stopped' = stopped \cup {r} /\ UNCHANGED <<memory_limit_hit, overran>>
       ELSE memory_limit_hit' = TRUE /\ overran' = overran \cup {r} /\ UNCHANGED stopped
    /\ terminating' = FALSE
    /\ phase' = [phase EXCEPT ![r] = "done"]
    /\ outcome' = [outcome EXCEPT ![r] = "init"]
    /\ UNCHANGED <<holder, memory_hit, cut>>
    /\ UNCHANGED <<turnVars, wallVars, guardVars, cpuVars, signalVars>>

\* What the guards and the result say, in the order they are asked.
Reason(r, wallHit) ==
    CASE IdOf(r) \in terminated -> "cpu"
      [] IdOf(r) \notin terminated /\ wallHit -> "wall"
      [] IdOf(r) \notin terminated /\ ~wallHit /\ r \in memory_hit -> "memory"
      [] OTHER -> IF result = "err" THEN "exception" ELSE "ok"

LoadEnds(r) ==
    /\ runner = r /\ stage = "ended" /\ phase[r] = "load"
    /\ LET reason == Reason(r, wall[r] \in triggered)
       IN  IF reason = "ok"
           THEN phase' = [phase EXCEPT ![r] = "ready"] /\ UNCHANGED outcome
           ELSE /\ phase' = [phase EXCEPT ![r] = "done"]
                /\ outcome' = [outcome EXCEPT ![r] = reason]
    /\ Close /\ DropGuards(r)
    /\ UNCHANGED <<result, due, flagged, triggered, passed, made, hit, signals, signal, terminated>>
    /\ UNCHANGED <<v8Vars, cpuVars, seenVars>>

\* A reset that fails makes the request start cold; it does not look at the
\* memory limit.
ResetEnds(r) ==
    /\ runner = r /\ stage = "ended" /\ phase[r] = "reset"
    /\ phase' = [phase EXCEPT ![r] =
                    IF Reason(r, wall[r] \in triggered) \in {"cpu", "wall"} \/ result = "err"
                    THEN "cold" ELSE "ready"]
    /\ Close /\ DropGuards(r)
    /\ UNCHANGED <<result, due, flagged, triggered, passed, made, hit, signals, signal,
                   terminated, outcome>>
    /\ UNCHANGED <<v8Vars, cpuVars, seenVars>>

\* exec() makes the guards of the event.
Exec(r) ==
    /\ phase[r] = "ready" /\ runner = None
    /\ phase' = [phase EXCEPT ![r] = "trigger"]
    /\ memory_hit' = memory_hit \ {r}
    /\ NewGuard(r, <<r, "event">>, deadlines) /\ NewEnforcer(r, <<r, "event">>)
    /\ UNCHANGED <<holder, terminating, memory_limit_hit, due, flagged, triggered, passed,
                   hit, signals, signal, terminated, outcome>>
    /\ UNCHANGED <<turnVars, seenVars>>

\* A turn of the event with the deadline of the event.
EventTurn(r) ==
    /\ phase[r] \in EventPhases /\ Open(r)
    /\ UNCHANGED result
    /\ UNCHANGED <<v8Vars, wallVars, guardVars, cpuVars, signalVars, eventVars, seenVars>>

\* CpuEnforcer::refill.
Refilled(r) ==
    IF IdOf(r) \in terminated THEN remaining ELSE [remaining EXCEPT ![r] = budget]

\* A turn of an open socket, with a deadline and a CPU budget of its own.
SocketTurn(r) ==
    /\ phase[r] = "socket" /\ Open(r)
    /\ wall_limit => made[r] + 1 < MaxGuards
    /\ remaining' = Refilled(r)
    /\ used' = IF IdOf(r) \in terminated THEN used ELSE [used EXCEPT ![r] = 0]
    /\ NewGuard(r, IdOf(r), deadlines)
    /\ UNCHANGED <<result, due, flagged, triggered, passed, hit, cpu, turn_started, timer>>
    /\ UNCHANGED <<v8Vars, signalVars, eventVars, seenVars>>

\* The loop polls the deadline itself, before it takes the isolate.
LoopExpires(r) ==
    /\ phase[r] \in LoopPhases \ {"socket"} /\ runner = None
    /\ wall[r] \in passed
    /\ triggered' = triggered \cup {wall[r]}
    /\ runner' = r /\ stage' = "verdict" /\ result' = "err"
    /\ UNCHANGED <<deadlines, due, flagged, passed>>
    /\ UNCHANGED <<v8Vars, guardVars, cpuVars, signalVars, eventVars, seenVars>>

\* What comes after a phase whose loop exited; a task ends with its result read.
After(r) ==
    CASE phase[r] = "trigger" -> {"respond"}
      [] phase[r] = "respond" -> {"read"}
      [] phase[r] = "read" -> {"stream", "verdict"}
      [] phase[r] = "stream" /\ r \in Sockets -> {"socket"}
      [] OTHER -> {"verdict"}

\* The turn led to the end of exec or of drain_waituntil, with `left` as result.
ToVerdict(left) == stage' = "verdict" /\ result' = left /\ UNCHANGED <<runner, phase>>

\* A turn under the deadline of the event is over. The deadline stops at the 101.
EventTurnEnds(r) ==
    /\ runner = r /\ stage = "ended"
    /\ phase[r] \in EventPhases
    /\ \/ /\ result = "err"
          /\ ToVerdict("err") /\ UNCHANGED <<deadlines, wall>>
       \/ /\ result = "wait"
          /\ IF is_terminated(r)
             THEN ToVerdict("err")
             ELSE Close /\ UNCHANGED <<phase, result>>
          /\ UNCHANGED <<deadlines, wall>>
       \/ /\ result = "exit"
          /\ \E next \in After(r) :
                IF next = "verdict"
                THEN ToVerdict("exit")
                ELSE Close /\ phase' = [phase EXCEPT ![r] = next] /\ UNCHANGED result
          /\ IF After(r) = {"socket"}
             THEN deadlines' = Withdrawn(r) /\ wall' = [wall EXCEPT ![r] = None]
             ELSE UNCHANGED <<deadlines, wall>>
    /\ UNCHANGED <<due, flagged, triggered, passed, made, hit, outcome>>
    /\ UNCHANGED <<v8Vars, cpuVars, signalVars, seenVars>>

\* A turn of the socket is over: only a loop that goes on waiting looks at the
\* guard of its turn. The waitUntil work then gets a deadline.
SocketTurnEnds(r) ==
    LET seen   == result = "wait" /\ wall[r] \in triggered
        fails  == result = "err" \/ (result = "wait" /\ (seen \/ is_terminated(r)))
    IN  /\ runner = r /\ stage = "ended" /\ phase[r] = "socket"
        /\ hit' = IF seen THEN hit \cup {r} ELSE hit
        /\ \/ /\ fails \/ result = "exit"
              /\ ToVerdict(IF fails THEN "err" ELSE "exit")
              /\ NewGuard(r, IdOf(r), Withdrawn(r))
           \/ /\ ~fails /\ result = "wait"
              /\ Close /\ UNCHANGED <<phase, result, made>>
              /\ deadlines' = Withdrawn(r) /\ wall' = [wall EXCEPT ![r] = None]
        /\ UNCHANGED <<due, flagged, triggered, passed, outcome>>
        /\ UNCHANGED <<v8Vars, cpuVars, signalVars, seenVars>>

\* check_termination_reason, at the end of exec and of drain_waituntil. An event
\* that succeeds keeps its guards for its waitUntil work, then its context.
Verdict(r) ==
    LET reason == Reason(r, r \in hit \/ wall[r] \in triggered)
    IN  /\ runner = r /\ stage = "verdict"
        /\ IF reason = "ok" /\ phase[r] # "drain"
           THEN /\ phase' = [phase EXCEPT ![r] = "drain"]
                /\ outcome' = [outcome EXCEPT ![r] = "ok"]
                /\ UNCHANGED <<deadlines, wall, targets>>
           ELSE /\ phase' = [phase EXCEPT ![r] = "done"]
                /\ outcome' = [outcome EXCEPT ![r] = IF reason = "ok" THEN "kept" ELSE reason]
                /\ DropGuards(r)
        /\ Close
        /\ UNCHANGED <<result, due, flagged, triggered, passed, made, hit, signals, signal, terminated>>
        /\ UNCHANGED <<v8Vars, cpuVars, seenVars>>

-----------------------------------------------------------------------------
Watchdog == WatchTake \/ WatchFlag \/ WatchTerminate

SignalThread == (\E id \in Ids : SignalTake(id)) \/ SignalSwap \/ SignalTerminate

\* What the isolate thread does in a turn around its JS.
TurnStep(r) ==
    \/ TurnBegin(r) \/ CpuBegin(r) \/ CpuArm(r) \/ LoopCheck(r)
    \/ CpuDisarm(r) \/ CpuAccount(r) \/ TurnEnd(r)
    \/ LoadEnds(r) \/ ResetEnds(r) \/ EventTurnEnds(r) \/ SocketTurnEnds(r) \/ Verdict(r)

\* A request gets to run: it is woken, and the isolate is free.
Wake(r) ==
    \/ ResetStart(r) \/ SetUp(r) \/ SetUpFails(r) \/ Exec(r)
    \/ EventTurn(r) \/ SocketTurn(r) \/ LoopExpires(r)

Next ==
    \/ DeadlinePasses \/ Watchdog
    \/ TimerFires \/ SignalThread \/ Spend
    \/ \E r \in Requests :
          TurnStep(r) \/ Wake(r) \/ JsEnds(r) \/ JsCut(r) \/ JsOverruns(r)

Spec == Init /\ [][Next]_vars

\* The watchdog and the isolate thread run, and V8 stops JS it was asked to
\* stop. Guest JS need not end by itself, and no deadline has to pass.
Fairness ==
    /\ WF_vars(Watchdog)
    /\ \A r \in Requests : WF_vars(TurnStep(r)) /\ WF_vars(JsCut(r))

-----------------------------------------------------------------------------
(* Properties *)

\* A guard that terminates execution for one request never stops another one
\* (security/turn.rs): the JS of a turn is only stopped when a limit of that very
\* load, reset or event was reached, however late the watchdog or the signal
\* thread act on a request that shares the isolate.
CutByOwnLimit ==
    [][\A id \in cut' \ cut :
          \/ \E g \in passed : g[1] = id
          \/ id \in terminated
          \/ id[1] \in overran]_vars

\* A request is marked as out of CPU only once its turns have used a whole
\* budget since it got it: a SIGALRM of one turn of a socket that lands after
\* the next turn refilled the budget takes nothing from that turn.
CpuLimitExact ==
    \A r \in Requests : IdOf(r) \in terminated \cap targets => used[r] >= budget

\* docs/execution_modes.md:32: the request that ends for memory is "the request
\* whose allocation crosses the limit", and the others answer: the flag of the
\* isolate goes to the holder of the turn that set it, and never to the next one.
\* A failed set-up is left out: it leaves the flag set for the next turn to take.
MemoryBlameInTurns ==
    (\A r \in Requests : outcome[r] # "init") => memory_hit \subseteq overran

\* exec and drain_waituntil never answer Ok for an event whose JS a guard cut,
\* so that no context with JS cut short goes back to the cache.
CutEventFails ==
    [][\A r \in Requests :
          (outcome'[r] # outcome[r] /\ outcome'[r] \in {"ok", "kept"}) => <<r, "event">> \notin cut]_vars

\* JS that never yields is cut: a turn of the event loop does not outlast the
\* deadline of the event, whether the watchdog acts before the turn begins, while
\* it begins or after: it sets the flag before Turn::terminate, and the loop looks
\* at the flag after Turn::begin. The turns that dispatch an event, read its
\* response or serve a socket do not look, and are left out.
RunawayIsCut ==
    \A r \in Requests :
        (runner = r /\ phase[r] \in LoopPhases \ {"socket"} /\ wall[r] \in passed) ~> runner # r

\* security/turn.rs:4: a guard that "terminates execution for one request must
\* not stop another one", not even one whose context is being set up.
SetUpNotStopped == stopped = {}

=============================================================================
