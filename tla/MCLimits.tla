------------------------------ MODULE MCLimits ------------------------------
(* Two instances of Guards in one run: the wall clock and the memory limit of *)
(* requests that share an isolate, one of them in a warm context, and the CPU *)
(* limit of a socket beside an event. The constants of the run bound both.    *)
(* Beside them, the memory outside the heap that two isolates are told of.    *)
EXTENDS MCGuards

VARIABLES
    part,   \* what moves: the instance "wall" or "cpu", or "memory"
    locks, external, pending, guards, amount, pending_delta, untold, astray

W == INSTANCE Guards WITH Sockets <- {}, budget <- 0, MaxCpu <- 0

C == INSTANCE Guards WITH start <- Ready, wall_limit <- FALSE, MaxGuards <- 0

X == INSTANCE ExternalMemory WITH
        Isolates <- {1, 2}, Threads <- {1, 2}, Guards <- {1, 2}, MaxAmount <- 1, MaxNested <- 2,
        MaxTold <- 2, MaxOff <- 1

xVars == <<locks, external, pending, guards, amount, pending_delta, untold, astray>>

MCLimitsInit ==
    /\ X!Init
    /\ (part \in {"wall", "memory"} /\ W!Init) \/ (part = "cpu" /\ C!Init)

MCLimitsNext ==
    /\ UNCHANGED part
    /\ \/ part = "wall" /\ W!Next /\ UNCHANGED xVars
       \/ part = "cpu" /\ C!Next /\ UNCHANGED xVars
       \/ (\A r \in Requests : phase[r] = "done") /\ UNCHANGED <<vars, xVars>>
       \/ part = "memory" /\ X!Next /\ UNCHANGED vars

MCLimitsSpec == MCLimitsInit /\ [][MCLimitsNext]_<<part, vars, xVars>>

LimitsView == <<part, View, xVars>>

\* The wall clock alone, with the fairness of the watchdog and of the turns.
MCLiveSpec ==
    /\ part = "wall" /\ W!Init /\ X!Init
    /\ [][UNCHANGED <<part, xVars>> /\ (W!Next \/ Terminating)]_<<part, vars, xVars>>
    /\ W!Fairness

\* What V8 was told of an isolate and what it will be told at the next lock are the
\* bytes of the guards that captured it, unless a guard reported to another isolate.
Balanced == X!Balanced
=============================================================================
