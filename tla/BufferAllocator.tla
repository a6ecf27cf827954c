-------------------------- MODULE BufferAllocator --------------------------
(***************************************************************************)
(* The memory of the ArrayBuffers of an isolate                            *)
(* (security/array_buffer_allocator.rs). The thread that holds the isolate *)
(* allocates; V8's sweeper frees from a thread of its own. An allocation   *)
(* adds to the count, reads it back, and takes its part out again if that  *)
(* is past the limit: frees come between any two of these steps.           *)
(***************************************************************************)
EXTENDS Integers

CONSTANTS
    max,        \* CustomAllocator.max
    MaxBytes    \* bound: the bytes of one buffer

VARIABLES
    count,              \* CustomAllocator.count
    memory_limit_hit,   \* CustomAllocator.memory_limit_hit
    stage,              \* of the allocation: idle, added, loaded, denied
    n,                  \* the bytes it asks for
    count_loaded,       \* what it read back
    held                \* history: the bytes of the buffers that V8 has

vars == <<count, memory_limit_hit, stage, n, count_loaded, held>>

Init ==
    /\ count = 0 /\ memory_limit_hit = FALSE
    /\ stage = "idle" /\ n = 0 /\ count_loaded = 0 /\ held = 0

\* allocate.
Allocate(bytes) ==
    /\ stage = "idle" /\ stage' = "added"
    /\ n' = bytes /\ count' = count + bytes
    /\ UNCHANGED <<memory_limit_hit, count_loaded, held>>

\* allocate_uninitialized takes the same steps: only the bytes are not zeroed.
AllocateUninitialized(bytes) == Allocate(bytes)

Load ==
    /\ stage = "added" /\ stage' = "loaded"
    /\ count_loaded' = count
    /\ UNCHANGED <<count, memory_limit_hit, n, held>>

Exceeds_Before == count_loaded - n > max

Exceeds == count_loaded > max

Grant ==
    /\ stage = "loaded" /\ ~Exceeds /\ stage' = "idle"
    /\ held' = held + n
    /\ UNCHANGED <<count, memory_limit_hit, n, count_loaded>>

Deny ==
    /\ stage = "loaded" /\ Exceeds /\ stage' = "denied"
    /\ memory_limit_hit' = TRUE
    /\ UNCHANGED <<count, n, count_loaded, held>>

RolledBack == count - n

Rollback ==
    /\ stage = "denied" /\ stage' = "idle"
    /\ count' = RolledBack
    /\ UNCHANGED <<memory_limit_hit, n, count_loaded, held>>

\* free: a buffer of so many bytes goes.
Free(bytes) ==
    /\ bytes <= held
    /\ held' = held - bytes /\ count' = count - bytes
    /\ UNCHANGED <<memory_limit_hit, stage, n, count_loaded>>

\* The end of a turn takes the flag (Turn::end).
TurnEnds ==
    /\ stage = "idle" /\ memory_limit_hit' = FALSE
    /\ UNCHANGED <<count, stage, n, count_loaded, held>>

Next ==
    \/ \E bytes \in 0..MaxBytes : Allocate(bytes) \/ AllocateUninitialized(bytes) \/ Free(bytes)
    \/ Load \/ Grant \/ Deny \/ Rollback \/ TurnEnds

Spec == Init /\ [][Next]_vars

-----------------------------------------------------------------------------
(* Properties *)

\* "Without this, failed allocations would permanently use up the quota": the count
\* is what V8 holds and what an allocation is about to hold or to give back.
CountExact == count = held + (IF stage = "idle" THEN 0 ELSE n)

\* The buffers of an isolate are never past the limit, although the count an
\* allocation decides on may be old by then.
WithinLimit == held <= max
=============================================================================
