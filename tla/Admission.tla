------------------------------ MODULE Admission ------------------------------
(***************************************************************************)
(* What the isolate pool promises its callers, with no isolates in sight:  *)
(* it admits at most a number of requests at once, in total and per owner, *)
(* and it refuses one only when it must. Pool implements this.             *)
(***************************************************************************)
EXTENDS Integers, FiniteSets

CONSTANTS
    Requests,
    Owners,
    NoLimit,
    max_isolates,
    max_per_owner,
    overcommit,
    max_concurrent

VARIABLES
    stage,      \* where a request stands
    owner_of    \* whose request it is

Stages == {"waiting", "admitted", "left", "refused"}

Load == Cardinality({r \in Requests : stage[r] = "admitted"})

LoadOf(o) == Cardinality({r \in Requests : stage[r] = "admitted" /\ owner_of[r] = o})

\* All the slots the owner may ever have are taken.
OwnerFull(o) ==
    max_per_owner # NoLimit /\ LoadOf(o) >= max_per_owner * max_concurrent

\* All the slots of the pool are taken.
NoRoom == ~overcommit /\ Load >= max_isolates * max_concurrent

\* Enough requests run that every isolate may be in use, so that none can be
\* given to another owner.
MayAllBeBusy == ~overcommit /\ Load >= max_isolates

Init ==
    /\ stage = [r \in Requests |-> "waiting"]
    /\ owner_of \in [Requests -> Owners]

Admit(r) ==
    /\ stage[r] = "waiting"
    /\ ~OwnerFull(owner_of[r]) /\ ~NoRoom
    /\ stage' = [stage EXCEPT ![r] = "admitted"]
    /\ UNCHANGED owner_of

Refuse(r) ==
    /\ stage[r] = "waiting"
    /\ OwnerFull(owner_of[r]) \/ MayAllBeBusy
    /\ stage' = [stage EXCEPT ![r] = "refused"]
    /\ UNCHANGED owner_of

Leave(r) ==
    /\ stage[r] = "admitted"
    /\ stage' = [stage EXCEPT ![r] = "left"]
    /\ UNCHANGED owner_of

Next == \E r \in Requests : Admit(r) \/ Refuse(r) \/ Leave(r)

Spec == Init /\ [][Next]_<<stage, owner_of>>

=============================================================================
