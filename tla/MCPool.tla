------------------------------- MODULE MCPool -------------------------------
(* Pool for TLC, with two sets of limits. With overcommit, requests of one        *)
(* deployment contend for isolates; without, requests of several deployments      *)
(* contend for the slots and the contexts of one isolate.                         *)
EXTENDS PoolAdmission, TLC

VARIABLE limits     \* the limits of this pool: "overcommit" or "strict"

Key(v, e) == [worker_id |-> "w", version |-> v, env_updated_at |-> e]

\* Two versions; the second with an environment and with a later one.
Deployments == {Key(1, 1), Key(2, 1), Key(2, 2)}

Id4 == 1..4

Symmetric == Permutations(Requests) \cup Permutations(Owners)

Strict == INSTANCE Pool WITH max_isolates <- 1, overcommit <- FALSE

\* Readings of the clock matter by their order only: two states that agree up to
\* it, and on what is still in use, are one.
Rank(t, ts) == Cardinality({u \in ts : u < t})

View ==
    LET used   == {last_used[i] : i \in isolates}
        stamps == {c.last_used : c \in (UNION {cached[i] : i \in Ids})
                                         \cup (UNION {context[r] : r \in Requests})}
        Ranked(cs) == {[c EXCEPT !.last_used = Rank(@, stamps)] : c \in cs}
    IN  <<limits, isolates, next_id, pc, slot, request, tainted,
          [i \in isolates |-> <<owner[i], active[i], Rank(last_used[i], used),
                                Ranked(cached[i])>>],
          [r \in Requests |-> Ranked(context[r])]>>

\* Every request ended: nothing more can happen.
AllEnded == \A r \in Requests : pc[r] \in {"done", "refused"}

\* The specification with the end of the run as a step, so that any other state
\* without a successor is a deadlock.
Terminating == AllEnded /\ UNCHANGED vars

MCInit ==
    /\ limits \in {"overcommit", "strict"} /\ Init
    /\ limits = "overcommit" => \A r \in Requests : request[r].key = Key(1, 1)

MCNext ==
    \/ limits = "overcommit" /\ Next
    \/ limits = "strict" /\ Strict!Next
    \/ Terminating

StrictA == INSTANCE Admission WITH
              max_isolates <- 1, overcommit <- FALSE, stage <- stages, owner_of <- owners

\* The pool implements admission control with its limits, A!Spec or StrictA!Spec:
\* acquire admits a request only while slots are left for its owner and in total,
\* refuses one only when its owner has all of its slots or when every isolate can
\* be in use, and execute_pinned releases a slot once.
ImplementsAdmission ==
    /\ A!Init /\ StrictA!Init
    /\ [][IF limits = "strict" THEN StrictA!Next ELSE A!Next]_<<stages, owners>>

=============================================================================
