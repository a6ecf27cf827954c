----------------------------- MODULE PoolProofs -----------------------------
(***************************************************************************)
(* The pool's invariants and its refinement of Admission, for any number   *)
(* of requests, owners and isolates and any limits.                        *)
(*                                                                         *)
(* Slots: IInv of Pool is inductive; the proof has one lemma per kind of   *)
(* step: one that builds an isolate, one that releases a slot, and the     *)
(* others, which leave the list of isolates alone.                         *)
(*                                                                         *)
(* Contexts: a context is in one place, and fit for the request that runs  *)
(* in it. Both are of contexts named by the request that built them, so    *)
(* the invariant says where a name may be: nowhere before the request      *)
(* starts (Unbuilt), then in one place (OnePlace), and cached only while   *)
(* it may serve once more (Servable).                                      *)
(*                                                                         *)
(* Admission counts requests and Pool counts isolates. The two counting    *)
(* lemmas relate them: things on shelves are at most, or at least, as many *)
(* as the shelves times what each holds. That a request is admitted only   *)
(* when slots are left is read off the state the step leads to, where the  *)
(* invariant of Pool bounds the isolates.                                  *)
(***************************************************************************)
EXTENDS PoolAdmission, FiniteSetTheorems, FunctionTheorems, TLAPS

\* Zenon proves the leaves, but for those that cite SMT: numbers, sequences, records.
USE Zenon

-----------------------------------------------------------------------------
(* Slots *)

\* The requests on an isolate are finitely many, and their number a natural.
LEMMA HoldersFinite ==
    ASSUME NEW i
    PROVE  IsFiniteSet(Holders(i)) /\ Cardinality(Holders(i)) \in Nat
<1>1. Holders(i) \in SUBSET Requests
  BY DEF Holders
<1> QED
  BY <1>1, LimitsAssumption, FS_Subset, FS_CardinalityType

\* Taking a slot adds one to the number of requests on that isolate only.
LEMMA TakeSlot ==
    ASSUME NEW r \in Requests, NEW i \in Ids, TypeOK,
           slot[r] = NoIsolate, slot' = [slot EXCEPT ![r] = i]
    PROVE  /\ Cardinality(Holders(i)') = Cardinality(Holders(i)) + 1
           /\ Holders(i)' # {}
           /\ \A j \in Ids : j # i => Holders(j)' = Holders(j)
<1>1. i # NoIsolate
  BY LimitsAssumption DEF NoIsolate
<1>2. Holders(i)' = Holders(i) \cup {r} /\ r \notin Holders(i)
  BY <1>1 DEF Holders, TypeOK
<1>3. \A j \in Ids : j # i => Holders(j)' = Holders(j)
  BY LimitsAssumption DEF Holders, TypeOK, NoIsolate
<1> QED
  BY <1>2, <1>3, HoldersFinite, FS_AddElement

\* Giving a slot back takes one from it.
LEMMA GiveSlot ==
    ASSUME NEW r \in Requests, TypeOK, slot[r] \in Ids,
           slot' = [slot EXCEPT ![r] = NoIsolate]
    PROVE  /\ Cardinality(Holders(slot[r])) \in Nat \ {0}
           /\ Cardinality({q \in Requests : slot'[q] = slot[r]})
                = Cardinality(Holders(slot[r])) - 1
           /\ \A j \in Ids : Holders(j)' \subseteq Holders(j)
           /\ \A j \in Ids : j # slot[r] => Holders(j)' = Holders(j)
<1> DEFINE i == slot[r]
           H == {q \in Requests : slot'[q] = i}
<1>1. i # NoIsolate
  BY LimitsAssumption DEF NoIsolate
<1>2. H = Holders(i) \ {r} /\ r \in Holders(i)
  BY <1>1 DEF Holders, TypeOK
<1>3. /\ \A j \in Ids : Holders(j)' \subseteq Holders(j)
      /\ \A j \in Ids : j # i => Holders(j)' = Holders(j)
  BY LimitsAssumption DEF Holders, TypeOK, NoIsolate
<1>4. Cardinality(H) = Cardinality(Holders(i)) - 1
  BY <1>2, HoldersFinite, FS_RemoveElement
<1>5. Cardinality(Holders(i)) # 0
  BY <1>2, HoldersFinite, FS_EmptySet
<1> QED
  BY <1>3, <1>4, <1>5, HoldersFinite

-----------------------------------------------------------------------------
(* A step that builds an isolate. *)

\* Building on what an eviction of idle isolates left keeps everything but, by
\* itself, the ceiling, which depends on why the isolate is built.
LEMMA BuildKeeps ==
    ASSUME IInv, NEW r \in Requests, NEW pool \in SUBSET isolates,
           isolates \ pool \subseteq Idle, MayBuild(r), Build(r, pool)
    PROVE  /\ TypeOK' /\ FreshIds' /\ SlotPhase' /\ SlotsAccounted'
           /\ PerOwnerLimit' /\ OwnerIsolation'
           /\ next_id \notin isolates
           /\ IsFiniteSet(pool)
<1> DEFINE o == request[r].owner
<1> USE LimitsAssumption
<1>0. PICK n \in Ids : n = next_id
  BY DEF Build
<1>1. /\ n = next_id /\ n \in Nat \ {0} /\ n \notin isolates
      /\ slot[r] = NoIsolate /\ Holders(n) = {} /\ active[n] = 0
      /\ o \in Owners
  <2>1. n = next_id /\ n \in Nat \ {0} /\ n \notin isolates /\ Holders(n) = {}
    BY SMT, <1>0 DEF Build, IInv, FreshIds, TypeOK
  <2>2. slot[r] = NoIsolate
    BY DEF IInv, SlotPhase, MayBuild, TypeOK
  <2>3. active[n] = 0
    BY <2>1, FS_EmptySet DEF IInv, SlotsAccounted
  <2> QED
    BY <2>1, <2>2, <2>3 DEF IInv, TypeOK
<1>2. TypeOK'
  BY SMT, <1>1 DEF IInv, TypeOK, Build, PCs
<1>3. IsFiniteSet(pool) /\ IsFiniteSet(isolates')
  <2>1. IsFiniteSet(pool)
    BY FS_Subset DEF IInv, FreshIds
  <2> QED
    BY <2>1, FS_AddElement DEF Build
<1>4. /\ Cardinality(Holders(n)') = Cardinality(Holders(n)) + 1
      /\ \A j \in Ids : j # n => Holders(j)' = Holders(j)
  <2>1. slot' = [slot EXCEPT ![r] = n] /\ TypeOK
    BY <1>0 DEF Build, IInv
  <2> QED
    BY <1>1, <2>1, TakeSlot
<1>5. FreshIds'
  <2>1. \A i \in isolates' : i < next_id'
    BY SMT, <1>1 DEF Build, IInv, FreshIds, TypeOK
  <2>2. \A i \in Ids : Holders(i)' # {} => i < next_id'
    BY SMT, <1>1, <1>4 DEF Build, IInv, FreshIds, TypeOK
  <2> QED
    BY <1>3, <2>1, <2>2 DEF FreshIds
<1>6. SlotPhase'
  BY <1>1 DEF Build, IInv, SlotPhase, TypeOK, NoIsolate
<1>7. SlotsAccounted'
  <2> SUFFICES ASSUME NEW i \in Ids
               PROVE  /\ active'[i] = Cardinality(Holders(i)')
                      /\ active'[i] <= max_concurrent
                      /\ Holders(i)' # {} => i \in isolates'
    BY DEF SlotsAccounted
  <2>1. CASE i = n
    <3>1. active'[n] = 1 /\ n \in isolates'
      BY <1>1 DEF Build, IInv, TypeOK
    <3>2. Cardinality(Holders(n)') = 1
      BY SMT, <1>1, <1>4, FS_EmptySet
    <3> QED
      BY SMT, <2>1, <3>1, <3>2
  <2>2. CASE i # n
    <3>1. active'[i] = active[i] /\ Holders(i)' = Holders(i)
      BY <2>2, <1>1, <1>4 DEF Build, IInv, TypeOK
    <3>2. Holders(i) # {} => i \in pool
      <4>1. i \in Idle => Holders(i) = {}
        BY HoldersFinite, FS_EmptySet DEF Idle, is_free, IInv, SlotsAccounted
      <4> QED
        BY <4>1 DEF IInv, SlotsAccounted
    <3> QED
      BY <3>1, <3>2 DEF Build, IInv, SlotsAccounted
  <2> QED
    BY <2>1, <2>2
<1>8. PerOwnerLimit'
  <2> SUFFICES ASSUME max_per_owner # NoLimit, NEW w \in Owners
               PROVE  Cardinality(Owned(w)') <= max_per_owner
    BY DEF PerOwnerLimit
  <2> DEFINE W == Owned(w) \cap pool
  <2>1. IsFiniteSet(Owned(w)) /\ IsFiniteSet(W)
        /\ Cardinality(W) <= Cardinality(Owned(w))
        /\ Cardinality(W) \in Nat /\ Cardinality(Owned(w)) \in Nat
    <3>1. IsFiniteSet(isolates) /\ Owned(w) \in SUBSET isolates
      BY DEF IInv, FreshIds, Owned
    <3>2. IsFiniteSet(Owned(w))
      BY <3>1, FS_Subset
    <3>3. W \in SUBSET Owned(w)
      OBVIOUS
    <3> QED
      BY <3>2, <3>3, FS_Subset, FS_CardinalityType
  <2>2. max_per_owner \in Nat /\ Cardinality(Owned(w)) <= max_per_owner
    BY DEF IInv, PerOwnerLimit
  <2>5. /\ isolates' = pool \cup {n} /\ n \notin pool
        /\ owner'[n] = o /\ \A i \in pool : owner'[i] = owner[i]
    BY <1>1 DEF Build, IInv, TypeOK
  <2>3. CASE w = o
    <3>1. Cardinality(Owned(w)) < max_per_owner
      BY SMT, <2>3, <2>1, <2>2 DEF MayBuild, OwnerAtLimit
    <3>2. Owned(w)' = W \cup {n}
      BY <2>3, <2>5 DEF Owned
    <3>3. n \notin W
      BY <1>1
    <3>4. Cardinality(Owned(w)') = Cardinality(W) + 1
      BY <3>2, <3>3, <2>1, FS_AddElement
    <3> QED
      BY SMT, <3>1, <3>4, <2>1, <2>2
  <2>4. CASE w # o
    <3>1. Owned(w)' = W
      BY <2>4, <2>5 DEF Owned
    <3> QED
      BY SMT, <3>1, <2>1, <2>2
  <2> QED
    BY <2>3, <2>4
<1>9. OwnerIsolation'
  <2>1. ASSUME NEW q \in Requests, slot'[q] # NoIsolate
        PROVE  /\ owner'[slot'[q]] = request[q].owner
               /\ \A c \in context[q] : request[c.built_by].owner = request[q].owner
    <3>1. CASE q = r
      BY <3>1, <1>1 DEF Build, IInv, TypeOK, SlotPhase
    <3>2. CASE q # r
      <4>1. slot'[q] = slot[q] /\ slot[q] # n
        <5>1. slot'[q] = slot[q]
          BY <3>2 DEF Build, IInv, TypeOK
        <5>2. slot[q] # n
          BY <1>1 DEF Holders
        <5> QED BY <5>1, <5>2
      <4> QED
        BY <4>1, <2>1, <1>1 DEF Build, IInv, TypeOK, OwnerIsolation
    <3> QED
      BY <3>1, <3>2
  <2>2. ASSUME NEW i \in isolates', NEW c \in cached'[i]
        PROVE  request[c.built_by].owner = owner'[i]
    BY SMT, <2>2, <1>1 DEF Build, IInv, TypeOK, OwnerIsolation
  <2>3. request' = request /\ context' = context
    BY DEF Build
  <2> QED
    BY <2>1, <2>2, <2>3 DEF OwnerIsolation
<1> QED
  BY <1>1, <1>2, <1>3, <1>5, <1>6, <1>7, <1>8, <1>9

\* The three ways to build keep the ceiling: under it; at it, for an evicted
\* isolate; past it, when all are in use.
LEMMA AcquireBuilds ==
    ASSUME IInv, NEW r \in Requests,
           AcquireBuild(r) \/ AcquireEvict(r) \/ AcquireOvercommit(r)
    PROVE  IInv'
<1> USE LimitsAssumption
<1>0. IsFiniteSet(isolates) /\ Cardinality(isolates) \in Nat
  BY FS_CardinalityType DEF IInv, FreshIds
<1>1. CASE AcquireBuild(r)
  <2>1. MayBuild(r) /\ UnderCeiling /\ Build(r, isolates)
    BY <1>1 DEF AcquireBuild
  <2>2. /\ TypeOK' /\ FreshIds' /\ SlotPhase' /\ SlotsAccounted'
        /\ PerOwnerLimit' /\ OwnerIsolation' /\ next_id \notin isolates
    BY <2>1, BuildKeeps
  <2>3. Cardinality(isolates') = Cardinality(isolates) + 1
    BY <2>1, <2>2, <1>0, FS_AddElement DEF Build
  <2>4. PastCeilingAllBusy'
    BY SMT, <2>1, <2>3, <1>0 DEF PastCeilingAllBusy, UnderCeiling
  <2> QED
    BY <2>2, <2>4 DEF IInv
<1>2. CASE AcquireEvict(r)
  <2>1. PICK i \in isolates : LeastRecentlyUsed(i) /\ Build(r, isolates \ {i})
    BY <1>2 DEF AcquireEvict
  <2>2. MayBuild(r) /\ i \in Idle
    BY <1>2, <2>1 DEF AcquireEvict, LeastRecentlyUsed
  <2> DEFINE pool == isolates \ {i}
  <2>3. pool \in SUBSET isolates /\ isolates \ pool \subseteq Idle
    BY <2>2
  <2>4. /\ TypeOK' /\ FreshIds' /\ SlotPhase' /\ SlotsAccounted'
        /\ PerOwnerLimit' /\ OwnerIsolation' /\ next_id \notin isolates
        /\ IsFiniteSet(pool)
    BY <2>1, <2>2, <2>3, BuildKeeps
  <2>5. Cardinality(pool) = Cardinality(isolates) - 1
    BY <1>0, FS_RemoveElement
  <2>6. Cardinality(isolates') = Cardinality(isolates)
    <3>1. isolates' = pool \cup {next_id} /\ next_id \notin pool
      BY <2>1, <2>4 DEF Build
    <3>2. Cardinality(isolates') = Cardinality(pool) + 1
      BY <3>1, <2>4, FS_AddElement
    <3> QED
      BY SMT, <3>2, <2>5, <1>0
  <2>7. Cardinality(isolates) <= max_isolates
    BY SMT, <2>2, <1>0 DEF IInv, PastCeilingAllBusy
  <2>8. PastCeilingAllBusy'
    BY SMT, <2>6, <2>7, <1>0 DEF PastCeilingAllBusy
  <2> QED
    BY <2>4, <2>8 DEF IInv
<1>3. CASE AcquireOvercommit(r)
  <2>1. MayBuild(r) /\ Idle = {} /\ overcommit /\ Build(r, isolates)
    BY <1>3 DEF AcquireOvercommit
  <2>2. /\ TypeOK' /\ FreshIds' /\ SlotPhase' /\ SlotsAccounted'
        /\ PerOwnerLimit' /\ OwnerIsolation' /\ next_id \notin isolates
    BY <2>1, BuildKeeps
  <2>3. Idle' = {}
    <3> SUFFICES ASSUME NEW j \in isolates' PROVE active'[j] # 0
      BY DEF Idle, is_free
    <3>1. /\ isolates' = isolates \cup {next_id} /\ next_id \in Ids
          /\ active' = [active EXCEPT ![next_id] = 1]
          /\ active \in [Ids -> Nat] /\ isolates \subseteq Ids
      BY <2>1 DEF Build, IInv, TypeOK
    <3> QED
      BY SMT, <3>1, <2>1, <2>2 DEF Idle, is_free
  <2>4. PastCeilingAllBusy'
    BY <2>1, <2>3 DEF PastCeilingAllBusy
  <2> QED
    BY <2>2, <2>4 DEF IInv
<1> QED
  BY <1>1, <1>2, <1>3

-----------------------------------------------------------------------------
(* A step that releases a slot. *)

\* Whatever caches the step leaves, as long as their contexts belong to the
\* owner of their isolate, release_to_local_pool keeps the invariant.
LEMMA ReleaseKeeps ==
    ASSUME IInv, NEW r \in Requests, NEW caches \in [Ids -> SUBSET Contexts],
           pc[r] \in {"acquired", "exec", "drain", "save"},
           \A j \in isolates : \A c \in caches[j] : request[c.built_by].owner = owner[j],
           Release(r, caches),
           last_used' \in [Ids -> Nat], clock' \in Nat, tainted' \subseteq Requests
    PROVE  IInv'
<1> USE LimitsAssumption
<1>0. slot[r] \in Ids
  BY DEF IInv, TypeOK, SlotPhase
<1>1. PICK i \in Ids : i = slot[r]
  BY <1>0
<1> DEFINE idle    == {j \in isolates : active'[j] = 0}
           dropped == Reclaim(isolates, idle)
<1>2. /\ active' = [active EXCEPT ![i] = active[i] - 1]
      /\ isolates' = isolates \ dropped
      /\ cached' = [j \in Ids |-> IF j \in dropped THEN {} ELSE caches[j]]
      /\ slot' = [slot EXCEPT ![r] = NoIsolate]
      /\ context' = [context EXCEPT ![r] = {}]
      /\ pc' = [pc EXCEPT ![r] = "done"]
      /\ owner' = owner /\ next_id' = next_id /\ request' = request
  BY <1>1 DEF Release, Released
<1> HIDE DEF dropped
<1>3. dropped \subseteq idle /\ dropped \subseteq isolates /\ isolates' \subseteq isolates
  BY <1>2 DEF dropped, Reclaim
<1>4. /\ Cardinality(Holders(i)) \in Nat \ {0}
      /\ Cardinality(Holders(i)') = Cardinality(Holders(i)) - 1
      /\ \A j \in Ids : Holders(j)' \subseteq Holders(j)
      /\ \A j \in Ids : j # i => Holders(j)' = Holders(j)
  <2>1. TypeOK BY DEF IInv
  <2>2. {q \in Requests : slot'[q] = i} = Holders(i)'
    BY DEF Holders
  <2> QED
    BY <2>1, <2>2, <1>1, <1>2, GiveSlot
<1>5. active[i] = Cardinality(Holders(i))
  BY DEF IInv, SlotsAccounted
<1>6. TypeOK'
  <2>1. active' \in [Ids -> Nat]
    BY SMT, <1>2, <1>4, <1>5 DEF IInv, TypeOK
  <2>3. cached' \in [Ids -> SUBSET Contexts]
    BY <1>2
  <2>4. isolates' \subseteq Ids
    BY <1>3 DEF IInv, TypeOK
  <2>5. pc' \in [Requests -> PCs] /\ slot' \in [Requests -> Ids \cup {NoIsolate}]
        /\ context' \in [Requests -> SUBSET Contexts]
    BY <1>2 DEF IInv, TypeOK, PCs
  <2>6. owner' \in [Ids -> Owners \cup {NoOwner}] /\ next_id' \in Nat \ {0}
        /\ request' \in [Requests -> [owner : Owners, key : Keys]]
    BY <1>2 DEF IInv, TypeOK
  <2> QED
    BY <2>1, <2>3, <2>4, <2>5, <2>6 DEF TypeOK
<1>7. IsFiniteSet(isolates) /\ Cardinality(isolates) \in Nat
      /\ IsFiniteSet(isolates') /\ Cardinality(isolates') <= Cardinality(isolates)
      /\ Cardinality(isolates') \in Nat
  <2>1. IsFiniteSet(isolates) BY DEF IInv, FreshIds
  <2> QED BY <2>1, <1>3, FS_Subset, FS_CardinalityType
<1>8. FreshIds'
  <2>1. \A j \in isolates' : j < next_id'
    BY <1>2, <1>3 DEF IInv, FreshIds
  <2>2. \A j \in Ids : Holders(j)' # {} => j < next_id'
    BY <1>2, <1>4 DEF IInv, FreshIds
  <2> QED
    BY <1>7, <2>1, <2>2 DEF FreshIds
<1>9. SlotPhase'
  BY <1>2 DEF IInv, SlotPhase, TypeOK
<1>10. SlotsAccounted'
  <2> SUFFICES ASSUME NEW j \in Ids
               PROVE  /\ active'[j] = Cardinality(Holders(j)')
                      /\ active'[j] <= max_concurrent
                      /\ Holders(j)' # {} => j \in isolates'
    BY DEF SlotsAccounted
  <2>1. active[j] = Cardinality(Holders(j)) /\ active[j] <= max_concurrent
        /\ (Holders(j) # {} => j \in isolates) /\ active[j] \in Nat
    BY DEF IInv, SlotsAccounted, TypeOK
  <2>2. active'[j] = Cardinality(Holders(j)') /\ active'[j] <= max_concurrent
    <3>1. CASE j = i
      <4>1. active'[i] = active[i] - 1
        BY <1>2 DEF IInv, TypeOK
      <4> QED BY SMT, <3>1, <4>1, <2>1, <1>4, <1>5
    <3>2. CASE j # i
      <4>1. active'[j] = active[j]
        BY <1>2, <3>2 DEF IInv, TypeOK
      <4> QED BY <3>2, <4>1, <2>1, <1>4
    <3> QED BY <3>1, <3>2
  <2>3. ASSUME Holders(j)' # {} PROVE j \in isolates'
    <3>1. IsFiniteSet(Holders(j)')
      <4>1. IsFiniteSet(Holders(j)) /\ Holders(j)' \in SUBSET Holders(j)
        BY <1>4, HoldersFinite
      <4> QED BY <4>1, FS_Subset
    <3>2. active'[j] # 0
      BY <2>2, <2>3, <3>1, FS_EmptySet
    <3>3. j \notin dropped
      BY <3>2, <1>3
    <3> QED
      BY <2>1, <2>3, <3>3, <1>2, <1>4
  <2> QED
    BY <2>2, <2>3
<1>11. PastCeilingAllBusy'
  <2> SUFFICES ASSUME Cardinality(isolates') > max_isolates
               PROVE  overcommit /\ Idle' = {}
    BY DEF PastCeilingAllBusy
  <2>1. Cardinality(isolates) > max_isolates /\ overcommit /\ Idle = {}
    BY SMT, <1>7 DEF IInv, PastCeilingAllBusy
  <2>2. idle \subseteq {i}
    BY <2>1, <1>2 DEF Idle, is_free, IInv, TypeOK
  <2>3. idle \subseteq dropped
    <3> SUFFICES ASSUME NEW j \in idle PROVE j \in dropped
      OBVIOUS
    <3>1. {k \in idle : k < j} = {}
      BY SMT, <2>2 DEF IInv, TypeOK
    <3>2. Cardinality({k \in idle : k < j}) = 0
      BY <3>1, FS_EmptySet
    <3>3. 0 < Cardinality(isolates) - max_isolates
      BY SMT, <2>1, <1>7
    <3> QED
      BY <3>2, <3>3 DEF dropped, Reclaim
  <2>4. Idle' = {}
    BY <2>3, <1>2 DEF Idle, is_free
  <2> QED
    BY <2>1, <2>4
<1>12. PerOwnerLimit'
  <2> SUFFICES ASSUME max_per_owner # NoLimit, NEW o \in Owners
               PROVE  Cardinality(Owned(o)') <= max_per_owner
    BY DEF PerOwnerLimit
  <2>1. Owned(o) \in SUBSET isolates /\ Owned(o)' \in SUBSET Owned(o)
    BY <1>2, <1>3 DEF Owned
  <2>2. IsFiniteSet(Owned(o)) /\ Cardinality(Owned(o)) \in Nat
    BY <2>1, <1>7, FS_Subset, FS_CardinalityType
  <2>3. Cardinality(Owned(o)') \in Nat /\ Cardinality(Owned(o)') <= Cardinality(Owned(o))
    BY <2>1, <2>2, FS_Subset, FS_CardinalityType
  <2>4. Cardinality(Owned(o)) <= max_per_owner /\ max_per_owner \in Nat
    BY DEF IInv, PerOwnerLimit
  <2> QED
    BY SMT, <2>2, <2>3, <2>4
<1>13. OwnerIsolation'
  BY SMT, <1>2, <1>3 DEF OwnerIsolation, IInv, TypeOK
<1> QED
  BY <1>6, <1>8, <1>9, <1>10, <1>11, <1>12, <1>13 DEF IInv

-----------------------------------------------------------------------------
(* The steps that leave the list of isolates alone. *)

\* Reusing an isolate of the owner that has capacity keeps the invariant.
LEMMA ReuseKeeps ==
    ASSUME IInv, NEW r \in Requests, AcquireReuse(r)
    PROVE  IInv'
<1> USE LimitsAssumption
<1>1. PICK i \in isolates :
         /\ ReuseIndex(request[r].owner, i)
         /\ active' = [active EXCEPT ![i] = @ + 1]
         /\ slot' = [slot EXCEPT ![r] = i]
  BY DEF AcquireReuse
<1>2. /\ pc[r] = "arriving" /\ pc' = [pc EXCEPT ![r] = "acquired"]
      /\ isolates' = isolates /\ owner' = owner /\ last_used' = last_used
      /\ cached' = cached /\ next_id' = next_id
      /\ request' = request /\ context' = context /\ clock' = clock
      /\ tainted' = tainted
  BY DEF AcquireReuse
<1>3. TypeOK /\ i \in Ids /\ slot[r] = NoIsolate /\ i # NoIsolate
  BY <1>2 DEF IInv, TypeOK, SlotPhase, NoIsolate
<1>4. /\ Cardinality(Holders(i)') = Cardinality(Holders(i)) + 1
      /\ \A j \in Ids : j # i => Holders(j)' = Holders(j)
  BY <1>1, <1>3, TakeSlot
<1>5. TypeOK'
  BY SMT, <1>1, <1>2, <1>3 DEF TypeOK, PCs
<1>6. FreshIds'
  BY <1>2, <1>4 DEF IInv, FreshIds
<1>7. SlotPhase'
  BY <1>1, <1>2, <1>3 DEF IInv, SlotPhase, TypeOK
<1>8. SlotsAccounted'
  <2> SUFFICES ASSUME NEW j \in Ids
               PROVE  /\ active'[j] = Cardinality(Holders(j)')
                      /\ active'[j] <= max_concurrent
                      /\ Holders(j)' # {} => j \in isolates'
    BY DEF SlotsAccounted
  <2>1. active[j] = Cardinality(Holders(j)) /\ active[j] <= max_concurrent
        /\ (Holders(j) # {} => j \in isolates) /\ active[j] \in Nat
    BY DEF IInv, SlotsAccounted, TypeOK
  <2>2. CASE j = i
    <3>1. active[i] < max_concurrent
      BY <1>1 DEF ReuseIndex, has_capacity
    <3>2. active'[i] = active[i] + 1
      BY <1>1, <1>3 DEF TypeOK
    <3> QED
      BY SMT, <2>1, <2>2, <3>1, <3>2, <1>2, <1>4
  <2>3. CASE j # i
    <3>1. active'[j] = active[j]
      BY <2>3, <1>1, <1>3 DEF TypeOK
    <3> QED
      BY <2>1, <2>3, <3>1, <1>2, <1>4
  <2> QED
    BY <2>2, <2>3
<1>9. PastCeilingAllBusy'
  <2>1. Idle' \subseteq Idle
    BY SMT, <1>1, <1>2, <1>3 DEF Idle, is_free, TypeOK
  <2> QED
    BY <2>1, <1>2 DEF IInv, PastCeilingAllBusy
<1>10. PerOwnerLimit'
  BY <1>2 DEF IInv, PerOwnerLimit, Owned
<1>11. OwnerIsolation'
  <2>1. owner[i] = request[r].owner /\ context[r] = {}
    BY <1>1, <1>3 DEF ReuseIndex, Owned, IInv, SlotPhase
  <2> QED
    BY <2>1, <1>1, <1>2, <1>3 DEF IInv, OwnerIsolation, TypeOK
<1> QED
  BY <1>5, <1>6, <1>7, <1>8, <1>9, <1>10, <1>11 DEF IInv

\* A step that changes only the caches, the contexts, the clock and where the
\* request stands keeps the invariant if it keeps owners apart.
LEMMA RunKeeps ==
    ASSUME IInv, NEW r \in Requests,
           slot[r] # NoIsolate,
           pc' \in [Requests -> PCs], pc'[r] \in {"exec", "drain", "save"},
           \A q \in Requests : q # r => pc'[q] = pc[q] /\ context'[q] = context[q],
           cached' \in [Ids -> SUBSET Contexts],
           context' \in [Requests -> SUBSET Contexts],
           \A c \in context'[r] : request[c.built_by].owner = request[r].owner,
           \A i \in isolates : \A c \in cached'[i] : request[c.built_by].owner = owner[i],
           last_used' \in [Ids -> Nat], clock' \in Nat, tainted' \subseteq Requests,
           UNCHANGED <<isolates, owner, active, next_id, slot, request>>
    PROVE  IInv'
<1>1. TypeOK' /\ SlotPhase'
  BY DEF IInv, TypeOK, SlotPhase
<1>2. FreshIds'
  BY DEF IInv, FreshIds, Holders
<1>3. SlotsAccounted'
  BY DEF IInv, SlotsAccounted, Holders
<1>4. PastCeilingAllBusy' /\ PerOwnerLimit'
  BY DEF IInv, PastCeilingAllBusy, PerOwnerLimit, Idle, is_free, Owned
<1>5. OwnerIsolation'
  BY DEF IInv, OwnerIsolation
<1> QED
  BY <1>1, <1>2, <1>3, <1>4, <1>5 DEF IInv

-----------------------------------------------------------------------------
(* The steps of a request that has its slot. *)

\* A request with a slot is on an isolate of the pool that is its owner's.
LEMMA OnOwnIsolate ==
    ASSUME IInv, NEW r \in Requests, pc[r] \in {"acquired", "exec", "drain", "save"}
    PROVE  /\ slot[r] # NoIsolate /\ slot[r] \in Ids /\ slot[r] \in isolates
           /\ owner[slot[r]] = request[r].owner
<1>1. slot[r] # NoIsolate /\ slot[r] \in Ids
  BY DEF IInv, SlotPhase, TypeOK
<1>2. r \in Holders(slot[r])
  BY DEF Holders
<1> QED
  BY <1>1, <1>2 DEF IInv, SlotsAccounted, OwnerIsolation

\* What the lookup takes and leaves are contexts of the isolate's owner.
LEMMA LookupKeepsOwners ==
    ASSUME IInv, NEW r \in Requests, pc[r] = "acquired",
           NEW hit \in Hits(cached[slot[r]], request[r].key)
    PROVE  /\ hit \subseteq Contexts
           /\ \A c \in hit : request[c.built_by].owner = request[r].owner
           /\ Kept(r, hit) \in [Ids -> SUBSET Contexts]
           /\ \A i \in isolates : \A c \in Kept(r, hit)[i] :
                 request[c.built_by].owner = owner[i]
           /\ {c.built_by : c \in hit} \subseteq Requests
<1>1. slot[r] \in Ids /\ slot[r] \in isolates /\ owner[slot[r]] = request[r].owner
  BY OnOwnIsolate
<1>2. hit \subseteq cached[slot[r]]
  BY DEF Hits
<1>3. cached \in [Ids -> SUBSET Contexts]
  BY DEF IInv, TypeOK
<1>4. \A i \in Ids : Kept(r, hit)[i] \subseteq cached[i]
  BY <1>1, <1>3 DEF Kept
<1>5. Kept(r, hit) \in [Ids -> SUBSET Contexts]
  BY <1>1, <1>3 DEF Kept
<1>6. hit \subseteq Contexts
  BY <1>1, <1>2, <1>3
<1>7. {c.built_by : c \in hit} \subseteq Requests
  BY <1>6 DEF Contexts
<1>8. \A i \in isolates : \A c \in cached[i] : request[c.built_by].owner = owner[i]
  BY DEF IInv, OwnerIsolation
<1>9. isolates \subseteq Ids
  BY DEF IInv, TypeOK
<1> QED
  BY <1>1, <1>2, <1>4, <1>5, <1>6, <1>7, <1>8, <1>9

\* Every step of a request that has its slot keeps the invariant.
LEMMA StepKeeps ==
    ASSUME IInv, NEW r \in Requests, Step(r)
    PROVE  IInv'
<1>0. TypeOK
  BY DEF IInv
<1>8. ASSUME pc[r] = "acquired", Touch(r)
      PROVE  last_used' \in [Ids -> Nat] /\ clock' \in Nat
  <2>1. slot[r] \in Ids
    BY <1>8, OnOwnIsolate
  <2>2. last_used \in [Ids -> Nat] /\ clock + 1 \in Nat
    BY SMT, <1>0 DEF TypeOK
  <2>3. last_used' = [last_used EXCEPT ![slot[r]] = clock + 1] /\ clock' = clock + 1
    BY <1>8 DEF Touch
  <2> QED
    BY <2>1, <2>2, <2>3
<1>1. CASE StartWarm(r)
  <2>1. PICK hit \in Hits(cached[slot[r]], request[r].key) :
           /\ cached' = Kept(r, hit)
           /\ context' = [context EXCEPT ![r] =
                             {[c EXCEPT !.reuse_count = @ + 1] : c \in hit}]
    BY <1>1 DEF StartWarm
  <2>2. /\ pc[r] = "acquired" /\ pc' = [pc EXCEPT ![r] = "exec"]
        /\ last_used' = [last_used EXCEPT ![slot[r]] = clock + 1] /\ clock' = clock + 1
        /\ UNCHANGED <<isolates, owner, active, next_id, slot, request, tainted>>
    BY <1>1 DEF StartWarm, Touch
  <2> DEFINE run == {[c EXCEPT !.reuse_count = @ + 1] : c \in hit}
  <2>3. run \subseteq Contexts
        /\ \A c \in run : request[c.built_by].owner = request[r].owner
    <3>1. hit \subseteq Contexts
          /\ \A c \in hit : request[c.built_by].owner = request[r].owner
      BY <2>2, LookupKeepsOwners
    <3> QED
      BY SMT, <3>1 DEF Contexts
  <2>4. context'[r] = run /\ context' \in [Requests -> SUBSET Contexts]
        /\ \A q \in Requests : q # r => context'[q] = context[q]
    BY <2>1, <2>3, <1>0 DEF TypeOK
  <2>5. pc' \in [Requests -> PCs] /\ pc'[r] = "exec"
        /\ \A q \in Requests : q # r => pc'[q] = pc[q]
    BY <2>2, <1>0 DEF TypeOK, PCs
  <2>6. last_used' \in [Ids -> Nat] /\ clock' \in Nat /\ tainted' \subseteq Requests
    BY <1>1, <1>8, <2>2, <1>0 DEF TypeOK, StartWarm
  <2>7. /\ cached' \in [Ids -> SUBSET Contexts]
        /\ \A i \in isolates : \A c \in cached'[i] : request[c.built_by].owner = owner[i]
    BY SMT, <2>1, <2>2, LookupKeepsOwners
  <2>8. slot[r] # NoIsolate
    BY <2>2, OnOwnIsolate
  <2> QED
    BY <2>2, <2>3, <2>4, <2>5, <2>6, <2>7, <2>8, RunKeeps
<1>2. CASE StartCold(r)
  <2>1. PICK hit \in Hits(cached[slot[r]], request[r].key) :
           cached' = Kept(r, hit) /\ Taint(hit)
    BY <1>2 DEF StartCold
  <2> DEFINE new == [key |-> request[r].key, built_by |-> r,
                     reuse_count |-> 1, last_used |-> 0]
  <2>2. /\ pc[r] = "acquired" /\ pc' = [pc EXCEPT ![r] = "exec"]
        /\ context' = [context EXCEPT ![r] = {new}]
        /\ last_used' = [last_used EXCEPT ![slot[r]] = clock + 1] /\ clock' = clock + 1
        /\ UNCHANGED <<isolates, owner, active, next_id, slot, request>>
    BY <1>2 DEF StartCold, Touch
  <2>3. new \in Contexts /\ new.built_by = r
    BY <1>0 DEF TypeOK, Contexts
  <2>4. context'[r] = {new} /\ context' \in [Requests -> SUBSET Contexts]
        /\ \A q \in Requests : q # r => context'[q] = context[q]
    BY <2>2, <2>3, <1>0 DEF TypeOK
  <2>5. pc' \in [Requests -> PCs] /\ pc'[r] = "exec"
        /\ \A q \in Requests : q # r => pc'[q] = pc[q]
    BY <2>2, <1>0 DEF TypeOK, PCs
  <2>6. last_used' \in [Ids -> Nat] /\ clock' \in Nat
    BY <1>2, <1>8 DEF StartCold
  <2>7. /\ cached' \in [Ids -> SUBSET Contexts]
        /\ \A i \in isolates : \A c \in cached'[i] : request[c.built_by].owner = owner[i]
        /\ {c.built_by : c \in hit} \subseteq Requests
    <3>1. /\ Kept(r, hit) \in [Ids -> SUBSET Contexts]
          /\ \A i \in isolates : \A c \in Kept(r, hit)[i] : request[c.built_by].owner = owner[i]
          /\ {c.built_by : c \in hit} \subseteq Requests
      BY SMT, <2>2, LookupKeepsOwners
    <3> QED
      BY <2>1, <3>1
  <2>8. tainted' \subseteq Requests
    BY <2>1, <2>7, <1>0 DEF TypeOK, Taint
  <2>9. slot[r] # NoIsolate
    BY <2>2, OnOwnIsolate
  <2> QED
    BY <2>2, <2>3, <2>4, <2>5, <2>6, <2>7, <2>8, <2>9, RunKeeps
<1>3. CASE StartFails(r)
  <2>1. PICK hit \in Hits(cached[slot[r]], request[r].key) :
           Release(r, Kept(r, hit)) /\ Taint(hit)
    BY <1>3 DEF StartFails
  <2>2. pc[r] = "acquired"
    BY <1>3 DEF StartFails
  <2>3. /\ Kept(r, hit) \in [Ids -> SUBSET Contexts]
        /\ \A i \in isolates : \A c \in Kept(r, hit)[i] :
              request[c.built_by].owner = owner[i]
        /\ {c.built_by : c \in hit} \subseteq Requests
    BY SMT, <2>2, LookupKeepsOwners
  <2>4. last_used' \in [Ids -> Nat] /\ clock' \in Nat
    BY <1>3, <1>8 DEF StartFails
  <2>5. tainted' \subseteq Requests
    BY <2>1, <2>3, <1>0 DEF TypeOK, Taint
  <2> QED
    BY <2>1, <2>2, <2>3, <2>4, <2>5, ReleaseKeeps
<1>4. CASE ExecOk(r)
  <2>1. /\ pc[r] = "exec" /\ pc' = [pc EXCEPT ![r] = "drain"]
        /\ UNCHANGED <<isolates, owner, active, last_used, cached, next_id,
                       slot, request, context, clock, tainted>>
    BY <1>4 DEF ExecOk
  <2>2. pc' \in [Requests -> PCs] /\ pc'[r] = "drain"
        /\ \A q \in Requests : q # r => pc'[q] = pc[q]
    BY <2>1, <1>0 DEF TypeOK, PCs
  <2>3. slot[r] # NoIsolate
    BY <2>1, OnOwnIsolate
  <2>4. /\ \A c \in context'[r] : request[c.built_by].owner = request[r].owner
        /\ \A i \in isolates : \A c \in cached'[i] : request[c.built_by].owner = owner[i]
    BY <2>1, <2>3 DEF IInv, OwnerIsolation
  <2>5. /\ cached' \in [Ids -> SUBSET Contexts] /\ context' \in [Requests -> SUBSET Contexts]
        /\ last_used' \in [Ids -> Nat] /\ clock' \in Nat /\ tainted' \subseteq Requests
    BY <2>1, <1>0 DEF TypeOK
  <2> QED
    BY <2>1, <2>2, <2>3, <2>4, <2>5, RunKeeps
<1>5. CASE Fail(r) \/ DrainDrop(r)
  <2>1. /\ pc[r] \in {"acquired", "exec", "drain", "save"} /\ Release(r, cached)
        /\ clock' = clock + 1 /\ last_used' = last_used
        /\ Taint(context[r]) \/ tainted' = tainted
    BY <1>5 DEF Fail, DrainDrop
  <2>2. {c.built_by : c \in context[r]} \subseteq Requests
    BY SMT, <1>0 DEF TypeOK, Contexts
  <2>3. tainted' \subseteq Requests
    BY <2>1, <2>2, <1>0 DEF TypeOK, Taint
  <2>4. \A i \in isolates : \A c \in cached[i] : request[c.built_by].owner = owner[i]
    BY DEF IInv, OwnerIsolation
  <2>5. cached \in [Ids -> SUBSET Contexts] /\ last_used' \in [Ids -> Nat] /\ clock' \in Nat
    BY SMT, <2>1, <1>0 DEF TypeOK
  <2> QED
    BY <2>1, <2>3, <2>4, <2>5, ReleaseKeeps
<1>6. CASE DrainKeep(r)
  <2> DEFINE run == {[c EXCEPT !.last_used = clock + 1] : c \in context[r]}
  <2>1. /\ pc[r] = "drain" /\ pc' = [pc EXCEPT ![r] = "save"]
        /\ context' = [context EXCEPT ![r] = run] /\ clock' = clock + 1
        /\ UNCHANGED <<isolates, owner, active, last_used, cached, next_id,
                       slot, request, tainted>>
    BY <1>6, <1>0 DEF DrainKeep, TypeOK
  <2>2. pc' \in [Requests -> PCs] /\ pc'[r] = "save"
        /\ \A q \in Requests : q # r => pc'[q] = pc[q]
    BY <2>1, <1>0 DEF TypeOK, PCs
  <2>3. slot[r] # NoIsolate
    BY <2>1, OnOwnIsolate
  <2>4. run \subseteq Contexts
        /\ \A c \in run : request[c.built_by].owner = request[r].owner
    <3>1. context[r] \subseteq Contexts /\ clock \in Nat
          /\ \A c \in context[r] : request[c.built_by].owner = request[r].owner
      BY <2>3, <1>0 DEF IInv, OwnerIsolation, TypeOK
    <3> QED
      BY SMT, <3>1 DEF Contexts
  <2>5. context'[r] = run /\ context' \in [Requests -> SUBSET Contexts]
        /\ \A q \in Requests : q # r => context'[q] = context[q]
    BY <2>1, <2>4, <1>0 DEF TypeOK
  <2>6. \A i \in isolates : \A c \in cached'[i] : request[c.built_by].owner = owner[i]
    BY <2>1 DEF IInv, OwnerIsolation
  <2>7. /\ cached' \in [Ids -> SUBSET Contexts]
        /\ last_used' \in [Ids -> Nat] /\ clock' \in Nat /\ tainted' \subseteq Requests
    BY SMT, <2>1, <1>0 DEF TypeOK
  <2> QED
    BY <2>1, <2>2, <2>3, <2>4, <2>5, <2>6, <2>7, RunKeeps
<1>7. CASE Save(r)
  <2>1. PICK evicted \in CacheEvict(cached[slot[r]]) :
           Release(r, [cached EXCEPT ![slot[r]] = (@ \ evicted) \cup Stamped(r)])
    BY <1>7 DEF Save
  <2> DEFINE caches == [cached EXCEPT ![slot[r]] = (cached[slot[r]] \ evicted) \cup Stamped(r)]
  <2>2. pc[r] = "save" /\ clock' = clock + 1 /\ last_used' = last_used /\ tainted' = tainted
    BY <1>7 DEF Save
  <2>3. slot[r] # NoIsolate /\ slot[r] \in Ids /\ owner[slot[r]] = request[r].owner
    BY <2>2, OnOwnIsolate
  <2>4. Stamped(r) \subseteq Contexts
        /\ \A c \in Stamped(r) : request[c.built_by].owner = request[r].owner
    <3>1. context[r] \subseteq Contexts /\ clock \in Nat
          /\ \A c \in context[r] : request[c.built_by].owner = request[r].owner
      BY <2>3, <1>0 DEF IInv, OwnerIsolation, TypeOK
    <3> QED
      BY SMT, <3>1 DEF Contexts, Stamped
  <2>5. caches \in [Ids -> SUBSET Contexts]
    BY <2>3, <2>4, <1>0 DEF TypeOK
  <2>6. \A i \in isolates : \A c \in caches[i] : request[c.built_by].owner = owner[i]
    BY <2>3, <2>4, <1>0 DEF IInv, OwnerIsolation, TypeOK
  <2>7. last_used' \in [Ids -> Nat] /\ clock' \in Nat /\ tainted' \subseteq Requests
    BY SMT, <2>2, <1>0 DEF TypeOK
  <2>8. Release(r, caches)
    BY <2>1
  <2> QED
    BY <2>2, <2>5, <2>6, <2>7, <2>8, ReleaseKeeps
<1> QED
  BY <1>1, <1>2, <1>3, <1>4, <1>5, <1>6, <1>7 DEF Step

-----------------------------------------------------------------------------
(* The theorems on slots *)

\* A refused request leaves the pool as it was.
LEMMA RefuseKeeps ==
    ASSUME IInv, NEW r \in Requests, RefuseOwnerAtLimit(r) \/ RefusePoolFull(r)
    PROVE  IInv'
<1>1. /\ pc[r] = "arriving" /\ pc' = [pc EXCEPT ![r] = "refused"]
      /\ UNCHANGED <<isolates, owner, active, last_used, cached, next_id, slot,
                     request, context, clock, tainted>>
  BY DEF RefuseOwnerAtLimit, RefusePoolFull, MayBuild, Refuse
<1>2. TypeOK' /\ SlotPhase'
  BY <1>1 DEF IInv, TypeOK, SlotPhase, PCs
<1>3. FreshIds' /\ SlotsAccounted'
  BY <1>1 DEF IInv, FreshIds, SlotsAccounted, Holders
<1>4. PastCeilingAllBusy' /\ PerOwnerLimit' /\ OwnerIsolation'
  BY <1>1 DEF IInv, PastCeilingAllBusy, PerOwnerLimit, OwnerIsolation, Idle, is_free, Owned
<1> QED
  BY <1>2, <1>3, <1>4 DEF IInv

\* The empty pool satisfies the invariant.
LEMMA InitEstablishes == Init => IInv
<1> SUFFICES ASSUME Init PROVE IInv
  OBVIOUS
<1> USE LimitsAssumption
<1>1. TypeOK /\ SlotPhase
  BY SMT DEF Init, TypeOK, SlotPhase, PCs, NoIsolate
<1>2. \A i \in Ids : Holders(i) = {}
  BY DEF Init, Holders, NoIsolate
<1>3. FreshIds /\ SlotsAccounted
  <2>1. FreshIds
    BY <1>2, FS_EmptySet DEF Init, FreshIds
  <2>2. \A i \in Ids : active[i] = 0 /\ Cardinality(Holders(i)) = 0
    BY <1>2, FS_EmptySet DEF Init
  <2> QED
    BY SMT, <1>2, <2>1, <2>2 DEF SlotsAccounted
<1>4. PastCeilingAllBusy
  BY SMT, FS_EmptySet DEF Init, PastCeilingAllBusy
<1>5. PerOwnerLimit
  <2>1. \A o \in Owners : Owned(o) = {}
    BY DEF Init, Owned
  <2> QED
    BY SMT, <2>1, FS_EmptySet DEF PerOwnerLimit
<1>6. OwnerIsolation
  BY DEF Init, OwnerIsolation
<1> QED
  BY <1>1, <1>3, <1>4, <1>5, <1>6 DEF IInv

\* Every step, and stuttering, keeps the invariant.
LEMMA NextKeeps == IInv /\ [Next]_vars => IInv'
<1> SUFFICES ASSUME IInv, [Next]_vars PROVE IInv'
  OBVIOUS
<1>1. ASSUME NEW r \in Requests, Acquire(r) PROVE IInv'
  BY <1>1, ReuseKeeps, AcquireBuilds, RefuseKeeps DEF Acquire
<1>2. ASSUME NEW r \in Requests, Step(r) PROVE IInv'
  BY <1>2, StepKeeps
<1>3. CASE UNCHANGED vars
  <2>1. TypeOK' /\ SlotPhase'
    BY <1>3 DEF vars, IInv, TypeOK, SlotPhase
  <2>2. FreshIds' /\ SlotsAccounted'
    BY <1>3 DEF vars, IInv, FreshIds, SlotsAccounted, Holders
  <2>3. PastCeilingAllBusy' /\ PerOwnerLimit' /\ OwnerIsolation'
    BY <1>3 DEF vars, IInv, PastCeilingAllBusy, PerOwnerLimit, OwnerIsolation,
                Idle, is_free, Owned
  <2> QED
    BY <2>1, <2>2, <2>3 DEF IInv
<1> QED
  BY <1>1, <1>2, <1>3 DEF Next

\* The invariant holds in every state the pool reaches.
LEMMA Invariance == Spec => []IInv
  BY InitEstablishes, NextKeeps, PTL DEF Spec

\* The variables of the pool keep their types.
THEOREM TypeCorrect == Spec => []TypeOK
<1>1. IInv => TypeOK
  BY DEF IInv
<1> QED
  BY <1>1, Invariance, PTL

\* For any pool and any requests, ConcurrencyState.active counts the requests
\* between acquire and release, stays within max_concurrent, and no isolate is
\* evicted or reclaimed under a request.
THEOREM SlotSafety == Spec => []SlotsAccounted
<1>1. IInv => SlotsAccounted
  BY DEF IInv
<1> QED
  BY <1>1, Invariance, PTL

\* For any pool, past max_isolates every isolate is in use, and without
\* overcommit the pool never passes it.
THEOREM CeilingSafety == Spec => []PastCeilingAllBusy
<1>1. IInv => PastCeilingAllBusy
  BY DEF IInv
<1> QED
  BY <1>1, Invariance, PTL

\* For any pool, no owner ever has more than max_per_owner isolates.
THEOREM OwnerLimitSafety == Spec => []PerOwnerLimit
<1>1. IInv => PerOwnerLimit
  BY DEF IInv
<1> QED
  BY <1>1, Invariance, PTL

\* For any pool, no request runs on an isolate, or in a context, of another
\* owner.
THEOREM OwnersApart == Spec => []OwnerIsolation
<1>1. IInv => OwnerIsolation
  BY DEF IInv
<1> QED
  BY <1>1, Invariance, PTL

-----------------------------------------------------------------------------
(* Contexts *)

\* No two contexts, of caches or of requests, have one name.
OnePlace ==
    /\ \A i \in Ids : i \notin isolates => cached[i] = {}
    /\ \A r \in Requests : \A c, d \in context[r] : c = d
    /\ \A i, j \in Ids : \A c \in cached[i], d \in cached[j] : c.built_by = d.built_by => i = j /\ c = d
    /\ \A i \in Ids, r \in Requests : \A c \in cached[i], d \in context[r] : c.built_by # d.built_by
    /\ \A r, q \in Requests : \A c \in context[r], d \in context[q] : c.built_by = d.built_by => r = q

\* A request that has not started has built nothing.
Unbuilt ==
    \A r \in Requests : pc[r] \in {"arriving", "acquired"} =>
       /\ r \notin tainted
       /\ \A i \in Ids : \A c \in cached[i] : c.built_by # r
       /\ \A q \in Requests : \A c \in context[q] : c.built_by # r

\* A context that is cached, or about to be, may serve once more.
Servable ==
    /\ \A i \in Ids : \A c \in cached[i] : c.reuse_count < max_reuses /\ c.built_by \notin tainted
    /\ \A r \in Requests : pc[r] = "save" => \A c \in context[r] : c.reuse_count < max_reuses

CInv == OnePlace /\ Unbuilt /\ Servable /\ RunsInFitContext

-----------------------------------------------------------------------------
(* Contexts: the steps *)

\* A step after which contexts are where they were, or gone, keeps the invariant if no
\* context that is left is tainted by it.
LEMMA FewerContexts ==
    ASSUME CInv, request' = request,
           \A i \in Ids : i \notin isolates' => cached'[i] = {},
           \A i \in Ids : cached'[i] \subseteq cached[i],
           \A q \in Requests : context'[q] \subseteq context[q],
           \A q \in Requests : pc'[q] \in {"arriving", "acquired"} =>
              pc[q] \in {"arriving", "acquired"} /\ q \notin tainted',
           \A q \in Requests : pc'[q] = "save" => pc[q] = "save",
           \A i \in Ids : \A c \in cached'[i] : c.built_by \notin tainted',
           \A q \in Requests : \A c \in context'[q] : c.built_by \notin tainted'
    PROVE  CInv'
<1>1. OnePlace'
  BY SMT DEF CInv, OnePlace
<1>2. Unbuilt'
  BY SMT DEF CInv, Unbuilt
<1>3. Servable' /\ RunsInFitContext'
  BY DEF CInv, Servable, RunsInFitContext
<1> QED
  BY <1>1, <1>2, <1>3 DEF CInv

\* Before a request starts, the pool only drops caches.
LEMMA AcquireKeepsContexts ==
    ASSUME IInv, CInv, NEW r \in Requests, Acquire(r)
    PROVE  CInv'
<1>1. /\ pc[r] = "arriving" /\ pc'[r] \in {"acquired", "refused"}
      /\ \A q \in Requests : q # r => pc'[q] = pc[q]
      /\ UNCHANGED <<request, context, tainted>>
  BY DEF IInv, TypeOK, Acquire, AcquireReuse, AcquireBuild, AcquireEvict, AcquireOvercommit,
         MayBuild, Build, RefuseOwnerAtLimit, RefusePoolFull, Refuse
<1>2. \A i \in Ids : cached'[i] \subseteq cached[i] /\ (i \notin isolates' => cached'[i] = {})
  <2>1. CASE AcquireReuse(r) \/ RefuseOwnerAtLimit(r) \/ RefusePoolFull(r)
    BY <2>1 DEF AcquireReuse, RefuseOwnerAtLimit, RefusePoolFull, Refuse, CInv, OnePlace
  <2>2. ASSUME NEW pool, Build(r, pool)
        PROVE  \A i \in Ids : cached'[i] \subseteq cached[i] /\ (i \notin isolates' => cached'[i] = {})
    BY <2>2 DEF Build
  <2> QED
    BY <2>1, <2>2, Zenon DEF Acquire, AcquireBuild, AcquireEvict, AcquireOvercommit
<1>3. /\ \A i \in Ids : \A c \in cached'[i] : c.built_by \notin tainted'
      /\ \A q \in Requests : \A c \in context'[q] : c.built_by \notin tainted'
      /\ \A q \in Requests : pc'[q] \in {"arriving", "acquired"} =>
            pc[q] \in {"arriving", "acquired"} /\ q \notin tainted'
  BY <1>1, <1>2 DEF CInv, Servable, RunsInFitContext, Unbuilt
<1> QED
  BY <1>1, <1>2, <1>3, FewerContexts

\* release_to_local_pool drops the context of the request, and caches of `caches`.
LEMMA ReleaseDrops ==
    ASSUME IInv, NEW r \in Requests, NEW caches \in [Ids -> SUBSET Contexts], Release(r, caches),
           \A i \in Ids : i \notin isolates => caches[i] = {}
    PROVE  /\ \A i \in Ids : cached'[i] \subseteq caches[i] /\ (i \notin isolates' => cached'[i] = {})
           /\ context'[r] = {} /\ pc'[r] = "done" /\ request' = request
           /\ \A q \in Requests : q # r => context'[q] = context[q] /\ pc'[q] = pc[q]
<1>1. /\ \A i \in Ids : cached'[i] \subseteq caches[i] /\ (i \notin isolates' => cached'[i] = {})
  BY DEF Release
<1>2. /\ context'[r] = {} /\ pc'[r] = "done" /\ request' = request
      /\ \A q \in Requests : q # r => context'[q] = context[q] /\ pc'[q] = pc[q]
  BY DEF Release, IInv, TypeOK
<1> QED
  BY <1>1, <1>2

\* The lookup leaves less in the caches, and what it takes was in the cache of the
\* isolate of the request, alone under its name.
LEMMA LookupTakes ==
    ASSUME IInv, CInv, NEW r \in Requests, pc[r] = "acquired",
           NEW hit \in Hits(cached[slot[r]], request[r].key)
    PROVE  /\ slot[r] \in Ids /\ hit \subseteq cached[slot[r]] /\ hit \subseteq Contexts
           /\ \A c, d \in hit : c = d
           /\ \A c \in hit : WarmHit(c, request[r].key)
           /\ \A i \in Ids : Kept(r, hit)[i] \subseteq cached[i]
           /\ \A i \in Ids : \A c \in Kept(r, hit)[i], d \in hit : c.built_by # d.built_by
           /\ Kept(r, hit) \in [Ids -> SUBSET Contexts]
           /\ \A i \in Ids : i \notin isolates => Kept(r, hit)[i] = {}
<1>1. slot[r] \in Ids
  BY OnOwnIsolate
<1>2. hit \subseteq cached[slot[r]] /\ (\A c, d \in hit : c = d) /\ \A c \in hit : WarmHit(c, request[r].key)
  BY DEF Hits
<1>3. cached \in [Ids -> SUBSET Contexts]
  BY DEF IInv, TypeOK
<1>4. \A i \in Ids : Kept(r, hit)[i] \subseteq cached[i] /\ (i = slot[r] => Kept(r, hit)[i] \subseteq cached[i] \ hit)
  BY <1>1, <1>3 DEF Kept
<1>5. \A i \in Ids : \A c \in Kept(r, hit)[i], d \in hit : c.built_by # d.built_by
  BY SMT, <1>1, <1>2, <1>4 DEF CInv, OnePlace
<1>6. \A i \in Ids : i \notin isolates => Kept(r, hit)[i] = {}
  BY <1>4 DEF CInv, OnePlace
<1> QED
  BY <1>1, <1>2, <1>3, <1>4, <1>5, <1>6, LookupKeepsOwners

\* A step that changes the contexts of one request only.
Runs(r) ==
    /\ request' = request /\ isolates' = isolates
    /\ \A q \in Requests : q # r => context'[q] = context[q] /\ pc'[q] = pc[q]
    /\ pc'[r] \notin {"arriving", "acquired"}

\* The context of a request is another, alone under its name: of a cache that no longer
\* has it, of its own, or a new one.
LEMMA ContextMoves ==
    ASSUME IInv, CInv, NEW r \in Requests, Runs(r), NEW b \in Requests,
           \A i \in Ids : cached'[i] \subseteq cached[i],
           \A c, d \in context'[r] : c = d,
           \A c \in context'[r] : c.built_by = b,
           \A i \in Ids : \A c \in cached'[i] : c.built_by # b,
           \A q \in Requests : q # r => \A c \in context[q] : c.built_by # b,
           \A q \in Requests : q # r /\ pc[q] \in {"arriving", "acquired"} => q # b
    PROVE  /\ OnePlace'
           /\ \A q \in Requests : pc'[q] \in {"arriving", "acquired"} =>
                 /\ \A i \in Ids : \A c \in cached'[i] : c.built_by # q
                 /\ \A p \in Requests : \A c \in context'[p] : c.built_by # q
<1>1. \A i \in Ids : i \notin isolates' => cached'[i] = {}
  BY DEF Runs, CInv, OnePlace
<1>2. \A q \in Requests : \A c, d \in context'[q] : c = d
  BY SMT DEF Runs, CInv, OnePlace
<1>3. \A i, j \in Ids : \A c \in cached'[i], d \in cached'[j] : c.built_by = d.built_by => i = j /\ c = d
  BY SMT DEF CInv, OnePlace
<1>4. ASSUME NEW i \in Ids, NEW q \in Requests, NEW c \in cached'[i], NEW d \in context'[q]
      PROVE  c.built_by # d.built_by
  <2>1. CASE q = r
    BY <2>1
  <2>2. CASE q # r
    BY SMT, <2>2 DEF Runs, CInv, OnePlace
  <2> QED
    BY <2>1, <2>2
<1>5. ASSUME NEW p \in Requests, NEW q \in Requests, NEW c \in context'[p], NEW d \in context'[q],
             c.built_by = d.built_by
      PROVE  p = q
  <2>1. CASE p = r /\ q # r
    BY <1>5, <2>1 DEF Runs
  <2>2. CASE p # r /\ q = r
    BY <1>5, <2>2 DEF Runs
  <2>3. CASE p # r /\ q # r
    BY <1>5, <2>3 DEF Runs, CInv, OnePlace
  <2> QED
    BY <2>1, <2>2, <2>3
<1>6. OnePlace'
  BY <1>1, <1>2, <1>3, <1>4, <1>5 DEF OnePlace
<1>7. ASSUME NEW q \in Requests, pc'[q] \in {"arriving", "acquired"}
      PROVE  /\ \A i \in Ids : \A c \in cached'[i] : c.built_by # q
             /\ \A p \in Requests : \A c \in context'[p] : c.built_by # q
  <2>1. q # r /\ pc[q] \in {"arriving", "acquired"}
    BY <1>7 DEF Runs
  <2>2. \A i \in Ids : \A c \in cached'[i] : c.built_by # q
    BY <2>1 DEF CInv, Unbuilt
  <2>3. \A p \in Requests : p # r => \A c \in context'[p] : c.built_by # q
    BY SMT, <2>1 DEF Runs, CInv, Unbuilt
  <2>4. \A c \in context'[r] : c.built_by # q
    BY <2>1
  <2> QED
    BY <2>2, <2>3, <2>4
<1> QED
  BY <1>6, <1>7

\* reset() succeeded: the hit moves from the cache to the request, and serves once more.
LEMMA WarmKeepsContexts ==
    ASSUME IInv, CInv, NEW r \in Requests, StartWarm(r)
    PROVE  CInv'
<1>1. PICK hit \in Hits(cached[slot[r]], request[r].key) :
         /\ hit # {} /\ cached' = Kept(r, hit)
         /\ context' = [context EXCEPT ![r] = {[c EXCEPT !.reuse_count = @ + 1] : c \in hit}]
  BY Zenon DEF StartWarm
<1>2. /\ slot[r] \in Ids /\ hit \subseteq cached[slot[r]] /\ hit \subseteq Contexts
      /\ \A c, d \in hit : c = d
      /\ \A c \in hit : WarmHit(c, request[r].key)
      /\ \A i \in Ids : cached'[i] \subseteq cached[i]
      /\ \A i \in Ids : \A c \in cached'[i], d \in hit : c.built_by # d.built_by
  BY SMT, <1>1, LookupTakes DEF StartWarm
<1>3. PICK h \in hit : TRUE
  BY <1>1
<1>4. h \in cached[slot[r]] /\ h \in Contexts /\ hit = {h} /\ h.built_by \in Requests /\ h.reuse_count \in Nat
  BY <1>2, <1>3 DEF Contexts
<1> DEFINE run == [h EXCEPT !.reuse_count = h.reuse_count + 1]
<1>5. /\ context'[r] = {run} /\ \A q \in Requests : q # r => context'[q] = context[q]
      /\ run.built_by = h.built_by /\ run.key = h.key /\ run.reuse_count = h.reuse_count + 1
  <2>1. context'[r] = {[c EXCEPT !.reuse_count = @ + 1] : c \in hit}
        /\ \A q \in Requests : q # r => context'[q] = context[q]
    BY <1>1 DEF IInv, TypeOK
  <2> QED
    BY <1>4, <2>1 DEF Contexts
<1> HIDE DEF run
<1>6. Runs(r) /\ tainted' = tainted /\ pc'[r] = "exec"
  BY <1>5 DEF StartWarm, Runs, IInv, TypeOK
<1>7. /\ \A q \in Requests : \A c \in context[q] : c.built_by # h.built_by
      /\ \A q \in Requests : pc[q] \in {"arriving", "acquired"} => q # h.built_by
  BY SMT, <1>2, <1>4 DEF CInv, OnePlace, Unbuilt
<1>8. /\ OnePlace'
      /\ \A q \in Requests : pc'[q] \in {"arriving", "acquired"} =>
            /\ \A i \in Ids : \A c \in cached'[i] : c.built_by # q
            /\ \A p \in Requests : \A c \in context'[p] : c.built_by # q
  <2>1. \A c \in context'[r] : c.built_by = h.built_by
    BY <1>5
  <2>2. \A c, d \in context'[r] : c = d
    BY <1>5
  <2>3. \A i \in Ids : \A c \in cached'[i] : c.built_by # h.built_by
    BY <1>2, <1>4
  <2> QED
    BY SMT, <1>2, <1>4, <1>6, <1>7, <2>1, <2>2, <2>3, ContextMoves
<1>9. Unbuilt'
  <2>1. \A q \in Requests : pc'[q] \in {"arriving", "acquired"} => q \notin tainted
    BY <1>6 DEF Runs, CInv, Unbuilt
  <2> QED
    BY <1>6, <1>8, <2>1 DEF Unbuilt
<1>10. Servable'
  <2>1. \A q \in Requests : pc'[q] = "save" => q # r /\ pc[q] = "save" /\ context'[q] = context[q]
    BY <1>6 DEF Runs
  <2> QED
    BY <1>2, <1>6, <2>1 DEF CInv, Servable
<1>11. RunsInFitContext'
  <2>1. run.key = request[r].key /\ run.reuse_count <= max_reuses /\ run.built_by \notin tainted
    <3>1. h.key = request[r].key /\ h.reuse_count < max_reuses
      BY <1>2, <1>4 DEF WarmHit
    <3>2. h.built_by \notin tainted
      BY <1>2, <1>4 DEF CInv, Servable
    <3> QED
      BY SMT, <1>4, <1>5, <3>1, <3>2, LimitsAssumption
  <2>2. ASSUME NEW q \in Requests, NEW c \in context'[q]
        PROVE  /\ c.key = request'[q].key /\ (c.reuse_count <= max_reuses \/ c.built_by = q)
               /\ c.built_by \notin tainted'
    <3>1. CASE q = r
      BY <1>5, <1>6, <2>1, <3>1 DEF Runs
    <3>2. CASE q # r
      BY <1>5, <1>6, <3>2 DEF Runs, CInv, RunsInFitContext
    <3> QED
      BY <3>1, <3>2
  <2> QED
    BY <2>2 DEF RunsInFitContext
<1> QED
  BY <1>8, <1>9, <1>10, <1>11 DEF CInv

\* A new context has the name of its request; a hit that failed to reset is gone.
LEMMA ColdKeepsContexts ==
    ASSUME IInv, CInv, NEW r \in Requests, StartCold(r)
    PROVE  CInv'
<1>1. PICK hit \in Hits(cached[slot[r]], request[r].key) : cached' = Kept(r, hit) /\ Taint(hit)
  BY DEF StartCold
<1>2. /\ slot[r] \in Ids /\ hit \subseteq cached[slot[r]]
      /\ \A i \in Ids : cached'[i] \subseteq cached[i]
      /\ \A i \in Ids : \A c \in cached'[i], d \in hit : c.built_by # d.built_by
  BY SMT, <1>1, LookupTakes DEF StartCold
<1> DEFINE new == [key |-> request[r].key, built_by |-> r, reuse_count |-> 1, last_used |-> 0]
<1>3. context'[r] = {new} /\ \A q \in Requests : q # r => context'[q] = context[q]
  BY DEF StartCold, IInv, TypeOK
<1>4. new.built_by = r /\ new.key = request[r].key
  OBVIOUS
<1> HIDE DEF new
<1>5. Runs(r) /\ pc'[r] = "exec" /\ pc[r] = "acquired"
  BY <1>3 DEF StartCold, Runs, IInv, TypeOK
<1>6. /\ r \notin tainted
      /\ \A i \in Ids : \A c \in cached[i] : c.built_by # r
      /\ \A q \in Requests : \A c \in context[q] : c.built_by # r
  BY <1>5 DEF CInv, Unbuilt
<1>7. /\ OnePlace'
      /\ \A q \in Requests : pc'[q] \in {"arriving", "acquired"} =>
            /\ \A i \in Ids : \A c \in cached'[i] : c.built_by # q
            /\ \A p \in Requests : \A c \in context'[p] : c.built_by # q
  <2>1. (\A c \in context'[r] : c.built_by = r) /\ \A c, d \in context'[r] : c = d
    BY <1>3, <1>4
  <2>2. \A i \in Ids : \A c \in cached'[i] : c.built_by # r
    BY <1>2, <1>6
  <2> QED
    BY <1>2, <1>5, <1>6, <2>1, <2>2, ContextMoves
<1>8. \A b \in tainted' : b \in tainted \/ \E c \in hit : b = c.built_by
  BY <1>1 DEF Taint
<1>9. Unbuilt'
  <2>1. ASSUME NEW q \in Requests, pc'[q] \in {"arriving", "acquired"} PROVE q \notin tainted'
    <3>1. pc[q] \in {"arriving", "acquired"}
      BY <1>5, <2>1 DEF Runs
    <3>2. q \notin tainted /\ \A c \in hit : c.built_by # q
      BY <1>2, <3>1 DEF CInv, Unbuilt
    <3> QED
      BY <1>8, <3>2
  <2> QED
    BY <1>7, <2>1 DEF Unbuilt
<1>10. Servable'
  <2>1. \A q \in Requests : pc'[q] = "save" => q # r /\ pc[q] = "save" /\ context'[q] = context[q]
    BY <1>5 DEF Runs
  <2>2. \A i \in Ids : \A c \in cached'[i] : c.built_by \notin tainted'
    BY SMT, <1>2, <1>8 DEF CInv, Servable
  <2> QED
    BY <1>2, <2>1, <2>2 DEF CInv, Servable
<1>11. RunsInFitContext'
  <2>1. ASSUME NEW q \in Requests, NEW c \in context'[q]
        PROVE  /\ c.key = request'[q].key /\ (c.reuse_count <= max_reuses \/ c.built_by = q)
               /\ c.built_by \notin tainted'
    <3>1. CASE q = r
      <4>1. c = new /\ request' = request
        BY <1>3, <1>5, <3>1 DEF Runs
      <4>2. r \notin tainted'
        BY <1>2, <1>6, <1>8
      <4> QED
        BY <1>4, <3>1, <4>1, <4>2
    <3>2. CASE q # r
      <4>1. c \in context[q] /\ request' = request
        BY <1>3, <1>5, <3>2 DEF Runs
      <4>2. \A d \in hit : d.built_by # c.built_by
        BY SMT, <1>2, <4>1 DEF CInv, OnePlace
      <4> QED
        BY <1>8, <4>1, <4>2 DEF CInv, RunsInFitContext
    <3> QED
      BY <3>1, <3>2
  <2> QED
    BY <2>1 DEF RunsInFitContext
<1> QED
  BY <1>7, <1>9, <1>10, <1>11 DEF CInv

\* A request that ends without keeping its context drops it, with what a failed reset() or
\* its own failure tainted.
LEMMA EndKeepsContexts ==
    ASSUME IInv, CInv, NEW r \in Requests, StartFails(r) \/ Fail(r) \/ DrainDrop(r)
    PROVE  CInv'
<1>1. ASSUME NEW caches \in [Ids -> SUBSET Contexts], Release(r, caches), NEW failed,
             \A i \in Ids : caches[i] \subseteq cached[i],
             \A b \in tainted' : b \in tainted \/ \E c \in failed : b = c.built_by,
             \A i \in Ids : \A c \in caches[i], d \in failed : c.built_by # d.built_by,
             \A q \in Requests : q # r => \A c \in context[q], d \in failed : c.built_by # d.built_by,
             \A q \in Requests : q # r /\ pc[q] \in {"arriving", "acquired"} =>
                \A d \in failed : d.built_by # q
      PROVE  CInv'
  <2>1. \A i \in Ids : i \notin isolates => caches[i] = {}
    BY <1>1 DEF CInv, OnePlace
  <2>2. /\ \A i \in Ids : cached'[i] \subseteq caches[i] /\ (i \notin isolates' => cached'[i] = {})
        /\ context'[r] = {} /\ pc'[r] = "done" /\ request' = request
        /\ \A q \in Requests : q # r => context'[q] = context[q] /\ pc'[q] = pc[q]
    BY SMT, <1>1, <2>1, ReleaseDrops
  <2>3. \A i \in Ids : \A c \in cached'[i] : c.built_by \notin tainted'
    <3>1. \A i \in Ids : \A c \in caches[i] : c.built_by \notin tainted
      BY <1>1 DEF CInv, Servable
    <3> QED
      BY SMT, <1>1, <2>2, <3>1
  <2>4. \A q \in Requests : \A c \in context'[q] : c.built_by \notin tainted'
    BY SMT, <1>1, <2>2 DEF CInv, RunsInFitContext
  <2>5. \A q \in Requests : pc'[q] \in {"arriving", "acquired"} =>
           pc[q] \in {"arriving", "acquired"} /\ q \notin tainted'
    BY SMT, <1>1, <2>2 DEF CInv, Unbuilt
  <2>6. /\ \A i \in Ids : cached'[i] \subseteq cached[i]
        /\ \A q \in Requests : context'[q] \subseteq context[q]
        /\ \A q \in Requests : pc'[q] = "save" => pc[q] = "save"
    BY <1>1, <2>2
  <2> QED
    BY <2>2, <2>3, <2>4, <2>5, <2>6, FewerContexts
<1>2. cached \in [Ids -> SUBSET Contexts]
  BY DEF IInv, TypeOK
<1>3. CASE StartFails(r)
  <2>1. PICK hit \in Hits(cached[slot[r]], request[r].key) : Release(r, Kept(r, hit)) /\ Taint(hit)
    BY <1>3, Zenon DEF StartFails
  <2>2. /\ slot[r] \in Ids /\ hit \subseteq cached[slot[r]]
        /\ \A i \in Ids : Kept(r, hit)[i] \subseteq cached[i]
        /\ \A i \in Ids : \A c \in Kept(r, hit)[i], d \in hit : c.built_by # d.built_by
        /\ Kept(r, hit) \in [Ids -> SUBSET Contexts]
    BY <1>3, LookupTakes DEF StartFails
  <2>3. \A b \in tainted' : b \in tainted \/ \E c \in hit : b = c.built_by
    BY <2>1 DEF Taint
  <2>4. \A q \in Requests : q # r => \A c \in context[q], d \in hit : c.built_by # d.built_by
    <3>1. \A q \in Requests : \A c \in context[q], d \in cached[slot[r]] : c.built_by # d.built_by
      BY SMT, <2>2 DEF CInv, OnePlace
    <3> QED
      BY <2>2, <3>1
  <2>5. \A q \in Requests : q # r /\ pc[q] \in {"arriving", "acquired"} => \A d \in hit : d.built_by # q
    BY <2>2 DEF CInv, Unbuilt
  <2> QED
    BY <1>1, <2>1, <2>2, <2>3, <2>4, <2>5
<1>4. CASE Fail(r)
  <2>1. Release(r, cached) /\ \A b \in tainted' : b \in tainted \/ \E c \in context[r] : b = c.built_by
    BY <1>4 DEF Fail, Taint
  <2>2. /\ \A i \in Ids : \A c \in cached[i], d \in context[r] : c.built_by # d.built_by
        /\ \A q \in Requests : q # r => \A c \in context[q], d \in context[r] : c.built_by # d.built_by
    BY DEF CInv, OnePlace
  <2>3. \A q \in Requests : q # r /\ pc[q] \in {"arriving", "acquired"} =>
           \A d \in context[r] : d.built_by # q
    BY DEF CInv, Unbuilt
  <2> QED
    BY <1>1, <1>2, <2>1, <2>2, <2>3
<1>5. CASE DrainDrop(r)
  <2> DEFINE none == {}
  <2>1. none = {}
    OBVIOUS
  <2> HIDE DEF none
  <2>2. Release(r, cached) /\ \A b \in tainted' : b \in tainted \/ \E c \in none : b = c.built_by
    BY <1>5 DEF DrainDrop
  <2>3. /\ \A i \in Ids : \A c \in cached[i], d \in none : c.built_by # d.built_by
        /\ \A q \in Requests : q # r => \A c \in context[q], d \in none : c.built_by # d.built_by
        /\ \A q \in Requests : q # r /\ pc[q] \in {"arriving", "acquired"} => \A d \in none : d.built_by # q
    BY <2>1
  <2> QED
    BY <1>1, <1>2, <2>2, <2>3
<1> QED
  BY <1>3, <1>4, <1>5

\* exec returned Ok: the request stays in its context.
LEMMA OkKeepsContexts ==
    ASSUME IInv, CInv, NEW r \in Requests, ExecOk(r)
    PROVE  CInv'
<1>1. /\ UNCHANGED <<isolates, cached, request, context, tainted>> /\ pc'[r] = "drain"
      /\ \A q \in Requests : q # r => pc'[q] = pc[q]
  BY DEF ExecOk, IInv, TypeOK
<1>2. /\ \A i \in Ids : i \notin isolates' => cached'[i] = {}
      /\ \A i \in Ids : \A c \in cached'[i] : c.built_by \notin tainted'
      /\ \A q \in Requests : \A c \in context'[q] : c.built_by \notin tainted'
      /\ \A q \in Requests : pc'[q] \in {"arriving", "acquired"} =>
            pc[q] \in {"arriving", "acquired"} /\ q \notin tainted'
  BY <1>1 DEF CInv, OnePlace, Servable, RunsInFitContext, Unbuilt
<1> QED
  BY <1>1, <1>2, FewerContexts

\* keep_context said yes: the context is stamped, and may serve once more.
LEMMA StampKeepsContexts ==
    ASSUME IInv, CInv, NEW r \in Requests, DrainKeep(r)
    PROVE  CInv'
<1>1. /\ context'[r] = {[c EXCEPT !.last_used = clock + 1] : c \in context[r]}
      /\ context[r] \subseteq Contexts
      /\ \A c \in context[r] : c.reuse_count < max_reuses
      /\ \A q \in Requests : q # r => context'[q] = context[q]
  BY DEF DrainKeep, keep_context, IInv, TypeOK
<1>2. Runs(r) /\ cached' = cached /\ tainted' = tainted
  BY <1>1 DEF DrainKeep, Runs, IInv, TypeOK
<1>3. \A d \in context'[r] : \E c \in context[r] :
         /\ d = [c EXCEPT !.last_used = clock + 1]
         /\ d.built_by = c.built_by /\ d.key = c.key /\ d.reuse_count = c.reuse_count
  BY <1>1 DEF Contexts
<1>4. /\ OnePlace'
      /\ \A q \in Requests : pc'[q] \in {"arriving", "acquired"} =>
            /\ \A i \in Ids : \A c \in cached'[i] : c.built_by # q
            /\ \A p \in Requests : \A c \in context'[p] : c.built_by # q
  <2>1. PICK b \in Requests : \A c \in context[r] : c.built_by = b
    <3>1. CASE context[r] = {}
      BY <3>1
    <3>2. ASSUME NEW c \in context[r] PROVE c.built_by \in Requests /\ \A d \in context[r] : d.built_by = c.built_by
      BY <1>1 DEF Contexts, CInv, OnePlace
    <3> QED
      BY <3>1, <3>2
  <2>2. CASE context[r] = {}
    <3>1. context'[r] = {}
      BY <1>3, <2>2
    <3>2. Unbuilt' /\ OnePlace'
      BY SMT, <1>2, <3>1 DEF Runs, CInv, OnePlace, Unbuilt
    <3> QED
      BY <3>2 DEF Unbuilt
  <2>3. CASE context[r] # {}
    <3>1. PICK c \in context[r] : c.built_by = b
      BY <2>1, <2>3
    <3>2. /\ \A i \in Ids : \A d \in cached'[i] : d.built_by # b
          /\ \A q \in Requests : q # r => \A d \in context[q] : d.built_by # b
      BY SMT, <1>2, <3>1 DEF CInv, OnePlace
    <3>3. \A q \in Requests : q # r /\ pc[q] \in {"arriving", "acquired"} => q # b
      BY <3>1 DEF CInv, Unbuilt
    <3>4. (\A d \in context'[r] : d.built_by = b) /\ \A d, e \in context'[r] : d = e
      BY SMT, <1>3, <2>1 DEF CInv, OnePlace
    <3> QED
      BY SMT, <1>2, <3>2, <3>3, <3>4, ContextMoves
  <2> QED
    BY <2>2, <2>3
<1>5. Unbuilt'
  <2>1. \A q \in Requests : pc'[q] \in {"arriving", "acquired"} => q \notin tainted'
    BY <1>2 DEF Runs, CInv, Unbuilt
  <2> QED
    BY <1>4, <2>1 DEF Unbuilt
<1>6. Servable'
  <2>1. \A c \in context'[r] : c.reuse_count < max_reuses
    BY <1>1, <1>3
  <2>2. \A q \in Requests : q # r /\ pc'[q] = "save" => \A c \in context'[q] : c.reuse_count < max_reuses
    BY <1>2 DEF Runs, CInv, Servable
  <2> QED
    BY <1>2, <2>1, <2>2 DEF CInv, Servable
<1>7. RunsInFitContext'
  <2>1. \A c \in context'[r] : /\ c.key = request'[r].key /\ (c.reuse_count <= max_reuses \/ c.built_by = r)
                               /\ c.built_by \notin tainted'
    BY SMT, <1>2, <1>3 DEF Runs, CInv, RunsInFitContext
  <2>2. \A q \in Requests : q # r => \A c \in context'[q] :
           /\ c.key = request'[q].key /\ (c.reuse_count <= max_reuses \/ c.built_by = q)
           /\ c.built_by \notin tainted'
    BY <1>2 DEF Runs, CInv, RunsInFitContext
  <2> QED
    BY <2>1, <2>2 DEF RunsInFitContext
<1> QED
  BY <1>4, <1>5, <1>6, <1>7 DEF CInv

\* The context of a request goes to the cache of its isolate, alone under its name there.
LEMMA SaveKeepsContexts ==
    ASSUME IInv, CInv, NEW r \in Requests, Save(r)
    PROVE  CInv'
<1> DEFINE s == slot[r]
<1>1. PICK evicted \in CacheEvict(cached[s]) :
         Release(r, [cached EXCEPT ![s] = (@ \ evicted) \cup Stamped(r)])
  BY Zenon DEF Save
<1>2. s \in Ids /\ s \in isolates /\ pc[r] = "save" /\ tainted' = tainted
  BY OnOwnIsolate DEF Save
<1>3. \A d \in Stamped(r) : d \in Contexts /\ \E c \in context[r] :
         /\ d = IF c.built_by = r THEN c ELSE [c EXCEPT !.last_used = clock + 1]
         /\ d.built_by = c.built_by /\ d.reuse_count = c.reuse_count
  <2>1. context[r] \subseteq Contexts /\ clock + 1 \in Nat
    BY SMT DEF IInv, TypeOK
  <2> QED
    BY <2>1 DEF Stamped, Contexts
<1> DEFINE caches == [cached EXCEPT ![s] = (@ \ evicted) \cup Stamped(r)]
<1>4. /\ caches \in [Ids -> SUBSET Contexts]
      /\ \A i \in Ids : \A c \in caches[i] : c \in cached[i] \/ (i = s /\ c \in Stamped(r))
      /\ \A i \in Ids : i \notin isolates => caches[i] = {}
  <2>1. cached \in [Ids -> SUBSET Contexts] /\ Stamped(r) \subseteq Contexts
    BY <1>3 DEF IInv, TypeOK
  <2> HIDE DEF s
  <2>2. /\ caches \in [Ids -> SUBSET Contexts]
        /\ \A i \in Ids : i # s => caches[i] = cached[i]
        /\ caches[s] = (cached[s] \ evicted) \cup Stamped(r)
    BY <1>2, <2>1
  <2> QED
    BY <1>2, <2>2 DEF CInv, OnePlace
<1>5. Release(r, caches)
  BY <1>1
<1> HIDE DEF caches, s
<1>6. /\ \A i \in Ids : cached'[i] \subseteq caches[i] /\ (i \notin isolates' => cached'[i] = {})
      /\ context'[r] = {} /\ pc'[r] = "done" /\ request' = request
      /\ \A q \in Requests : q # r => context'[q] = context[q] /\ pc'[q] = pc[q]
  BY SMT, <1>4, <1>5, ReleaseDrops
<1>7. \A i \in Ids : \A c \in cached'[i] : c \in cached[i] \/ (i = s /\ c \in Stamped(r))
  BY <1>4, <1>6
<1>8. \A d \in Stamped(r) :
         /\ d.reuse_count < max_reuses /\ d.built_by \notin tainted
         /\ \A i \in Ids : \A c \in cached[i] : c.built_by # d.built_by
         /\ \A q \in Requests : q # r => \A c \in context[q] : c.built_by # d.built_by
         /\ \A q \in Requests : pc[q] \in {"arriving", "acquired"} => d.built_by # q
  <2>1. ASSUME NEW c \in context[r]
        PROVE  /\ c.reuse_count < max_reuses /\ c.built_by \notin tainted
               /\ \A i \in Ids : \A d \in cached[i] : d.built_by # c.built_by
               /\ \A q \in Requests : q # r => \A d \in context[q] : d.built_by # c.built_by
               /\ \A q \in Requests : pc[q] \in {"arriving", "acquired"} => c.built_by # q
    <3>1. c.reuse_count < max_reuses /\ c.built_by \notin tainted
      BY <1>2 DEF CInv, Servable, RunsInFitContext
    <3>2. /\ \A i \in Ids : \A d \in cached[i] : d.built_by # c.built_by
          /\ \A q \in Requests : q # r => \A d \in context[q] : d.built_by # c.built_by
      BY SMT DEF CInv, OnePlace
    <3>3. \A q \in Requests : pc[q] \in {"arriving", "acquired"} => c.built_by # q
      BY DEF CInv, Unbuilt
    <3> QED
      BY <3>1, <3>2, <3>3
  <2> QED
    BY SMT, <1>3, <2>1
<1>9. \A d, e \in Stamped(r) : d = e
  BY SMT, <1>3 DEF CInv, OnePlace
<1>10. OnePlace'
  <2>1. \A q \in Requests : \A c, d \in context'[q] : c = d
    BY SMT, <1>6 DEF CInv, OnePlace
  <2>2. ASSUME NEW i \in Ids, NEW j \in Ids, NEW c \in cached'[i], NEW d \in cached'[j], c.built_by = d.built_by
        PROVE  i = j /\ c = d
    <3>1. CASE c \in cached[i] /\ d \in cached[j]
      BY SMT, <2>2, <3>1 DEF CInv, OnePlace
    <3>2. CASE c \in Stamped(r) /\ i = s /\ d \in Stamped(r) /\ j = s
      BY <1>9, <3>2
    <3>3. ~(c \in cached[i] /\ d \in Stamped(r)) /\ ~(c \in Stamped(r) /\ d \in cached[j])
      BY <1>8, <2>2
    <3> QED
      BY <1>7, <3>1, <3>2, <3>3
  <2>3. \A i \in Ids, q \in Requests : \A c \in cached'[i], d \in context'[q] : c.built_by # d.built_by
    <3>1. SUFFICES ASSUME NEW i \in Ids, NEW q \in Requests, q # r, NEW c \in cached'[i], NEW d \in context[q]
                   PROVE  c.built_by # d.built_by
      BY SMT, <1>6
    <3>2. CASE c \in cached[i]
      BY SMT, <3>1, <3>2 DEF CInv, OnePlace
    <3>3. CASE c \in Stamped(r)
      BY <1>8, <3>1, <3>3
    <3> QED
      BY <1>7, <3>2, <3>3
  <2>4. \A p, q \in Requests : \A c \in context'[p], d \in context'[q] : c.built_by = d.built_by => p = q
    BY SMT, <1>6 DEF CInv, OnePlace
  <2> QED
    BY <1>6, <2>1, <2>2, <2>3, <2>4 DEF OnePlace
<1>11. Unbuilt'
  <2>1. SUFFICES ASSUME NEW q \in Requests, pc'[q] \in {"arriving", "acquired"}
                 PROVE  /\ q \notin tainted
                        /\ \A i \in Ids : \A c \in cached'[i] : c.built_by # q
                        /\ \A p \in Requests : \A c \in context'[p] : c.built_by # q
    BY <1>2 DEF Unbuilt
  <2>2. q # r /\ pc[q] \in {"arriving", "acquired"}
    BY <1>6, <2>1
  <2>3. \A i \in Ids : \A c \in cached'[i] : c.built_by # q
    BY <1>7, <1>8, <2>2 DEF CInv, Unbuilt
  <2>4. q \notin tainted /\ \A p \in Requests : \A c \in context'[p] : c.built_by # q
    BY SMT, <1>6, <2>2 DEF CInv, Unbuilt
  <2> QED
    BY <2>3, <2>4
<1>12. Servable' /\ RunsInFitContext'
  <2>1. \A i \in Ids : \A c \in cached'[i] : c.reuse_count < max_reuses /\ c.built_by \notin tainted
    BY <1>7, <1>8 DEF CInv, Servable
  <2>2. \A q \in Requests : pc'[q] = "save" => \A c \in context'[q] : c.reuse_count < max_reuses
    BY <1>6 DEF CInv, Servable
  <2>3. RunsInFitContext'
    BY <1>2, <1>6 DEF CInv, RunsInFitContext
  <2> QED
    BY <1>2, <2>1, <2>2, <2>3 DEF Servable
<1> QED
  BY <1>10, <1>11, <1>12 DEF CInv

-----------------------------------------------------------------------------
(* The theorems on contexts *)

\* Both inductive invariants hold in every state: acquire, the warm lookup and the
\* release keep slots and contexts in order.
LEMMA ContextsInvariant == Spec => [](IInv /\ CInv)
<1>1. Init => CInv
  BY DEF Init, CInv, OnePlace, Unbuilt, Servable, RunsInFitContext
<1>2. IInv /\ CInv /\ [Next]_vars => CInv'
  <2> SUFFICES ASSUME IInv, CInv, [Next]_vars PROVE CInv'
    OBVIOUS
  <2>1. ASSUME NEW r \in Requests, Acquire(r) PROVE CInv'
    BY <2>1, AcquireKeepsContexts
  <2>2. ASSUME NEW r \in Requests, Step(r) PROVE CInv'
    BY <2>2, WarmKeepsContexts, ColdKeepsContexts, EndKeepsContexts, OkKeepsContexts,
       StampKeepsContexts, SaveKeepsContexts DEF Step
  <2>3. CASE UNCHANGED vars
    BY SMT, <2>3 DEF vars, CInv, OnePlace, Unbuilt, Servable, RunsInFitContext
  <2> QED
    BY <2>1, <2>2, <2>3 DEF Next
<1> QED
  BY <1>1, <1>2, InitEstablishes, NextKeeps, PTL DEF Spec

\* For any pool and any requests, a context is in the cache of one isolate or in the hands
\* of one request: a warm hit leaves the cache it was found in, and a saved context the
\* request that ran in it, so two requests that interleave never run in one context.
THEOREM ContextsApart == Spec => []ContextExclusive
<1>1. ASSUME CInv PROVE ContextExclusive
  <2>1. \A r \in Requests : Cardinality(context[r]) <= 1
    <3>1. SUFFICES ASSUME NEW r \in Requests PROVE Cardinality(context[r]) <= 1
      OBVIOUS
    <3>2. CASE context[r] = {}
      BY SMT, <3>2, FS_EmptySet
    <3>3. CASE context[r] # {}
      <4>1. PICK c \in context[r] : TRUE
        BY <3>3
      <4>2. context[r] = {c}
        BY SMT, <1>1, <4>1 DEF CInv, OnePlace
      <4>3. Cardinality({c}) = 1
        BY FS_Singleton, Zenon
      <4> QED
        BY SMT, <4>2, <4>3
    <3> QED
      BY <3>2, <3>3
  <2>2. ASSUME NEW e \in (UNION {cached[i] : i \in Ids}) \cup (UNION {context[r] : r \in Requests})
        PROVE  (\E i \in Ids : e \in cached[i]) \/ \E r \in Requests : e \in context[r]
    <3>1. CASE e \in UNION {cached[i] : i \in Ids}
      BY <3>1
    <3>2. CASE e \in UNION {context[r] : r \in Requests}
      BY <3>2
    <3> QED
      BY <2>2, <3>1, <3>2
  <2>3. ASSUME NEW c \in (UNION {cached[i] : i \in Ids}) \cup (UNION {context[r] : r \in Requests}),
               NEW d \in (UNION {cached[i] : i \in Ids}) \cup (UNION {context[r] : r \in Requests}),
               c.built_by = d.built_by
        PROVE  /\ c = d
               /\ Cardinality({i \in Ids : c \in cached[i]})
                  + Cardinality({r \in Requests : c \in context[r]}) = 1
    <3>1. /\ (\E i \in Ids : c \in cached[i]) \/ \E r \in Requests : c \in context[r]
          /\ (\E i \in Ids : d \in cached[i]) \/ \E r \in Requests : d \in context[r]
      BY <2>2
    <3>2. c = d
      BY SMT, <1>1, <2>3, <3>1 DEF CInv, OnePlace
    <3>3. CASE \E i \in Ids : c \in cached[i]
      <4>1. PICK i \in Ids : c \in cached[i]
        BY <3>3
      <4>2. {j \in Ids : c \in cached[j]} = {i} /\ {r \in Requests : c \in context[r]} = {}
        BY SMT, <1>1, <4>1 DEF CInv, OnePlace
      <4>3. Cardinality({i}) = 1 /\ Cardinality({}) = 0
        BY FS_Singleton, FS_EmptySet, Zenon
      <4>4. /\ Cardinality({j \in Ids : c \in cached[j]}) = 1
            /\ Cardinality({q \in Requests : c \in context[q]}) = 0
        BY <4>2, <4>3, Zenon
      <4> QED
        BY SMT, <3>2, <4>4
    <3>4. CASE \E r \in Requests : c \in context[r]
      <4>1. PICK r \in Requests : c \in context[r]
        BY <3>4
      <4>2. {j \in Ids : c \in cached[j]} = {} /\ {q \in Requests : c \in context[q]} = {r}
        BY SMT, <1>1, <4>1 DEF CInv, OnePlace
      <4>3. Cardinality({r}) = 1 /\ Cardinality({}) = 0
        BY FS_Singleton, FS_EmptySet, Zenon
      <4>4. /\ Cardinality({j \in Ids : c \in cached[j]}) = 0
            /\ Cardinality({q \in Requests : c \in context[q]}) = 1
        BY <4>2, <4>3, Zenon
      <4> QED
        BY SMT, <3>2, <4>4
    <3> QED
      BY <3>1, <3>3, <3>4
  <2> QED
    BY <1>1, <2>1, <2>3, Zenon DEF ContextExclusive, CInv, OnePlace
<1> QED
  BY <1>1, ContextsInvariant, PTL

\* For any pool, limits and deployments, a request runs in a context of exactly the worker,
\* version and environment it asked for, within max_context_reuses, and never in one that
\* failed an exec, a drain or a reset before.
THEOREM FitContexts == Spec => []RunsInFitContext
<1>1. CInv => RunsInFitContext
  BY DEF CInv
<1> QED
  BY <1>1, ContextsInvariant, PTL

-----------------------------------------------------------------------------
(* Admission: counting *)

\* With at most k things on each shelf there are at most k times as many things as
\* shelves: number the things of a shelf; shelf and number tell any two apart.
LEMMA AtMost ==
    ASSUME NEW S, IsFiniteSet(S), NEW T, IsFiniteSet(T), NEW f \in [S -> T], NEW k \in Nat,
           \A t \in T : Cardinality({s \in S : f[s] = t}) <= k
    PROVE  Cardinality(S) <= Cardinality(T) * k
<1> DEFINE On(t) == {s \in S : f[s] = t}
           number == [t \in T |-> CHOOSE g : g \in Injection(On(t), 1..k)]
           place == [s \in S |-> <<f[s], number[f[s]][s]>>]
<1>1. ASSUME NEW t \in T PROVE number[t] \in Injection(On(t), 1..k)
  <2>1. IsFiniteSet(On(t)) /\ Cardinality(On(t)) \in Nat /\ Cardinality(On(t)) <= k
    BY FS_Subset, FS_CardinalityType
  <2>2. PICK b : b \in Bijection(1..Cardinality(On(t)), On(t))
    BY <2>1, FS_CardinalityType DEF ExistsBijection
  <2> DEFINE g == Inverse(b, 1..Cardinality(On(t)), On(t))
  <2>3. g \in Bijection(On(t), 1..Cardinality(On(t)))
    BY <2>2, Fun_BijInverse
  <2>4. 1..Cardinality(On(t)) \subseteq 1..k
    BY SMT, <2>1
  <2> HIDE DEF g
  <2>5. g \in Injection(On(t), 1..k)
    BY <2>3, <2>4 DEF Bijection, Injection, IsInjective
  <2> QED
    BY <2>5
<1> HIDE DEF number
<1>2. place \in [S -> T \X (1..k)]
  BY <1>1 DEF Injection
<1>3. ASSUME NEW a \in S, NEW b \in S, place[a] = place[b] PROVE a = b
  <2>1. f[a] = f[b] /\ number[f[a]][a] = number[f[a]][b] /\ f[a] \in T
    BY <1>3
  <2>2. a \in On(f[a]) /\ b \in On(f[a])
    BY <2>1
  <2> QED
    BY <2>1, <2>2, <1>1 DEF Injection, IsInjective
<1> HIDE DEF place
<1>4. place \in Injection(S, T \X (1..k))
  BY <1>2, <1>3 DEF Injection, IsInjective
<1>5. IsFiniteSet(1..k) /\ Cardinality(1..k) = k
  BY SMT, FS_Interval
<1>6. IsFiniteSet(T \X (1..k)) /\ Cardinality(T \X (1..k)) = Cardinality(T) * Cardinality(1..k)
  BY <1>5, FS_Product
<1> QED
  BY SMT, <1>4, <1>5, <1>6, FS_Injection

\* With at least k things on each shelf there are at least k times as many.
LEMMA AtLeast ==
    ASSUME NEW S, IsFiniteSet(S), NEW T, IsFiniteSet(T), NEW f \in [S -> T], NEW k \in Nat,
           \A t \in T : Cardinality({s \in S : f[s] = t}) >= k
    PROVE  Cardinality(T) * k <= Cardinality(S)
<1> DEFINE On(t) == {s \in S : f[s] = t}
           nth == [t \in T |-> CHOOSE g : g \in Injection(1..k, On(t))]
           thing == [p \in T \X (1..k) |-> nth[p[1]][p[2]]]
<1>1. ASSUME NEW t \in T PROVE nth[t] \in Injection(1..k, On(t))
  <2>1. IsFiniteSet(On(t)) /\ Cardinality(On(t)) \in Nat /\ Cardinality(On(t)) >= k
    BY FS_Subset, FS_CardinalityType
  <2>2. PICK b : b \in Bijection(1..Cardinality(On(t)), On(t))
    BY <2>1, FS_CardinalityType DEF ExistsBijection
  <2> DEFINE g == [n \in 1..k |-> b[n]]
  <2>3. 1..k \subseteq 1..Cardinality(On(t))
    BY SMT, <2>1
  <2>4. g \in Injection(1..k, On(t))
    BY <2>2, <2>3 DEF Bijection, Injection, IsInjective
  <2> QED
    BY <2>4
<1> HIDE DEF nth
<1>2. thing \in [T \X (1..k) -> S]
  BY <1>1 DEF Injection
<1>3. ASSUME NEW p \in T \X (1..k), NEW q \in T \X (1..k), thing[p] = thing[q] PROVE p = q
  <2>1. p[1] \in T /\ q[1] \in T /\ p[2] \in 1..k /\ q[2] \in 1..k
    OBVIOUS
  <2>2. nth[p[1]][p[2]] \in On(p[1]) /\ nth[q[1]][q[2]] \in On(q[1])
    BY <1>1, <2>1 DEF Injection
  <2>3. p[1] = q[1]
    BY <2>2, <1>3
  <2>4. p[2] = q[2]
    BY SMT, <2>1, <2>3, <1>1, <1>3 DEF Injection, IsInjective
  <2> QED
    BY SMT, <2>3, <2>4
<1> HIDE DEF thing
<1>4. thing \in Injection(T \X (1..k), S)
  BY <1>2, <1>3 DEF Injection, IsInjective
<1>5. IsFiniteSet(1..k) /\ Cardinality(1..k) = k
  BY SMT, FS_Interval
<1>6. IsFiniteSet(T \X (1..k)) /\ Cardinality(T \X (1..k)) = Cardinality(T) * Cardinality(1..k)
  BY <1>5, FS_Product
<1> QED
  BY SMT, <1>4, <1>5, <1>6, FS_Injection

\* A product grows with its first factor.
LEMMA TimesGrows ==
    ASSUME NEW a \in Nat, NEW b \in Nat, NEW k \in Nat, a <= b PROVE a * k <= b * k
<1>1. b * k = a * k + (b - a) * k /\ (b - a) \in Nat
  BY SMT
<1>2. (b - a) * k \in Nat /\ a * k \in Nat /\ b * k \in Nat
  BY SMT, <1>1
<1> QED
  BY SMT, <1>1, <1>2

-----------------------------------------------------------------------------
(* Admission: what it counts *)

Served == {r \in Requests : slot[r] # NoIsolate}

ServedOf(o) == {r \in Served : request[r].owner = o}

\* The requests that hold a slot are those that Admission counts as admitted.
LEMMA LoadIsServed ==
    IInv => A!Load = Cardinality(Served) /\ \A o : A!LoadOf(o) = Cardinality(ServedOf(o))
<1> SUFFICES ASSUME IInv
             PROVE  A!Load = Cardinality(Served) /\ \A o : A!LoadOf(o) = Cardinality(ServedOf(o))
  OBVIOUS
<1>0. ASSUME NEW S PROVE A!Cardinality(S) = Cardinality(S)
  BY DEF A!Cardinality, Cardinality
<1>1. ASSUME NEW r \in Requests
      PROVE  stages[r] = "admitted" <=> slot[r] # NoIsolate
  BY DEF IInv, TypeOK, SlotPhase, PCs, stages, StageAt
<1>2. {r \in Requests : stages[r] = "admitted"} = Served
  BY <1>1 DEF Served
<1>3. \A o : {r \in Requests : stages[r] = "admitted" /\ owners[r] = o} = ServedOf(o)
  BY <1>1 DEF Served, ServedOf, owners
<1>4. A!Load = Cardinality(Served)
  BY <1>0, <1>2 DEF A!Load
<1>5. ASSUME NEW o PROVE A!LoadOf(o) = Cardinality(ServedOf(o))
  BY <1>0, <1>3 DEF A!LoadOf
<1> QED
  BY <1>4, <1>5

\* A slot is of an isolate of the pool and of the owner, and no isolate has more than
\* max_concurrent: the requests with a slot are at most that many times the isolates.
ServedFits ==
    /\ Cardinality(Served) <= Cardinality(isolates) * max_concurrent
    /\ \A o : Cardinality(ServedOf(o)) <= Cardinality(Owned(o)) * max_concurrent

\* The invariant of the pool bounds the requests with a slot by the isolates.
LEMMA ServedWithin == IInv => ServedFits
<1> SUFFICES ASSUME IInv PROVE ServedFits
  OBVIOUS
<1>1. IsFiniteSet(Served) /\ \A o : IsFiniteSet(ServedOf(o))
  BY LimitsAssumption, FS_Subset DEF Served, ServedOf
<1>2. IsFiniteSet(isolates) /\ \A o : IsFiniteSet(Owned(o))
  BY FS_Subset DEF IInv, FreshIds, Owned
<1>3. ASSUME NEW r \in Served PROVE slot[r] \in isolates /\ owner[slot[r]] = request[r].owner
  BY DEF IInv, TypeOK, SlotsAccounted, Holders, OwnerIsolation, Served
<1>4. ASSUME NEW i \in isolates PROVE Cardinality(Holders(i)) <= max_concurrent
  BY DEF IInv, TypeOK, SlotsAccounted
<1>5. ASSUME NEW i \in isolates
      PROVE  {r \in Served : slot[r] = i} = Holders(i)
  BY LimitsAssumption DEF Served, Holders, IInv, TypeOK, NoIsolate
<1>6. Cardinality(Served) <= Cardinality(isolates) * max_concurrent
  <2> DEFINE f == [r \in Served |-> slot[r]]
  <2>1. f \in [Served -> isolates]
    BY <1>3
  <2>2. ASSUME NEW i \in isolates PROVE Cardinality({r \in Served : f[r] = i}) <= max_concurrent
    <3>1. {r \in Served : f[r] = i} = Holders(i)
      BY <1>5
    <3> QED
      BY <3>1, <1>4
  <2> HIDE DEF f
  <2> QED
    BY <1>1, <1>2, <2>1, <2>2, AtMost, LimitsAssumption
<1>7. ASSUME NEW o PROVE Cardinality(ServedOf(o)) <= Cardinality(Owned(o)) * max_concurrent
  <2> DEFINE f == [r \in ServedOf(o) |-> slot[r]]
  <2>1. f \in [ServedOf(o) -> Owned(o)]
    BY <1>3 DEF ServedOf, Owned
  <2>2. ASSUME NEW i \in Owned(o)
        PROVE  Cardinality({r \in ServedOf(o) : f[r] = i}) <= max_concurrent
    <3>1. {r \in ServedOf(o) : f[r] = i} = Holders(i)
      BY <1>3, <1>5 DEF Owned, ServedOf
    <3> QED
      BY <3>1, <1>4 DEF Owned
  <2> HIDE DEF f
  <2> QED
    BY <1>1, <1>2, <2>1, <2>2, AtMost, LimitsAssumption
<1> QED
  BY <1>6, <1>7 DEF ServedFits

\* Where no isolate of the owner has capacity, all of its slots are taken.
LEMMA ServedFull ==
    ASSUME IInv, NEW o, NoReuse(o)
    PROVE  Cardinality(Owned(o)) * max_concurrent <= Cardinality(ServedOf(o))
<1>1. IsFiniteSet(ServedOf(o)) /\ IsFiniteSet(Owned(o))
  BY LimitsAssumption, FS_Subset DEF Served, ServedOf, IInv, FreshIds, Owned
<1>2. ASSUME NEW r \in Served PROVE slot[r] \in isolates /\ owner[slot[r]] = request[r].owner
  BY DEF IInv, TypeOK, SlotsAccounted, Holders, OwnerIsolation, Served
<1> DEFINE f == [r \in ServedOf(o) |-> slot[r]]
<1>3. f \in [ServedOf(o) -> Owned(o)]
  BY <1>2 DEF ServedOf, Owned
<1>4. ASSUME NEW i \in Owned(o)
      PROVE  Cardinality({r \in ServedOf(o) : f[r] = i}) >= max_concurrent
  <2>1. {r \in ServedOf(o) : f[r] = i} = Holders(i)
    BY <1>2, LimitsAssumption DEF Owned, ServedOf, Served, Holders, IInv, TypeOK, NoIsolate
  <2>2. Cardinality(Holders(i)) >= max_concurrent
    BY SMT, LimitsAssumption DEF NoReuse, has_capacity, Owned, IInv, TypeOK, SlotsAccounted
  <2> QED
    BY <2>1, <2>2
<1> HIDE DEF f
<1> QED
  BY <1>1, <1>3, <1>4, AtLeast, LimitsAssumption

\* Where no isolate is idle, there are at least as many requests as isolates.
LEMMA ServedBusy ==
    ASSUME IInv, Idle = {} PROVE Cardinality(isolates) <= Cardinality(Served)
<1>1. IsFiniteSet(Served) /\ IsFiniteSet(isolates)
  BY LimitsAssumption, FS_Subset DEF Served, IInv, FreshIds
<1>2. ASSUME NEW i \in isolates PROVE \E r \in Served : slot[r] = i
  <2>1. Cardinality(Holders(i)) # 0
    BY DEF Idle, is_free, IInv, TypeOK, SlotsAccounted
  <2>2. Holders(i) # {}
    BY <2>1, FS_EmptySet
  <2> QED
    BY <2>2, LimitsAssumption DEF Holders, Served, IInv, TypeOK, NoIsolate
<1> DEFINE g == [i \in isolates |-> CHOOSE r \in Served : slot[r] = i]
<1>3. \A i \in isolates : g[i] \in Served /\ slot[g[i]] = i
  BY <1>2
<1>4. g \in Injection(isolates, Served)
  <2> g \in [isolates -> Served]
    BY <1>3
  <2> HIDE DEF g
  <2> QED
    BY SMT, <1>3 DEF Injection, IsInjective
<1> HIDE DEF g
<1> QED
  BY <1>1, <1>4, FS_Injection

-----------------------------------------------------------------------------
(* Admission: the steps *)

\* A request that takes a step takes that of its stage.
LEMMA StageMoves ==
    ASSUME IInv, NEW r \in Requests, NEW s, pc' = [pc EXCEPT ![r] = s]
    PROVE  stages' = [stages EXCEPT ![r] = StageAt(s)]
  BY DEF stages, IInv, TypeOK

\* A step that gives a request a slot is one that admits it: where it leads, the
\* invariant bounds the isolates, and the requests by them.
LEMMA AcquireAdmits ==
    ASSUME IInv, IInv', NEW r \in Requests, pc[r] = "arriving", request' = request,
           pc' = [pc EXCEPT ![r] = "acquired"], \E i \in Ids : slot' = [slot EXCEPT ![r] = i]
    PROVE  A!Admit(r)
<1> DEFINE o == request[r].owner
<1>1. slot[r] = NoIsolate /\ o \in Owners
  BY DEF IInv, TypeOK, SlotPhase
<1>2. Served' = Served \cup {r} /\ r \notin Served /\ ServedOf(o)' = ServedOf(o) \cup {r}
  BY SMT, <1>1, LimitsAssumption DEF Served, ServedOf, IInv, TypeOK, NoIsolate
<1>3. IsFiniteSet(Served) /\ IsFiniteSet(ServedOf(o)) /\ r \notin ServedOf(o)
  BY <1>2, LimitsAssumption, FS_Subset DEF Served, ServedOf
<1>4. /\ Cardinality(Served') = Cardinality(Served) + 1 /\ Cardinality(Served) \in Nat
      /\ Cardinality(ServedOf(o)') = Cardinality(ServedOf(o)) + 1
      /\ Cardinality(ServedOf(o)) \in Nat
  BY <1>2, <1>3, FS_AddElement, FS_CardinalityType
<1>5. /\ Cardinality(Served') <= Cardinality(isolates') * max_concurrent
      /\ Cardinality(ServedOf(o)') <= Cardinality(Owned(o)') * max_concurrent
  <2>1. IInv' => ServedFits'
    BY ServedWithin, PTL
  <2> QED
    BY <2>1 DEF ServedFits
<1>6. ~A!OwnerFull(o)
  <2> SUFFICES ASSUME max_per_owner # NoLimit
               PROVE  Cardinality(ServedOf(o)) < max_per_owner * max_concurrent
    BY SMT, <1>4, LoadIsServed, LimitsAssumption DEF A!OwnerFull
  <2>1. Cardinality(Owned(o)') <= max_per_owner /\ max_per_owner \in Nat
    BY <1>1, LimitsAssumption DEF IInv, PerOwnerLimit
  <2>2. Cardinality(Owned(o)') \in Nat
    BY FS_Subset, FS_CardinalityType DEF IInv, FreshIds, Owned
  <2>3. Cardinality(Owned(o)') * max_concurrent <= max_per_owner * max_concurrent
    BY <2>1, <2>2, TimesGrows, LimitsAssumption
  <2> QED
    BY SMT, <1>4, <1>5, <2>1, <2>2, <2>3, LimitsAssumption
<1>7. ~A!NoRoom
  <2> SUFFICES ASSUME ~overcommit
               PROVE  Cardinality(Served) < max_isolates * max_concurrent
    BY SMT, <1>4, LoadIsServed, LimitsAssumption DEF A!NoRoom
  <2>1. Cardinality(isolates') \in Nat
    BY FS_CardinalityType DEF IInv, FreshIds
  <2>2. Cardinality(isolates') <= max_isolates
    BY SMT, <2>1, LimitsAssumption DEF IInv, PastCeilingAllBusy
  <2>3. Cardinality(isolates') * max_concurrent <= max_isolates * max_concurrent
    BY <2>1, <2>2, TimesGrows, LimitsAssumption
  <2> QED
    BY SMT, <1>4, <1>5, <2>1, <2>2, <2>3, LimitsAssumption
<1>8. stages[r] = "waiting" /\ stages' = [stages EXCEPT ![r] = "admitted"]
  BY StageMoves DEF stages, StageAt
<1>9. owners' = owners /\ owners[r] = o
  BY DEF owners
<1> QED
  BY <1>6, <1>7, <1>8, <1>9 DEF A!Admit

\* A refusal is one that Admission allows.
LEMMA RefuseRefuses ==
    ASSUME IInv, NEW r \in Requests, RefuseOwnerAtLimit(r) \/ RefusePoolFull(r)
    PROVE  A!Refuse(r)
<1> DEFINE o == request[r].owner
<1>1. stages[r] = "waiting" /\ stages' = [stages EXCEPT ![r] = "refused"]
  <2>1. pc[r] = "arriving" /\ pc' = [pc EXCEPT ![r] = "refused"]
    BY DEF RefuseOwnerAtLimit, RefusePoolFull, MayBuild, Refuse
  <2> QED
    BY <2>1, StageMoves DEF stages, StageAt
<1>2. owners' = owners /\ owners[r] = o
  BY DEF owners, RefuseOwnerAtLimit, RefusePoolFull, Refuse
<1>3. /\ Cardinality(isolates) \in Nat /\ Cardinality(Owned(o)) \in Nat
      /\ Cardinality(Served) \in Nat /\ Cardinality(ServedOf(o)) \in Nat
  BY LimitsAssumption, FS_Subset, FS_CardinalityType DEF IInv, FreshIds, Owned, Served, ServedOf
<1>4. CASE RefuseOwnerAtLimit(r)
  <2>1. max_per_owner # NoLimit /\ Cardinality(Owned(o)) >= max_per_owner /\ NoReuse(o)
    BY <1>4 DEF RefuseOwnerAtLimit, OwnerAtLimit
  <2>2. max_per_owner * max_concurrent <= Cardinality(Owned(o)) * max_concurrent
    BY <2>1, <1>3, TimesGrows, LimitsAssumption
  <2>3. Cardinality(Owned(o)) * max_concurrent <= Cardinality(ServedOf(o))
    BY <2>1, ServedFull
  <2>4. A!LoadOf(o) >= max_per_owner * max_concurrent
    BY SMT, <1>3, <2>1, <2>2, <2>3, LoadIsServed, LimitsAssumption
  <2> QED
    BY <1>1, <1>2, <2>1, <2>4 DEF A!Refuse, A!OwnerFull
<1>5. CASE RefusePoolFull(r)
  <2>1. ~overcommit /\ Idle = {} /\ ~UnderCeiling
    BY <1>5 DEF RefusePoolFull
  <2>2. A!Load >= max_isolates
    BY SMT, <1>3, <2>1, ServedBusy, LoadIsServed, LimitsAssumption DEF UnderCeiling
  <2> QED
    BY <1>1, <1>2, <2>1, <2>2 DEF A!Refuse, A!MayAllBeBusy
<1> QED
  BY <1>4, <1>5

\* A step of the pool is one of Admission, or one that its callers do not see.
LEMMA StepImplements ==
    ASSUME IInv, IInv', [Next]_vars PROVE [A!Next]_<<stages, owners>>
<1>1. ASSUME NEW r \in Requests,
             AcquireReuse(r) \/ AcquireBuild(r) \/ AcquireEvict(r) \/ AcquireOvercommit(r)
      PROVE  A!Admit(r)
  <2>1. \E i \in Ids : slot' = [slot EXCEPT ![r] = i]
    BY <1>1 DEF AcquireReuse, AcquireBuild, AcquireEvict, AcquireOvercommit, Build, IInv, TypeOK
  <2>2. /\ pc[r] = "arriving" /\ pc' = [pc EXCEPT ![r] = "acquired"] /\ request' = request
    BY <1>1 DEF AcquireReuse, AcquireBuild, AcquireEvict, AcquireOvercommit, MayBuild, Build
  <2> QED
    BY <2>1, <2>2, AcquireAdmits
<1>2. ASSUME NEW r \in Requests, StartFails(r) \/ Fail(r) \/ DrainDrop(r) \/ Save(r)
      PROVE  A!Leave(r)
  <2>1. pc[r] \in {"acquired", "exec", "drain", "save"} /\ pc' = [pc EXCEPT ![r] = "done"]
        /\ request' = request
    BY <1>2 DEF StartFails, Fail, DrainDrop, Save, Release
  <2>2. stages[r] = "admitted" /\ stages' = [stages EXCEPT ![r] = "left"]
    BY <2>1, StageMoves DEF stages, StageAt
  <2> QED
    BY <2>1, <2>2 DEF A!Leave, owners
<1>3. ASSUME NEW r \in Requests, StartWarm(r) \/ StartCold(r) \/ ExecOk(r) \/ DrainKeep(r)
      PROVE  UNCHANGED <<stages, owners>>
  <2>1. /\ pc[r] \in {"acquired", "exec", "drain"} /\ request' = request
        /\ \E s \in {"exec", "drain", "save"} : pc' = [pc EXCEPT ![r] = s]
    BY <1>3 DEF StartWarm, StartCold, ExecOk, DrainKeep
  <2>2. PICK s \in {"exec", "drain", "save"} : pc' = [pc EXCEPT ![r] = s]
    BY <2>1
  <2>3. stages' = [stages EXCEPT ![r] = StageAt(s)] /\ StageAt(s) = StageAt(pc[r])
    BY <2>1, <2>2, StageMoves DEF StageAt
  <2>4. stages' = stages
    BY <2>3 DEF stages
  <2> QED
    BY <2>1, <2>4 DEF owners
<1>4. CASE UNCHANGED vars
  BY <1>4 DEF vars, stages, owners
<1> QED
  BY <1>1, <1>2, <1>3, <1>4, RefuseRefuses DEF Next, Acquire, Step, A!Next

\* For any pool, execute_pinned is admission control as Admission has it: acquire
\* admits a request only while slots are left for its owner and in the pool, refuses
\* one only when its owner has all of its slots or every isolate may be in use, and a
\* slot is given back once.
THEOREM PoolImplementsAdmission == Spec => A!Spec
<1>1. Init => A!Init
  BY DEF Init, A!Init, stages, StageAt, owners
<1>2. IInv /\ IInv' /\ [Next]_vars => [A!Next]_<<stages, owners>>
  BY StepImplements
<1> QED
  BY <1>1, <1>2, Invariance, PTL DEF Spec, A!Spec

=============================================================================
