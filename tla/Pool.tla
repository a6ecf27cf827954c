-------------------------------- MODULE Pool --------------------------------
(***************************************************************************)
(* The thread-local isolate pool (pool.rs) and its policy                  *)
(* (pool_policy.rs): the requests of one thread acquire a slot of an       *)
(* isolate of their owner, run in a warm or a cold context, hand the       *)
(* context back and release the slot.                                      *)
(*                                                                         *)
(* An action is what execute_pinned does between two awaits: everything    *)
(* runs on one thread, so nothing else touches the pool meanwhile.         *)
(*                                                                         *)
(* A definition named X_Variant is a plausible mistake in X, kept to show  *)
(* which property notices it; no specification uses one.                   *)
(***************************************************************************)
EXTENDS Integers, FiniteSets

CONSTANTS
    Requests,          \* calls of execute_pinned
    Owners,            \* owner_id
    NoOwner,           \* of an isolate not built yet
    Keys,              \* ContextKey: [worker_id, version, env_updated_at]
    Ids,               \* names for isolates, in the order they are built
    NoLimit,           \* max_per_owner = None
    max_isolates,      \* Limits, pool_policy.rs:21
    max_per_owner,
    overcommit,
    max_concurrent,    \* PinnedPoolConfig, pool_common.rs:7
    max_cached,
    max_reuses

\* A ContextKey. env_updated_at is 0 for None, otherwise a timestamp.
ASSUME KeysAssumption ==
    Keys \subseteq [worker_id : STRING, version : Int, env_updated_at : Nat]

\* init_pinned_pool asserts the second one; the requests are finitely many
\* because each is one call.
ASSUME LimitsAssumption ==
    /\ IsFiniteSet(Requests)
    /\ max_concurrent \in Nat \ {0}
    /\ max_isolates \in Nat
    /\ NoLimit \notin Nat
    /\ max_per_owner \in Nat \cup {NoLimit}
    /\ overcommit \in BOOLEAN
    /\ max_cached \in Nat
    /\ max_reuses \in Nat
    /\ Ids \subseteq Nat \ {0}
    /\ NoOwner \notin Owners

NoIsolate == 0

\* A context: the key it was built for, the request that built it (which
\* identifies it), how many requests it served, and when it was last used.
Contexts == [key : Keys, built_by : Requests, reuse_count : Nat, last_used : Nat]

VARIABLES
    isolates,      \* ThreadLocalPool.isolates: a Vec ordered by id, since push
                   \* appends the newest and remove keeps the order
    owner,         \* TaggedIsolate.owner_id
    active,        \* ConcurrencyState.active
    last_used,     \* TaggedIsolateInner.last_used
    cached,        \* TaggedIsolateInner.cached_contexts
    next_id,       \* the id of the next isolate built
    pc,            \* where each execute_pinned stands
    slot,          \* the isolate a request holds a slot of (isolate_arc)
    request,       \* the owner and the key of a request (PinnedExecuteRequest)
    context,       \* the context a request runs in, as a set of at most one
    clock,         \* Instant::now(): every reading is later than the one before
    tainted        \* history: contexts whose exec or drain_waituntil failed

vars == <<isolates, owner, active, last_used, cached, next_id, pc, slot,
          request, context, clock, tainted>>

PCs == {"arriving", "acquired", "exec", "drain", "save", "done", "refused"}

\* The requests that hold a slot of isolate i.
Holders(i) == {r \in Requests : slot[r] = i}

-----------------------------------------------------------------------------
(* pool_policy.rs: decisions over a snapshot of the pool. *)

has_capacity(i) == active[i] < max_concurrent

is_free(i) == active[i] = 0

Owned(o) == {i \in isolates : owner[i] = o}

\* idle_since is Some exactly for these: inner is never locked across an await,
\* so on the pool's own thread try_lock succeeds.
Idle == {i \in isolates : is_free(i)}

ReuseIndex_AnyOwner(o, i) ==
    /\ i \in isolates /\ has_capacity(i)
    /\ \A j \in isolates : has_capacity(j) => i <= j

\* position(): the first isolate of the owner with capacity.
ReuseIndex(o, i) ==
    /\ i \in Owned(o) /\ has_capacity(i)
    /\ \A j \in Owned(o) : has_capacity(j) => i <= j

NoReuse(o) == \A i \in Owned(o) : ~has_capacity(i)

OwnerAtLimit_OffByOne(o) ==
    max_per_owner # NoLimit /\ Cardinality(Owned(o)) > max_per_owner

OwnerAtLimit(o) ==
    max_per_owner # NoLimit /\ Cardinality(Owned(o)) >= max_per_owner

UnderCeiling_OffByOne == Cardinality(isolates) <= max_isolates

UnderCeiling == Cardinality(isolates) < max_isolates

LeastRecentlyUsed_Busy(i) ==
    i \in isolates /\ \A j \in isolates : last_used[i] <= last_used[j]

\* min_by_key over idle_since; the clock has no ties.
LeastRecentlyUsed(i) ==
    i \in Idle /\ \A j \in Idle : last_used[i] <= last_used[j]

Reclaim_OffByOne(pool, idle) ==
    {i \in idle : Cardinality({j \in idle : j < i}) + 1 < Cardinality(pool) - max_isolates}

\* reclaim: the first idle isolates in index order, as many as the excess.
Reclaim(pool, idle) ==
    {i \in idle : Cardinality({j \in idle : j < i}) < Cardinality(pool) - max_isolates}

WarmHit_AnyEnv(c, wanted) ==
    /\ c.key.worker_id = wanted.worker_id /\ c.key.version = wanted.version
    /\ c.reuse_count < max_reuses

\* The cached context matches and has not served max_reuses requests.
WarmHit(c, wanted) == c.key = wanted /\ c.reuse_count < max_reuses

\* The deployment of `cachedKey` is one that `wanted` replaces. With both
\* timestamps set the older is replaced; a mismatch of None and Some replaces.
Superseded(cachedKey, wanted) ==
    /\ cachedKey.worker_id = wanted.worker_id
    /\ \/ cachedKey.version < wanted.version
       \/ /\ cachedKey.version = wanted.version
          /\ IF cachedKey.env_updated_at # 0 /\ wanted.env_updated_at # 0
             THEN cachedKey.env_updated_at < wanted.env_updated_at
             ELSE cachedKey.env_updated_at # wanted.env_updated_at

keep_context(reuses) == max_cached > 0 /\ reuses < max_reuses

\* cache_evict: the least recently used one, only when the cache is full.
CacheEvict(cache) ==
    IF Cardinality(cache) < max_cached
    THEN {{}}
    ELSE {{c} : c \in {c \in cache : \A d \in cache : c.last_used <= d.last_used}}

-----------------------------------------------------------------------------
Init ==
    /\ isolates = {}
    /\ owner = [i \in Ids |-> NoOwner]
    /\ active = [i \in Ids |-> 0]
    /\ last_used = [i \in Ids |-> 0]
    /\ cached = [i \in Ids |-> {}]
    /\ next_id = 1
    /\ pc = [r \in Requests |-> "arriving"]
    /\ slot = [r \in Requests |-> NoIsolate]
    /\ request \in [Requests -> [owner : Owners, key : Keys]]
    /\ context = [r \in Requests |-> {}]
    /\ clock = 0
    /\ tainted = {}

(* acquire_from_local_pool: the request takes a slot or is refused. *)

\* ThreadLocalPool::build: a new isolate of the owner, its first slot taken,
\* pushed on `pool`, what eviction left of the isolates.
Build(r, pool) ==
    /\ next_id \in Ids
    /\ isolates' = pool \cup {next_id}
    /\ owner' = [owner EXCEPT ![next_id] = request[r].owner]
    /\ active' = [active EXCEPT ![next_id] = 1]
    /\ last_used' = [last_used EXCEPT ![next_id] = clock + 1]
    /\ cached' = [i \in Ids |-> IF i \in pool THEN cached[i] ELSE {}]
    /\ next_id' = next_id + 1
    /\ slot' = [slot EXCEPT ![r] = next_id]
    /\ pc' = [pc EXCEPT ![r] = "acquired"]
    /\ clock' = clock + 1
    /\ UNCHANGED <<request, context, tainted>>

AcquireReuse(r) ==
    /\ pc[r] = "arriving"
    /\ \E i \in isolates :
          /\ ReuseIndex(request[r].owner, i)
          /\ active' = [active EXCEPT ![i] = @ + 1]
          /\ slot' = [slot EXCEPT ![r] = i]
    /\ pc' = [pc EXCEPT ![r] = "acquired"]
    /\ UNCHANGED <<isolates, owner, last_used, cached, next_id, request,
                   context, clock, tainted>>

\* No isolate of the owner has capacity, and the owner may have one more.
MayBuild(r) ==
    /\ pc[r] = "arriving"
    /\ NoReuse(request[r].owner)
    /\ ~OwnerAtLimit(request[r].owner)

AcquireBuild(r) == MayBuild(r) /\ UnderCeiling /\ Build(r, isolates)

AcquireEvict(r) ==
    /\ MayBuild(r) /\ ~UnderCeiling
    /\ \E i \in isolates : LeastRecentlyUsed(i) /\ Build(r, isolates \ {i})

AcquireOvercommit(r) ==
    /\ MayBuild(r) /\ ~UnderCeiling /\ Idle = {} /\ overcommit
    /\ Build(r, isolates)

Refuse(r) ==
    /\ pc' = [pc EXCEPT ![r] = "refused"]
    /\ UNCHANGED <<isolates, owner, active, last_used, cached, next_id, slot,
                   request, context, clock, tainted>>

RefuseOwnerAtLimit(r) ==
    /\ pc[r] = "arriving"
    /\ NoReuse(request[r].owner) /\ OwnerAtLimit(request[r].owner)
    /\ Refuse(r)

RefusePoolFull(r) ==
    /\ MayBuild(r) /\ ~UnderCeiling /\ Idle = {} /\ ~overcommit
    /\ Refuse(r)

-----------------------------------------------------------------------------
(* execute_pinned, from the slot to its release. *)

\* ConcurrencyState::release.
Released(i) == [active EXCEPT ![i] = @ - 1]

\* release_to_local_pool: the slot is given back and the idle isolates past the
\* ceiling are dropped with their contexts. `caches` are the caches as the step
\* leaves them.
Release(r, caches) ==
    LET i       == slot[r]
        left    == Released(i)
        dropped == Reclaim(isolates, {j \in isolates : left[j] = 0})
    IN  /\ active' = left
        /\ isolates' = isolates \ dropped
        /\ cached' = [j \in Ids |-> IF j \in dropped THEN {} ELSE caches[j]]
        /\ slot' = [slot EXCEPT ![r] = NoIsolate]
        /\ context' = [context EXCEPT ![r] = {}]
        /\ pc' = [pc EXCEPT ![r] = "done"]
        /\ UNCHANGED <<owner, next_id, request>>

\* warm_hit: the context a request on `key` takes out of a cache, as a set. The
\* cache is a Vec that swap_remove shuffles: its first match is any match.
Hits(cache, key) ==
    LET hits == {c \in cache : WarmHit(c, key)}
    IN  IF hits = {} THEN {{}} ELSE {{c} : c \in hits}

Kept_HitStays(r, hit) ==
    [cached EXCEPT ![slot[r]] = {c \in @ : ~Superseded(c.key, request[r].key)}]

\* What the bookkeeping under inner leaves in the caches: the hit is taken, the
\* superseded contexts are dropped.
Kept(r, hit) ==
    [cached EXCEPT ![slot[r]] = {c \in @ \ hit : ~Superseded(c.key, request[r].key)}]

\* A context that failed is one no request may run in again.
Taint(cs) == tainted' = tainted \cup {c.built_by : c \in cs}

\* inner.last_used = Instant::now(), one more reading of the clock.
Touch(r) ==
    /\ last_used' = [last_used EXCEPT ![slot[r]] = clock + 1]
    /\ clock' = clock + 1

\* A warm hit whose reset() succeeds.
StartWarm(r) ==
    /\ pc[r] = "acquired"
    /\ \E hit \in Hits(cached[slot[r]], request[r].key) :
          /\ hit # {}
          /\ cached' = Kept(r, hit)
          /\ context' = [context EXCEPT ![r] =
                            {[c EXCEPT !.reuse_count = @ + 1] : c \in hit}]
    /\ pc' = [pc EXCEPT ![r] = "exec"]
    /\ Touch(r)
    /\ UNCHANGED <<isolates, owner, active, next_id, slot, request, tainted>>

\* No warm hit, or one whose reset() failed: the context is built from the
\* script and the script's top level succeeds.
StartCold(r) ==
    /\ pc[r] = "acquired"
    /\ \E hit \in Hits(cached[slot[r]], request[r].key) :
          cached' = Kept(r, hit) /\ Taint(hit)
    /\ context' = [context EXCEPT ![r] =
                      {[key |-> request[r].key, built_by |-> r,
                        reuse_count |-> 1, last_used |-> 0]}]
    /\ pc' = [pc EXCEPT ![r] = "exec"]
    /\ Touch(r)
    /\ UNCHANGED <<isolates, owner, active, next_id, slot, request>>

\* The same, and new_with_pooled_isolate fails.
StartFails(r) ==
    /\ pc[r] = "acquired"
    /\ \E hit \in Hits(cached[slot[r]], request[r].key) :
          Release(r, Kept(r, hit)) /\ Taint(hit)
    /\ Touch(r)

\* exec returns Ok: the response has left, waitUntil work may remain.
ExecOk(r) ==
    /\ pc[r] = "exec"
    /\ pc' = [pc EXCEPT ![r] = "drain"]
    /\ UNCHANGED <<isolates, owner, active, last_used, cached, next_id,
                   slot, request, context, clock, tainted>>

\* exec or drain_waituntil returns Err: the context is dropped.
Fail(r) ==
    /\ pc[r] \in {"exec", "drain"}
    /\ Release(r, cached)
    /\ Taint(context[r])
    /\ clock' = clock + 1
    /\ UNCHANGED last_used

\* drain_waituntil returns Ok and keep_context refuses: the context is dropped.
DrainDrop(r) ==
    /\ pc[r] = "drain"
    /\ \A c \in context[r] : ~keep_context(c.reuse_count)
    /\ Release(r, cached)
    /\ clock' = clock + 1
    /\ UNCHANGED <<last_used, tainted>>

\* drain_waituntil returns Ok and the context goes back. A cold one is stamped
\* here, before inner is locked; a warm one when it is pushed.
DrainKeep(r) ==
    /\ pc[r] = "drain"
    /\ \A c \in context[r] : keep_context(c.reuse_count)
    /\ pc' = [pc EXCEPT ![r] = "save"]
    /\ context' = [context EXCEPT ![r] = {[c EXCEPT !.last_used = clock + 1] : c \in @}]
    /\ clock' = clock + 1
    /\ UNCHANGED <<isolates, owner, active, last_used, cached, next_id,
                   slot, request, tainted>>

\* The stamp of a context as it is pushed.
Stamped(r) ==
    {IF c.built_by = r THEN c ELSE [c EXCEPT !.last_used = clock + 1] : c \in context[r]}

\* The context is pushed, the least recently used one making room for it.
Save(r) ==
    /\ pc[r] = "save"
    /\ \E evicted \in CacheEvict(cached[slot[r]]) :
          Release(r, [cached EXCEPT ![slot[r]] = (@ \ evicted) \cup Stamped(r)])
    /\ clock' = clock + 1
    /\ UNCHANGED <<last_used, tainted>>

Acquire(r) ==
    \/ AcquireReuse(r) \/ AcquireBuild(r) \/ AcquireEvict(r) \/ AcquireOvercommit(r)
    \/ RefuseOwnerAtLimit(r) \/ RefusePoolFull(r)

\* What a request does once it has a slot, up to its release.
Step(r) ==
    \/ StartWarm(r) \/ StartCold(r) \/ StartFails(r)
    \/ ExecOk(r) \/ Fail(r)
    \/ DrainDrop(r) \/ DrainKeep(r) \/ Save(r)

Next == \E r \in Requests : Acquire(r) \/ Step(r)

Spec == Init /\ [][Next]_vars

-----------------------------------------------------------------------------
(* Properties *)

\* Every variable keeps its type. That the slot counters stay natural numbers is
\* what keeps the usize of ConcurrencyState::release from wrapping.
TypeOK ==
    /\ isolates \subseteq Ids
    /\ owner \in [Ids -> Owners \cup {NoOwner}]
    /\ active \in [Ids -> Nat]
    /\ last_used \in [Ids -> Nat]
    /\ cached \in [Ids -> SUBSET Contexts]
    /\ next_id \in Nat \ {0}
    /\ pc \in [Requests -> PCs]
    /\ slot \in [Requests -> Ids \cup {NoIsolate}]
    /\ request \in [Requests -> [owner : Owners, key : Keys]]
    /\ context \in [Requests -> SUBSET Contexts]
    /\ clock \in Nat
    /\ tainted \subseteq Requests

\* The slot counter of an isolate is the number of requests between acquire and
\* release_to_local_pool on it, never more than max_concurrent, and an isolate
\* with a request on it is still in the pool: neither the LRU eviction of
\* acquire nor the reclaim of a release ever drops an isolate under a request.
SlotsAccounted ==
    \A i \in Ids :
        /\ active[i] = Cardinality(Holders(i))
        /\ active[i] <= max_concurrent
        /\ Holders(i) # {} => i \in isolates

\* Past the ceiling every isolate is in use: overcommit builds only when none is
\* idle, and the release that frees one drops it. Without overcommit the pool
\* never passes the ceiling.
PastCeilingAllBusy ==
    Cardinality(isolates) > max_isolates => overcommit /\ Idle = {}

\* No owner has more isolates than max_per_owner, whatever reuse, eviction,
\* overcommit and reclaim did.
PerOwnerLimit ==
    max_per_owner # NoLimit =>
        \A o \in Owners : Cardinality(Owned(o)) <= max_per_owner

\* A request only ever runs on an isolate of its owner, and the contexts an
\* isolate keeps, or a request runs in, were built by requests of that owner.
OwnerIsolation ==
    /\ \A r \in Requests : slot[r] # NoIsolate =>
          /\ owner[slot[r]] = request[r].owner
          /\ \A c \in context[r] : request[c.built_by].owner = request[r].owner
    /\ \A i \in isolates : \A c \in cached[i] : request[c.built_by].owner = owner[i]

\* A context is in one place: in the cache of one isolate of the pool or in the
\* hands of one request, so no two requests ever run in one context.
ContextExclusive ==
    /\ \A i \in Ids : i \notin isolates => cached[i] = {}
    /\ \A r \in Requests : Cardinality(context[r]) <= 1
    /\ \A c, d \in (UNION {cached[i] : i \in Ids}) \cup (UNION {context[r] : r \in Requests}) :
          c.built_by = d.built_by =>
              /\ c = d
              /\ Cardinality({i \in Ids : c \in cached[i]})
                 + Cardinality({r \in Requests : c \in context[r]}) = 1

\* A request runs in a context of exactly the worker, version and environment it
\* asked for, one that served at most max_context_reuses requests, this one
\* included (a context serves the request that built it in any case), and that
\* never failed an exec, a drain or a reset before.
RunsInFitContext ==
    \A r \in Requests : \A c \in context[r] :
        /\ c.key = request[r].key
        /\ c.reuse_count <= max_reuses \/ c.built_by = r
        /\ c.built_by \notin tainted

-----------------------------------------------------------------------------
(* What makes the properties above inductive. *)

\* Ids are given out in order: an isolate of the pool has one already given, and
\* one not yet given has no request.
FreshIds ==
    /\ IsFiniteSet(isolates)
    /\ \A i \in isolates : i < next_id
    /\ \A i \in Ids : Holders(i) # {} => i < next_id

\* A request has a slot from acquire to release, and a context only meanwhile.
SlotPhase ==
    \A r \in Requests :
        /\ slot[r] # NoIsolate <=> pc[r] \in {"acquired", "exec", "drain", "save"}
        /\ slot[r] = NoIsolate => context[r] = {}

IInv ==
    /\ TypeOK
    /\ FreshIds
    /\ SlotPhase
    /\ SlotsAccounted
    /\ PastCeilingAllBusy
    /\ PerOwnerLimit
    /\ OwnerIsolation

=============================================================================
