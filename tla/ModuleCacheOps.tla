--------------------------- MODULE ModuleCacheOps ---------------------------
(***************************************************************************)
(* The operations of the bounded cache of verified modules of              *)
(* runtime/interpreter, as functions on a cache record.  A prepared module *)
(* is a function of the source text it is keyed by, so the map from source *)
(* to module is the set of its keys.                                       *)
(***************************************************************************)
EXTENDS Naturals, Sequences, FiniteSets

CONSTANTS
  Sources,      \* source texts
  Preparation   \* source |-> how PreparedModule::from_source ends

PreparationEnds == {"ok", "compile_error", "verify_error", "panic"}

ASSUME SourcesAssumption == Preparation \in [Sources -> PreparationEnds]

Preparable == {s \in Sources : Preparation[s] = "ok"}

\* PreparedModuleCache::new for a nonzero capacity.
EmptyCache(capacity) ==
  [capacity |-> capacity, modules |-> {}, order |-> <<>>,
   hits |-> 0, misses |-> 0, evictions |-> 0]

\* A hit that moves its source to the back, as an LRU cache would.
HitRefreshing(c, s) ==
  [c EXCEPT !.hits = @ + 1,
            !.order = Append(SelectSeq(@, LAMBDA t : t # s), s)]

\* A hit counts and reorders nothing.
Hit(c, s) == [c EXCEPT !.hits = @ + 1]

\* Forgets to take the evicted source off the insertion order.
EvictWhenFullKeepingOrder(c) ==
  IF Cardinality(c.modules) = c.capacity
    THEN [c EXCEPT !.modules = @ \ {Head(c.order)}, !.evictions = @ + 1]
    ELSE c

\* A full cache drops the source it has held longest.
EvictWhenFull(c) ==
  IF Cardinality(c.modules) = c.capacity
    THEN [c EXCEPT !.modules = @ \ {Head(c.order)}, !.order = Tail(@),
                   !.evictions = @ + 1]
    ELSE c

Insert(c, s) ==
  [c EXCEPT !.modules = @ \union {s}, !.order = Append(@, s)]

\* Makes room before it knows whether the source can be prepared.
GetOrPrepareEvictingFirst(c, s) ==
  LET room == EvictWhenFull([c EXCEPT !.misses = @ + 1])
  IN  CASE s \in c.modules -> Hit(c, s)
        [] s \notin c.modules /\ Preparation[s] # "ok" -> room
        [] s \notin c.modules /\ Preparation[s] = "ok" -> Insert(room, s)

\* Inserts what failed to compile or to verify.
GetOrPrepareUnverified(c, s) ==
  IF s \in c.modules
    THEN Hit(c, s)
    ELSE Insert(EvictWhenFull([c EXCEPT !.misses = @ + 1]), s)

\* get_or_prepare: the early return on a hit, the counted miss, the ? on a
\* failed preparation (a panic unwinds from the same place), then eviction and
\* insertion.
GetOrPrepare(c, s) ==
  LET missed == [c EXCEPT !.misses = @ + 1]
  IN  CASE s \in c.modules -> Hit(c, s)
        [] s \notin c.modules /\ Preparation[s] # "ok" -> missed
        [] s \notin c.modules /\ Preparation[s] = "ok" -> Insert(EvictWhenFull(missed), s)

\* stats.
Stats(c) ==
  [hits |-> c.hits, misses |-> c.misses, evictions |-> c.evictions,
   entries |-> Cardinality(c.modules)]
-----------------------------------------------------------------------------
CacheType ==
  [capacity : Nat \ {0}, modules : SUBSET Sources, order : Seq(Sources),
   hits : Nat, misses : Nat, evictions : Nat]

\* The insertion order lists the entries, each once.
OrderListsModules(c) ==
  /\ \A k \in DOMAIN c.order : c.order[k] \in c.modules
  /\ \A j, k \in DOMAIN c.order : c.order[j] = c.order[k] => j = k
  /\ \A s \in c.modules : \E k \in DOMAIN c.order : c.order[k] = s
=============================================================================
