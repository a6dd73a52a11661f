------------------------ MODULE PreparedModuleCache ------------------------
(***************************************************************************)
(* One cache of verified modules and its caller, which asks for sources in *)
(* any order.  A preparation that fails or panics is one of the outcomes.  *)
(***************************************************************************)
EXTENDS ModuleCacheOps

CONSTANTS
  Capacity,
  MaxCalls   \* bound: calls of get_or_prepare in one behaviour

ASSUME CapacityAssumption == Capacity \in Nat \ {0}
ASSUME MaxCallsAssumption == MaxCalls \in Nat

VARIABLES
  cache,
  admitted,  \* history: the sources inserted, oldest first
  failed,    \* history: misses whose preparation did not end "ok"
  calls      \* history: calls made

vars == <<cache, admitted, failed, calls>>

Init ==
  /\ cache = EmptyCache(Capacity)
  /\ admitted = <<>>
  /\ failed = 0
  /\ calls = 0

Call(s) ==
  LET miss == s \notin cache.modules
  IN  /\ calls < MaxCalls
      /\ calls' = calls + 1
      /\ cache' = GetOrPrepare(cache, s)
      /\ admitted' = IF miss /\ Preparation[s] = "ok" THEN Append(admitted, s) ELSE admitted
      /\ failed' = IF miss /\ Preparation[s] # "ok" THEN failed + 1 ELSE failed

Next == \E s \in Sources : Call(s)

Spec == Init /\ [][Next]_vars
-----------------------------------------------------------------------------
\* Type correctness of the cache record and the history.
TypeOK ==
  /\ cache \in CacheType
  /\ admitted \in Seq(Sources)
  /\ failed \in Nat
  /\ calls \in Nat

\* The insertion order lists the entries, each once: popping the front of a
\* full cache always finds an entry to remove (the expect and the
\* debug_assert of get_or_prepare cannot fire).
OrderAndEntriesAgree == OrderListsModules(cache)

\* The cache never holds more than its capacity.
WithinCapacity == Len(cache.order) <= cache.capacity

\* Only modules that compiled and verified are ever resident, whatever failed
\* or panicked in between.
OnlyVerifiedResident == cache.modules \subseteq Preparable

\* First in, first out: the resident sources are the most recently inserted
\* ones in insertion order, and neither hits nor failed preparations change
\* which source goes next.
EvictsOldestFirst ==
  /\ Len(admitted) = cache.evictions + Len(cache.order)
  /\ cache.order = SubSeq(admitted, cache.evictions + 1, Len(admitted))

\* Every call is a hit or a miss, and every miss failed, was evicted since or
\* is resident: the counters the embedder sees account for all of its calls.
CountersAccountForCalls ==
  /\ cache.hits + cache.misses = calls
  /\ cache.misses = failed + cache.evictions + Stats(cache).entries

\* A failed preparation costs no resident module its place.
FailureEvictsNothing ==
  [][failed' # failed => /\ cache'.modules = cache.modules
                         /\ cache'.order = cache.order]_vars
=============================================================================
