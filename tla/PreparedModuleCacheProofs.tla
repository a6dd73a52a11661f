--------------------- MODULE PreparedModuleCacheProofs ---------------------
(***************************************************************************)
(* Proofs about the module cache, for every capacity, every set of sources *)
(* and every way their preparation may end.                                *)
(*                                                                         *)
(* Agreement of order and entries is the heart: it makes the number of     *)
(* entries the length of the order, so the eviction test, the capacity     *)
(* bound and the counters all speak of one number, and it makes the front  *)
(* of the order an entry.                                                  *)
(***************************************************************************)
EXTENDS PreparedModuleCache, FiniteSetTheorems, SequenceTheorems, TLAPS

\* First in, first out, element by element.
FifoInv ==
  /\ Len(admitted) = cache.evictions + Len(cache.order)
  /\ \A k \in 1..Len(cache.order) : cache.order[k] = admitted[cache.evictions + k]

CountInv ==
  /\ cache.hits + cache.misses = calls
  /\ cache.misses = failed + cache.evictions + Len(cache.order)

CacheInv ==
  /\ TypeOK
  /\ cache.capacity = Capacity
  /\ OrderAndEntriesAgree
  /\ WithinCapacity
  /\ OnlyVerifiedResident
  /\ FifoInv
  /\ CountInv

\* The order lists the entries once each, so it is as long as they are many.
LEMMA EntriesCounted ==
  ASSUME NEW c \in CacheType, OrderListsModules(c)
  PROVE  IsFiniteSet(c.modules) /\ Cardinality(c.modules) = Len(c.order)
<1> DEFINE n == Len(c.order)
           f == c.order
           V == c.modules
<1>0. f \in Seq(Sources)
  BY DEF CacheType
<1>1. n \in Nat /\ DOMAIN f = 1..n /\ f \in [1..n -> Sources]
  BY <1>0, LenProperties
<1>2. f \in [1..n -> V]
  BY <1>1 DEF OrderListsModules
<1>3. f \in Bijection(1..n, V)
  BY <1>1, <1>2 DEF OrderListsModules, Bijection, Injection, Surjection, IsInjective
<1>4. ExistsBijection(1..n, V)
  BY <1>3 DEF ExistsBijection
<1> HIDE DEF n, f, V
<1>5. IsFiniteSet(V)
  BY <1>1, <1>4, FS_NatBijection
<1>6. Cardinality(V) = n
  BY <1>1, <1>4, FS_CountingElements
<1> QED BY <1>5, <1>6 DEF n, V

\* The fields of a cache.
LEMMA CacheFields ==
  ASSUME NEW c \in CacheType
  PROVE  /\ c.capacity \in Nat \ {0} /\ c.modules \in SUBSET Sources
         /\ c.order \in Seq(Sources) /\ Len(c.order) \in Nat
         /\ DOMAIN c.order = 1..Len(c.order)
         /\ c.hits \in Nat /\ c.misses \in Nat /\ c.evictions \in Nat
<1>1. /\ c.capacity \in Nat \ {0} /\ c.modules \in SUBSET Sources /\ c.order \in Seq(Sources)
      /\ c.hits \in Nat /\ c.misses \in Nat /\ c.evictions \in Nat
  BY DEF CacheType
<1> QED BY <1>1, LenProperties

\* Eviction from a full cache: the front of the order goes, from both.
LEMMA Eviction ==
  ASSUME NEW c \in CacheType, OrderListsModules(c), Len(c.order) <= c.capacity
  PROVE  LET d == EvictWhenFull(c)
         IN  /\ d \in CacheType /\ OrderListsModules(d)
             /\ d.capacity = c.capacity /\ d.hits = c.hits /\ d.misses = c.misses
             /\ Len(d.order) < c.capacity
             /\ d.modules \subseteq c.modules
             /\ \E e \in {0, 1} :
                  /\ d.evictions = c.evictions + e
                  /\ Len(c.order) = Len(d.order) + e
                  /\ \A k \in 1..Len(d.order) : d.order[k] = c.order[k + e]
<1> DEFINE d == EvictWhenFull(c)
           n == Len(c.order)
<1>1. /\ c.capacity \in Nat \ {0} /\ c.modules \in SUBSET Sources
      /\ c.order \in Seq(Sources) /\ n \in Nat /\ DOMAIN c.order = 1..n
      /\ c.hits \in Nat /\ c.misses \in Nat /\ c.evictions \in Nat
  BY CacheFields
<1>2. Cardinality(c.modules) = n
  BY EntriesCounted
<1>3. CASE n # c.capacity
  <2>1. d = c
    BY <1>2, <1>3 DEF EvictWhenFull
  <2>2. n < c.capacity /\ c.evictions = c.evictions + 0 /\ n = n + 0
        /\ \A k \in 1..n : c.order[k] = c.order[k + 0]
    BY <1>1, <1>3
  <2> QED BY <2>1, <2>2
<1>4. CASE n = c.capacity
  <2> DEFINE m == c.modules \ {Head(c.order)}
             t == Tail(c.order)
  <2>1. d = [c EXCEPT !.modules = m, !.order = t, !.evictions = c.evictions + 1]
    BY <1>2, <1>4 DEF EvictWhenFull
  <2>2. n # 0 /\ c.order # <<>>
    BY <1>1, <1>4
  <2>3. /\ t \in Seq(Sources) /\ Len(t) = n - 1 /\ \A k \in 1..Len(t) : t[k] = c.order[k + 1]
        /\ Head(c.order) = c.order[1]
    BY <1>1, <2>2, HeadTailProperties
  <2>4. DOMAIN t = 1..Len(t)
    BY <2>3, LenProperties
  <2>5. /\ d.modules = m /\ d.order = t /\ d.evictions = c.evictions + 1
        /\ d.capacity = c.capacity /\ d.hits = c.hits /\ d.misses = c.misses
        /\ d \in CacheType
    <3>1. m \in SUBSET Sources /\ c.evictions + 1 \in Nat
      BY <1>1
    <3>2. PICK mm \in SUBSET Sources : mm = m
      BY <3>1
    <3>3. PICK tt \in Seq(Sources) : tt = t
      BY <2>3
    <3>4. PICK ee \in Nat : ee = c.evictions + 1
      BY <3>1
    <3>5. d = [c EXCEPT !.modules = mm, !.order = tt, !.evictions = ee]
      BY <2>1, <3>2, <3>3, <3>4
    <3> HIDE DEF m, t, d
    <3>6. /\ d.modules = mm /\ d.order = tt /\ d.evictions = ee
          /\ d.capacity = c.capacity /\ d.hits = c.hits /\ d.misses = c.misses /\ d \in CacheType
      BY ONLY c \in CacheType, mm \in SUBSET Sources, tt \in Seq(Sources), ee \in Nat, <3>5
         DEF CacheType
    <3> QED BY <3>2, <3>3, <3>4, <3>6
  <2>6. \A k \in 1..(n - 1) : k + 1 \in 1..n /\ k + 1 # 1
    BY <1>1
  <2>7. OrderListsModules(d)
    <3>1. \A k \in DOMAIN t : t[k] \in m
      <4> SUFFICES ASSUME NEW k \in 1..(n - 1) PROVE c.order[k + 1] \in m
        BY <2>3, <2>4
      <4>1. k + 1 \in 1..n /\ k + 1 # 1 /\ 1 \in 1..n
        BY <1>1, <2>2, <2>6
      <4> QED BY <4>1, <1>1, <2>3 DEF OrderListsModules
    <3>2. \A j, k \in DOMAIN t : t[j] = t[k] => j = k
      <4> SUFFICES ASSUME NEW j \in 1..(n - 1), NEW k \in 1..(n - 1), c.order[j + 1] = c.order[k + 1]
                   PROVE  j = k
        BY <2>3, <2>4
      <4>1. j + 1 = k + 1
        BY <1>1, <2>6 DEF OrderListsModules
      <4> QED BY <4>1, <1>1
    <3>3. ASSUME NEW s \in m PROVE \E k \in DOMAIN t : t[k] = s
      <4>1. PICK k \in 1..n : c.order[k] = s
        BY <1>1 DEF OrderListsModules
      <4>2. k # 1
        BY <4>1, <2>3
      <4>3. k - 1 \in 1..(n - 1) /\ (k - 1) + 1 = k
        BY <4>1, <4>2, <1>1
      <4> QED BY <4>1, <4>3, <2>3, <2>4
    <3> QED BY <3>1, <3>2, <3>3, <2>5 DEF OrderListsModules
  <2>8. n = (n - 1) + 1 /\ n - 1 < c.capacity
    BY <1>1, <1>4
  <2>9. /\ d.evictions = c.evictions + 1 /\ Len(c.order) = Len(d.order) + 1
        /\ \A k \in 1..Len(d.order) : d.order[k] = c.order[k + 1]
        /\ d.modules \subseteq c.modules
    BY <2>3, <2>5, <2>8
  <2>10. /\ d \in CacheType /\ OrderListsModules(d)
         /\ d.capacity = c.capacity /\ d.hits = c.hits /\ d.misses = c.misses
         /\ Len(d.order) < c.capacity /\ d.modules \subseteq c.modules
         /\ \E e \in {0, 1} :
              /\ d.evictions = c.evictions + e
              /\ Len(c.order) = Len(d.order) + e
              /\ \A k \in 1..Len(d.order) : d.order[k] = c.order[k + e]
    <3> HIDE DEF d, m, t
    <3> QED BY <2>3, <2>5, <2>7, <2>8, <2>9
  <2> QED BY <2>10
<1> QED BY <1>3, <1>4

\* Insertion of a source that is not resident, where there is room.
LEMMA Insertion ==
  ASSUME NEW c \in CacheType, OrderListsModules(c), Len(c.order) < c.capacity,
         NEW s \in Sources, s \notin c.modules
  PROVE  LET d == Insert(c, s)
         IN  /\ d \in CacheType /\ OrderListsModules(d)
             /\ d.capacity = c.capacity /\ d.hits = c.hits /\ d.misses = c.misses
             /\ d.evictions = c.evictions
             /\ Len(d.order) = Len(c.order) + 1 /\ Len(d.order) <= c.capacity
             /\ d.modules = c.modules \union {s}
             /\ \A k \in 1..Len(c.order) : d.order[k] = c.order[k]
             /\ d.order[Len(c.order) + 1] = s
<1> DEFINE d == Insert(c, s)
           n == Len(c.order)
           o == Append(c.order, s)
<1>1. /\ c.capacity \in Nat \ {0} /\ c.modules \in SUBSET Sources
      /\ c.order \in Seq(Sources) /\ n \in Nat /\ DOMAIN c.order = 1..n
      /\ c.hits \in Nat /\ c.misses \in Nat /\ c.evictions \in Nat
  BY CacheFields
<1>2. /\ o \in Seq(Sources) /\ Len(o) = n + 1 /\ \A k \in 1..n : o[k] = c.order[k]
      /\ o[n + 1] = s
  BY <1>1, AppendProperties
<1>3. DOMAIN o = 1..(n + 1)
  BY <1>2, LenProperties
<1>4. /\ d.modules = c.modules \union {s} /\ d.order = o /\ d.evictions = c.evictions
      /\ d.capacity = c.capacity /\ d.hits = c.hits /\ d.misses = c.misses /\ d \in CacheType
  <2>1. d = [c EXCEPT !.modules = c.modules \union {s}, !.order = o]
    BY DEF Insert
  <2>2. c.modules \union {s} \in SUBSET Sources
    BY <1>1
  <2>3. PICK mm \in SUBSET Sources : mm = c.modules \union {s}
    BY <2>2
  <2>4. PICK oo \in Seq(Sources) : oo = o
    BY <1>2
  <2>5. d = [c EXCEPT !.modules = mm, !.order = oo]
    BY <2>1, <2>3, <2>4
  <2> HIDE DEF o, d
  <2>6. /\ d.modules = mm /\ d.order = oo /\ d.evictions = c.evictions
        /\ d.capacity = c.capacity /\ d.hits = c.hits /\ d.misses = c.misses /\ d \in CacheType
    BY ONLY c \in CacheType, mm \in SUBSET Sources, oo \in Seq(Sources), <2>5 DEF CacheType
  <2> QED BY <2>3, <2>4, <2>6
<1>5. \A k \in 1..(n + 1) : k \in 1..n \/ k = n + 1
  BY <1>1
<1>6. n + 1 \in 1..(n + 1) /\ \A k \in 1..n : k \in 1..(n + 1)
  BY <1>1
<1>7. OrderListsModules(d)
  <2>1. \A k \in DOMAIN o : o[k] \in c.modules \union {s}
    BY <1>1, <1>2, <1>3, <1>5 DEF OrderListsModules
  <2>2. \A k \in 1..n : o[k] # s
    BY <1>1, <1>2 DEF OrderListsModules
  <2>3. \A j, k \in DOMAIN o : o[j] = o[k] => j = k
    BY <1>1, <1>2, <1>3, <1>5, <2>2 DEF OrderListsModules
  <2>4. \A v \in c.modules \union {s} : \E k \in DOMAIN o : o[k] = v
    BY <1>1, <1>2, <1>3, <1>6 DEF OrderListsModules
  <2> QED BY <1>4, <2>1, <2>3, <2>4 DEF OrderListsModules
<1>8. n + 1 <= c.capacity
  BY <1>1
<1> QED BY <1>2, <1>4, <1>7, <1>8

\* Every outcome of get_or_prepare keeps the cache invariant: hit, failed miss,
\* insertion with and without eviction.
LEMMA CacheInvInductive ==
  CacheInv /\ [Next]_vars => CacheInv'
<1> SUFFICES ASSUME CacheInv, [Next]_vars PROVE CacheInv'
  OBVIOUS
<1>a. /\ cache \in CacheType /\ admitted \in Seq(Sources) /\ failed \in Nat /\ calls \in Nat
      /\ cache.capacity = Capacity /\ OrderListsModules(cache)
      /\ Len(cache.order) <= cache.capacity /\ cache.modules \subseteq Preparable
      /\ FifoInv /\ CountInv
  BY DEF CacheInv, TypeOK, OrderAndEntriesAgree, WithinCapacity, OnlyVerifiedResident
<1>b. /\ cache.capacity \in Nat \ {0} /\ cache.modules \in SUBSET Sources
      /\ cache.order \in Seq(Sources) /\ Len(cache.order) \in Nat
      /\ DOMAIN cache.order = 1..Len(cache.order)
      /\ cache.hits \in Nat /\ cache.misses \in Nat /\ cache.evictions \in Nat
  BY <1>a, CacheFields
<1>h. PICK h \in Nat, m \in Nat, v \in Nat, len \in Nat :
             h = cache.hits /\ m = cache.misses /\ v = cache.evictions /\ len = Len(cache.order)
  BY <1>b
<1>c. /\ h + m = calls
      /\ m = failed + v + len
      /\ (h + 1) + m = calls + 1
      /\ h + (m + 1) = calls + 1
      /\ m + 1 = (failed + 1) + v + len
      /\ h + 1 \in Nat /\ m + 1 \in Nat
  <2>1. h + m = calls /\ m = failed + v + len
    BY <1>a, <1>h DEF CountInv
  <2> QED BY <1>a, <2>1
<1>1. ASSUME NEW s \in Sources, Call(s) PROVE CacheInv'
  <2>a. calls' = calls + 1 /\ cache' = GetOrPrepare(cache, s)
    BY <1>1 DEF Call
  <2>1. CASE s \in cache.modules
    <3>1. cache' = [cache EXCEPT !.hits = h + 1] /\ admitted' = admitted /\ failed' = failed
      BY <1>1, <1>h, <2>1, <2>a DEF Call, GetOrPrepare, Hit
    <3>2. /\ cache' \in CacheType /\ cache'.capacity = cache.capacity /\ cache'.modules = cache.modules
          /\ cache'.order = cache.order /\ cache'.evictions = cache.evictions
          /\ cache'.misses = m /\ cache'.hits = h + 1
      <4>1. PICK g \in Nat : g = h + 1
        OBVIOUS
      <4>2. cache' = [cache EXCEPT !.hits = g] /\ cache \in CacheType /\ m = cache.misses
        BY <1>a, <1>h, <3>1, <4>1
      <4>3. /\ cache' \in CacheType /\ cache'.capacity = cache.capacity /\ cache'.modules = cache.modules
            /\ cache'.order = cache.order /\ cache'.evictions = cache.evictions
            /\ cache'.misses = m /\ cache'.hits = g
        BY ONLY <4>2, g \in Nat DEF CacheType
      <4> QED BY <4>1, <4>3
    <3>3. CountInv'
      BY <1>c, <1>h, <2>a, <3>1, <3>2 DEF CountInv
    <3>4. FifoInv'
      BY <1>a, <3>1, <3>2 DEF FifoInv
    <3> QED BY <1>a, <2>a, <3>1, <3>2, <3>3, <3>4 DEF CacheInv, TypeOK, OrderAndEntriesAgree,
             OrderListsModules, WithinCapacity, OnlyVerifiedResident
  <2>2. CASE s \notin cache.modules /\ Preparation[s] # "ok"
    <3>1. cache' = [cache EXCEPT !.misses = m + 1] /\ admitted' = admitted /\ failed' = failed + 1
      BY <1>1, <1>h, <2>2, <2>a DEF Call, GetOrPrepare
    <3>2. /\ cache' \in CacheType /\ cache'.capacity = cache.capacity /\ cache'.modules = cache.modules
          /\ cache'.order = cache.order /\ cache'.evictions = cache.evictions
          /\ cache'.misses = m + 1 /\ cache'.hits = h
      <4>1. PICK g \in Nat : g = m + 1
        OBVIOUS
      <4>2. cache' = [cache EXCEPT !.misses = g] /\ cache \in CacheType /\ h = cache.hits
        BY <1>a, <1>h, <3>1, <4>1
      <4>3. /\ cache' \in CacheType /\ cache'.capacity = cache.capacity /\ cache'.modules = cache.modules
            /\ cache'.order = cache.order /\ cache'.evictions = cache.evictions
            /\ cache'.misses = g /\ cache'.hits = h
        BY ONLY <4>2, g \in Nat DEF CacheType
      <4> QED BY <4>1, <4>3
    <3>3. CountInv'
      BY <1>c, <1>h, <2>a, <3>1, <3>2 DEF CountInv
    <3>4. FifoInv'
      BY <1>a, <3>1, <3>2 DEF FifoInv
    <3> QED BY <1>a, <2>a, <3>1, <3>2, <3>3, <3>4 DEF CacheInv, TypeOK, OrderAndEntriesAgree,
             OrderListsModules, WithinCapacity, OnlyVerifiedResident
  <2>3. CASE s \notin cache.modules /\ Preparation[s] = "ok"
    <3> DEFINE c1 == [cache EXCEPT !.misses = m + 1]
               c2 == EvictWhenFull(c1)
               c3 == Insert(c2, s)
    <3>1. cache' = c3 /\ admitted' = Append(admitted, s) /\ failed' = failed
      BY <1>1, <1>h, <2>3, <2>a DEF Call, GetOrPrepare
    <3>2. /\ c1 \in CacheType /\ c1.capacity = cache.capacity /\ c1.modules = cache.modules
          /\ c1.order = cache.order /\ c1.evictions = cache.evictions
          /\ c1.misses = m + 1 /\ c1.hits = h
      <4>1. PICK g \in Nat : g = m + 1
        OBVIOUS
      <4>2. c1 = [cache EXCEPT !.misses = g] /\ cache \in CacheType /\ h = cache.hits
        BY <1>a, <1>h, <4>1
      <4> HIDE DEF c1
      <4>3. /\ c1 \in CacheType /\ c1.capacity = cache.capacity /\ c1.modules = cache.modules
            /\ c1.order = cache.order /\ c1.evictions = cache.evictions
            /\ c1.misses = g /\ c1.hits = h
        BY ONLY <4>2, g \in Nat DEF CacheType
      <4> QED BY <4>1, <4>3
    <3>3. OrderListsModules(c1) /\ Len(c1.order) <= c1.capacity
      BY <1>a, <3>2 DEF OrderListsModules
    <3> HIDE DEF c1
    <3>4. /\ c2 \in CacheType /\ OrderListsModules(c2)
          /\ c2.capacity = c1.capacity /\ c2.hits = c1.hits /\ c2.misses = c1.misses
          /\ Len(c2.order) < c1.capacity /\ c2.modules \subseteq c1.modules
          /\ \E e \in {0, 1} :
               /\ c2.evictions = c1.evictions + e
               /\ Len(c1.order) = Len(c2.order) + e
               /\ \A k \in 1..Len(c2.order) : c2.order[k] = c1.order[k + e]
      BY <3>2, <3>3, Eviction
    <3> HIDE DEF c2
    <3>5. s \notin c2.modules
      BY <2>3, <3>2, <3>4
    <3>6. /\ c3 \in CacheType /\ OrderListsModules(c3)
          /\ c3.capacity = c2.capacity /\ c3.hits = c2.hits /\ c3.misses = c2.misses
          /\ c3.evictions = c2.evictions
          /\ Len(c3.order) = Len(c2.order) + 1 /\ Len(c3.order) <= c2.capacity
          /\ c3.modules = c2.modules \union {s}
          /\ \A k \in 1..Len(c2.order) : c3.order[k] = c2.order[k]
          /\ c3.order[Len(c2.order) + 1] = s
      BY <3>4, <3>5, Insertion
    <3> HIDE DEF c3
    <3>7. PICK e \in {0, 1} :
               /\ c2.evictions = c1.evictions + e
               /\ Len(c1.order) = Len(c2.order) + e
               /\ \A k \in 1..Len(c2.order) : c2.order[k] = c1.order[k + e]
      BY <3>4
    <3>8. PICK n \in Nat : n = Len(c2.order)
      BY <3>4, CacheFields
    <3>9. /\ admitted' \in Seq(Sources) /\ Len(admitted') = Len(admitted) + 1
          /\ \A k \in 1..Len(admitted) : admitted'[k] = admitted[k]
          /\ admitted'[Len(admitted) + 1] = s
      BY <1>a, <3>1, AppendProperties
    <3>e. len = n + e /\ c3.evictions = v + e /\ Len(c3.order) = n + 1 /\ e \in Nat
      BY <1>h, <3>2, <3>6, <3>7, <3>8
    <3>10. /\ Len(admitted) = v + (n + e)
           /\ \A k \in 1..(n + e) : cache.order[k] = admitted[v + k]
      BY <1>a, <1>h, <3>e DEF FifoInv
    <3>11. FifoInv'
      <4>1. Len(admitted') = (v + e) + (n + 1)
        BY <3>e, <3>9, <3>10
      <4>2. ASSUME NEW k \in 1..(n + 1) PROVE c3.order[k] = admitted'[(v + e) + k]
        <5>1. CASE k \in 1..n
          <6>1. k + e \in 1..(n + e)
            BY <5>1, <3>e
          <6>2. c3.order[k] = admitted[v + (k + e)]
            BY <5>1, <6>1, <3>6, <3>7, <3>8, <3>2, <3>10
          <6>3. v + (k + e) = (v + e) + k /\ v + (k + e) \in 1..(v + (n + e))
            BY <5>1, <3>e
          <6> QED BY <6>2, <6>3, <3>9, <3>10
        <5>2. CASE k = n + 1
          <6>1. (v + e) + k = Len(admitted) + 1
            BY <5>2, <3>e, <3>10
          <6> QED BY <5>2, <6>1, <3>6, <3>8, <3>9
        <5> QED BY <5>1, <5>2
      <4> QED BY <4>1, <4>2, <3>1, <3>e DEF FifoInv
    <3>12. CountInv'
      <4>1. m + 1 = failed + (v + e) + (n + 1)
        BY <1>a, <1>c, <3>e
      <4>2. c3.hits = h /\ c3.misses = m + 1
        BY <3>2, <3>4, <3>6
      <4> QED BY <1>c, <2>a, <3>1, <3>e, <4>1, <4>2 DEF CountInv
    <3>13. c3.modules \subseteq Preparable
      BY <1>1, <1>a, <2>3, <3>2, <3>4, <3>6 DEF Preparable
    <3>14. TypeOK'
      BY <1>a, <2>a, <3>1, <3>6, <3>9 DEF TypeOK
    <3> QED BY <1>a, <3>1, <3>2, <3>4, <3>6, <3>11, <3>12, <3>13, <3>14 DEF CacheInv,
             OrderAndEntriesAgree, WithinCapacity, OnlyVerifiedResident
  <2> QED BY <2>1, <2>2, <2>3
<1>2. CASE UNCHANGED vars
  BY <1>2 DEF vars, CacheInv, TypeOK, OrderAndEntriesAgree, OrderListsModules, WithinCapacity,
       OnlyVerifiedResident, FifoInv, CountInv
<1> QED BY <1>1, <1>2 DEF Next

\* The cache invariant, for every capacity and every history of calls.
THEOREM CacheInvariant == Spec => []CacheInv
<1>1. Init => CacheInv
  <2> SUFFICES ASSUME Init PROVE CacheInv
    OBVIOUS
  <2>1. /\ cache.capacity = Capacity /\ cache.modules = {} /\ cache.order = <<>>
        /\ cache.hits = 0 /\ cache.misses = 0 /\ cache.evictions = 0
        /\ admitted = <<>> /\ failed = 0 /\ calls = 0 /\ cache \in CacheType
    BY CapacityAssumption DEF Init, EmptyCache, CacheType
  <2>2. Len(<<>>) = 0 /\ admitted \in Seq(Sources)
    BY <2>1, EmptySeq
  <2> QED BY <2>1, <2>2, CapacityAssumption DEF CacheInv, TypeOK, OrderAndEntriesAgree,
           OrderListsModules, WithinCapacity, OnlyVerifiedResident, FifoInv, CountInv
<1> QED BY <1>1, CacheInvInductive, PTL DEF Spec

\* Order and entries agree, so the expect and the debug_assert on the eviction
\* path of get_or_prepare never fire.
THEOREM OrderAgrees == Spec => []OrderAndEntriesAgree
<1>1. CacheInv => OrderAndEntriesAgree
  BY DEF CacheInv
<1> QED BY <1>1, CacheInvariant, PTL

\* The cache stays within its capacity.
THEOREM CapacityRespected == Spec => []WithinCapacity
<1>1. CacheInv => WithinCapacity
  BY DEF CacheInv
<1> QED BY <1>1, CacheInvariant, PTL

\* Only sources that compiled and verified are resident.
THEOREM VerifiedOnly == Spec => []OnlyVerifiedResident
<1>1. CacheInv => OnlyVerifiedResident
  BY DEF CacheInv
<1> QED BY <1>1, CacheInvariant, PTL

\* Hits plus misses are the calls, and every miss is accounted for.
THEOREM CountersCorrect == Spec => []CountersAccountForCalls
<1>1. CacheInv => CountersAccountForCalls
  BY EntriesCounted DEF CacheInv, TypeOK, OrderAndEntriesAgree, CountInv, CountersAccountForCalls, Stats
<1> QED BY <1>1, CacheInvariant, PTL

\* A preparation that fails or panics leaves every resident module in place:
\* the ? of get_or_prepare returns before the eviction.
THEOREM FailureHarmless == Spec => FailureEvictsNothing
<1>1. CacheInv /\ [Next]_vars =>
        [failed' # failed => /\ cache'.modules = cache.modules
                             /\ cache'.order = cache.order]_vars
  <2> SUFFICES ASSUME CacheInv, NEW s \in Sources, Call(s), failed' # failed
               PROVE  cache'.modules = cache.modules /\ cache'.order = cache.order
    BY DEF Next
  <2>1. s \notin cache.modules /\ Preparation[s] # "ok"
    BY DEF Call
  <2>2. cache' = [cache EXCEPT !.misses = cache.misses + 1] /\ cache \in CacheType
    BY <2>1 DEF Call, GetOrPrepare, CacheInv, TypeOK
  <2>3. PICK g : g = cache.misses + 1
    OBVIOUS
  <2>4. cache' = [cache EXCEPT !.misses = g]
    BY <2>2, <2>3
  <2> QED BY ONLY <2>2, <2>4 DEF CacheType
<1> QED BY <1>1, CacheInvariant, PTL DEF Spec, FailureEvictsNothing

\* The resident sources are the last ones inserted, in insertion order.
THEOREM FirstInFirstOut == Spec => []EvictsOldestFirst
<1>1. CacheInv => EvictsOldestFirst
  <2> SUFFICES ASSUME CacheInv PROVE EvictsOldestFirst
    OBVIOUS
  <2> DEFINE n == Len(cache.order)
             e == cache.evictions
             t == SubSeq(admitted, e + 1, Len(admitted))
  <2>1. cache \in CacheType /\ admitted \in Seq(Sources) /\ FifoInv
    BY DEF CacheInv, TypeOK
  <2>2. cache.order \in Seq(Sources) /\ n \in Nat /\ e \in Nat /\ Len(admitted) = e + n
    BY <2>1, CacheFields DEF FifoInv
  <2>3. admitted \in [1..Len(admitted) -> Sources]
    BY <2>1, LenProperties
  <2>4. \A k \in (e + 1)..Len(admitted) : admitted[k] \in Sources
    BY <2>2, <2>3
  <2>5. /\ t \in Seq(Sources)
        /\ Len(t) = IF e + 1 <= e + n THEN (e + n) - (e + 1) + 1 ELSE 0
        /\ \A k \in 1..((e + n) - (e + 1) + 1) : t[k] = admitted[(e + 1) + k - 1]
    <3>1. e + 1 \in Int /\ e + n \in Int /\ t = SubSeq(admitted, e + 1, e + n)
      BY <2>2
    <3>2. \A k \in (e + 1)..(e + n) : admitted[k] \in Sources
      BY <2>2, <2>4
    <3> HIDE DEF t, e, n
    <3> QED BY <3>1, <3>2, SubSeqProperties
  <2>6. (e + n) - (e + 1) + 1 = n /\ (e + 1 <= e + n \/ n = 0)
    BY <2>2
  <2>7. \A k \in 1..n : (e + 1) + k - 1 = e + k
    BY <2>2
  <2>8. Len(t) = n /\ \A k \in 1..n : t[k] = cache.order[k]
    BY <2>1, <2>5, <2>6, <2>7 DEF FifoInv
  <2>9. cache.order = t
    BY <2>2, <2>5, <2>8, SeqEqual
  <2> QED BY <2>1, <2>9 DEF EvictsOldestFirst, FifoInv
<1> QED BY <1>1, CacheInvariant, PTL
=============================================================================
