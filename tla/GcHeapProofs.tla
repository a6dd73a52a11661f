---------------------------- MODULE GcHeapProofs ----------------------------
(***************************************************************************)
(* Proofs about the heap, for every modulus, number of allocations and     *)
(* object graph.                                                           *)
(*                                                                         *)
(* The account of the slots (types, free list, live count) is inductive    *)
(* once the collector's locals are tied to its phase.  The argument that   *)
(* marking is exact needs no paths: the marks stay inside the reachable    *)
(* set, every closed set that holds the marks holds the reachable set, and *)
(* traced slots point at marked ones, so the marks are closed, hence       *)
(* everything reachable, when nothing is pending.  The argument that       *)
(* handles fail closed counts how often a slot was vacated since a handle  *)
(* was issued: within the modulus that count is what separates the         *)
(* handle's generation from the slot's.  The refinement of the object      *)
(* store follows from both: while generations last no handle comes back,   *)
(* so handles stand for identities, and what is marked when marking ends   *)
(* refers to nothing else that lives.                                      *)
(***************************************************************************)
EXTENDS MCGcHeap, FiniteSetTheorems, SequenceTheorems, TLAPS

(***************************************************************************)
(* Part 1: the account of the slots.                                       *)
(***************************************************************************)

\* The collector's locals exist only in their phase.
PhaseInv ==
  /\ phase # "sweep" => collected = 0
  /\ phase # "mark" => pending = {}
  /\ phase = "idle" => marks = {}

AccountInv == TypeOK /\ PhaseInv /\ FreeListExact /\ LiveLenExact

\* What the types say about elements, in the form the steps below use.
LEMMA TypeFacts ==
  ASSUME TypeOK
  PROVE  /\ Len(slots) \in Nat /\ Indices = 1..Len(slots)
         /\ \A i \in Indices : /\ i \in Nat \ {0}
                               /\ slots[i] \in Slot
                               /\ epoch[i] \in Nat
         /\ Len(freeList) \in Nat /\ DOMAIN freeList = 1..Len(freeList)
         /\ freeList \in [1..Len(freeList) -> Nat \ {0}]
         /\ Len(issued) \in Nat /\ DOMAIN issued = 1..Len(issued)
         /\ \A id \in DOMAIN issued : issued[id] \in [handle : Handle, epoch : Nat]
         /\ Len(epoch) = Len(slots) /\ DOMAIN epoch = Indices
<1>1. /\ slots \in Seq(Slot) /\ freeList \in Seq(Nat \ {0})
      /\ issued \in Seq([handle : Handle, epoch : Nat]) /\ epoch \in Seq(Nat)
      /\ Len(epoch) = Len(slots)
  BY DEF TypeOK
<1>2. /\ Len(slots) \in Nat /\ DOMAIN slots = 1..Len(slots) /\ slots \in [1..Len(slots) -> Slot]
  BY <1>1, LenProperties
<1>3. /\ Len(freeList) \in Nat /\ DOMAIN freeList = 1..Len(freeList)
      /\ freeList \in [1..Len(freeList) -> Nat \ {0}]
  BY <1>1, LenProperties
<1>4. /\ Len(issued) \in Nat /\ DOMAIN issued = 1..Len(issued)
      /\ issued \in [1..Len(issued) -> [handle : Handle, epoch : Nat]]
  BY <1>1, LenProperties
<1>5. DOMAIN epoch = 1..Len(epoch) /\ epoch \in [1..Len(epoch) -> Nat]
  BY <1>1, LenProperties
<1> QED BY <1>1, <1>2, <1>3, <1>4, <1>5 DEF Indices

\* The fields of the records.
LEMMA RecordFacts ==
  /\ \A s \in Slot : s.generation \in Nat /\ s.object \in Nat /\ s.refs \in SUBSET Handle
  /\ \A r \in [handle : Handle, epoch : Nat] :
        r.epoch \in Nat /\ r.handle.index \in Nat \ {0} /\ r.handle.generation \in Nat
BY DEF Slot, Handle
\* A free list that names vacant slots once each is no longer than the slot
\* vector: "live_len -= collected" in collect does not underflow.
LEMMA FreeListFits ==
  ASSUME TypeOK, FreeListExact
  PROVE  Len(freeList) <= Len(slots)
<1>1. /\ Len(freeList) \in Nat /\ DOMAIN freeList = 1..Len(freeList)
      /\ Len(slots) \in Nat /\ Indices = 1..Len(slots)
      /\ freeList \in [1..Len(freeList) -> 1..Len(slots)]
  <2>1. \A k \in 1..Len(freeList) : freeList[k] \in 1..Len(slots)
    BY TypeFacts DEF FreeListExact
  <2> QED BY <2>1, TypeFacts
<1>2. freeList \in Injection(1..Len(freeList), 1..Len(slots))
  BY <1>1 DEF FreeListExact, Injection, IsInjective
<1>3. IsFiniteSet(1..Len(slots)) /\ IsFiniteSet(1..Len(freeList))
  BY <1>1, FS_Interval
<1>4. Cardinality(1..Len(freeList)) <= Cardinality(1..Len(slots))
  BY <1>2, <1>3, FS_Injection
<1>5. /\ Cardinality(1..Len(slots)) = Len(slots)
      /\ Cardinality(1..Len(freeList)) = Len(freeList)
  <2>1. \A n \in Nat : Cardinality(1..n) = IF 1 > n THEN 0 ELSE n - 1 + 1
    BY FS_Interval
  <2> QED BY <1>1, <2>1
<1> QED BY <1>4, <1>5

\* The handles a client can hold are well-typed.
LEMMA HandlesTyped == TypeOK => Handles \subseteq Handle
<1> SUFFICES ASSUME TypeOK, NEW id \in DOMAIN issued PROVE issued[id].handle \in Handle
  BY DEF Handles
<1> QED BY TypeFacts

\* Tracer::mark only ever marks slots of the vector.
LEMMA TargetsAreIndices ==
  ASSUME NEW hs PROVE Targets(hs) \subseteq Indices
BY DEF Targets, Resolves

\* wrapping_add gives a generation again.
LEMMA NextGenerationTyped ==
  ASSUME NEW g \in Nat PROVE NextGeneration(g) \in Nat
BY ConstantsAssumption DEF NextGeneration

\* Allocation, in the two shapes it takes: reuse of the last free slot, or a
\* new slot at the end.
LEMMA AllocateShapes ==
  ASSUME AccountInv, NEW refs \in RefSets, Allocate(refs)
  PROVE  \E i \in Nat \ {0}, gen \in Nat, age \in Nat :
           LET id  == Len(issued) + 1
               val == [generation |-> gen, object |-> id, refs |-> refs]
           IN  /\ \/ /\ freeList = <<>> /\ freeList' = <<>>
                     /\ i = Len(slots) + 1 /\ gen = 0 /\ age = 0
                     /\ slots' = Append(slots, val) /\ epoch' = Append(epoch, 0)
                  \/ /\ freeList # <<>> /\ freeList' = SubSeq(freeList, 1, Len(freeList) - 1)
                     /\ Len(freeList) \in DOMAIN freeList /\ i = freeList[Len(freeList)]
                     /\ i \in Indices /\ ~Occupied(i)
                     /\ gen = slots[i].generation /\ age = epoch[i]
                     /\ slots' = [slots EXCEPT ![i] = val] /\ epoch' = epoch
               /\ val \in Slot
               /\ liveLen' = liveLen + 1
               /\ issued' = Append(issued, [handle |-> [index |-> i, generation |-> gen],
                                            epoch |-> age])
               /\ UNCHANGED <<phase, marks, pending, cursor, collected, live>>
<1> DEFINE id == Len(issued) + 1
           val(g) == [generation |-> g, object |-> id, refs |-> refs]
<1>0. refs \in SUBSET Handle
  BY HandlesTyped DEF RefSets, AccountInv
<1>a. TypeOK /\ FreeListExact /\ id \in Nat
  BY TypeFacts DEF AccountInv
<1>b. \A g \in Nat : val(g) \in Slot
  BY <1>0, <1>a DEF Slot
<1>1. CASE freeList = <<>>
  <2> DEFINE i == Len(slots) + 1
  <2>1. i \in Nat \ {0}
    BY <1>a, TypeFacts
  <2>2. /\ slots' = Append(slots, val(0)) /\ epoch' = Append(epoch, 0)
        /\ freeList' = <<>> /\ liveLen' = liveLen + 1
        /\ issued' = Append(issued, [handle |-> [index |-> i, generation |-> 0], epoch |-> 0])
        /\ UNCHANGED <<phase, marks, pending, cursor, collected, live>>
    BY <1>1, <1>a DEF Allocate, AllocationIndex, collectVars
  <2> QED BY <1>1, <1>b, <2>1, <2>2
<1>2. CASE freeList # <<>>
  <2> DEFINE i == freeList[Len(freeList)]
             gen == slots[i].generation
  <2>1. Len(freeList) # 0
    BY <1>a, <1>2, EmptySeq DEF TypeOK
  <2>2. Len(freeList) \in DOMAIN freeList
    BY <1>a, <2>1, TypeFacts
  <2>3. i \in Indices /\ ~Occupied(i)
    BY <1>a, <2>2 DEF FreeListExact
  <2>4. i \in Nat \ {0} /\ gen \in Nat /\ epoch[i] \in Nat /\ i # Len(slots) + 1
    BY <1>a, <2>3, TypeFacts, RecordFacts
  <2>5. /\ slots' = [slots EXCEPT ![i] = val(gen)] /\ epoch' = epoch
        /\ freeList' = SubSeq(freeList, 1, Len(freeList) - 1) /\ liveLen' = liveLen + 1
        /\ issued' = Append(issued, [handle |-> [index |-> i, generation |-> gen],
                                     epoch |-> epoch[i]])
        /\ UNCHANGED <<phase, marks, pending, cursor, collected, live>>
    BY <1>2, <2>4 DEF Allocate, AllocationIndex, collectVars
  <2> QED BY <1>2, <1>b, <2>2, <2>3, <2>4, <2>5
<1> QED BY <1>1, <1>2

\* What is left of an interval without its last element.
LEMMA BelowInterval == \A n \in Nat : \A k \in 1..(n - 1) : k \in 1..n /\ k # n
OBVIOUS

\* allocate keeps the account: it takes the slot it fills off the free list.
LEMMA AllocateKeepsAccount ==
  ASSUME AccountInv, NEW refs \in RefSets, Allocate(refs)
  PROVE  AccountInv'
<1> DEFINE id == Len(issued) + 1
           Entry == [handle : Handle, epoch : Nat]
<1>a. TypeOK /\ PhaseInv /\ FreeListExact /\ LiveLenExact
  BY DEF AccountInv
<1>b. PICK i \in Nat \ {0}, gen \in Nat, age \in Nat :
           LET val == [generation |-> gen, object |-> id, refs |-> refs]
           IN  /\ \/ /\ freeList = <<>> /\ freeList' = <<>>
                     /\ i = Len(slots) + 1 /\ gen = 0 /\ age = 0
                     /\ slots' = Append(slots, val) /\ epoch' = Append(epoch, 0)
                  \/ /\ freeList # <<>> /\ freeList' = SubSeq(freeList, 1, Len(freeList) - 1)
                     /\ Len(freeList) \in DOMAIN freeList /\ i = freeList[Len(freeList)]
                     /\ i \in Indices /\ ~Occupied(i)
                     /\ gen = slots[i].generation /\ age = epoch[i]
                     /\ slots' = [slots EXCEPT ![i] = val] /\ epoch' = epoch
               /\ val \in Slot
               /\ liveLen' = liveLen + 1
               /\ issued' = Append(issued, [handle |-> [index |-> i, generation |-> gen],
                                            epoch |-> age])
               /\ UNCHANGED <<phase, marks, pending, cursor, collected, live>>
  BY AllocateShapes
<1> DEFINE val == [generation |-> gen, object |-> id, refs |-> refs]
           ent == [handle |-> [index |-> i, generation |-> gen], epoch |-> age]
<1>c. id \in Nat \ {0} /\ ent \in Entry /\ val \in Slot
  BY <1>a, <1>b, TypeFacts DEF Handle
<1>d. issued' \in Seq(Entry)
  BY <1>a, <1>b, <1>c, AppendProperties DEF TypeOK
<1>f. /\ liveLen' = liveLen + 1
      /\ UNCHANGED <<phase, marks, pending, cursor, collected, live>>
  BY <1>b
<1>e. PhaseInv'
  BY <1>a, <1>b DEF PhaseInv
<1>1. CASE freeList = <<>>
  <2>1. /\ i = Len(slots) + 1 /\ slots' = Append(slots, val)
        /\ epoch' = Append(epoch, 0) /\ freeList' = <<>>
    BY <1>1, <1>b
  <2>2. /\ slots' \in Seq(Slot) /\ Len(slots') = i
        /\ slots'[i] = val
        /\ \A j \in 1..Len(slots) : slots'[j] = slots[j]
    BY <2>1, <1>a, <1>c, AppendProperties DEF TypeOK
  <2>3. epoch' \in Seq(Nat) /\ Len(epoch') = i
    BY <2>1, <1>a, AppendProperties DEF TypeOK
  <2>4. Indices = 1..Len(slots) /\ Indices' = 1..i /\ Indices \subseteq Indices' /\ Len(slots) \in Nat
    BY <2>1, <2>2, <1>a, TypeFacts, LenProperties DEF Indices
  <2>5. TypeOK'
    <3>1. freeList' \in Seq(Nat \ {0})
      BY <1>1, <2>1, <1>a DEF TypeOK
    <3>2. marks \subseteq Indices /\ pending \subseteq marks /\ live \subseteq Indices
      BY <1>a DEF TypeOK
    <3>3. marks' \subseteq Indices' /\ pending' \subseteq marks' /\ live' \subseteq Indices'
      BY <3>2, <1>f, <2>4
    <3>4. /\ liveLen' \in Nat /\ phase' \in {"idle", "mark", "sweep"}
          /\ cursor' \in Nat \ {0} /\ collected' \in Nat
      BY <1>a, <1>f DEF TypeOK
    <3> QED BY <1>d, <2>2, <2>3, <3>1, <3>3, <3>4 DEF TypeOK
  <2>6. FreeListExact'
    <3>1. \A j \in Indices' : Occupied(j)'
      <4> SUFFICES ASSUME NEW j \in Indices' PROVE slots'[j].object # 0
        BY DEF Occupied
      <4>1. CASE j = i
        BY <4>1, <2>2, <1>c
      <4>2. CASE j \in 1..Len(slots)
        <5>1. Occupied(j)
          BY <4>2, <2>4, <1>1, <1>a, TypeFacts DEF FreeListExact
        <5> QED BY <4>2, <5>1, <2>2 DEF Occupied
      <4> QED BY <4>1, <4>2, <2>1, <2>4
    <3>2. DOMAIN freeList' = {}
      BY <2>1
    <3> QED BY <3>1, <3>2 DEF FreeListExact
  <2>7. LiveLenExact'
    <3>1. Len(freeList) = 0 /\ Len(freeList') = 0
      BY <1>1, <2>1, EmptySeq
    <3> QED BY <1>a, <1>b, <2>1, <2>2, <2>4, <3>1 DEF LiveLenExact, TypeOK
  <2> QED BY <1>e, <2>5, <2>6, <2>7 DEF AccountInv
<1>2. CASE freeList # <<>>
  <2> DEFINE n == Len(freeList)
  <2>1. /\ n \in DOMAIN freeList /\ i = freeList[n] /\ i \in Indices /\ ~Occupied(i)
        /\ slots' = [slots EXCEPT ![i] = val] /\ epoch' = epoch
        /\ freeList' = SubSeq(freeList, 1, n - 1)
    BY <1>2, <1>b
  <2>2. /\ slots' \in Seq(Slot) /\ Len(slots') = Len(slots)
        /\ \A j \in 1..Len(slots) : slots'[j] = IF j = i THEN val ELSE slots[j]
    BY <2>1, <1>a, <1>c, TypeFacts, ExceptSeq DEF TypeOK
  <2>3. Indices' = Indices
    BY <2>1 DEF Indices
  <2>4. n \in Nat \ {0} /\ DOMAIN freeList = 1..n /\ freeList \in [1..n -> Nat \ {0}]
    BY <2>1, <1>a, TypeFacts
  <2>5. /\ freeList' \in Seq(Nat \ {0}) /\ Len(freeList') = n - 1
        /\ \A k \in 1..(n - 1) : freeList'[k] = freeList[k]
    <3>1. \A k \in 1..(n - 1) : freeList[k] \in Nat \ {0}
      BY <2>4
    <3>2. /\ freeList' \in Seq(Nat \ {0})
          /\ Len(freeList') = IF 1 <= n - 1 THEN (n - 1) - 1 + 1 ELSE 0
          /\ \A k \in 1..((n - 1) - 1 + 1) : freeList'[k] = freeList[1 + k - 1]
      BY <2>1, <2>4, <3>1, SubSeqProperties
    <3>3. (n - 1) - 1 + 1 = n - 1 /\ (1 <= n - 1 \/ n - 1 = 0)
      BY <2>4
    <3>4. \A k \in 1..(n - 1) : 1 + k - 1 = k
      BY <2>4
    <3> QED BY <3>2, <3>3, <3>4
  <2>6. DOMAIN freeList' = 1..(n - 1)
    BY <2>5, LenProperties
  <2>7. TypeOK'
    <3>1. marks \subseteq Indices /\ pending \subseteq marks /\ live \subseteq Indices
      BY <1>a DEF TypeOK
    <3>2. marks' \subseteq Indices' /\ pending' \subseteq marks' /\ live' \subseteq Indices'
      BY <3>1, <1>f, <2>3
    <3>3. /\ liveLen' \in Nat /\ phase' \in {"idle", "mark", "sweep"}
          /\ cursor' \in Nat \ {0} /\ collected' \in Nat
      BY <1>a, <1>f DEF TypeOK
    <3>4. epoch' \in Seq(Nat) /\ Len(epoch') = Len(slots')
      BY <1>a, <2>1, <2>2 DEF TypeOK
    <3>5. slots' \in Seq(Slot) /\ freeList' \in Seq(Nat \ {0})
      BY <2>2, <2>5
    <3> QED BY <1>d, <3>2, <3>3, <3>4, <3>5 DEF TypeOK
  <2>8. FreeListExact'
    <3>0. \A k \in 1..(n - 1) : k \in DOMAIN freeList /\ k # n
      BY <2>4, BelowInterval
    <3>1. \A k \in 1..(n - 1) : freeList[k] \in Indices /\ ~Occupied(freeList[k]) /\ freeList[k] # i
      BY <3>0, <2>1, <1>a DEF FreeListExact
    <3>2. \A k \in DOMAIN freeList' : freeList'[k] \in Indices' /\ ~(slots'[freeList'[k]].object # 0)
      <4> SUFFICES ASSUME NEW k \in 1..(n - 1)
                   PROVE  freeList[k] \in Indices /\ slots'[freeList[k]].object = 0
        BY <2>3, <2>5, <2>6
      <4>1. freeList[k] \in 1..Len(slots) /\ freeList[k] # i /\ slots[freeList[k]].object = 0
        BY <3>1, <1>a, TypeFacts DEF Occupied
      <4> QED BY <3>1, <4>1, <2>2
    <3>3. \A j, k \in DOMAIN freeList' : freeList'[j] = freeList'[k] => j = k
      BY <3>0, <2>5, <2>6, <1>a DEF FreeListExact
    <3>4. ASSUME NEW j \in Indices', ~Occupied(j)'
          PROVE  \E k \in DOMAIN freeList' : freeList'[k] = j
      <4>1. j # i /\ ~Occupied(j) /\ j \in Indices
        BY <3>4, <2>1, <2>2, <2>3, <1>a, <1>c, TypeFacts DEF Occupied
      <4>2. PICK k \in DOMAIN freeList : freeList[k] = j
        BY <4>1, <1>a DEF FreeListExact
      <4>3. k \in 1..(n - 1)
        BY <4>1, <4>2, <2>1, <2>4
      <4> QED BY <4>2, <4>3, <2>5, <2>6
    <3> QED BY <3>2, <3>3, <3>4 DEF FreeListExact, Occupied
  <2>9. LiveLenExact'
    <3>1. liveLen + n = Len(slots) + collected /\ liveLen \in Nat /\ Len(slots) \in Nat /\ collected \in Nat
      BY <1>a, TypeFacts DEF LiveLenExact, TypeOK
    <3>2. (liveLen + 1) + (n - 1) = Len(slots) + collected
      BY <3>1, <2>4
    <3> QED BY <1>b, <2>2, <2>5, <3>2 DEF LiveLenExact
  <2> QED BY <1>e, <2>7, <2>8, <2>9 DEF AccountInv
<1> QED BY <1>1, <1>2

\* A write through get_mut changes what one object refers to and nothing else.
LEMMA WriteKeepsAccount ==
  ASSUME AccountInv, NEW h, NEW refs \in RefSets, Write(h, refs)
  PROVE  AccountInv'
<1> DEFINE i == h.index
           val == [slots[i] EXCEPT !.refs = refs]
<1>a. TypeOK /\ PhaseInv /\ FreeListExact /\ LiveLenExact
  BY DEF AccountInv
<1>1. /\ i \in Indices /\ slots' = [slots EXCEPT ![i] = val]
      /\ UNCHANGED <<freeList, liveLen, phase, marks, pending, cursor, collected, issued, epoch, live>>
  BY DEF Write, Resolves, collectVars, historyVars
<1>2. refs \in SUBSET Handle
  BY <1>a, HandlesTyped DEF RefSets
<1>3. val \in Slot /\ val.object = slots[i].object
  BY <1>1, <1>2, <1>a, TypeFacts DEF Slot
<1>4. /\ slots' \in Seq(Slot) /\ Len(slots') = Len(slots)
      /\ \A j \in 1..Len(slots) : slots'[j] = IF j = i THEN val ELSE slots[j]
  <2>1. i \in 1..Len(slots) /\ slots \in Seq(Slot)
    BY <1>1, <1>a, TypeFacts DEF TypeOK
  <2> HIDE DEF val
  <2> QED BY <1>1, <1>3, <2>1, ExceptSeq
<1>5. Indices' = Indices /\ \A j \in Indices : slots'[j].object = slots[j].object
  BY <1>1, <1>3, <1>4, <1>a, TypeFacts DEF Indices
<1>6. TypeOK'
  BY <1>a, <1>1, <1>4, <1>5 DEF TypeOK
<1>7. FreeListExact'
  BY <1>a, <1>1, <1>5 DEF FreeListExact, Occupied
<1>8. LiveLenExact' /\ PhaseInv'
  BY <1>a, <1>1, <1>4 DEF LiveLenExact, PhaseInv
<1> QED BY <1>6, <1>7, <1>8 DEF AccountInv

\* Marking leaves the slots alone.
LEMMA MarkingKeepsAccount ==
  ASSUME AccountInv,
         \/ \E roots \in SUBSET Handles : BeginCollect(roots)
         \/ \E i \in pending : TraceNext(i)
         \/ BeginSweep
  PROVE  AccountInv'
<1>a. TypeOK /\ PhaseInv /\ FreeListExact /\ LiveLenExact
  BY DEF AccountInv
<1>b. UNCHANGED <<slots, freeList, liveLen, issued, epoch>> /\ Indices' = Indices
  BY DEF BeginCollect, TraceNext, BeginSweep, heapVars, historyVars, Indices
<1>c. FreeListExact'
  BY <1>a, <1>b DEF FreeListExact, Occupied
<1>1. CASE \E roots \in SUBSET Handles : BeginCollect(roots)
  <2>1. PICK roots \in SUBSET Handles : BeginCollect(roots)
    BY <1>1
  <2>2. /\ phase = "idle" /\ phase' = "mark" /\ marks' = Targets(roots) /\ pending' = marks'
        /\ live' = Reachable(roots) /\ cursor' = cursor /\ collected' = collected
    BY <2>1 DEF BeginCollect
  <2>3. marks' \subseteq Indices /\ live' \subseteq Indices
    BY <2>2, TargetsAreIndices DEF Reachable
  <2>4. TypeOK'
    BY <1>a, <1>b, <2>2, <2>3 DEF TypeOK
  <2>5. PhaseInv' /\ LiveLenExact'
    BY <1>a, <1>b, <2>2 DEF PhaseInv, LiveLenExact
  <2> QED BY <1>c, <2>4, <2>5 DEF AccountInv
<1>2. CASE \E i \in pending : TraceNext(i)
  <2>1. PICK i \in pending : TraceNext(i)
    BY <1>2
  <2>2. /\ phase = "mark" /\ phase' = "mark" /\ cursor' = cursor /\ collected' = collected
        /\ live' = live
        /\ marks' = marks \union (Targets(slots[i].refs) \ marks)
        /\ pending' = (pending \ {i}) \union (Targets(slots[i].refs) \ marks)
    BY <2>1 DEF TraceNext, historyVars
  <2>3. marks' \subseteq Indices /\ pending' \subseteq marks'
    BY <1>a, <2>2, TargetsAreIndices DEF TypeOK
  <2>4. TypeOK'
    BY <1>a, <1>b, <2>2, <2>3 DEF TypeOK
  <2>5. PhaseInv' /\ LiveLenExact'
    BY <1>a, <1>b, <2>2 DEF PhaseInv, LiveLenExact
  <2> QED BY <1>c, <2>4, <2>5 DEF AccountInv
<1>3. CASE BeginSweep
  <2>1. /\ phase = "mark" /\ phase' = "sweep" /\ pending = {} /\ pending' = {} /\ cursor' = 1
        /\ collected' = 0 /\ marks' = marks /\ live' = live
    BY <1>3 DEF BeginSweep, historyVars
  <2>2. TypeOK'
    BY <1>a, <1>b, <2>1 DEF TypeOK
  <2>3. PhaseInv' /\ LiveLenExact'
    BY <1>a, <1>b, <2>1 DEF PhaseInv, LiveLenExact
  <2> QED BY <1>c, <2>2, <2>3 DEF AccountInv
<1> QED BY <1>1, <1>2, <1>3

\* A sweep step that vacates a slot puts it on the free list at once.
LEMMA SweepSlotKeepsAccount ==
  ASSUME AccountInv, SweepSlot
  PROVE  AccountInv'
<1> DEFINE i == cursor
           val == Vacated(slots[i])
<1>a. TypeOK /\ PhaseInv /\ FreeListExact /\ LiveLenExact
  BY DEF AccountInv
<1>b. /\ phase = "sweep" /\ i \in Indices /\ cursor' = cursor + 1
      /\ UNCHANGED <<liveLen, phase, marks, pending, issued, live>>
  BY DEF SweepSlot
<1>c. cursor' \in Nat \ {0} /\ PhaseInv'
  BY <1>a, <1>b DEF TypeOK, PhaseInv
<1>1. CASE Sweepable(i)
  <2>1. /\ slots' = [slots EXCEPT ![i] = val] /\ epoch' = [epoch EXCEPT ![i] = epoch[i] + 1]
        /\ freeList' = Append(freeList, i) /\ collected' = collected + 1
        /\ Occupied(i)
    BY <1>1 DEF SweepSlot, Sweepable
  <2>2. val \in Slot /\ val.object = 0
    BY <1>a, <1>b, TypeFacts, RecordFacts, NextGenerationTyped DEF Vacated, Slot
  <2>3. /\ slots' \in Seq(Slot) /\ Len(slots') = Len(slots)
        /\ \A j \in 1..Len(slots) : slots'[j] = IF j = i THEN val ELSE slots[j]
    BY <1>a, <1>b, <2>1, <2>2, TypeFacts, ExceptSeq DEF TypeOK
  <2>4. epoch' \in Seq(Nat) /\ Len(epoch') = Len(epoch)
    <3>1. epoch[i] + 1 \in Nat /\ i \in 1..Len(epoch)
      BY <1>a, <1>b, TypeFacts
    <3> QED BY <1>a, <2>1, <3>1, ExceptSeq DEF TypeOK
  <2>5. /\ freeList' \in Seq(Nat \ {0}) /\ Len(freeList') = Len(freeList) + 1
        /\ \A k \in 1..Len(freeList) : freeList'[k] = freeList[k]
        /\ freeList'[Len(freeList) + 1] = i
    BY <1>a, <1>b, <2>1, TypeFacts, AppendProperties DEF TypeOK
  <2>6. DOMAIN freeList' = 1..(Len(freeList) + 1)
    BY <2>5, LenProperties
  <2>7. Indices' = Indices
    BY <2>1 DEF Indices
  <2>8. TypeOK'
    BY <1>a, <1>b, <1>c, <2>1, <2>3, <2>4, <2>5, <2>7 DEF TypeOK
  <2>9. FreeListExact'
    <3> DEFINE n == Len(freeList)
    <3>0. n \in Nat /\ DOMAIN freeList = 1..n /\ Indices = 1..Len(slots)
      BY <1>a, TypeFacts
    <3>1. \A k \in 1..n : freeList[k] \in Indices /\ slots[freeList[k]].object = 0 /\ freeList[k] # i
      BY <1>a, <2>1, <3>0 DEF FreeListExact, Occupied
    <3>2. \A k \in 1..(n + 1) : k \in 1..n \/ k = n + 1
      BY <3>0
    <3>3. \A k \in DOMAIN freeList' : freeList'[k] \in Indices' /\ ~(slots'[freeList'[k]].object # 0)
      BY <1>b, <2>2, <2>3, <2>5, <2>6, <2>7, <3>0, <3>1, <3>2
    <3>4. \A j, k \in DOMAIN freeList' : freeList'[j] = freeList'[k] => j = k
      BY <1>a, <2>5, <2>6, <3>0, <3>1, <3>2 DEF FreeListExact
    <3>5. ASSUME NEW j \in Indices', ~(slots'[j].object # 0)
          PROVE  \E k \in DOMAIN freeList' : freeList'[k] = j
      <4>1. CASE j = i
        <5>1. n + 1 \in 1..(n + 1)
          BY <3>0
        <5> QED BY <4>1, <5>1, <2>5, <2>6
      <4>2. CASE j # i
        <5>1. ~Occupied(j) /\ j \in Indices
          BY <3>5, <4>2, <2>3, <2>7, <3>0 DEF Occupied
        <5>2. PICK k \in 1..n : freeList[k] = j
          BY <5>1, <1>a, <3>0 DEF FreeListExact
        <5>3. k \in 1..(n + 1)
          BY <3>0
        <5> QED BY <5>2, <5>3, <2>5, <2>6
      <4> QED BY <4>1, <4>2
    <3> QED BY <3>3, <3>4, <3>5 DEF FreeListExact, Occupied
  <2>10. LiveLenExact'
    <3>1. /\ liveLen + Len(freeList) = Len(slots) + collected /\ liveLen \in Nat
          /\ Len(slots) \in Nat /\ collected \in Nat /\ Len(freeList) \in Nat
      BY <1>a, TypeFacts DEF LiveLenExact, TypeOK
    <3>2. liveLen + (Len(freeList) + 1) = Len(slots) + (collected + 1)
      BY <3>1
    <3> QED BY <1>b, <2>1, <2>3, <2>5, <3>2 DEF LiveLenExact
  <2> QED BY <1>c, <2>8, <2>9, <2>10 DEF AccountInv
<1>2. CASE ~Sweepable(i)
  <2>1. UNCHANGED <<slots, epoch, freeList, collected>> /\ Indices' = Indices
    BY <1>2 DEF SweepSlot, Indices
  <2>2. TypeOK'
    BY <1>a, <1>b, <1>c, <2>1 DEF TypeOK
  <2>3. FreeListExact' /\ LiveLenExact'
    BY <1>a, <1>b, <2>1 DEF FreeListExact, Occupied, LiveLenExact
  <2> QED BY <1>c, <2>2, <2>3 DEF AccountInv
<1> QED BY <1>1, <1>2

\* The end of collect: the live count drops by what was collected, which it
\* is at least.
LEMMA EndCollectKeepsAccount ==
  ASSUME AccountInv, EndCollect
  PROVE  AccountInv'
<1>a. TypeOK /\ PhaseInv /\ FreeListExact /\ LiveLenExact
  BY DEF AccountInv
<1>b. /\ phase = "sweep" /\ phase' = "idle" /\ marks' = {} /\ collected' = 0 /\ cursor' = 1
      /\ live' = {} /\ liveLen' = liveLen - collected
      /\ UNCHANGED <<slots, freeList, pending, issued, epoch>> /\ Indices' = Indices
  BY DEF EndCollect, CollectionReport, Indices
<1>c. pending' = {}
  BY <1>a, <1>b DEF PhaseInv
<1>1. /\ liveLen + Len(freeList) = Len(slots) + collected /\ liveLen \in Nat
      /\ Len(slots) \in Nat /\ collected \in Nat /\ Len(freeList) \in Nat
  BY <1>a, TypeFacts DEF LiveLenExact, TypeOK
<1>2. liveLen - collected \in Nat /\ (liveLen - collected) + Len(freeList) = Len(slots) + 0
  BY <1>1, <1>a, FreeListFits
<1>3. TypeOK'
  BY <1>a, <1>b, <1>c, <1>2 DEF TypeOK
<1>4. FreeListExact' /\ LiveLenExact' /\ PhaseInv'
  BY <1>a, <1>b, <1>c, <1>2 DEF FreeListExact, Occupied, LiveLenExact, PhaseInv
<1> QED BY <1>3, <1>4 DEF AccountInv

\* No operation of the heap breaks the slot account.
LEMMA AccountInvInductive ==
  AccountInv /\ [Next]_vars => AccountInv'
<1> SUFFICES ASSUME AccountInv, [Next]_vars PROVE AccountInv'
  OBVIOUS
<1>1. CASE \E refs \in RefSets : Allocate(refs)
  BY <1>1, AllocateKeepsAccount
<1>2. CASE \E h \in Handles : \E refs \in RefSets : Write(h, refs)
  BY <1>2, WriteKeepsAccount
<1>3. CASE \E roots \in SUBSET Handles : BeginCollect(roots)
  BY <1>3, MarkingKeepsAccount
<1>4. CASE (\E i \in pending : TraceNext(i)) \/ BeginSweep
  BY <1>4, MarkingKeepsAccount
<1>5. CASE SweepSlot
  BY <1>5, SweepSlotKeepsAccount
<1>6. CASE EndCollect
  BY <1>6, EndCollectKeepsAccount
<1>7. CASE UNCHANGED vars
  BY <1>7 DEF vars, heapVars, collectVars, historyVars, AccountInv, TypeOK, PhaseInv,
       FreeListExact, LiveLenExact, Occupied, Indices
<1> QED BY <1>1, <1>2, <1>3, <1>4, <1>5, <1>6, <1>7 DEF Next, CollectStep

\* The slot account holds in every reachable state.
THEOREM Accounting == Spec => []AccountInv
<1>1. Init => AccountInv
  BY EmptySeq DEF Init, AccountInv, TypeOK, PhaseInv, FreeListExact, LiveLenExact, Indices
<1> QED BY <1>1, AccountInvInductive, PTL DEF Spec

\* The heap's and the collector's state is well-typed; in particular the live
\* count, a usize, never underflows.
THEOREM TypeCorrect == Spec => []TypeOK
<1>1. AccountInv => TypeOK
  BY DEF AccountInv
<1> QED BY <1>1, Accounting, PTL

\* allocate never overwrites a live value, and no vacant slot is lost.
THEOREM FreeListCorrect == Spec => []FreeListExact
<1>1. AccountInv => FreeListExact
  BY DEF AccountInv
<1> QED BY <1>1, Accounting, PTL

\* live_len counts the occupied slots, and the running sweep's count is covered
\* by it: "live_len -= collected" in collect never underflows.
THEOREM LiveCountCorrect == Spec => []LiveLenExact
<1>1. AccountInv => LiveLenExact
  BY DEF AccountInv
<1> QED BY <1>1, Accounting, PTL

(***************************************************************************)
(* Part 2: the collector keeps exactly what the roots reach.               *)
(***************************************************************************)

\* While marking: the marks are inside the reachable set, which is closed and
\* the least such set around them; a slot already traced points at marks only.
MarkInv ==
  phase = "mark" =>
    /\ marks \subseteq live
    /\ Closed(live)
    /\ \A S \in SUBSET Indices : marks \subseteq S /\ Closed(S) => live \subseteq S
    /\ \A i \in marks \ pending : Targets(slots[i].refs) \subseteq marks

\* While sweeping: the marks are the reachable set, all of it occupied, and the
\* slots behind the cursor are settled.
SweepInv ==
  phase = "sweep" =>
    /\ marks = live
    /\ \A i \in live : Occupied(i)
    /\ \A i \in Indices : i < cursor => (Occupied(i) <=> i \in live)

CollectInv == AccountInv /\ MarkInv /\ (phase = "mark" => \A i \in live : Occupied(i)) /\ SweepInv

\* Tracer::mark only ever marks occupied slots.
LEMMA TargetsOccupied ==
  ASSUME NEW hs, NEW i \in Targets(hs) PROVE i \in Indices /\ Occupied(i)
BY DEF Targets, Resolves

\* The reachable set holds the roots, is closed, is least, and is occupied.
LEMMA ReachableIsLeast ==
  ASSUME NEW roots
  PROVE  /\ Targets(roots) \subseteq Reachable(roots)
         /\ Closed(Reachable(roots))
         /\ \A S \in SUBSET Indices : Targets(roots) \subseteq S /\ Closed(S)
                                        => Reachable(roots) \subseteq S
         /\ \A i \in Reachable(roots) : Occupied(i)
<1>1. Targets(roots) \subseteq Reachable(roots)
  BY TargetsAreIndices DEF Reachable
<1>2. Closed(Reachable(roots))
  <2> SUFFICES ASSUME NEW i \in Reachable(roots), NEW j \in Targets(slots[i].refs)
               PROVE  j \in Reachable(roots)
    BY DEF Closed
  <2>1. j \in Indices
    BY TargetsAreIndices
  <2>2. ASSUME NEW S \in SUBSET Indices, Targets(roots) \subseteq S, Closed(S)
        PROVE  j \in S
    <3>1. i \in S
      BY <2>2 DEF Reachable
    <3> QED BY <2>2, <3>1 DEF Closed
  <2> QED BY <2>1, <2>2 DEF Reachable
<1>3. \A S \in SUBSET Indices : Targets(roots) \subseteq S /\ Closed(S) => Reachable(roots) \subseteq S
  BY DEF Reachable
<1>4. \A i \in Reachable(roots) : Occupied(i)
  <2> DEFINE S == {i \in Indices : Occupied(i)}
  <2>1. Targets(roots) \subseteq S /\ Closed(S) /\ S \in SUBSET Indices
    BY TargetsOccupied DEF Closed
  <2>2. Reachable(roots) \subseteq S
    BY <1>3, <2>1
  <2> QED BY <2>2
<1> QED BY <1>1, <1>2, <1>3, <1>4

\* Marking steps do not touch the slots, so what resolves and what is closed
\* stays what it was.
LEMMA SameSlotsSameTargets ==
  ASSUME slots' = slots
  PROVE  /\ Indices' = Indices
         /\ \A i : Occupied(i)' = Occupied(i)
         /\ \A hs : Targets(hs)' = Targets(hs)
         /\ \A S : Closed(S)' = Closed(S)
BY DEF Indices, Occupied, Targets, Resolves, Closed

\* No operation of the heap breaks what marking and sweeping rely on.
LEMMA CollectInvInductive ==
  CollectInv /\ [Next]_vars => CollectInv'
<1> SUFFICES ASSUME CollectInv, [Next]_vars PROVE CollectInv'
  OBVIOUS
<1>a. AccountInv' /\ AccountInv /\ TypeOK
  BY AccountInvInductive DEF CollectInv, AccountInv
<1>1. CASE (\E refs \in RefSets : Allocate(refs)) \/ (\E h \in Handles : \E refs \in RefSets : Write(h, refs))
  <2>1. phase' = "idle"
    BY <1>1 DEF Allocate, Write, collectVars
  <2> QED BY <1>a, <2>1 DEF CollectInv, MarkInv, SweepInv
<1>2. ASSUME NEW roots \in SUBSET Handles, BeginCollect(roots)
      PROVE  CollectInv'
  <2>1. /\ phase' = "mark" /\ marks' = Targets(roots) /\ pending' = Targets(roots)
        /\ live' = Reachable(roots) /\ slots' = slots
    BY <1>2 DEF BeginCollect, heapVars
  <2>2. MarkInv'
    BY <2>1, ReachableIsLeast, SameSlotsSameTargets DEF MarkInv
  <2>3. \A i \in live' : Occupied(i)'
    BY <2>1, ReachableIsLeast, SameSlotsSameTargets
  <2> QED BY <1>a, <2>1, <2>2, <2>3 DEF CollectInv, SweepInv
<1>3. ASSUME NEW i \in pending, TraceNext(i)
      PROVE  CollectInv'
  <2> DEFINE T == Targets(slots[i].refs)
  <2>1. /\ phase = "mark" /\ phase' = "mark" /\ marks' = marks \union (T \ marks)
        /\ pending' = (pending \ {i}) \union (T \ marks) /\ live' = live /\ slots' = slots
    BY <1>3 DEF TraceNext, heapVars, historyVars
  <2>2. /\ marks \subseteq live /\ Closed(live) /\ pending \subseteq marks
        /\ \A S \in SUBSET Indices : marks \subseteq S /\ Closed(S) => live \subseteq S
        /\ \A j \in marks \ pending : Targets(slots[j].refs) \subseteq marks
        /\ \A j \in live : Occupied(j)
    BY <1>a, <2>1 DEF CollectInv, MarkInv, TypeOK
  <2>3. T \subseteq live
    BY <1>3, <2>2 DEF Closed
  <2>4. marks' \subseteq live /\ marks \subseteq marks'
    BY <2>1, <2>2, <2>3
  <2>5. \A j \in marks' \ pending' : Targets(slots[j].refs) \subseteq marks'
    <3> SUFFICES ASSUME NEW j \in marks' \ pending' PROVE Targets(slots[j].refs) \subseteq marks'
      OBVIOUS
    <3>1. j = i \/ j \in marks \ pending
      BY <2>1
    <3> QED BY <3>1, <2>1, <2>2, <2>4
  <2>6. MarkInv'
    BY <2>1, <2>2, <2>4, <2>5, SameSlotsSameTargets DEF MarkInv
  <2>7. \A j \in live' : Occupied(j)'
    BY <2>1, <2>2, SameSlotsSameTargets
  <2> QED BY <1>a, <2>1, <2>6, <2>7 DEF CollectInv, SweepInv
<1>4. CASE BeginSweep
  <2>1. /\ phase = "mark" /\ phase' = "sweep" /\ pending = {} /\ cursor' = 1
        /\ marks' = marks /\ live' = live /\ slots' = slots
    BY <1>4 DEF BeginSweep, heapVars, historyVars
  <2>2. /\ marks \subseteq live /\ marks \in SUBSET Indices
        /\ \A S \in SUBSET Indices : marks \subseteq S /\ Closed(S) => live \subseteq S
        /\ \A j \in marks : Targets(slots[j].refs) \subseteq marks
        /\ \A j \in live : Occupied(j)
    BY <1>a, <2>1 DEF CollectInv, MarkInv, TypeOK
  <2>3. Closed(marks)
    BY <2>2 DEF Closed
  <2>4. marks = live
    BY <2>2, <2>3
  <2>5. \A i \in Indices : ~(i < 1)
    BY <1>a, TypeFacts
  <2>6. SweepInv'
    BY <2>1, <2>2, <2>4, <2>5, SameSlotsSameTargets DEF SweepInv
  <2> QED BY <1>a, <2>1, <2>6 DEF CollectInv, MarkInv
<1>5. CASE SweepSlot
  <2>1. /\ phase = "sweep" /\ phase' = "sweep" /\ cursor \in Indices /\ cursor' = cursor + 1
        /\ marks' = marks /\ live' = live
        /\ slots' = IF Sweepable(cursor) THEN [slots EXCEPT ![cursor] = Vacated(@)] ELSE slots
    BY <1>5 DEF SweepSlot
  <2>2. /\ marks = live /\ \A i \in live : Occupied(i) /\ live \subseteq Indices
        /\ \A i \in Indices : i < cursor => (Occupied(i) <=> i \in live)
    BY <1>a, <2>1 DEF CollectInv, SweepInv, TypeOK
  <2>3. /\ Indices' = Indices
        /\ \A i \in Indices : i # cursor => slots'[i] = slots[i]
    BY <2>1 DEF Indices
  <2>4. slots'[cursor].object # 0 <=> cursor \in live
    <3>1. CASE Sweepable(cursor)
      BY <3>1, <2>1, <2>2 DEF Sweepable, Vacated, Indices
    <3>2. CASE ~Sweepable(cursor)
      BY <3>2, <2>1, <2>2 DEF Sweepable, Occupied
    <3> QED BY <3>1, <3>2
  <2>5. \A i \in Indices : i < cursor + 1 => i < cursor \/ i = cursor
    BY <2>1, <1>a, TypeFacts
  <2>6. \A i \in live : slots'[i].object # 0
    BY <2>2, <2>3, <2>4 DEF Occupied
  <2>7. \A i \in Indices : i < cursor + 1 => (slots'[i].object # 0 <=> i \in live)
    BY <2>2, <2>3, <2>4, <2>5 DEF Occupied
  <2>8. SweepInv'
    BY <2>1, <2>2, <2>3, <2>6, <2>7 DEF SweepInv, Occupied
  <2> QED BY <1>a, <2>1, <2>8 DEF CollectInv, MarkInv
<1>6. CASE EndCollect
  <2>1. phase' = "idle"
    BY <1>6 DEF EndCollect
  <2> QED BY <1>a, <2>1 DEF CollectInv, MarkInv, SweepInv
<1>7. CASE UNCHANGED vars
  <2>1. slots' = slots /\ UNCHANGED <<phase, marks, pending, cursor, live>>
    BY <1>7 DEF vars, heapVars, collectVars, historyVars
  <2> QED BY <1>a, <2>1, SameSlotsSameTargets DEF CollectInv, MarkInv, SweepInv
<1> QED BY <1>1, <1>2, <1>3, <1>4, <1>5, <1>6, <1>7 DEF Next, CollectStep

\* Marks are live and a sweep finds them as marking left them, in every state.
LEMMA Collecting == Spec => []CollectInv
<1>1. Init => AccountInv
  BY EmptySeq DEF Init, AccountInv, TypeOK, PhaseInv, FreeListExact, LiveLenExact, Indices
<1>2. Init => CollectInv
  BY <1>1 DEF Init, CollectInv, MarkInv, SweepInv
<1> QED BY <1>2, CollectInvInductive, PTL DEF Spec

\* When marking ends, the mark bits are exactly the slots that were reachable
\* from the roots when collect was called, for every object graph.
THEOREM MarkingExact == Spec => []MarksAreReachable
<1>1. CollectInv => MarksAreReachable
  BY DEF CollectInv, SweepInv, MarksAreReachable
<1> QED BY <1>1, Collecting, PTL

\* No sweep step changes a reachable slot.
THEOREM SweepSafe == Spec => SweepKeepsLive
<1>1. CollectInv /\ [Next]_vars => [phase = "sweep" => \A i \in live : slots'[i] = slots[i]]_vars
  <2> SUFFICES ASSUME CollectInv, Next, phase = "sweep"
               PROVE  \A i \in live : slots'[i] = slots[i]
    OBVIOUS
  <2>1. marks = live /\ live \subseteq Indices
    BY DEF CollectInv, SweepInv, AccountInv, TypeOK
  <2>2. SweepSlot \/ EndCollect
    BY DEF Next, CollectStep, Allocate, Write, BeginCollect, TraceNext, BeginSweep
  <2>3. CASE EndCollect
    BY <2>3 DEF EndCollect
  <2>4. CASE SweepSlot
    BY <2>1, <2>4 DEF SweepSlot, Sweepable, Indices
  <2> QED BY <2>2, <2>3, <2>4
<1> QED BY <1>1, Collecting, PTL DEF Spec, SweepKeepsLive

\* An injective listing of a set has the set's size.
LEMMA ListedCardinality ==
  ASSUME NEW V, NEW n \in Nat, NEW f \in [1..n -> V],
         \A j, k \in 1..n : f[j] = f[k] => j = k,
         \A v \in V : \E k \in 1..n : f[k] = v
  PROVE  Cardinality(V) = n
<1>1. f \in Bijection(1..n, V)
  BY DEF Bijection, Injection, Surjection, IsInjective
<1> QED BY <1>1, FS_CountingElements DEF ExistsBijection

\* When collect returns, the occupied slots are the reachable ones and the
\* report's live_after is the number of marked slots.
THEOREM CollectionExact == Spec => CollectExact
<1> DEFINE A == phase = "sweep" /\ phase' = "idle" =>
                  /\ {i \in Indices : Occupied(i)} = live
                  /\ CollectionReport.liveAfter = CollectionReport.marked
<1>1. CollectInv /\ [Next]_vars => [A]_vars
  <2> SUFFICES ASSUME CollectInv, Next, phase = "sweep", phase' = "idle"
               PROVE  /\ {i \in Indices : Occupied(i)} = live
                      /\ CollectionReport.liveAfter = CollectionReport.marked
    OBVIOUS
  <2>1. cursor \notin Indices
    BY DEF Next, CollectStep, Allocate, Write, BeginCollect, TraceNext, BeginSweep,
           SweepSlot, EndCollect, SweepDone
  <2>2. /\ AccountInv /\ TypeOK /\ FreeListExact /\ LiveLenExact
        /\ marks = live /\ live \subseteq Indices /\ cursor \in Nat \ {0}
        /\ \A i \in live : Occupied(i)
        /\ \A i \in Indices : i < cursor => (Occupied(i) <=> i \in live)
    BY DEF CollectInv, SweepInv, AccountInv, TypeOK
  <2>3. \A i \in Indices : i < cursor
    BY <2>1, <2>2, TypeFacts
  <2>4. {i \in Indices : Occupied(i)} = live
    BY <2>2, <2>3
  <2> DEFINE vacant == {i \in Indices : ~Occupied(i)}
             n == Len(freeList)
             m == Len(slots)
  <2>5. n \in Nat /\ m \in Nat /\ DOMAIN freeList = 1..n /\ Indices = 1..m
    BY <2>2, TypeFacts
  <2>6. Cardinality(vacant) = n
    <3>1. freeList \in [1..n -> vacant]
      BY <2>2, <2>5, TypeFacts DEF FreeListExact
    <3>2. \A j, k \in 1..n : freeList[j] = freeList[k] => j = k
      BY <2>2, <2>5 DEF FreeListExact
    <3>3. \A v \in vacant : \E k \in 1..n : freeList[k] = v
      BY <2>2, <2>5 DEF FreeListExact
    <3> HIDE DEF vacant, n
    <3> QED BY <2>5, <3>1, <3>2, <3>3, ListedCardinality
  <2>7. IsFiniteSet(Indices) /\ Cardinality(Indices) = m
    <3>1. \A k \in Nat : IsFiniteSet(1..k) /\ Cardinality(1..k) = IF 1 > k THEN 0 ELSE k - 1 + 1
      BY FS_Interval
    <3> QED BY <2>5, <3>1
  <2>8. vacant = Indices \ live /\ Indices \intersect live = live
    BY <2>4, <2>2
  <2>9. Cardinality(Indices \ live) = Cardinality(Indices) - Cardinality(Indices \intersect live)
    BY <2>7, FS_Difference
  <2>10. IsFiniteSet(live) /\ Cardinality(live) \in Nat
    BY <2>7, <2>2, FS_Subset, FS_CardinalityType
  <2>11. liveLen + n = m + collected /\ liveLen \in Nat /\ collected \in Nat
    BY <2>2 DEF LiveLenExact, TypeOK
  <2>12. n = m - Cardinality(live)
    BY <2>6, <2>7, <2>8, <2>9
  <2>13. liveLen - collected = Cardinality(marks)
    BY <2>2, <2>5, <2>10, <2>11, <2>12
  <2> QED BY <2>4, <2>13 DEF CollectionReport
<1> QED BY <1>1, Collecting, PTL DEF Spec, CollectExact

(***************************************************************************)
(* Part 3: handles fail closed while the generation has not gone round.    *)
(***************************************************************************)

\* The generation g becomes after k advances, for k below the modulus.
Advanced(g, k) == IF g + k < GenerationModulus THEN g + k ELSE g + k - GenerationModulus

GenerationsBounded ==
  /\ \A i \in Indices : slots[i].generation < GenerationModulus
  /\ \A id \in DOMAIN issued : issued[id].handle.generation < GenerationModulus

\* A handle's slot exists and was vacated at least as often now as when the
\* handle was issued; within the modulus, the difference separates the slot's
\* generation from the handle's.
HandleAges ==
  \A id \in DOMAIN issued :
    LET h == issued[id].handle
    IN  /\ h.index \in Indices
        /\ issued[id].epoch <= epoch[h.index]
        /\ epoch[h.index] - issued[id].epoch < GenerationModulus =>
             slots[h.index].generation =
               Advanced(h.generation, epoch[h.index] - issued[id].epoch)

\* The objects of one slot have different epochs: the occupant has the slot's,
\* and the previous ones are older.
OneObjectPerEpoch ==
  /\ \A i \in Indices : Occupied(i) =>
       /\ slots[i].object \in DOMAIN issued
       /\ issued[slots[i].object].handle.index = i
       /\ issued[slots[i].object].epoch = epoch[i]
  /\ \A id \in DOMAIN issued :
       LET i == issued[id].handle.index
       IN  issued[id].epoch = epoch[i] => Occupied(i) /\ slots[i].object = id

HandleInv == AccountInv /\ GenerationsBounded /\ HandleAges /\ OneObjectPerEpoch

\* allocate gives a reused slot the generation the sweep advanced it to, so no
\* older handle in its window resolves to the new object.
LEMMA AllocateKeepsHandles ==
  ASSUME HandleInv, AccountInv', NEW refs \in RefSets, Allocate(refs)
  PROVE  HandleInv'
<1> DEFINE id == Len(issued) + 1
<1>a. TypeOK /\ TypeOK' /\ AccountInv
  BY DEF HandleInv, AccountInv
<1>b. PICK i \in Nat \ {0}, gen \in Nat, age \in Nat :
           LET val == [generation |-> gen, object |-> id, refs |-> refs]
           IN  /\ \/ /\ freeList = <<>> /\ freeList' = <<>>
                     /\ i = Len(slots) + 1 /\ gen = 0 /\ age = 0
                     /\ slots' = Append(slots, val) /\ epoch' = Append(epoch, 0)
                  \/ /\ freeList # <<>> /\ freeList' = SubSeq(freeList, 1, Len(freeList) - 1)
                     /\ Len(freeList) \in DOMAIN freeList /\ i = freeList[Len(freeList)]
                     /\ i \in Indices /\ ~Occupied(i)
                     /\ gen = slots[i].generation /\ age = epoch[i]
                     /\ slots' = [slots EXCEPT ![i] = val] /\ epoch' = epoch
               /\ val \in Slot
               /\ liveLen' = liveLen + 1
               /\ issued' = Append(issued, [handle |-> [index |-> i, generation |-> gen],
                                            epoch |-> age])
               /\ UNCHANGED <<phase, marks, pending, cursor, collected, live>>
  BY <1>a, AllocateShapes
<1> DEFINE val == [generation |-> gen, object |-> id, refs |-> refs]
           ent == [handle |-> [index |-> i, generation |-> gen], epoch |-> age]
\* Both shapes: the slot's new contents, its unchanged epoch, and no handle
\* issued before has that slot at that epoch.
<1>1. /\ i \in Indices' /\ Indices \subseteq Indices'
      /\ \A j \in Indices' : j = i \/ j \in Indices
      /\ slots'[i] = val /\ epoch'[i] = age /\ gen < GenerationModulus
      /\ \A j \in Indices : epoch'[j] = epoch[j] /\ (j # i => slots'[j] = slots[j])
      /\ i \in Indices => gen = slots[i].generation /\ ~Occupied(i) /\ age = epoch[i]
  <2>1. CASE freeList = <<>>
    <3>1. /\ i = Len(slots) + 1 /\ gen = 0 /\ age = 0 /\ val \in Slot
          /\ slots' = Append(slots, val) /\ epoch' = Append(epoch, 0)
      BY <2>1, <1>b
    <3>2. /\ Len(slots') = i /\ slots'[i] = val
          /\ \A j \in 1..Len(slots) : slots'[j] = slots[j]
      BY <3>1, <1>a, AppendProperties DEF TypeOK
    <3>3. /\ epoch'[i] = 0 /\ \A j \in 1..Len(slots) : epoch'[j] = epoch[j]
      BY <3>1, <1>a, AppendProperties DEF TypeOK
    <3>4. Indices = 1..Len(slots) /\ Indices' = 1..i /\ Len(slots) \in Nat
      <4>1. DOMAIN slots' = 1..Len(slots')
        BY <1>a, LenProperties DEF TypeOK
      <4> QED BY <1>a, <3>2, <4>1, TypeFacts DEF Indices
    <3>5. 0 < GenerationModulus
      BY ConstantsAssumption
    <3>6. /\ i \in 1..i /\ i \notin 1..Len(slots) /\ 1..Len(slots) \subseteq 1..i
          /\ \A j \in 1..i : j = i \/ j \in 1..Len(slots)
      BY <3>1, <3>4
    <3> HIDE DEF val
    <3> QED BY <3>1, <3>2, <3>3, <3>4, <3>5, <3>6
  <2>2. CASE freeList # <<>>
    <3>1. /\ i \in Indices /\ ~Occupied(i) /\ gen = slots[i].generation /\ age = epoch[i]
          /\ slots' = [slots EXCEPT ![i] = val] /\ epoch' = epoch
      BY <2>2, <1>b
    <3>2. gen < GenerationModulus
      BY <3>1 DEF HandleInv, GenerationsBounded
    <3> HIDE DEF val
    <3> QED BY <3>1, <3>2 DEF Indices
  <2> QED BY <2>1, <2>2
<1>2. /\ DOMAIN issued = 1..Len(issued) /\ Len(issued) \in Nat
      /\ \A k \in DOMAIN issued : issued[k] \in [handle : Handle, epoch : Nat]
  BY <1>a, TypeFacts
<1>3. /\ \A k \in 1..Len(issued) : issued'[k] = issued[k]
      /\ issued'[id] = ent
      /\ DOMAIN issued' = 1..id
  <2>1. ent \in [handle : Handle, epoch : Nat]
    BY <1>b DEF Handle
  <2>2. issued' = Append(issued, ent)
    BY <1>b
  <2>3. /\ Len(issued') = id /\ issued'[id] = ent
        /\ \A k \in 1..Len(issued) : issued'[k] = issued[k]
    BY <1>a, <2>1, <2>2, AppendProperties DEF TypeOK
  <2>4. DOMAIN issued' = 1..Len(issued')
    BY <1>a, LenProperties DEF TypeOK
  <2> QED BY <2>3, <2>4
<1>4. \A k \in DOMAIN issued' : k = id \/ k \in DOMAIN issued
  BY <1>2, <1>3
<1>5. id \in DOMAIN issued' /\ DOMAIN issued \subseteq DOMAIN issued' /\ id \notin DOMAIN issued
  BY <1>2, <1>3
<1>6. \A k \in DOMAIN issued : issued'[k] = issued[k]
  BY <1>2, <1>3
<1>7. /\ ent.handle.index = i /\ ent.handle.generation = gen /\ ent.epoch = age
      /\ val.generation = gen /\ val.object = id /\ id # 0
  BY <1>2
<1> HIDE DEF val, ent, id
<1>8. GenerationsBounded'
  BY <1>1, <1>3, <1>4, <1>6, <1>7 DEF HandleInv, GenerationsBounded
<1>9. HandleAges'
  <2> SUFFICES ASSUME NEW k \in DOMAIN issued'
               PROVE  LET h == issued'[k].handle
                      IN  /\ h.index \in Indices'
                          /\ issued'[k].epoch <= epoch'[h.index]
                          /\ epoch'[h.index] - issued'[k].epoch < GenerationModulus =>
                               slots'[h.index].generation =
                                 Advanced(h.generation, epoch'[h.index] - issued'[k].epoch)
    BY DEF HandleAges, Advanced
  <2>1. CASE k = id
    <3>1. gen = Advanced(gen, age - age) /\ age <= age
      BY <1>1, ConstantsAssumption DEF Advanced
    <3> QED BY <2>1, <3>1, <1>1, <1>3, <1>7
  <2>2. CASE k \in DOMAIN issued
    <3> DEFINE h == issued[k].handle
    <3>1. /\ h.index \in Indices /\ issued[k].epoch <= epoch[h.index]
          /\ epoch[h.index] - issued[k].epoch < GenerationModulus =>
               slots[h.index].generation = Advanced(h.generation, epoch[h.index] - issued[k].epoch)
      BY <2>2 DEF HandleInv, HandleAges
    <3>2. issued'[k] = issued[k] /\ h.index \in Indices' /\ epoch'[h.index] = epoch[h.index]
      BY <2>2, <1>1, <1>6, <3>1
    <3>3. slots'[h.index].generation = slots[h.index].generation
      BY <3>1, <1>1, <1>7
    <3> QED BY <3>1, <3>2, <3>3
  <2> QED BY <1>4, <2>1, <2>2
<1>10. OneObjectPerEpoch'
  <2>1. ASSUME NEW j \in Indices', slots'[j].object # 0
        PROVE  /\ slots'[j].object \in DOMAIN issued'
               /\ issued'[slots'[j].object].handle.index = j
               /\ issued'[slots'[j].object].epoch = epoch'[j]
    <3>1. CASE j = i
      BY <3>1, <1>1, <1>3, <1>5, <1>7
    <3>2. CASE j # i
      <4>1. j \in Indices /\ slots'[j] = slots[j] /\ epoch'[j] = epoch[j] /\ Occupied(j)
        BY <2>1, <3>2, <1>1 DEF Occupied
      <4>2. /\ slots[j].object \in DOMAIN issued
            /\ issued[slots[j].object].handle.index = j
            /\ issued[slots[j].object].epoch = epoch[j]
        BY <4>1 DEF HandleInv, OneObjectPerEpoch
      <4> QED BY <4>1, <4>2, <1>5, <1>6
    <3> QED BY <3>1, <3>2
  <2>2. ASSUME NEW k \in DOMAIN issued', issued'[k].epoch = epoch'[issued'[k].handle.index]
        PROVE  slots'[issued'[k].handle.index].object # 0 /\ slots'[issued'[k].handle.index].object = k
    <3>1. CASE k = id
      BY <3>1, <1>1, <1>3, <1>7
    <3>2. CASE k \in DOMAIN issued
      <4> DEFINE j == issued[k].handle.index
      <4>1. issued'[k] = issued[k] /\ j \in Indices /\ epoch'[j] = epoch[j]
        BY <3>2, <1>1, <1>6 DEF HandleInv, HandleAges
      <4>2. Occupied(j) /\ slots[j].object = k
        BY <2>2, <3>2, <4>1 DEF HandleInv, OneObjectPerEpoch
      <4>3. j # i
        BY <4>1, <4>2, <1>1
      <4> QED BY <4>1, <4>2, <4>3, <1>1 DEF Occupied
    <3> QED BY <3>1, <3>2, <1>4
  <2> QED BY <2>1, <2>2 DEF OneObjectPerEpoch, Occupied
<1> QED BY <1>8, <1>9, <1>10 DEF HandleInv

\* One more advance, while the count stays below the modulus.
LEMMA AdvanceOnce ==
  ASSUME NEW g \in Nat, NEW k \in Nat, g < GenerationModulus, k + 1 < GenerationModulus
  PROVE  NextGeneration(Advanced(g, k)) = Advanced(g, k + 1)
BY ConstantsAssumption DEF NextGeneration, Advanced

\* A sweep step that vacates a slot moves its generation past its handles.
LEMMA SweepSlotKeepsHandles ==
  ASSUME HandleInv, AccountInv', SweepSlot
  PROVE  HandleInv'
<1> DEFINE i == cursor
<1>a. TypeOK /\ issued' = issued /\ i \in Indices
  BY DEF HandleInv, AccountInv, SweepSlot
<1>1. CASE ~Sweepable(i)
  BY <1>1, <1>a DEF SweepSlot, HandleInv, GenerationsBounded, HandleAges, OneObjectPerEpoch,
       Occupied, Indices, Advanced
<1>2. CASE Sweepable(i)
  <2> DEFINE g == slots[i].generation
  <2>1. /\ slots' = [slots EXCEPT ![i] = Vacated(slots[i])]
        /\ epoch' = [epoch EXCEPT ![i] = epoch[i] + 1] /\ Occupied(i)
    BY <1>2 DEF SweepSlot, Sweepable
  <2>2. /\ Indices' = Indices /\ \A j \in Indices : epoch[j] \in Nat /\ slots[j].generation \in Nat
        /\ DOMAIN epoch = Indices
        /\ \A k \in DOMAIN issued : /\ issued[k].epoch \in Nat
                                    /\ issued[k].handle.generation \in Nat
    BY <1>a, <2>1, TypeFacts, RecordFacts DEF Indices
  <2>3. /\ slots'[i].generation = NextGeneration(g) /\ slots'[i].object = 0
        /\ epoch'[i] = epoch[i] + 1
        /\ \A j \in Indices : j # i => slots'[j] = slots[j] /\ epoch'[j] = epoch[j]
    BY <1>a, <2>1, <2>2 DEF Vacated, Indices
  <2>4. NextGeneration(g) < GenerationModulus
    <3>1. g < GenerationModulus /\ g \in Nat
      BY <1>a, <2>2 DEF HandleInv, GenerationsBounded
    <3> QED BY <3>1, ConstantsAssumption DEF NextGeneration
  <2>5. GenerationsBounded'
    <3>1. /\ \A j \in Indices : slots[j].generation < GenerationModulus
          /\ \A id \in DOMAIN issued : issued[id].handle.generation < GenerationModulus
      BY DEF HandleInv, GenerationsBounded
    <3>2. \A j \in Indices : slots'[j].generation < GenerationModulus
      BY <3>1, <2>3, <2>4
    <3> QED BY <1>a, <2>2, <3>1, <3>2 DEF GenerationsBounded
  <2>6. HandleAges'
    <3> SUFFICES ASSUME NEW k \in DOMAIN issued
                 PROVE  LET h == issued[k].handle
                        IN  /\ h.index \in Indices
                            /\ issued[k].epoch <= epoch'[h.index]
                            /\ epoch'[h.index] - issued[k].epoch < GenerationModulus =>
                                 slots'[h.index].generation =
                                   Advanced(h.generation, epoch'[h.index] - issued[k].epoch)
      BY <1>a, <2>2 DEF HandleAges, Advanced
    <3> DEFINE h == issued[k].handle
               e == issued[k].epoch
               j == h.index
    <3>1. /\ j \in Indices /\ e <= epoch[j] /\ e \in Nat /\ epoch[j] \in Nat /\ h.generation \in Nat
          /\ h.generation < GenerationModulus
          /\ epoch[j] - e < GenerationModulus => slots[j].generation = Advanced(h.generation, epoch[j] - e)
      BY <2>2 DEF HandleInv, HandleAges, GenerationsBounded
    <3>2. CASE j # i
      BY <3>1, <3>2, <2>3
    <3>3. CASE j = i
      <4> DEFINE d == epoch[j] - e
      <4>1. d \in Nat /\ e <= epoch[j] + 1 /\ (epoch[j] + 1) - e = d + 1
        BY <3>1
      <4>2. ASSUME d + 1 < GenerationModulus
            PROVE  slots'[j].generation = Advanced(h.generation, d + 1)
        <5>1. d < GenerationModulus
          BY <4>1, <4>2, ConstantsAssumption
        <5>2. slots[j].generation = Advanced(h.generation, d)
          BY <3>1, <5>1
        <5>3. NextGeneration(Advanced(h.generation, d)) = Advanced(h.generation, d + 1)
          BY <3>1, <4>1, <4>2, AdvanceOnce
        <5> QED BY <3>3, <5>2, <5>3, <2>3
      <4> QED BY <3>1, <3>3, <4>1, <4>2, <2>3
    <3> QED BY <3>2, <3>3
  <2>7. OneObjectPerEpoch'
    <3>1. ASSUME NEW j \in Indices, slots'[j].object # 0
          PROVE  /\ slots'[j].object \in DOMAIN issued
                 /\ issued[slots'[j].object].handle.index = j
                 /\ issued[slots'[j].object].epoch = epoch'[j]
      <4>1. j # i /\ slots'[j] = slots[j] /\ epoch'[j] = epoch[j] /\ Occupied(j)
        BY <3>1, <2>3 DEF Occupied
      <4> QED BY <4>1 DEF HandleInv, OneObjectPerEpoch
    <3>2. ASSUME NEW k \in DOMAIN issued, issued[k].epoch = epoch'[issued[k].handle.index]
          PROVE  slots'[issued[k].handle.index].object # 0 /\ slots'[issued[k].handle.index].object = k
      <4> DEFINE j == issued[k].handle.index
      <4>1. j \in Indices /\ issued[k].epoch <= epoch[j]
        BY DEF HandleInv, HandleAges
      <4>2. j # i
        BY <3>2, <4>1, <2>2, <2>3
      <4> QED BY <3>2, <4>1, <4>2, <2>3 DEF HandleInv, OneObjectPerEpoch, Occupied
    <3> QED BY <3>1, <3>2, <1>a, <2>2 DEF OneObjectPerEpoch, Occupied
  <2> QED BY <2>5, <2>6, <2>7 DEF HandleInv
<1> QED BY <1>1, <1>2

\* No operation of the heap breaks the account of issued handles.
LEMMA HandleInvInductive ==
  HandleInv /\ [Next]_vars => HandleInv'
<1> SUFFICES ASSUME HandleInv, [Next]_vars PROVE HandleInv'
  OBVIOUS
<1>a. AccountInv' /\ AccountInv /\ TypeOK
  BY AccountInvInductive DEF HandleInv, AccountInv
<1>1. CASE \E refs \in RefSets : Allocate(refs)
  BY <1>1, <1>a, AllocateKeepsHandles
<1>2. CASE SweepSlot
  BY <1>2, <1>a, SweepSlotKeepsHandles
<1>3. ASSUME NEW h \in Handles, NEW refs \in RefSets, Write(h, refs)
      PROVE  HandleInv'
  <2>1. /\ slots' = [slots EXCEPT ![h.index].refs = refs] /\ h.index \in Indices
        /\ issued' = issued /\ epoch' = epoch
    BY <1>3 DEF Write, Resolves, historyVars
  <2>2. /\ Indices' = Indices
        /\ \A j \in Indices : slots'[j].generation = slots[j].generation /\ slots'[j].object = slots[j].object
    <3>1. Indices' = Indices
      BY <2>1 DEF Indices
    <3>2. \A j \in Indices : slots[j] \in Slot
      BY <1>a, TypeFacts
    <3> QED BY <2>1, <3>1, <3>2 DEF Indices, Slot
  <2>3. \A k \in DOMAIN issued : issued[k].handle.index \in Indices
    BY DEF HandleInv, HandleAges
  <2> QED BY <1>a, <2>1, <2>2, <2>3 DEF HandleInv, GenerationsBounded, HandleAges, OneObjectPerEpoch,
           Occupied, Advanced
<1>4. CASE \/ \E roots \in SUBSET Handles : BeginCollect(roots)
           \/ \E i \in pending : TraceNext(i)
           \/ BeginSweep \/ EndCollect \/ UNCHANGED vars
  <2>1. slots' = slots /\ issued' = issued /\ epoch' = epoch /\ Indices' = Indices
    BY <1>4 DEF BeginCollect, TraceNext, BeginSweep, EndCollect, vars, heapVars, historyVars, Indices
  <2> QED BY <1>a, <2>1 DEF HandleInv, GenerationsBounded, HandleAges, OneObjectPerEpoch,
           Occupied, Advanced
<1> QED BY <1>1, <1>2, <1>3, <1>4 DEF Next, CollectStep

\* A handle never resolves to an object other than its own while its slot was
\* vacated fewer than GenerationModulus (2^32) times since it was issued.
THEOREM HandlesFailClosed == Spec => []FailClosedWithinWindow
<1>1. Init => AccountInv
  BY EmptySeq DEF Init, AccountInv, TypeOK, PhaseInv, FreeListExact, LiveLenExact, Indices
<1>2. Init => HandleInv
  BY <1>1 DEF Init, HandleInv, GenerationsBounded, HandleAges, OneObjectPerEpoch, Indices
<1>3. HandleInv => FailClosedWithinWindow
  <2> SUFFICES ASSUME HandleInv, NEW id \in DOMAIN issued, Resolves(issued[id].handle),
                      epoch[issued[id].handle.index] < issued[id].epoch + GenerationModulus
               PROVE  slots[issued[id].handle.index].object = id
    BY DEF FailClosedWithinWindow
  <2> DEFINE h == issued[id].handle
             e == issued[id].epoch
             E == epoch[h.index]
  <2>1. TypeOK
    BY DEF HandleInv, AccountInv
  <2>2. h.index \in Indices /\ slots[h.index].generation = h.generation
    BY DEF Resolves
  <2>3. E \in Nat /\ e \in Nat /\ h.generation \in Nat /\ h.generation < GenerationModulus /\ e <= E
    BY <2>1, <2>2, TypeFacts, RecordFacts DEF HandleInv, GenerationsBounded, HandleAges
  <2>4. E - e < GenerationModulus
    BY <2>3, ConstantsAssumption
  <2>5. h.generation = Advanced(h.generation, E - e)
    BY <2>2, <2>4 DEF HandleInv, HandleAges
  <2> DEFINE g == h.generation
  <2>6. E = e
    <3>1. g \in Nat /\ g < GenerationModulus /\ E \in Nat /\ e \in Nat /\ e <= E /\ E - e < GenerationModulus
      BY <2>3, <2>4
    <3>2. g = IF g + (E - e) < GenerationModulus THEN g + (E - e) ELSE g + (E - e) - GenerationModulus
      BY <2>5 DEF Advanced
    <3> HIDE DEF g, E, e
    <3> QED BY <3>1, <3>2, ConstantsAssumption
  <2> QED BY <2>6 DEF HandleInv, OneObjectPerEpoch
<1> QED BY <1>2, <1>3, HandleInvInductive, PTL DEF Spec

(***************************************************************************)
(* Part 4: the heap implements the object store.  Identities never come    *)
(* back there, so no handle may come back here: that is so as long as not  *)
(* more objects are allocated than there are generations.                  *)
(***************************************************************************)

\* While not all generations are used up, a slot's generation is the number of
\* times it was vacated, and a handle's the number of times its slot had been;
\* and what an object refers to was issued.
EpochInv ==
  /\ Len(issued) <= MaxObjects
  /\ \A id \in DOMAIN issued : issued[id].handle.generation = issued[id].epoch
  /\ \A i \in Indices : /\ epoch[i] < GenerationModulus => slots[i].generation = epoch[i]
                        /\ epoch[i] <= Len(issued)
                        /\ Occupied(i) => epoch[i] < Len(issued)
                        /\ slots[i].refs \subseteq Handles

RefineInv == CollectInv /\ HandleInv /\ EpochInv

\* What an allocation does, whether it takes a vacant slot or makes one.
LEMMA AllocateEffect ==
  ASSUME AccountInv, AccountInv', NEW refs \in RefSets, Allocate(refs)
  PROVE  \E i \in Nat \ {0}, gen \in Nat, age \in Nat :
           /\ Indices' = Indices \union {i}
           /\ \A j \in Indices : j # i => slots'[j] = slots[j]
           /\ \A j \in Indices : epoch'[j] = epoch[j]
           /\ slots'[i].generation = gen /\ slots'[i].object = Len(issued) + 1
           /\ slots'[i].refs = refs /\ epoch'[i] = age
           /\ i \in Indices => gen = slots[i].generation /\ ~Occupied(i) /\ age = epoch[i]
           /\ i \notin Indices => gen = 0 /\ age = 0
           /\ Len(issued') = Len(issued) + 1 /\ DOMAIN issued' = DOMAIN issued \union {Len(issued) + 1}
           /\ \A id \in DOMAIN issued : issued'[id] = issued[id]
           /\ issued'[Len(issued) + 1].handle = [index |-> i, generation |-> gen]
           /\ issued'[Len(issued) + 1].epoch = age
           /\ phase = "idle" /\ phase' = "idle"
<1> DEFINE id == Len(issued) + 1
<1>a. TypeOK /\ TypeOK'
  BY DEF AccountInv
<1>b. PICK i \in Nat \ {0}, gen \in Nat, age \in Nat :
           LET val == [generation |-> gen, object |-> id, refs |-> refs]
           IN  /\ \/ /\ freeList = <<>> /\ freeList' = <<>>
                     /\ i = Len(slots) + 1 /\ gen = 0 /\ age = 0
                     /\ slots' = Append(slots, val) /\ epoch' = Append(epoch, 0)
                  \/ /\ freeList # <<>> /\ freeList' = SubSeq(freeList, 1, Len(freeList) - 1)
                     /\ Len(freeList) \in DOMAIN freeList /\ i = freeList[Len(freeList)]
                     /\ i \in Indices /\ ~Occupied(i)
                     /\ gen = slots[i].generation /\ age = epoch[i]
                     /\ slots' = [slots EXCEPT ![i] = val] /\ epoch' = epoch
               /\ val \in Slot
               /\ liveLen' = liveLen + 1
               /\ issued' = Append(issued, [handle |-> [index |-> i, generation |-> gen],
                                            epoch |-> age])
               /\ UNCHANGED <<phase, marks, pending, cursor, collected, live>>
  BY <1>a, AllocateShapes
<1> DEFINE val == [generation |-> gen, object |-> id, refs |-> refs]
           ent == [handle |-> [index |-> i, generation |-> gen], epoch |-> age]
<1>1. val.generation = gen /\ val.object = id /\ val.refs = refs
  OBVIOUS
<1>2. ent.handle = [index |-> i, generation |-> gen] /\ ent.epoch = age
  OBVIOUS
<1>3. /\ Indices' = Indices \union {i} /\ \A j \in Indices : j # i => slots'[j] = slots[j]
      /\ \A j \in Indices : epoch'[j] = epoch[j]
      /\ slots'[i] = val /\ epoch'[i] = age
      /\ i \in Indices => gen = slots[i].generation /\ ~Occupied(i) /\ age = epoch[i]
      /\ i \notin Indices => gen = 0 /\ age = 0
  <2>1. CASE freeList = <<>>
    <3>1. /\ i = Len(slots) + 1 /\ gen = 0 /\ age = 0 /\ val \in Slot
          /\ slots' = Append(slots, val) /\ epoch' = Append(epoch, 0)
      BY <2>1, <1>b
    <3>2. /\ Len(slots') = i /\ slots'[i] = val
          /\ \A j \in 1..Len(slots) : slots'[j] = slots[j]
      BY <3>1, <1>a, AppendProperties DEF TypeOK
    <3>3. /\ epoch'[i] = 0 /\ \A j \in 1..Len(slots) : epoch'[j] = epoch[j]
      BY <3>1, <1>a, AppendProperties DEF TypeOK
    <3>4. Indices = 1..Len(slots) /\ Indices' = 1..i /\ Len(slots) \in Nat
      <4>1. DOMAIN slots' = 1..Len(slots')
        BY <1>a, LenProperties DEF TypeOK
      <4> QED BY <1>a, <3>2, <4>1, TypeFacts DEF Indices
    <3>5. 1..i = 1..Len(slots) \union {i} /\ i \notin 1..Len(slots)
      BY <3>1, <3>4
    <3> HIDE DEF val
    <3> QED BY <3>1, <3>2, <3>3, <3>4, <3>5
  <2>2. CASE freeList # <<>>
    <3>1. /\ i \in Indices /\ ~Occupied(i) /\ gen = slots[i].generation /\ age = epoch[i]
          /\ slots' = [slots EXCEPT ![i] = val] /\ epoch' = epoch
      BY <2>2, <1>b
    <3> HIDE DEF val
    <3> QED BY <3>1 DEF Indices
  <2> QED BY <2>1, <2>2
<1>4. /\ DOMAIN issued = 1..Len(issued) /\ Len(issued) \in Nat
      /\ issued \in Seq([handle : Handle, epoch : Nat])
  BY <1>a, TypeFacts DEF TypeOK
<1>5. ent \in [handle : Handle, epoch : Nat] /\ issued' = Append(issued, ent)
  BY <1>b DEF Handle
<1> HIDE DEF ent, val
<1>6. /\ Len(issued') = id /\ issued'[id] = ent
      /\ \A k \in 1..Len(issued) : issued'[k] = issued[k]
  BY <1>4, <1>5, AppendProperties
<1>7. DOMAIN issued' = 1..id
  BY <1>a, <1>6, LenProperties DEF TypeOK
<1>8. 1..id = 1..Len(issued) \union {id}
  BY <1>4
<1>9. phase = "idle" /\ phase' = "idle"
  BY DEF Allocate, collectVars
<1> HIDE DEF id
<1>10. /\ DOMAIN issued' = DOMAIN issued \union {id} /\ \A k \in DOMAIN issued : issued'[k] = issued[k]
  BY <1>4, <1>6, <1>7, <1>8
<1> QED BY <1>1, <1>2, <1>3, <1>6, <1>9, <1>10 DEF id

\* An object allocated while generations last gets a handle nobody had.
LEMMA HandleIsNew ==
  ASSUME HandleInv, EpochInv, NEW i, NEW gen, NEW age \in Nat,
         i \in Indices => gen = age /\ ~Occupied(i) /\ age = epoch[i]
  PROVE  [index |-> i, generation |-> gen] \notin Handles
<1> SUFFICES ASSUME NEW id \in DOMAIN issued,
                    issued[id].handle = [index |-> i, generation |-> gen]
             PROVE  FALSE
  BY DEF Handles
<1>1. issued[id].handle.index = i /\ issued[id].handle.generation = gen
  OBVIOUS
<1>2. i \in Indices
  BY <1>1 DEF HandleInv, HandleAges
<1>3. issued[id].epoch = epoch[i]
  BY <1>1, <1>2 DEF EpochInv
<1>4. Occupied(i)
  BY <1>1, <1>3 DEF HandleInv, OneObjectPerEpoch
<1> QED BY <1>2, <1>4

\* allocate issues a handle with the generation of its epoch.
LEMMA AllocateKeepsEpochs ==
  ASSUME MaxObjects <= GenerationModulus, HandleInv, AccountInv', EpochInv,
         NEW refs \in RefSets, Allocate(refs)
  PROVE  EpochInv'
<1>a. AccountInv /\ TypeOK /\ refs \subseteq Handles
  BY DEF HandleInv, AccountInv, RefSets
<1> DEFINE id == Len(issued) + 1
<1>b. PICK i \in Nat \ {0}, gen \in Nat, age \in Nat :
           /\ Indices' = Indices \union {i}
           /\ \A j \in Indices : j # i => slots'[j] = slots[j]
           /\ \A j \in Indices : epoch'[j] = epoch[j]
           /\ slots'[i].generation = gen /\ slots'[i].object = id
           /\ slots'[i].refs = refs /\ epoch'[i] = age
           /\ i \in Indices => gen = slots[i].generation /\ ~Occupied(i) /\ age = epoch[i]
           /\ i \notin Indices => gen = 0 /\ age = 0
           /\ Len(issued') = id /\ DOMAIN issued' = DOMAIN issued \union {id}
           /\ \A k \in DOMAIN issued : issued'[k] = issued[k]
           /\ issued'[id].handle = [index |-> i, generation |-> gen]
           /\ issued'[id].epoch = age
           /\ phase = "idle" /\ phase' = "idle"
  BY <1>a, AllocateEffect
<1>1. /\ Len(issued) \in Nat /\ Len(issued) < MaxObjects /\ MaxObjects \in Nat
      /\ GenerationModulus \in Nat /\ id = Len(issued) + 1 /\ id \in Nat
      /\ \A j \in Indices : epoch[j] \in Nat
  BY <1>a, TypeFacts, ConstantsAssumption DEF Allocate
<1> HIDE DEF id
<1>2. age <= Len(issued) /\ age < GenerationModulus /\ gen = age
  <2>1. CASE i \in Indices
    <3>1. age = epoch[i] /\ gen = slots[i].generation /\ epoch[i] <= Len(issued)
      BY <1>b, <2>1 DEF EpochInv
    <3>2. age <= Len(issued) /\ age < GenerationModulus
      BY <1>1, <3>1
    <3>3. slots[i].generation = epoch[i]
      BY <2>1, <3>1, <3>2 DEF EpochInv
    <3> QED BY <3>1, <3>2, <3>3
  <2>2. CASE i \notin Indices
    BY <1>1, <1>b, <2>2
  <2> QED BY <2>1, <2>2
<1>3. Handles \subseteq Handles'
  BY <1>b DEF Handles
<1>4. Len(issued)' <= MaxObjects
  BY <1>1, <1>b
<1>5. \A k \in DOMAIN issued' : issued'[k].handle.generation = issued'[k].epoch
  BY <1>2, <1>b DEF EpochInv
<1>6. ASSUME NEW j \in Indices'
      PROVE  /\ epoch'[j] < GenerationModulus => slots'[j].generation = epoch'[j]
             /\ epoch'[j] <= Len(issued')
             /\ slots'[j].object # 0 => epoch'[j] < Len(issued')
             /\ slots'[j].refs \subseteq Handles'
  <2>1. CASE j = i
    BY <1>1, <1>2, <1>3, <1>a, <1>b, <2>1
  <2>2. CASE j # i
    <3>1. j \in Indices /\ slots'[j] = slots[j] /\ epoch'[j] = epoch[j]
      BY <1>b, <2>2
    <3>2. /\ epoch[j] < GenerationModulus => slots[j].generation = epoch[j]
          /\ epoch[j] <= Len(issued) /\ slots[j].refs \subseteq Handles
      BY <3>1 DEF EpochInv
    <3> QED BY <1>1, <1>3, <1>b, <3>1, <3>2
  <2> QED BY <2>1, <2>2
<1> QED BY <1>4, <1>5, <1>6 DEF EpochInv, Occupied

\* A slot is vacated no more often than objects were issued.
LEMMA SweepSlotKeepsEpochs ==
  ASSUME AccountInv, EpochInv, SweepSlot
  PROVE  EpochInv'
<1> DEFINE i == cursor
<1>a. TypeOK /\ issued' = issued /\ i \in Indices
  BY DEF AccountInv, SweepSlot
<1>1. CASE ~Sweepable(i)
  <2>1. slots' = slots /\ epoch' = epoch
    BY <1>1 DEF SweepSlot
  <2> QED BY <1>a, <2>1 DEF EpochInv, Indices, Occupied, Handles
<1>2. CASE Sweepable(i)
  <2>1. /\ slots' = [slots EXCEPT ![i] = Vacated(slots[i])]
        /\ epoch' = [epoch EXCEPT ![i] = epoch[i] + 1] /\ Occupied(i)
    BY <1>2 DEF SweepSlot, Sweepable
  <2>2. /\ Indices' = Indices /\ Handles' = Handles /\ DOMAIN epoch = Indices
        /\ \A j \in Indices : epoch[j] \in Nat
        /\ Len(issued) \in Nat /\ GenerationModulus \in Nat \ {0}
    BY <1>a, <2>1, TypeFacts, ConstantsAssumption DEF Indices, Handles
  <2>3. /\ slots'[i].generation = NextGeneration(slots[i].generation) /\ slots'[i].object = 0
        /\ slots'[i].refs = {} /\ epoch'[i] = epoch[i] + 1
        /\ \A j \in Indices : j # i => slots'[j] = slots[j] /\ epoch'[j] = epoch[j]
    BY <1>a, <2>1, <2>2 DEF Vacated, Indices
  <2>4. epoch[i] + 1 <= Len(issued)
    <3>1. epoch[i] < Len(issued)
      BY <1>a, <2>1 DEF EpochInv
    <3> QED BY <1>a, <2>2, <3>1
  <2>5. epoch[i] + 1 < GenerationModulus => NextGeneration(slots[i].generation) = epoch[i] + 1
    <3>1. epoch[i] < GenerationModulus => slots[i].generation = epoch[i]
      BY <1>a DEF EpochInv
    <3> QED BY <1>a, <2>2, <3>1 DEF NextGeneration
  <2>6. ASSUME NEW j \in Indices
        PROVE  /\ epoch'[j] < GenerationModulus => slots'[j].generation = epoch'[j]
               /\ epoch'[j] <= Len(issued)
               /\ slots'[j].object # 0 => epoch'[j] < Len(issued)
               /\ slots'[j].refs \subseteq Handles
    <3>1. CASE j = i
      BY <2>3, <2>4, <2>5, <3>1
    <3>2. CASE j # i
      BY <2>3, <3>2 DEF EpochInv, Occupied
    <3> QED BY <3>1, <3>2
  <2>7. /\ Len(issued) <= MaxObjects
        /\ \A id \in DOMAIN issued : issued[id].handle.generation = issued[id].epoch
    BY DEF EpochInv
  <2> QED BY <1>a, <2>2, <2>6, <2>7 DEF EpochInv, Occupied
<1> QED BY <1>1, <1>2

\* The invariant of the refinement holds as long as generations last.
LEMMA Refining == ASSUME MaxObjects <= GenerationModulus PROVE Spec => []RefineInv
<1>1. Init => RefineInv
  <2>1. Init => AccountInv
    BY EmptySeq DEF Init, AccountInv, TypeOK, PhaseInv, FreeListExact, LiveLenExact, Indices
  <2>2. Init => CollectInv
    BY <2>1 DEF Init, CollectInv, MarkInv, SweepInv
  <2>3. Init => HandleInv
    BY <2>1 DEF Init, HandleInv, GenerationsBounded, HandleAges, OneObjectPerEpoch, Indices
  <2>4. Init => EpochInv
    BY EmptySeq, ConstantsAssumption DEF Init, EpochInv, Indices
  <2> QED BY <2>2, <2>3, <2>4 DEF RefineInv
<1>2. RefineInv /\ [Next]_vars => RefineInv'
  <2> SUFFICES ASSUME RefineInv, [Next]_vars PROVE RefineInv'
    OBVIOUS
  <2>1. CollectInv' /\ HandleInv' /\ HandleInv /\ AccountInv /\ AccountInv' /\ EpochInv
    BY CollectInvInductive, HandleInvInductive DEF RefineInv, HandleInv
  <2>2. CASE \E refs \in RefSets : Allocate(refs)
    BY <2>1, <2>2, AllocateKeepsEpochs DEF RefineInv
  <2>3. CASE SweepSlot
    BY <2>1, <2>3, SweepSlotKeepsEpochs DEF RefineInv
  <2>4. ASSUME NEW h \in Handles, NEW refs \in RefSets, Write(h, refs) PROVE EpochInv'
    <3>1. /\ slots' = [slots EXCEPT ![h.index].refs = refs] /\ h.index \in Indices
          /\ issued' = issued /\ epoch' = epoch
      BY <2>4 DEF Write, Resolves, historyVars
    <3>2. \A j \in Indices : slots[j] \in Slot
      BY <2>1, TypeFacts DEF AccountInv
    <3>3. /\ Indices' = Indices /\ Handles' = Handles /\ refs \subseteq Handles
          /\ \A j \in Indices : /\ slots'[j].generation = slots[j].generation
                                /\ slots'[j].object = slots[j].object
                                /\ slots'[j].refs = slots[j].refs \/ slots'[j].refs = refs
      BY <3>1, <3>2 DEF Indices, Slot, Handles, RefSets
    <3> QED BY <2>1, <3>1, <3>3 DEF EpochInv, Occupied
  <2>5. CASE \/ \E roots \in SUBSET Handles : BeginCollect(roots)
             \/ \E i \in pending : TraceNext(i)
             \/ BeginSweep \/ EndCollect \/ UNCHANGED vars
    <3>1. slots' = slots /\ issued' = issued /\ epoch' = epoch
      BY <2>5 DEF BeginCollect, TraceNext, BeginSweep, EndCollect, vars, heapVars, historyVars
    <3> QED BY <2>1, <3>1 DEF RefineInv, EpochInv, Indices, Occupied, Handles
  <2> QED BY <2>1, <2>2, <2>3, <2>4, <2>5 DEF Next, CollectStep, RefineInv
<1> QED BY <1>1, <1>2, PTL DEF Spec

\* The store in terms of slots, the slots kept in it and the handles issued.
ObjectsIn(iss, hs) == {id \in DOMAIN iss : iss[id].handle \in hs}
ObjectsKept(ss, kept) == {ss[i].object : i \in kept}
PlaceIn(ss, kept, id) == CHOOSE i \in kept : ss[i].object = id
StoreIn(ss, kept, iss) ==
  [id \in ObjectsKept(ss, kept) |-> ObjectsIn(iss, ss[PlaceIn(ss, kept, id)].refs)]

\* No two slots kept hold one object.
Apart(ss, kept) == \A i, j \in kept : ss[i].object = ss[j].object => i = j

\* The store has what the slots have.
LEMMA StoreOf ==
  ASSUME NEW ss, NEW kept, NEW iss, Apart(ss, kept)
  PROVE  /\ DOMAIN StoreIn(ss, kept, iss) = ObjectsKept(ss, kept)
         /\ \A i \in kept : StoreIn(ss, kept, iss)[ss[i].object] = ObjectsIn(iss, ss[i].refs)
<1>1. DOMAIN StoreIn(ss, kept, iss) = ObjectsKept(ss, kept)
  BY DEF StoreIn
<1>2. ASSUME NEW i \in kept
      PROVE  StoreIn(ss, kept, iss)[ss[i].object] = ObjectsIn(iss, ss[i].refs)
  <2>1. PlaceIn(ss, kept, ss[i].object) = i
    BY DEF PlaceIn, Apart
  <2>2. ss[i].object \in ObjectsKept(ss, kept)
    BY DEF ObjectsKept
  <2> QED BY <2>1, <2>2 DEF StoreIn
<1> QED BY <1>1, <1>2

\* Slots kept that stay as they are leave the store as it is.
LEMMA SameStore ==
  ASSUME NEW s1, NEW s2, NEW kept, NEW iss, Apart(s1, kept),
         \A i \in kept : s2[i].object = s1[i].object /\ s2[i].refs = s1[i].refs
  PROVE  StoreIn(s2, kept, iss) = StoreIn(s1, kept, iss)
<1> DEFINE f == StoreIn(s1, kept, iss)
           g == StoreIn(s2, kept, iss)
<1>1. Apart(s2, kept)
  BY DEF Apart
<1> HIDE DEF f, g
<1>2. /\ DOMAIN f = ObjectsKept(s1, kept)
      /\ \A i \in kept : f[s1[i].object] = ObjectsIn(iss, s1[i].refs)
  BY StoreOf DEF f
<1>3. /\ DOMAIN g = ObjectsKept(s2, kept)
      /\ \A i \in kept : g[s2[i].object] = ObjectsIn(iss, s2[i].refs)
  BY <1>1, StoreOf DEF g
<1>4. DOMAIN f = DOMAIN g /\ \A i \in kept : f[s1[i].object] = g[s1[i].object]
  BY <1>2, <1>3 DEF ObjectsKept
<1>5. \A o \in DOMAIN f : f[o] = g[o]
  BY <1>2, <1>4 DEF ObjectsKept
<1>6. f = [o \in DOMAIN f |-> f[o]] /\ g = [o \in DOMAIN g |-> g[o]]
  BY DEF f, g, StoreIn
<1>7. f = g
  BY <1>4, <1>5, <1>6
<1> QED BY <1>7 DEF f, g

\* The refinement mapping is this store, of the slots kept.
storeNow == StoreIn(slots, Kept, issued)

\* The slots kept are occupied, and by different objects.
LEMMA KeptApart == RefineInv => /\ Apart(slots, Kept) /\ Kept \subseteq Indices
                                /\ \A i \in Kept : Occupied(i)
<1> SUFFICES ASSUME RefineInv
             PROVE  /\ Apart(slots, Kept) /\ Kept \subseteq Indices
                    /\ \A i \in Kept : Occupied(i)
  OBVIOUS
<1>1. Kept \subseteq Indices /\ \A i \in Kept : Occupied(i)
  BY DEF RefineInv, CollectInv, SweepInv, AccountInv, TypeOK, Kept
<1>2. \A i \in Kept : issued[slots[i].object].handle.index = i
  BY <1>1 DEF RefineInv, HandleInv, OneObjectPerEpoch
<1> QED BY <1>1, <1>2 DEF Apart

\* The same of the next state.
LEMMA KeptApartNext == RefineInv' => /\ Apart(slots', Kept') /\ Kept' \subseteq Indices'
                                     /\ \A i \in Kept' : slots'[i].object # 0
<1> SUFFICES ASSUME RefineInv'
             PROVE  /\ Apart(slots', Kept') /\ Kept' \subseteq Indices'
                    /\ \A i \in Kept' : slots'[i].object # 0
  OBVIOUS
<1>1. Kept' \subseteq Indices' /\ \A i \in Kept' : slots'[i].object # 0
  BY DEF RefineInv, CollectInv, SweepInv, AccountInv, TypeOK, Kept, Occupied
<1>2. \A i \in Kept' : issued'[slots'[i].object].handle.index = i
  BY <1>1 DEF RefineInv, HandleInv, OneObjectPerEpoch, Occupied
<1> QED BY <1>1, <1>2 DEF Apart

\* The variables of the store.
LEMMA StoreVariables ==
  /\ Store!vars = <<Len(issued), storeNow>>
  /\ Store!vars' = <<Len(issued'), storeNow'>>
BY DEF Store!vars, storeNow, StoreIn, ObjectsKept, PlaceIn, ObjectsIn, SlotOf, ObjectsOf

\* The actions of the store in terms of it.
LEMMA StoreCreates ==
  ASSUME NEW refs \in SUBSET (1..Len(issued)), Len(issued') = Len(issued) + 1,
         storeNow' = [o \in DOMAIN storeNow \union {Len(issued) + 1} |->
                        IF o = Len(issued) + 1 THEN refs ELSE storeNow[o]]
  PROVE  Store!Next
<1>1. Store!Create(refs)
  BY DEF Store!Create, Store!Live, storeNow, StoreIn, ObjectsKept, PlaceIn, ObjectsIn, SlotOf,
         ObjectsOf
<1> QED BY <1>1 DEF Store!Next

\* A write to one object.
LEMMA StoreUpdates ==
  ASSUME NEW o \in DOMAIN storeNow, NEW refs \in SUBSET (1..Len(issued)),
         issued' = issued, storeNow' = [storeNow EXCEPT ![o] = refs]
  PROVE  Store!Next
<1>1. o \in Store!Live /\ Store!Update(o, refs)
  BY DEF Store!Update, Store!Live, storeNow, StoreIn, ObjectsKept, PlaceIn, ObjectsIn, SlotOf,
         ObjectsOf
<1> QED BY <1>1 DEF Store!Next

\* A collection whose roots refer to nothing but each other among what lives.
LEMMA StoreCollects ==
  ASSUME NEW roots \in SUBSET (1..Len(issued)), roots \subseteq DOMAIN storeNow,
         \A p \in roots : storeNow[p] \cap DOMAIN storeNow \subseteq roots,
         issued' = issued, storeNow' = [o \in roots |-> storeNow[o]]
  PROVE  Store!Next
<1>1. Store!ReachableFrom(roots) =
        {o \in DOMAIN storeNow :
           \A S \in SUBSET DOMAIN storeNow :
              /\ roots \intersect DOMAIN storeNow \subseteq S
              /\ \A p \in S : storeNow[p] \intersect DOMAIN storeNow \subseteq S
              => o \in S}
  BY DEF Store!ReachableFrom, Store!Live, storeNow, StoreIn, ObjectsKept, PlaceIn, ObjectsIn,
         SlotOf, ObjectsOf
<1>2. Store!ReachableFrom(roots) = roots
  <2> HIDE DEF storeNow
  <2>1. \A o \in roots : o \in Store!ReachableFrom(roots)
    BY <1>1
  <2>2. \A o \in Store!ReachableFrom(roots) : o \in roots
    BY <1>1
  <2> QED BY <2>1, <2>2
<1>3. storeNow' = [o \in Store!ReachableFrom(roots) |-> storeNow[o]]
  BY <1>2
<1>4. Store!Collect(roots)
  BY <1>3 DEF Store!Collect, storeNow, StoreIn, ObjectsKept, PlaceIn, ObjectsIn, SlotOf, ObjectsOf
<1> QED BY <1>4 DEF Store!Next

\* Outside of sweeps the occupied slots are kept, in sweeps the marked ones.
LEMMA KeptCases ==
  /\ phase # "sweep" => \A i : i \in Kept <=> i \in Indices /\ Occupied(i)
  /\ phase' # "sweep" => \A i : i \in Kept' <=> i \in Indices' /\ slots'[i].object # 0
  /\ phase = "sweep" => Kept = marks
  /\ phase' = "sweep" => Kept' = marks'
BY DEF Kept, Occupied

\* allocate creates an object nobody refers to.
LEMMA AllocateCreates ==
  ASSUME MaxObjects <= GenerationModulus, RefineInv, RefineInv', NEW refs \in RefSets, Allocate(refs)
  PROVE  Store!Next
<1> DEFINE id == Len(issued) + 1
           R == ObjectsIn(issued, refs)
<1>a. HandleInv /\ AccountInv /\ AccountInv' /\ EpochInv /\ TypeOK /\ refs \subseteq Handles
  BY DEF RefineInv, CollectInv, AccountInv, RefSets
<1>b. PICK i \in Nat \ {0}, gen \in Nat, age \in Nat :
           /\ Indices' = Indices \union {i}
           /\ \A j \in Indices : j # i => slots'[j] = slots[j]
           /\ \A j \in Indices : epoch'[j] = epoch[j]
           /\ slots'[i].generation = gen /\ slots'[i].object = id
           /\ slots'[i].refs = refs /\ epoch'[i] = age
           /\ i \in Indices => gen = slots[i].generation /\ ~Occupied(i) /\ age = epoch[i]
           /\ i \notin Indices => gen = 0 /\ age = 0
           /\ Len(issued') = id /\ DOMAIN issued' = DOMAIN issued \union {id}
           /\ \A k \in DOMAIN issued : issued'[k] = issued[k]
           /\ issued'[id].handle = [index |-> i, generation |-> gen]
           /\ issued'[id].epoch = age
           /\ phase = "idle" /\ phase' = "idle"
  BY <1>a, AllocateEffect
<1>1. DOMAIN issued = 1..Len(issued) /\ Len(issued) \in Nat /\ id \notin DOMAIN issued /\ id # 0
  BY <1>a, TypeFacts
<1> HIDE DEF id
<1>2. Apart(slots, Kept) /\ Apart(slots', Kept')
  BY KeptApart, KeptApartNext
<1>3. Kept' = Kept \union {i} /\ i \notin Kept /\ \A j \in Kept : slots'[j] = slots[j]
  BY <1>1, <1>b, KeptCases DEF Occupied
<1>4. issued'[id].handle \notin Handles
  <2>1. i \in Indices => gen = age /\ ~Occupied(i) /\ age = epoch[i]
    <3>1. i \in Indices => epoch[i] < GenerationModulus
      <4>1. Len(issued) < MaxObjects /\ MaxObjects \in Nat /\ GenerationModulus \in Nat
        BY ConstantsAssumption DEF Allocate
      <4> QED BY <1>a, <1>1, <4>1, TypeFacts DEF EpochInv
    <3> QED BY <1>a, <1>b, <3>1 DEF EpochInv
  <2> QED BY <1>a, <1>b, <2>1, HandleIsNew
<1>5. \A hs : hs \subseteq Handles => ObjectsIn(issued', hs) = ObjectsIn(issued, hs)
  BY <1>1, <1>4, <1>b DEF ObjectsIn
<1>6. \A j \in Kept : slots[j].refs \subseteq Handles
  BY <1>a, <1>b, KeptCases DEF EpochInv
<1> DEFINE f == storeNow
           g == storeNow'
<1>7. /\ DOMAIN f = ObjectsKept(slots, Kept)
      /\ \A j \in Kept : f[slots[j].object] = ObjectsIn(issued, slots[j].refs)
  BY <1>2, StoreOf DEF storeNow
<1>8. /\ DOMAIN g = ObjectsKept(slots', Kept')
      /\ \A j \in Kept' : g[slots'[j].object] = ObjectsIn(issued', slots'[j].refs)
  BY <1>2, StoreOf DEF storeNow
<1>9. f = [o \in DOMAIN f |-> f[o]] /\ g = [o \in DOMAIN g |-> g[o]]
  BY DEF storeNow, StoreIn
<1> HIDE DEF f, g
<1>10. DOMAIN g = DOMAIN f \union {id}
  BY <1>3, <1>7, <1>8, <1>b DEF ObjectsKept
<1>11. g[id] = R
  BY <1>3, <1>5, <1>8, <1>a, <1>b
<1>12. \A o \in DOMAIN f : o # id /\ g[o] = f[o]
  <2>1. SUFFICES ASSUME NEW j \in Kept PROVE slots[j].object # id /\ g[slots[j].object] = f[slots[j].object]
    BY <1>7 DEF ObjectsKept
  <2>2. slots[j].object \in DOMAIN issued
    BY <1>a, <1>b, KeptCases DEF HandleInv, OneObjectPerEpoch
  <2>3. ObjectsIn(issued', slots[j].refs) = ObjectsIn(issued, slots[j].refs)
    BY <1>5, <1>6
  <2>4. j \in Kept' /\ slots'[j] = slots[j]
    BY <1>3
  <2>5. g[slots'[j].object] = ObjectsIn(issued', slots'[j].refs)
    BY <1>8, <2>4
  <2>6. f[slots[j].object] = ObjectsIn(issued, slots[j].refs)
    BY <1>7
  <2>7. g[slots[j].object] = f[slots[j].object]
    BY <2>3, <2>4, <2>5, <2>6
  <2> QED BY <1>1, <2>2, <2>7
<1>13. g = [o \in DOMAIN f \union {id} |-> IF o = id THEN R ELSE f[o]]
  BY <1>9, <1>10, <1>11, <1>12
<1>14. R \in SUBSET (1..Len(issued))
  BY <1>1 DEF ObjectsIn
<1> QED BY <1>13, <1>14, <1>b, StoreCreates DEF f, g, id

\* A write changes what one object refers to.
LEMMA WriteUpdates ==
  ASSUME RefineInv, RefineInv', NEW h \in Handles, NEW refs \in RefSets, Write(h, refs)
  PROVE  Store!Next
<1> DEFINE i == h.index
           R == ObjectsIn(issued, refs)
<1>a. TypeOK /\ DOMAIN issued = 1..Len(issued)
  BY TypeFacts DEF RefineInv, CollectInv, AccountInv
<1>1. /\ slots' = [slots EXCEPT ![i].refs = refs] /\ i \in Indices /\ Occupied(i)
      /\ issued' = issued /\ phase = "idle" /\ phase' = "idle"
  BY DEF Write, Resolves, historyVars, collectVars
<1>2. \A j \in Indices : slots[j] \in Slot
  BY <1>a, TypeFacts
<1>3. /\ Indices' = Indices /\ slots'[i].refs = refs
      /\ \A j \in Indices : /\ slots'[j].object = slots[j].object
                            /\ j # i => slots'[j].refs = slots[j].refs
  BY <1>1, <1>2 DEF Indices, Slot
<1> HIDE DEF i
<1>4. Kept' = Kept /\ i \in Kept /\ Kept \subseteq Indices
  BY <1>1, <1>3, KeptCases DEF Occupied
<1>5. Apart(slots, Kept) /\ Apart(slots', Kept')
  BY KeptApart, KeptApartNext
<1> DEFINE f == storeNow
           g == storeNow'
<1>7. /\ DOMAIN f = ObjectsKept(slots, Kept)
      /\ \A j \in Kept : f[slots[j].object] = ObjectsIn(issued, slots[j].refs)
  BY <1>5, StoreOf DEF storeNow
<1>8. /\ DOMAIN g = ObjectsKept(slots', Kept')
      /\ \A j \in Kept' : g[slots'[j].object] = ObjectsIn(issued', slots'[j].refs)
  BY <1>5, StoreOf DEF storeNow
<1>9. f = [o \in DOMAIN f |-> f[o]] /\ g = [o \in DOMAIN g |-> g[o]]
  BY DEF storeNow, StoreIn
<1> HIDE DEF f, g
<1> DEFINE p == slots[i].object
<1>10. DOMAIN g = DOMAIN f /\ p \in DOMAIN f
  BY <1>3, <1>4, <1>7, <1>8 DEF ObjectsKept
<1>11. g[p] = R
  BY <1>1, <1>3, <1>4, <1>8
<1>12. \A o \in DOMAIN f : o # p => g[o] = f[o]
  <2>1. SUFFICES ASSUME NEW j \in Kept, slots[j].object # p
                 PROVE  g[slots[j].object] = f[slots[j].object]
    BY <1>7 DEF ObjectsKept
  <2> QED BY <1>1, <1>3, <1>4, <1>7, <1>8, <2>1
<1> HIDE DEF p, R
<1>13. g = [f EXCEPT ![p] = R]
  BY <1>9, <1>10, <1>11, <1>12
<1>14. R \in SUBSET (1..Len(issued))
  BY <1>a DEF ObjectsIn, R
<1> QED BY <1>1, <1>10, <1>13, <1>14, StoreUpdates DEF f, g

\* A step that leaves the slots kept as they are is none of the store's.
LEMMA StoreStays ==
  ASSUME RefineInv, issued' = issued, Kept' = Kept, \A i \in Kept : slots'[i] = slots[i]
  PROVE  Store!vars' = Store!vars
<1>1. StoreIn(slots', Kept, issued) = StoreIn(slots, Kept, issued)
  BY KeptApart, SameStore
<1>2. storeNow' = storeNow
  BY <1>1 DEF storeNow
<1> QED BY <1>2, StoreVariables

\* Marking changes nothing the store shows.
LEMMA MarkingStays ==
  ASSUME RefineInv,
         (\E roots \in SUBSET Handles : BeginCollect(roots)) \/ (\E i \in pending : TraceNext(i))
           \/ UNCHANGED vars
  PROVE  Store!vars' = Store!vars
<1>1. /\ slots' = slots /\ issued' = issued
      /\ (phase # "sweep" /\ phase' # "sweep") \/ (phase' = phase /\ marks' = marks)
  BY DEF BeginCollect, TraceNext, vars, heapVars, historyVars, collectVars
<1>2. Kept' = Kept
  BY <1>1 DEF Kept, Indices, Occupied
<1> QED BY <1>1, <1>2, StoreStays

\* Nor does the sweep: what it vacates is gone from the store already.
LEMMA SweepingStays ==
  ASSUME RefineInv, SweepSlot \/ EndCollect
  PROVE  Store!vars' = Store!vars
<1>a. TypeOK /\ SweepInv /\ phase = "sweep"
  BY DEF RefineInv, CollectInv, AccountInv, SweepSlot, EndCollect
<1>1. CASE SweepSlot
  <2>1. Kept = marks /\ Kept' = marks
    BY <1>1, <1>a, KeptCases DEF SweepSlot
  <2>2. \A i \in marks : slots'[i] = slots[i]
    BY <1>1, <1>a DEF SweepSlot, Sweepable, TypeOK, Indices
  <2>3. issued' = issued
    BY <1>1 DEF SweepSlot
  <2> QED BY <2>1, <2>2, <2>3, StoreStays
<1>2. CASE EndCollect
  <2>1. slots' = slots /\ issued' = issued /\ phase' = "idle"
    BY <1>2 DEF EndCollect
  <2>2. \A i \in Indices : i < cursor
    <3>1. cursor \in Nat \ {0} /\ cursor \notin Indices
      BY <1>2, <1>a DEF EndCollect, SweepDone, TypeOK
    <3>2. Indices = 1..Len(slots) /\ Len(slots) \in Nat
      BY <1>a, TypeFacts
    <3> QED BY <3>1, <3>2
  <2>3. \A i \in Indices : Occupied(i) <=> i \in marks
    BY <1>a, <2>2 DEF SweepInv
  <2>4. Kept = marks /\ marks \subseteq Indices
    BY <1>a, KeptCases DEF TypeOK
  <2>5. \A i : i \in Kept' <=> i \in Indices /\ Occupied(i)
    BY <2>1, KeptCases DEF Indices, Occupied
  <2>6. Kept' = Kept
    BY <2>3, <2>4, <2>5
  <2> QED BY <2>1, <2>6, StoreStays
<1> QED BY <1>1, <1>2

\* The store collects when marking ends: what is marked refers to nothing else
\* that lives.
LEMMA MarkedCollects ==
  ASSUME RefineInv, RefineInv', BeginSweep
  PROVE  Store!Next
<1> DEFINE roots == ObjectsKept(slots, marks)
           f == storeNow
           g == storeNow'
<1>a. TypeOK /\ HandleInv /\ DOMAIN issued = 1..Len(issued)
  BY TypeFacts DEF RefineInv, CollectInv, AccountInv
<1>1. /\ phase = "mark" /\ phase' = "sweep" /\ pending = {}
      /\ slots' = slots /\ issued' = issued /\ marks' = marks
  BY DEF BeginSweep, heapVars, historyVars
<1>2. marks \subseteq Kept /\ Kept' = marks
  <2>1. \A i \in marks : i \in Indices /\ Occupied(i)
    BY <1>1, <1>a DEF RefineInv, CollectInv, MarkInv, TypeOK
  <2> QED BY <1>1, <2>1, KeptCases
<1>3. Apart(slots, Kept) /\ Apart(slots, marks)
  BY <1>2, KeptApart DEF Apart
<1>4. /\ DOMAIN f = ObjectsKept(slots, Kept)
      /\ \A i \in Kept : f[slots[i].object] = ObjectsIn(issued, slots[i].refs)
  BY <1>3, StoreOf DEF storeNow
<1>5. storeNow' = StoreIn(slots, marks, issued)
  BY <1>1, <1>2 DEF storeNow
<1>6. /\ DOMAIN g = roots
      /\ \A i \in marks : g[slots[i].object] = ObjectsIn(issued, slots[i].refs)
  BY <1>3, <1>5, StoreOf
<1>7. g = [o \in DOMAIN g |-> g[o]]
  BY DEF storeNow, StoreIn
<1> HIDE DEF f, g
<1>8. roots \subseteq DOMAIN f /\ roots \in SUBSET (1..Len(issued))
  <2>1. \A i \in marks : slots[i].object \in DOMAIN issued
    BY <1>1, <1>2, <1>a, KeptCases DEF HandleInv, OneObjectPerEpoch
  <2> QED BY <1>2, <1>4, <1>a, <2>1 DEF ObjectsKept
<1>9. ASSUME NEW i \in marks, NEW id \in f[slots[i].object] \cap DOMAIN f
      PROVE  id \in roots
  <2>1. id \in DOMAIN issued /\ issued[id].handle \in slots[i].refs
    BY <1>2, <1>4, <1>9 DEF ObjectsIn
  <2>2. PICK j \in Kept : id = slots[j].object
    BY <1>4, <1>9 DEF ObjectsKept
  <2>3. j \in Indices /\ Occupied(j)
    BY <1>1, KeptCases
  <2> DEFINE h == issued[id].handle
  <2>4. h.index = j /\ issued[id].epoch = epoch[j]
    BY <1>a, <2>2, <2>3 DEF HandleInv, OneObjectPerEpoch
  <2>5. slots[j].generation = h.generation
    <3>1. epoch[j] - issued[id].epoch < GenerationModulus =>
            slots[j].generation = Advanced(h.generation, epoch[j] - issued[id].epoch)
      BY <1>a, <2>1, <2>4 DEF HandleInv, HandleAges
    <3>2. epoch[j] \in Nat /\ h.generation \in Nat
      BY <1>a, <2>1, <2>3, TypeFacts, RecordFacts
    <3>3. epoch[j] - issued[id].epoch = 0 /\ 0 < GenerationModulus
      BY <2>4, <3>2, ConstantsAssumption
    <3>4. h.generation < GenerationModulus
      BY <1>a, <2>1 DEF HandleInv, GenerationsBounded
    <3> QED BY <3>1, <3>2, <3>3, <3>4 DEF Advanced
  <2>6. Resolves(h)
    BY <2>3, <2>4, <2>5 DEF Resolves
  <2>7. j \in Targets(slots[i].refs)
    BY <2>1, <2>4, <2>6 DEF Targets
  <2>8. j \in marks
    BY <1>1, <2>7 DEF RefineInv, CollectInv, MarkInv
  <2> QED BY <2>2, <2>8 DEF ObjectsKept
<1>10. \A o \in roots : f[o] \cap DOMAIN f \subseteq roots
  <2>1. SUFFICES ASSUME NEW i \in marks PROVE f[slots[i].object] \cap DOMAIN f \subseteq roots
    BY DEF ObjectsKept
  <2> QED BY <1>9
<1>11. \A o \in roots : g[o] = f[o]
  <2>1. SUFFICES ASSUME NEW i \in marks PROVE g[slots[i].object] = f[slots[i].object]
    BY DEF ObjectsKept
  <2> QED BY <1>2, <1>4, <1>6
<1> HIDE DEF roots
<1>12. g = [o \in roots |-> f[o]]
  BY <1>6, <1>7, <1>11
<1> QED BY <1>1, <1>8, <1>10, <1>12, StoreCollects DEF f, g

\* While not more objects are allocated than there are generations (2^32), the heap
\* implements the object store: allocate, get_mut and collect as a whole are its
\* atomic creation, update and collection, and the steps of collect show nothing else.
THEOREM HeapImplements ==
  ASSUME MaxObjects <= GenerationModulus PROVE Spec => ImplementsObjectStore
<1>1. Init => Store!Init
  <2> SUFFICES ASSUME Init PROVE Store!Init
    OBVIOUS
  <2>1. slots = <<>> /\ issued = <<>> /\ phase = "idle"
    BY DEF Init
  <2>2. Kept = {} /\ Len(issued) = 0
    BY <2>1 DEF Kept, Indices
  <2> QED BY <2>2 DEF Store!Init
<1>2. RefineInv /\ RefineInv' /\ [Next]_vars => [Store!Next]_(Store!vars)
  <2> SUFFICES ASSUME RefineInv, RefineInv', [Next]_vars
               PROVE  Store!Next \/ Store!vars' = Store!vars
    OBVIOUS
  <2>1. ASSUME NEW refs \in RefSets, Allocate(refs) PROVE Store!Next
    BY <2>1, AllocateCreates
  <2>2. ASSUME NEW h \in Handles, NEW refs \in RefSets, Write(h, refs) PROVE Store!Next
    BY <2>2, WriteUpdates
  <2>3. CASE BeginSweep
    BY <2>3, MarkedCollects
  <2>4. CASE SweepSlot \/ EndCollect
    BY <2>4, SweepingStays
  <2>5. CASE \/ \E roots \in SUBSET Handles : BeginCollect(roots)
             \/ \E i \in pending : TraceNext(i)
             \/ UNCHANGED vars
    BY <2>5, MarkingStays
  <2> QED BY <2>1, <2>2, <2>3, <2>4, <2>5 DEF Next, CollectStep
<1> QED BY <1>1, <1>2, Refining, PTL DEF Spec, ImplementsObjectStore, Store!Spec
=============================================================================
