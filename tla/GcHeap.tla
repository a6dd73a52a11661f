------------------------------- MODULE GcHeap -------------------------------
(***************************************************************************)
(* The generational-handle heap of runtime/heap: slots with a generation   *)
(* each, a LIFO free list, and a mark-and-sweep collector driven by the    *)
(* roots its caller passes.                                                *)
(*                                                                         *)
(* Slot i of this module is index i - 1 of the code's vector.  A slot's    *)
(* payload is abstracted to the set of handles it traces (refs) and to the *)
(* identity of the object stored (object, 0 when the Option is None).  The *)
(* loops of collect are one action per iteration; no mutator action may    *)
(* run between them because collect borrows the heap mutably.              *)
(***************************************************************************)
EXTENDS Naturals, Sequences, FiniteSets

CONSTANTS
  GenerationModulus,  \* 2^32 in the code: a generation is a wrapping u32
  MaxObjects,         \* bound: allocations made in one behaviour
  MaxRefs             \* bound: handles one object holds

ASSUME ConstantsAssumption ==
  /\ GenerationModulus \in Nat \ {0}
  /\ MaxObjects \in Nat
  /\ MaxRefs \in Nat

VARIABLES
  slots,      \* <<[generation, object, refs]>>
  freeList,   \* indices of vacant slots, popped from the end
  liveLen,    \* the code's own count of occupied slots
  phase,      \* "idle", or the loop of collect that is running
  marks,      \* indices whose mark bit is set
  pending,    \* marked indices not traced yet (the VecDeque, order abstracted)
  cursor,     \* next index the sweep loop visits
  collected,  \* slots vacated by the running sweep
  issued,     \* history: object id |-> [handle, epoch] it was allocated with
  epoch,      \* history: how often each slot has been vacated
  live        \* history: what was reachable when collect was called

heapVars    == <<slots, freeList, liveLen>>
collectVars == <<phase, marks, pending, cursor, collected>>
historyVars == <<issued, epoch, live>>
vars        == <<heapVars, collectVars, historyVars>>

Handle   == [index : Nat \ {0}, generation : Nat]
Slot     == [generation : Nat, object : Nat, refs : SUBSET Handle]
Indices  == DOMAIN slots
Handles  == {issued[id].handle : id \in DOMAIN issued}
RefSets  == {r \in SUBSET Handles : Cardinality(r) <= MaxRefs}

Occupied(i) == slots[i].object # 0

\* get, get_mut and contains: the handle names an occupied slot of its own
\* generation.
Resolves(h) ==
  /\ h.index \in Indices
  /\ slots[h.index].generation = h.generation
  /\ Occupied(h.index)

\* Tracer::mark filters what it is given the same way before it marks.
Targets(handles) == {h.index : h \in {g \in handles : Resolves(g)}}

\* A sweep that does not advance the generation.
NextGenerationUnchanged(g) == g

\* wrapping_add(1) on a generation.
NextGeneration(g) == IF g + 1 = GenerationModulus THEN 0 ELSE g + 1

(***************************************************************************)
(* What a collection must keep, independently of how it marks: the least   *)
(* set that holds the roots' slots and is closed under tracing.            *)
(***************************************************************************)
Closed(S) == \A i \in S : Targets(slots[i].refs) \subseteq S
Reachable(roots) ==
  {i \in Indices :
     \A S \in SUBSET Indices :
        Targets(roots) \subseteq S /\ Closed(S) => i \in S}
-----------------------------------------------------------------------------
Init ==
  /\ slots = <<>> /\ freeList = <<>> /\ liveLen = 0
  /\ phase = "idle" /\ marks = {} /\ pending = {}
  /\ cursor = 1 /\ collected = 0
  /\ issued = <<>> /\ epoch = <<>> /\ live = {}

\* The free list's last index, or a new slot at the end of the vector.
AllocationIndex ==
  IF freeList = <<>> THEN Len(slots) + 1 ELSE freeList[Len(freeList)]

\* GcHeap::allocate with a value that traces refs.
Allocate(refs) ==
  LET i   == AllocationIndex
      id  == Len(issued) + 1
      new == i = Len(slots) + 1
      gen == IF new THEN 0 ELSE slots[i].generation
      age == IF new THEN 0 ELSE epoch[i]
      val == [generation |-> gen, object |-> id, refs |-> refs]
  IN  /\ phase = "idle"
      /\ Len(issued) < MaxObjects
      /\ slots' = IF new THEN Append(slots, val) ELSE [slots EXCEPT ![i] = val]
      /\ epoch' = IF new THEN Append(epoch, 0) ELSE epoch
      /\ freeList' = IF freeList = <<>> THEN <<>>
                     ELSE SubSeq(freeList, 1, Len(freeList) - 1)
      /\ liveLen' = liveLen + 1
      /\ issued' = Append(issued, [handle |-> [index |-> i, generation |-> gen],
                                   epoch  |-> age])
      /\ UNCHANGED <<collectVars, live>>

\* get_mut and a write through the reference; a handle that does not resolve
\* gives None and nothing changes.
Write(h, refs) ==
  /\ phase = "idle"
  /\ Resolves(h)
  /\ slots' = [slots EXCEPT ![h.index].refs = refs]
  /\ UNCHANGED <<freeList, liveLen, collectVars, historyVars>>

\* collect: the marker snapshot and the loop over the roots.
BeginCollect(roots) ==
  /\ phase = "idle"
  /\ phase' = "mark"
  /\ marks' = Targets(roots)
  /\ pending' = Targets(roots)
  /\ live' = Reachable(roots)
  /\ UNCHANGED <<heapVars, cursor, collected, issued, epoch>>

\* Marks what a value holds without queueing it.
TraceNextShallow(i) ==
  /\ phase = "mark"
  /\ i \in pending
  /\ marks' = marks \union Targets(slots[i].refs)
  /\ pending' = pending \ {i}
  /\ UNCHANGED <<heapVars, phase, cursor, collected, historyVars>>

\* Queues what a value holds whether or not it is marked already.
TraceNextRequeue(i) ==
  /\ phase = "mark"
  /\ i \in pending
  /\ marks' = marks \union Targets(slots[i].refs)
  /\ pending' = (pending \ {i}) \union Targets(slots[i].refs)
  /\ UNCHANGED <<heapVars, phase, cursor, collected, historyVars>>

\* One iteration of the pending loop: trace one value, marking what it holds.
TraceNext(i) ==
  LET found == Targets(slots[i].refs) \ marks
  IN  /\ phase = "mark"
      /\ i \in pending
      /\ marks' = marks \union found
      /\ pending' = (pending \ {i}) \union found
      /\ UNCHANGED <<heapVars, phase, cursor, collected, historyVars>>

\* The pending loop is over; the sweep starts at the first slot.
BeginSweep ==
  /\ phase = "mark"
  /\ pending = {}
  /\ phase' = "sweep"
  /\ cursor' = 1
  /\ collected' = 0
  /\ UNCHANGED <<heapVars, marks, pending, historyVars>>

\* The slot the sweep leaves behind: value None, generation advanced.
Vacated(slot) ==
  [generation |-> NextGeneration(slot.generation), object |-> 0, refs |-> {}]

\* A condition without value.is_some().
SweepableUnmarked(i) == i \notin marks

\* What the sweep takes.
Sweepable(i) == Occupied(i) /\ i \notin marks

\* One iteration of the sweep loop.
SweepSlot ==
  LET dead == Sweepable(cursor)
  IN  /\ phase = "sweep"
      /\ cursor \in Indices
      /\ cursor' = cursor + 1
      /\ slots' = IF dead THEN [slots EXCEPT ![cursor] = Vacated(@)] ELSE slots
      /\ epoch' = IF dead THEN [epoch EXCEPT ![cursor] = @ + 1] ELSE epoch
      /\ freeList' = IF dead THEN Append(freeList, cursor) ELSE freeList
      /\ collected' = IF dead THEN collected + 1 ELSE collected
      /\ UNCHANGED <<liveLen, phase, marks, pending, issued, live>>

\* Counts every unmarked slot, the vacant ones included, as collected.
CollectionReportOfUnmarked ==
  [marked    |-> Cardinality(marks),
   collected |-> collected,
   liveAfter |-> liveLen - Cardinality(Indices \ marks)]

\* Leaves out "live_len -= collected".
CollectionReportStale ==
  [marked |-> Cardinality(marks), collected |-> collected, liveAfter |-> liveLen]

\* The report collect returns.
CollectionReport ==
  [marked    |-> Cardinality(marks),
   collected |-> collected,
   liveAfter |-> liveLen - collected]

\* A loop that stops before the last slot.
SweepDoneEarly == cursor >= Len(slots)

SweepDone == cursor \notin Indices

\* The tail of collect: the live count drops, the local mark bits go away.
EndCollect ==
  /\ phase = "sweep"
  /\ SweepDone
  /\ liveLen' = CollectionReport.liveAfter
  /\ phase' = "idle"
  /\ marks' = {}
  /\ collected' = 0
  /\ cursor' = 1
  /\ live' = {}
  /\ UNCHANGED <<slots, freeList, pending, issued, epoch>>

CollectStep == (\E i \in pending : TraceNext(i)) \/ BeginSweep \/ SweepSlot \/ EndCollect

Next ==
  \/ \E refs \in RefSets : Allocate(refs)
  \/ \E h \in Handles : \E refs \in RefSets : Write(h, refs)
  \/ \E roots \in SUBSET Handles : BeginCollect(roots)
  \/ CollectStep

Spec == Init /\ [][Next]_vars

\* collect is a sequential loop: once called, its iterations run.
FairSpec == Spec /\ WF_vars(CollectStep)
-----------------------------------------------------------------------------
\* Type correctness of the heap, the collector's locals and the history.
TypeOK ==
  /\ slots \in Seq(Slot)
  /\ freeList \in Seq(Nat \ {0})
  /\ liveLen \in Nat
  /\ phase \in {"idle", "mark", "sweep"}
  /\ marks \subseteq Indices
  /\ pending \subseteq marks
  /\ cursor \in Nat \ {0}
  /\ collected \in Nat
  /\ issued \in Seq([handle : Handle, epoch : Nat])
  /\ epoch \in Seq(Nat)
  /\ Len(epoch) = Len(slots)
  /\ live \subseteq Indices

\* The free list names every vacant slot once and no occupied one: allocate
\* can neither overwrite a live value nor forget a slot, whatever mix of
\* collections and reuse came before.
FreeListExact ==
  /\ \A k \in DOMAIN freeList : freeList[k] \in Indices /\ ~Occupied(freeList[k])
  /\ \A j, k \in DOMAIN freeList : freeList[j] = freeList[k] => j = k
  /\ \A i \in Indices : ~Occupied(i) => \E k \in DOMAIN freeList : freeList[k] = i

\* live_len accounts for every slot that is not on the free list, and
\* "live_len -= collected" cannot underflow while a sweep is under way.
LiveLenExact == liveLen + Len(freeList) = Len(slots) + collected

\* A handle resolves to the object it was issued for or to nothing, as long as
\* its slot was vacated fewer than GenerationModulus times since: the window
\* in which the wrapping u32 generation tells the objects of a slot apart.
FailClosedWithinWindow ==
  \A id \in DOMAIN issued :
    LET h == issued[id].handle
    IN  Resolves(h) /\ epoch[h.index] < issued[id].epoch + GenerationModulus
          => slots[h.index].object = id

\* When marking is over, the mark bits are exactly what was reachable from the
\* roots when collect was called: nothing live is swept, cycles and shared
\* objects included, and no garbage is retained.
MarksAreReachable == phase = "sweep" => marks = live

\* A sweep step vacates unreachable slots only, and leaves the generation and
\* the contents of every reachable slot alone.
SweepKeepsLive ==
  [][phase = "sweep" => \A i \in live : slots'[i] = slots[i]]_vars

\* When collect returns, the occupied slots are the reachable ones, and its
\* report agrees: live_after counts the marked slots.
CollectExact ==
  [][phase = "sweep" /\ phase' = "idle" =>
       /\ {i \in Indices : Occupied(i)} = live
       /\ CollectionReport.liveAfter = CollectionReport.marked]_vars

\* A collection always ends, cyclic object graphs included: a marked slot is
\* never queued twice.
CollectTerminates == phase # "idle" ~> phase = "idle"
=============================================================================
