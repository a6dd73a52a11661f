------------------------------ MODULE MCGcHeap ------------------------------
(***************************************************************************)
(* Model-checking instances of the heap, and the refinement mapping to the *)
(* object store it implements.  The store loses its garbage in one step,   *)
(* when marking ends; the slots the sweep has still to visit are already   *)
(* gone from it.                                                           *)
(***************************************************************************)
EXTENDS GcHeap

ObjectsOf(handles) == {id \in DOMAIN issued : issued[id].handle \in handles}

Kept == IF phase = "sweep" THEN marks ELSE {i \in Indices : Occupied(i)}

SlotOf(id) == CHOOSE i \in Kept : slots[i].object = id

Store == INSTANCE ObjectStore WITH
  created <- Len(issued),
  store   <- [id \in {slots[i].object : i \in Kept} |->
                ObjectsOf(slots[SlotOf(id)].refs)]

\* The heap implements the object store: allocation creates an object nobody
\* refers to yet, a write changes one object, and the loops of collect add up
\* to one atomic removal of exactly the unreachable objects.
ImplementsObjectStore == Store!Spec
=============================================================================
