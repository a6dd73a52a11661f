----------------------------- MODULE ObjectStore -----------------------------
(***************************************************************************)
(* What the heap promises its clients: a store of objects with identities  *)
(* that never come back, in which a collection atomically drops exactly    *)
(* the objects the given roots do not reach.  There are no slots, handles  *)
(* or generations here.                                                    *)
(***************************************************************************)
EXTENDS Naturals

VARIABLES
  created,  \* objects created so far; their identities are 1..created
  store     \* live object |-> the identities it refers to, live or not

vars == <<created, store>>

Live == DOMAIN store

ReachableFrom(roots) ==
  {o \in Live :
     \A S \in SUBSET Live :
        /\ roots \intersect Live \subseteq S
        /\ \A p \in S : store[p] \intersect Live \subseteq S
        => o \in S}

Init == created = 0 /\ store = [o \in {} |-> {}]

Create(refs) ==
  /\ created' = created + 1
  /\ store' = [o \in Live \union {created + 1} |->
                 IF o = created + 1 THEN refs ELSE store[o]]

Update(o, refs) ==
  /\ store' = [store EXCEPT ![o] = refs]
  /\ UNCHANGED created

Collect(roots) ==
  /\ store' = [o \in ReachableFrom(roots) |-> store[o]]
  /\ UNCHANGED created

Next ==
  \/ \E refs \in SUBSET (1..created) : Create(refs)
  \/ \E o \in Live : \E refs \in SUBSET (1..created) : Update(o, refs)
  \/ \E roots \in SUBSET (1..created) : Collect(roots)

Spec == Init /\ [][Next]_vars
=============================================================================
