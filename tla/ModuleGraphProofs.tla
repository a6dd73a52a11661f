------------------------- MODULE ModuleGraphProofs -------------------------
(***************************************************************************)
(* Proofs about the module graph, for every set of sources: the order of   *)
(* what is bundled, and that a graph is refused exactly if it must be.     *)
(*                                                                         *)
(* The heart is the stack of visits: a module on it imports the next one,  *)
(* so it reaches all those above, and what it has handled already is       *)
(* visited, reported, or the next one on the stack.                        *)
(*                                                                         *)
(* And about resolution: walking a specifier leaves the segments that no   *)
(* later ".." takes back, the names that stay; what a visit has noted so   *)
(* far are the imports it has passed, resolved.                            *)
(***************************************************************************)
EXTENDS ModuleGraph, SequenceFacts, FiniteSetTheorems

AllProvided == UNION {DOMAIN p : p \in Programs}
AllModules ==
  {Entry} \union AllProvided
    \union {Resolved(m, p[m].body[k].from) : m \in AllProvided, p \in Programs, k \in Nat}
AllNames == {p[m].body[k].name : m \in AllProvided, p \in Programs, k \in Nat}

FrameType ==
  [module : AllProvided, next : Nat, imports : Seq(AllModules), exports : Seq(AllNames)]
DiagnosticType ==
  [code : {"parse", "cycle", "missing", "unsupported"}, modules : Seq(AllModules)]

Typed ==
  /\ program \in Programs
  /\ DOMAIN states \subseteq Provided
  /\ states \in [DOMAIN states -> {"visiting", "visited"}]
  /\ frames \in Seq(FrameType)
  /\ order \in Seq(AllProvided)
  /\ diagnostics \in Seq(DiagnosticType)
  /\ phase \in {"start", "visit", "failed", "bundled"}

\* What the phases say of the rest.
PhaseInv ==
  /\ phase = "start" => /\ DOMAIN states = {} /\ frames = <<>> /\ order = <<>>
                        /\ diagnostics = <<>>
  /\ phase # "start" => Entry \in DOMAIN states \/ diagnostics # <<>>
  /\ phase = "bundled" => frames = <<>> /\ diagnostics = <<>>
  /\ phase = "failed" => diagnostics # <<>>

\* The stack holds the modules being visited, each once, and each imports the
\* next.
StackInv ==
  /\ \A i \in DOMAIN frames : Visiting(frames[i].module)
  /\ \A i \in DOMAIN frames : frames[i].next \in 1 .. Len(program[frames[i].module].body) + 1
  /\ \A i, j \in DOMAIN frames : frames[i].module = frames[j].module => i = j
  /\ \A m \in DOMAIN states : Visiting(m) => \E i \in DOMAIN frames : frames[i].module = m
  /\ \A i \in DOMAIN frames : i + 1 \in DOMAIN frames =>
       frames[i + 1].module \in Targets(frames[i].module)
  /\ \A i, j \in DOMAIN frames : i < j =>
       frames[j].module \in ReachableFrom(Targets(frames[i].module))

\* The visited modules are those ordered, each once.
OrderInv ==
  /\ \A m \in DOMAIN states : Visited(m) <=> \E i \in DOMAIN order : order[i] = m
  /\ \A i \in DOMAIN order : order[i] \in DOMAIN states
  /\ \A i, j \in DOMAIN order : order[i] = order[j] => i = j

\* A statement that is no import, or imports a module that has been visited.
Handled(m, k) ==
  LET s == program[m].body[k]
  IN  s.kind = "import" => Supported(s.from) /\ Visited(Resolved(m, s.from))

\* The import on which a visit waits for the one above it.
Awaits(i, k) ==
  LET s == program[frames[i].module].body[k]
  IN  /\ i + 1 \in DOMAIN frames /\ k = frames[i].next - 1
      /\ Supported(s.from) /\ Resolved(frames[i].module, s.from) = frames[i + 1].module

\* While nothing is reported, nothing behind is wrong.
CleanInv ==
  diagnostics = <<>> =>
    /\ \A m \in DOMAIN states : ~program[m].broken
    /\ \A m \in DOMAIN states : Visited(m) =>
         \A k \in DOMAIN program[m].body : Handled(m, k)
    /\ \A i \in DOMAIN frames : \A k \in 1 .. frames[i].next - 1 :
         Handled(frames[i].module, k) \/ Awaits(i, k)
    /\ \A j \in DOMAIN order : \A t \in Targets(order[j]) : Before(order, t, order[j])

\* The modules of a cycle import each other in turn.
IsCycle(cycle) ==
  /\ Len(cycle) >= 2
  /\ cycle[1] = cycle[Len(cycle)]
  /\ IsInjective(Front(cycle))
  /\ \A i \in 1 .. Len(cycle) - 1 : cycle[i + 1] \in Targets(cycle[i])

\* What is reported is so.
ReportInv ==
  /\ \A m \in DOMAIN states : m \in Reachable
  /\ diagnostics # <<>> => Defective
  /\ \A k \in DOMAIN diagnostics :
       diagnostics[k].code = "cycle" => IsCycle(diagnostics[k].modules)

Inv == Typed /\ PhaseInv /\ StackInv /\ OrderInv /\ CleanInv /\ ReportInv
-----------------------------------------------------------------------------
(* Reachability, in one program.                                           *)

LEMMA ReachedFromStart ==
  ASSUME NEW S, NEW m \in S, m \in Provided
  PROVE  m \in ReachableFrom(S)
BY DEF ReachableFrom

LEMMA ReachedOnwards ==
  ASSUME NEW S, NEW m \in ReachableFrom(S), NEW t \in Targets(m), t \in Provided
  PROVE  t \in ReachableFrom(S)
BY DEF ReachableFrom, Closed

LEMMA SameProgram ==
  ASSUME program' = program
  PROVE  /\ Provided' = Provided
         /\ \A m : Targets(m)' = Targets(m)
         /\ \A S : ReachableFrom(S)' = ReachableFrom(S)
         /\ Reachable' = Reachable
         /\ Defective' = Defective
<1>1. Provided' = Provided
  BY DEF Provided
<1>2. \A m : Targets(m)' = Targets(m)
  BY DEF Targets, Imports
<1>3. \A S : ReachableFrom(S)' = ReachableFrom(S)
  BY <1>1, <1>2 DEF ReachableFrom, Closed
<1>4. Reachable' = Reachable
  BY <1>3 DEF Reachable
<1>5. Defective' = Defective
  <2>1. \A m : Imports(m)' = Imports(m)
    BY DEF Imports
  <2> QED BY <1>1, <1>2, <1>3, <1>4, <2>1 DEF Defective
<1> QED BY <1>1, <1>2, <1>3, <1>4, <1>5

\* Bodies are sequences.
LEMMA Bodies ==
  ASSUME Typed, NEW m \in Provided
  PROVE  /\ m \in AllProvided
         /\ Len(program[m].body) \in Nat
         /\ DOMAIN program[m].body = 1 .. Len(program[m].body)
<1>1. m \in AllProvided
  BY DEF AllProvided, Typed, Provided
<1>2. program[m].body \in Seq({program[m].body[k] : k \in DOMAIN program[m].body})
  BY ProgramsAssumption DEF Typed, Provided
<1> QED BY <1>1, <1>2, LenProperties

LEMMA SupportedTargets ==
  ASSUME Typed, NEW m \in Provided, NEW k \in DOMAIN program[m].body,
         program[m].body[k].kind = "import", Supported(program[m].body[k].from)
  PROVE  /\ Resolved(m, program[m].body[k].from) \in Targets(m)
         /\ Resolved(m, program[m].body[k].from) \in AllModules
<1>1. Resolved(m, program[m].body[k].from) \in Targets(m)
  BY DEF Targets, Imports, ToSet
<1>2. k \in Nat /\ program \in Programs /\ m \in AllProvided
  BY Bodies DEF Typed
<1> QED BY <1>1, <1>2 DEF AllModules

LEMMA TargetsAreResolved ==
  ASSUME NEW m, NEW t \in Targets(m)
  PROVE  \E k \in DOMAIN program[m].body :
           /\ program[m].body[k].kind = "import" /\ Supported(program[m].body[k].from)
           /\ t = Resolved(m, program[m].body[k].from)
BY DEF Targets, Imports, ToSet
-----------------------------------------------------------------------------
(* Stacks.                                                                 *)

LEMMA StackShape ==
  ASSUME Typed
  PROVE  /\ Len(frames) \in Nat /\ DOMAIN frames = 1 .. Len(frames)
         /\ \A i \in DOMAIN frames : frames[i] \in FrameType
         /\ frames # <<>> => Len(frames) \in DOMAIN frames
BY LenProperties, EmptySeq, ElementOfSeq DEF Typed

\* Only the next statement of the innermost visit changes.
LEMMA AdvancedShape ==
  ASSUME Typed, frames # <<>>,
         NEW imports \in Seq(AllModules), NEW exports \in Seq(AllNames)
  PROVE  LET F == Advanced(imports, exports)
         IN  /\ F \in Seq(FrameType) /\ Len(F) = Len(frames) /\ DOMAIN F = DOMAIN frames
             /\ \A i \in DOMAIN frames :
                  /\ F[i].module = frames[i].module
                  /\ F[i].next = IF i = Len(frames) THEN frames[i].next + 1 ELSE frames[i].next
<1> DEFINE n == Len(frames)
           F == Advanced(imports, exports)
           f == [module |-> frames[n].module, next |-> frames[n].next + 1,
                 imports |-> frames[n].imports \o imports, exports |-> frames[n].exports \o exports]
<1>1. /\ n \in 1 .. Len(frames) /\ n \in Nat
      /\ DOMAIN frames = 1 .. n
      /\ frames \in Seq(FrameType) /\ frames[n] \in FrameType
  BY StackShape DEF Typed
<1>2. /\ frames[n].imports \o imports \in Seq(AllModules)
      /\ frames[n].exports \o exports \in Seq(AllNames)
  BY <1>1, ConcatProperties DEF FrameType
<1>3. f \in FrameType /\ f.module = frames[n].module /\ f.next = frames[n].next + 1
  BY <1>1, <1>2 DEF FrameType
<1>4. F = [frames EXCEPT ![n] = f]
  BY DEF Advanced, Top
<1> HIDE DEF f, F
<1>5. /\ F \in Seq(FrameType) /\ Len(F) = Len(frames)
      /\ \A i \in 1 .. n : F[i] = IF i = n THEN f ELSE frames[i]
  BY <1>1, <1>3, <1>4, ExceptSeq
<1>6. DOMAIN F = DOMAIN frames
  BY <1>1, <1>5, LenProperties
<1>7. \A i \in DOMAIN frames :
        /\ F[i].module = frames[i].module
        /\ F[i].next = IF i = n THEN frames[i].next + 1 ELSE frames[i].next
  BY <1>1, <1>3, <1>5
<1> QED BY <1>5, <1>6, <1>7 DEF F

\* The innermost visit goes on to its next statement.
Moved ==
  /\ frames' \in Seq(FrameType) /\ Len(frames') = Len(frames)
  /\ \A i \in 1 .. Len(frames) :
       /\ frames'[i].module = frames[i].module
       /\ frames'[i].next = IF i = Len(frames) THEN frames[i].next + 1 ELSE frames[i].next

\* It goes on, and waits for the visit of another module.
MovedAndPushed(m) ==
  /\ frames' \in Seq(FrameType) /\ Len(frames') = Len(frames) + 1
  /\ \A i \in 1 .. Len(frames) :
       /\ frames'[i].module = frames[i].module
       /\ frames'[i].next = IF i = Len(frames) THEN frames[i].next + 1 ELSE frames[i].next
  /\ frames'[Len(frames) + 1].module = m
  /\ frames'[Len(frames) + 1].next = 1

\* The innermost visit is over.
Popped ==
  /\ frames' \in Seq(FrameType) /\ Len(frames') = Len(frames) - 1
  /\ \A i \in 1 .. Len(frames) - 1 : frames'[i] = frames[i]

\* At a statement: the module it is in, which is being visited.
LEMMA TopFacts ==
  ASSUME Inv, frames # <<>>
  PROVE  /\ Len(frames) \in Nat \ {0} /\ Len(frames) \in DOMAIN frames
         /\ DOMAIN frames = 1 .. Len(frames)
         /\ Top = frames[Len(frames)] /\ Top \in FrameType
         /\ Visiting(Top.module) /\ Top.module \in DOMAIN states
         /\ Top.module \in Provided /\ Top.module \in AllProvided
         /\ Top.module \in Reachable
         /\ DOMAIN Body = 1 .. Len(Body) /\ Len(Body) \in Nat
         /\ Top.next \in 1 .. Len(Body) + 1
<1>1. /\ Len(frames) \in Nat /\ DOMAIN frames = 1 .. Len(frames)
      /\ Len(frames) \in DOMAIN frames /\ Top = frames[Len(frames)] /\ Top \in FrameType
  BY StackShape DEF Top, Inv
<1>2. Visiting(Top.module) /\ Top.next \in 1 .. Len(Body) + 1
  BY <1>1 DEF Inv, StackInv, Body
<1>3. /\ Top.module \in DOMAIN states /\ Top.module \in Provided /\ Top.module \in Reachable
  BY <1>2 DEF Visiting, Inv, Typed, ReportInv
<1>4. Top.module \in AllProvided /\ DOMAIN Body = 1 .. Len(Body) /\ Len(Body) \in Nat
  BY <1>3, Bodies DEF Inv, Body
<1> QED BY <1>1, <1>2, <1>3, <1>4

LEMMA MoveKeepsStackAndOrder ==
  ASSUME Inv, frames # <<>>, Top.next \in DOMAIN Body, Moved,
         UNCHANGED <<program, states, order>>
  PROVE  StackInv' /\ OrderInv'
<1>1. /\ Len(frames) \in Nat \ {0} /\ DOMAIN frames = 1 .. Len(frames)
      /\ Top = frames[Len(frames)] /\ DOMAIN Body = 1 .. Len(Body) /\ Len(Body) \in Nat
      /\ \A i \in 1 .. Len(frames) : frames[i].next \in Nat
  BY TopFacts, StackShape DEF Inv, FrameType
<1>2. DOMAIN frames' = DOMAIN frames
  BY <1>1, LenProperties DEF Moved
<1>3. /\ \A m : Visiting(m)' <=> Visiting(m)
      /\ \A m : Targets(m)' = Targets(m)
      /\ \A S : ReachableFrom(S)' = ReachableFrom(S)
  BY SameProgram DEF Visiting
<1>4. \A i \in DOMAIN frames :
        /\ frames'[i].module = frames[i].module
        /\ frames'[i].next \in 1 .. Len(program[frames[i].module].body) + 1
  BY <1>1 DEF Moved, Body, Inv, StackInv
<1>5. StackInv'
  BY <1>1, <1>2, <1>3, <1>4 DEF Inv, StackInv
<1>6. OrderInv'
  BY DEF Inv, OrderInv, Visited
<1> QED BY <1>5, <1>6

\* Nothing is reported, and the statement it leaves behind is in order.
LEMMA MoveKeepsClean ==
  ASSUME Inv, frames # <<>>, Top.next \in DOMAIN Body, Moved,
         UNCHANGED <<program, states, order>>,
         diagnostics' = <<>> => diagnostics = <<>> /\ Handled(Top.module, Top.next)
  PROVE  CleanInv'
<1> SUFFICES ASSUME diagnostics' = <<>>
             PROVE  CleanInv'
  BY DEF CleanInv
<1>1. /\ Len(frames) \in Nat \ {0} /\ DOMAIN frames = 1 .. Len(frames)
      /\ Top = frames[Len(frames)]
      /\ \A i \in 1 .. Len(frames) : frames[i].next \in Nat
  BY TopFacts, StackShape DEF Inv, FrameType
<1>2. DOMAIN frames' = DOMAIN frames
  BY <1>1, LenProperties DEF Moved
<1>3. \A m, k : Handled(m, k)' <=> Handled(m, k)
  BY DEF Handled, Visited
<1>4. ASSUME NEW i \in DOMAIN frames, NEW k \in 1 .. frames'[i].next - 1
      PROVE  Handled(frames[i].module, k)' \/ Awaits(i, k)'
  <2>1. frames'[i].module = frames[i].module
    BY <1>1 DEF Moved
  <2>2. CASE i = Len(frames) /\ k = Top.next
    BY <1>1, <2>1, <2>2 DEF Handled, Visited
  <2>3. CASE i = Len(frames) /\ k # Top.next
    <3>1. k \in 1 .. frames[i].next - 1 /\ i + 1 \notin DOMAIN frames
      BY <1>1, <2>3 DEF Moved
    <3> QED BY <2>1, <3>1 DEF Inv, CleanInv, Awaits, Handled, Visited
  <2>4. CASE i # Len(frames)
    <3>1. frames'[i].next = frames[i].next
      BY <1>1, <2>4 DEF Moved
    <3>2. Handled(frames[i].module, k) \/ Awaits(i, k)
      BY <3>1 DEF Inv, CleanInv
    <3>3. i + 1 \in DOMAIN frames => frames'[i + 1].module = frames[i + 1].module
      BY <1>1 DEF Moved
    <3> QED BY <1>2, <2>1, <3>1, <3>2, <3>3 DEF Awaits, Handled, Visited
  <2> QED BY <2>2, <2>3, <2>4
<1>5. /\ \A m \in DOMAIN states' : ~program'[m].broken
      /\ \A m \in DOMAIN states' : Visited(m)' =>
           \A k \in DOMAIN program'[m].body : Handled(m, k)'
  BY <1>3 DEF Inv, CleanInv, Visited
<1>6. \A j \in DOMAIN order' : \A t \in Targets(order[j])' : Before(order, t, order[j])'
  BY DEF Inv, CleanInv, Before, Targets, Imports
<1> QED BY <1>2, <1>4, <1>5, <1>6 DEF CleanInv

\* The modules on the stack reach what the innermost one imports.
LEMMA StackReaches ==
  ASSUME Inv, frames # <<>>, NEW t \in Targets(Top.module), t \in Provided
  PROVE  \A i \in DOMAIN frames : t \in ReachableFrom(Targets(frames[i].module))
<1>1. Len(frames) \in DOMAIN frames /\ DOMAIN frames = 1 .. Len(frames) /\ Top = frames[Len(frames)]
  BY TopFacts
<1> TAKE i \in DOMAIN frames
<1>2. CASE i = Len(frames)
  BY <1>1, <1>2, ReachedFromStart
<1>3. CASE i # Len(frames)
  <2>1. Top.module \in ReachableFrom(Targets(frames[i].module))
    BY <1>1, <1>3 DEF Inv, StackInv
  <2> QED BY <2>1, ReachedOnwards
<1> QED BY <1>2, <1>3

\* A module is visited for the first time, and becomes the innermost one.
Entered(m) ==
  /\ m \notin DOMAIN states
  /\ DOMAIN states' = DOMAIN states \union {m}
  /\ states'[m] = "visiting"
  /\ \A n \in DOMAIN states : states'[n] = states[n]

LEMMA PushKeepsStackAndOrder ==
  ASSUME Inv, frames # <<>>, Top.next \in DOMAIN Body,
         NEW t \in Targets(Top.module), t \in Provided, Entered(t), MovedAndPushed(t),
         UNCHANGED <<program, order>>
  PROVE  StackInv' /\ OrderInv'
<1> DEFINE n == Len(frames)
<1>1. /\ n \in Nat \ {0} /\ DOMAIN frames = 1 .. n
      /\ Top = frames[n] /\ DOMAIN Body = 1 .. Len(Body) /\ Len(Body) \in Nat
      /\ \A i \in 1 .. n : frames[i].next \in Nat
  BY TopFacts, StackShape DEF Inv, FrameType
<1>2. DOMAIN frames' = 1 .. n + 1
  BY <1>1, LenProperties DEF MovedAndPushed
<1>3. /\ \A m : Visiting(m)' <=> Visiting(m) \/ m = t
      /\ \A m : Visited(m)' <=> Visited(m)
  BY DEF Visiting, Visited, Entered
<1>4. /\ \A m : Targets(m)' = Targets(m)
      /\ \A S : ReachableFrom(S)' = ReachableFrom(S)
  BY SameProgram
<1>5. /\ \A i \in 1 .. n : frames'[i].module = frames[i].module
      /\ frames'[n + 1].module = t /\ frames'[n + 1].next = 1
  BY DEF MovedAndPushed
<1>6. \A i \in 1 .. n : Visiting(frames[i].module) /\ frames[i].module # t
  BY <1>1 DEF Inv, StackInv, Visiting, Entered
<1> HIDE DEF n
<1>7. \A i \in DOMAIN frames' : Visiting(frames[i].module)'
  BY <1>2, <1>5, <1>6, <1>1 DEF Visiting, Entered
<1>8. \A i \in DOMAIN frames' : frames'[i].next \in 1 .. Len(program'[frames'[i].module].body) + 1
  <2>1. \A i \in 1 .. n : frames'[i].next \in 1 .. Len(program[frames[i].module].body) + 1
    <3> TAKE i \in 1 .. n
    <3>1. frames[i].next \in 1 .. Len(program[frames[i].module].body) + 1
      BY <1>1 DEF Inv, StackInv
    <3>2. frames'[i].next = IF i = n THEN frames[i].next + 1 ELSE frames[i].next
      BY DEF MovedAndPushed, n
    <3>3. CASE i = n
      BY <1>1, <3>1, <3>2, <3>3 DEF Body
    <3>4. CASE i # n
      BY <3>1, <3>2, <3>4
    <3> QED BY <3>3, <3>4
  <2>2. Len(program[t].body) \in Nat
    BY Bodies DEF Inv
  <2>3. \A i \in 1 .. n : frames'[i].next \in 1 .. Len(program'[frames'[i].module].body) + 1
    BY <1>5, <2>1
  <2>4. frames'[n + 1].next \in 1 .. Len(program'[frames'[n + 1].module].body) + 1
    BY <1>5, <2>2
  <2> QED BY <1>1, <1>2, <2>3, <2>4
<1>9. \A i, j \in DOMAIN frames' : frames'[i].module = frames'[j].module => i = j
  BY <1>1, <1>2, <1>5, <1>6 DEF Inv, StackInv
<1>10. \A m \in DOMAIN states' : Visiting(m)' => \E i \in DOMAIN frames' : frames'[i].module = m
  <2> TAKE m \in DOMAIN states'
  <2> HAVE Visiting(m)'
  <2>1. CASE m = t
    BY <1>1, <1>2, <1>5, <2>1
  <2>2. CASE Visiting(m)
    <3>1. PICK i \in 1 .. n : frames[i].module = m
      BY <1>1, <2>2 DEF Inv, StackInv, Visiting
    <3> QED BY <1>1, <1>2, <1>5, <3>1
  <2> QED BY <1>3, <2>1, <2>2
<1>11. \A i \in DOMAIN frames' : i + 1 \in DOMAIN frames' =>
         frames'[i + 1].module \in Targets(frames[i].module)'
  <2>1. \A i \in 1 .. n : i + 1 \in 1 .. n => frames[i + 1].module \in Targets(frames[i].module)
    BY <1>1 DEF Inv, StackInv
  <2>2. \A i \in 1 .. n : frames'[i + 1].module \in Targets(frames[i].module)
    BY <1>1, <1>5, <2>1
  <2> QED BY <1>1, <1>2, <1>5, <2>2 DEF Targets, Imports
<1>12. \A i, j \in DOMAIN frames' : i < j =>
         frames'[j].module \in ReachableFrom(Targets(frames[i].module))'
  <2>1. \A i, j \in 1 .. n : i < j => frames[j].module \in ReachableFrom(Targets(frames[i].module))
    BY <1>1 DEF Inv, StackInv
  <2>2. \A i \in 1 .. n : t \in ReachableFrom(Targets(frames[i].module))
    BY <1>1, StackReaches
  <2>3. \A i, j \in 1 .. n + 1 : i < j =>
          i \in 1 .. n /\ frames'[j].module \in ReachableFrom(Targets(frames[i].module))
    BY <1>1, <1>5, <2>1, <2>2
  <2> QED BY <1>2, <1>5, <2>3 DEF ReachableFrom, Closed, Targets, Imports, Provided
<1>13. StackInv'
  BY <1>7, <1>8, <1>9, <1>10, <1>11, <1>12 DEF StackInv
<1>14. OrderInv'
  BY <1>3 DEF Inv, OrderInv, Visited, Entered
<1> QED BY <1>13, <1>14

LEMMA PushKeepsClean ==
  ASSUME Inv, frames # <<>>, Top.next \in DOMAIN Body, Body[Top.next].kind = "import",
         Supported(Body[Top.next].from),
         NEW t, t = Resolved(Top.module, Body[Top.next].from),
         Entered(t), MovedAndPushed(t),
         UNCHANGED <<program, order>>,
         diagnostics' = <<>> => diagnostics = <<>> /\ ~program[t].broken
  PROVE  CleanInv'
<1> SUFFICES ASSUME diagnostics' = <<>>
             PROVE  CleanInv'
  BY DEF CleanInv
<1> DEFINE n == Len(frames)
<1>1. /\ n \in Nat \ {0} /\ DOMAIN frames = 1 .. n
      /\ Top = frames[n]
      /\ \A i \in 1 .. n : frames[i].next \in Nat
  BY TopFacts, StackShape DEF Inv, FrameType
<1>2. DOMAIN frames' = 1 .. n + 1
  BY <1>1, LenProperties DEF MovedAndPushed
<1>3. \A m : Visited(m)' <=> Visited(m)
  BY DEF Visited, Entered
<1>8. /\ \A i \in 1 .. n :
           /\ frames'[i].module = frames[i].module
           /\ frames'[i].next = IF i = n THEN frames[i].next + 1 ELSE frames[i].next
      /\ frames'[n + 1].module = t /\ frames'[n + 1].next = 1
  BY DEF MovedAndPushed
<1> HIDE DEF n
<1>4. ASSUME NEW i \in 1 .. n + 1, NEW k \in 1 .. frames'[i].next - 1
      PROVE  Handled(frames[i].module, k)' \/ Awaits(i, k)'
  <2>1. CASE i = n + 1
    BY <1>8, <2>1
  <2>2. CASE i \in 1 .. n /\ frames'[i].next - 1 = k /\ i = n
    <3>1. /\ frames'[n].module = Top.module /\ frames'[n + 1].module = t
          /\ k = Top.next /\ n + 1 \in DOMAIN frames'
      BY <1>1, <1>2, <1>8, <2>2
    <3> QED BY <2>2, <3>1 DEF Awaits, Body
  <2>3. CASE i \in 1 .. n /\ ~(frames'[i].next - 1 = k /\ i = n)
    <3>1. frames'[i].module = frames[i].module /\ k \in 1 .. frames[i].next - 1
      BY <1>1, <1>8, <2>3
    <3>2. Handled(frames[i].module, k) \/ Awaits(i, k)
      BY <1>1, <2>3, <3>1 DEF Inv, CleanInv
    <3>3. CASE Handled(frames[i].module, k)
      BY <1>3, <3>1, <3>3 DEF Handled, Visited, Entered
    <3>4. CASE Awaits(i, k)
      <4>1. i # n /\ i + 1 \in 1 .. n
        BY <1>1, <3>4 DEF Awaits
      <4>2. /\ frames'[i].next = frames[i].next /\ frames'[i + 1].module = frames[i + 1].module
            /\ i + 1 \in DOMAIN frames'
        BY <1>1, <1>2, <1>8, <2>3, <4>1
      <4> QED BY <3>1, <3>4, <4>2 DEF Awaits
    <3> QED BY <3>2, <3>3, <3>4
  <2> QED BY <1>1, <2>1, <2>2, <2>3
<1>5. \A m \in DOMAIN states' : ~program'[m].broken
  BY DEF Inv, CleanInv, Entered
<1>6. \A m \in DOMAIN states' : Visited(m)' =>
         \A k \in DOMAIN program'[m].body : Handled(m, k)'
  <2>1. \A m, k : Handled(m, k)' <=> Handled(m, k)
    BY <1>3 DEF Handled, Visited
  <2> QED BY <1>3, <2>1 DEF Inv, CleanInv, Visited
<1>7. \A j \in DOMAIN order' : \A t2 \in Targets(order[j])' : Before(order, t2, order[j])'
  BY DEF Inv, CleanInv, Before, Targets, Imports
<1> QED BY <1>2, <1>4, <1>5, <1>6, <1>7 DEF CleanInv

\* What holds of the end of a visit, apart from what it does to the frames.
LEMMA LeaveFacts ==
  ASSUME Inv, Leave
  PROVE  /\ Popped
         /\ frames # <<>>
         /\ DOMAIN states' = DOMAIN states
         /\ \A m : Visiting(m)' <=> Visiting(m) /\ m # Top.module
         /\ \A m : Visited(m)' <=> Visited(m) \/ m = Top.module
         /\ Len(order) \in Nat /\ DOMAIN order = 1 .. Len(order)
         /\ Len(order') = Len(order) + 1 /\ DOMAIN order' = 1 .. Len(order) + 1
         /\ order' \in Seq(AllProvided)
         /\ \A i \in 1 .. Len(order) : order'[i] = order[i]
         /\ order'[Len(order) + 1] = Top.module
<1>1. /\ frames # <<>> /\ frames \in Seq(FrameType) /\ order \in Seq(AllProvided)
      /\ states \in [DOMAIN states -> {"visiting", "visited"}]
  BY DEF Leave, Inv, Typed
<1>2. /\ Len(frames) \in Nat \ {0} /\ Top.module \in DOMAIN states
      /\ Visiting(Top.module) /\ Top.module \in AllProvided
      /\ DOMAIN frames = 1 .. Len(frames)
  BY <1>1, TopFacts
<1>3. Popped
  <2> DEFINE q == Len(frames) - 1
  <2>1. frames' = SubSeq(frames, 1, q) /\ q \in Nat /\ q < Len(frames)
    BY <1>2 DEF Leave, Front
  <2>2. \A i \in 1 .. q : frames[i] \in FrameType
    BY <1>1, <1>2, ElementOfSeq
  <2> HIDE DEF q
  <2>3. /\ frames' \in Seq(FrameType)
        /\ Len(frames') = IF 1 <= q THEN q - 1 + 1 ELSE 0
        /\ \A i \in 1 .. q - 1 + 1 : frames'[i] = frames[1 + i - 1]
    BY <2>1, <2>2, SubSeqProperties
  <2>4. Len(frames') = q
    BY <2>1, <2>3
  <2>5. \A i \in 1 .. q : frames'[i] = frames[i]
    BY <2>1, <2>3
  <2> QED BY <2>3, <2>4, <2>5 DEF Popped, q
<1>4. states' = [states EXCEPT ![Top.module] = "visited"]
  BY DEF Leave, Ended
<1>5. /\ DOMAIN states' = DOMAIN states
      /\ \A m : Visiting(m)' <=> Visiting(m) /\ m # Top.module
      /\ \A m : Visited(m)' <=> Visited(m) \/ m = Top.module
  BY <1>1, <1>2, <1>4 DEF Visiting, Visited
<1>6. order' = Append(order, Top.module)
  BY DEF Leave, Ordered
<1>7. /\ Len(order) \in Nat /\ DOMAIN order = 1 .. Len(order)
      /\ Len(order') = Len(order) + 1
      /\ order' \in Seq(AllProvided)
      /\ \A i \in 1 .. Len(order) : order'[i] = order[i]
      /\ order'[Len(order) + 1] = Top.module
  BY <1>1, <1>2, <1>6, LenProperties, AppendProperties
<1>8. DOMAIN order' = 1 .. Len(order) + 1
  BY <1>7, LenProperties
<1> QED BY <1>1, <1>3, <1>5, <1>7, <1>8

LEMMA LeaveKeepsStackAndOrder ==
  ASSUME Inv, Leave
  PROVE  StackInv' /\ OrderInv'
<1> DEFINE n == Len(frames)
           m == Top.module
           o == Len(order)
<1>1. /\ n \in Nat \ {0} /\ DOMAIN frames = 1 .. n /\ m = frames[n].module
      /\ Visiting(m) /\ m \in DOMAIN states
  BY LeaveFacts, TopFacts
<1>2. /\ frames' \in Seq(FrameType) /\ Len(frames') = n - 1
      /\ \A i \in 1 .. n - 1 : frames'[i] = frames[i]
  BY LeaveFacts DEF Popped
<1>3. DOMAIN frames' = 1 .. n - 1
  BY <1>2, LenProperties
<1>4. /\ program' = program
      /\ \A x : Targets(x)' = Targets(x)
      /\ \A S : ReachableFrom(S)' = ReachableFrom(S)
  BY SameProgram DEF Leave
<1>5. /\ DOMAIN states' = DOMAIN states
      /\ \A x : Visiting(x)' <=> Visiting(x) /\ x # m
      /\ \A x : Visited(x)' <=> Visited(x) \/ x = m
  BY LeaveFacts
<1>6. /\ o \in Nat /\ DOMAIN order = 1 .. o /\ DOMAIN order' = 1 .. o + 1
      /\ \A i \in 1 .. o : order'[i] = order[i]
      /\ order'[o + 1] = m
  BY LeaveFacts
<1>7. /\ \A i \in 1 .. n : Visiting(frames[i].module)
      /\ \A i \in 1 .. n : frames[i].next \in 1 .. Len(program[frames[i].module].body) + 1
      /\ \A i, j \in 1 .. n : frames[i].module = frames[j].module => i = j
      /\ \A x \in DOMAIN states : Visiting(x) => \E i \in 1 .. n : frames[i].module = x
      /\ \A i \in 1 .. n : i + 1 \in 1 .. n => frames[i + 1].module \in Targets(frames[i].module)
      /\ \A i, j \in 1 .. n : i < j =>
           frames[j].module \in ReachableFrom(Targets(frames[i].module))
  BY <1>1 DEF Inv, StackInv
<1>8. \A i \in 1 .. n - 1 : frames[i].module # m
  BY <1>1, <1>7
<1> HIDE DEF n, m, o
<1>9. StackInv'
  <2>1. \A i \in DOMAIN frames' : Visiting(frames[i].module)'
    <3> TAKE i \in DOMAIN frames'
    <3>1. i \in 1 .. n /\ frames'[i] = frames[i] /\ frames[i].module # m
      BY <1>1, <1>2, <1>3, <1>8
    <3>2. Visiting(frames[i].module)
      BY <1>7, <3>1
    <3>3. states'[frames[i].module] = "visiting" /\ frames[i].module \in DOMAIN states'
      BY <1>5, <3>1, <3>2 DEF Visiting
    <3> QED BY <3>1, <3>3 DEF Visiting
  <2>2. /\ \A i \in DOMAIN frames' :
             frames'[i].next \in 1 .. Len(program'[frames'[i].module].body) + 1
        /\ \A i, j \in DOMAIN frames' : frames'[i].module = frames'[j].module => i = j
    BY <1>1, <1>2, <1>3, <1>4, <1>7
  <2>3. \A x \in DOMAIN states' : Visiting(x)' => \E i \in DOMAIN frames' : frames'[i].module = x
    <3> TAKE x \in DOMAIN states'
    <3> HAVE Visiting(x)'
    <3>1. PICK i \in 1 .. n : frames[i].module = x
      BY <1>5, <1>7
    <3>2. i # n
      BY <1>1, <1>5, <3>1
    <3> QED BY <1>1, <1>2, <1>3, <3>1, <3>2
  <2>4. \A i \in DOMAIN frames' : i + 1 \in DOMAIN frames' =>
          frames'[i + 1].module \in Targets(frames[i].module)'
    <3>1. \A i \in 1 .. n - 1 : i + 1 \in 1 .. n - 1 =>
            frames'[i + 1].module \in Targets(frames[i].module)
      BY <1>1, <1>2, <1>7
    <3> QED BY <1>2, <1>3, <1>4, <3>1 DEF Targets, Imports
  <2>5. \A i, j \in DOMAIN frames' : i < j =>
          frames'[j].module \in ReachableFrom(Targets(frames[i].module))'
    <3>1. \A i, j \in 1 .. n - 1 : i < j =>
            frames'[j].module \in ReachableFrom(Targets(frames[i].module))
      BY <1>1, <1>2, <1>7
    <3> QED BY <1>2, <1>3, <1>4, <3>1 DEF ReachableFrom, Closed, Targets, Imports, Provided
  <2> QED BY <2>1, <2>2, <2>3, <2>4, <2>5 DEF StackInv
<1>10. OrderInv'
  <2>1. /\ \A x \in DOMAIN states : Visited(x) <=> \E i \in 1 .. o : order[i] = x
        /\ \A i \in 1 .. o : order[i] \in DOMAIN states
        /\ \A i, j \in 1 .. o : order[i] = order[j] => i = j
    BY <1>6 DEF Inv, OrderInv
  <2>2. \A i \in 1 .. o : order[i] # m
    BY <1>1, <2>1 DEF Visited, Visiting
  <2>3. \A x \in DOMAIN states' : Visited(x)' <=> \E i \in DOMAIN order' : order'[i] = x
    BY <1>1, <1>5, <1>6, <2>1
  <2>4. \A i \in DOMAIN order' : order'[i] \in DOMAIN states'
    BY <1>1, <1>5, <1>6, <2>1
  <2>5. \A i, j \in DOMAIN order' : order'[i] = order'[j] => i = j
    BY <1>6, <2>1, <2>2
  <2> QED BY <2>3, <2>4, <2>5 DEF OrderInv
<1> QED BY <1>9, <1>10

\* The module that ends has handled all its statements, so what it imports is
\* ordered already; the visit below it waits no longer.
LEMMA LeaveKeepsClean ==
  ASSUME Inv, Leave
  PROVE  CleanInv'
<1> SUFFICES ASSUME diagnostics = <<>>
             PROVE  CleanInv'
  BY DEF CleanInv, Leave
<1> DEFINE n == Len(frames)
           m == Top.module
           o == Len(order)
<1>1. /\ n \in Nat \ {0} /\ DOMAIN frames = 1 .. n /\ m = frames[n].module
      /\ m \in DOMAIN states /\ m \in Provided
      /\ Top.next \in 1 .. Len(Body) + 1 /\ DOMAIN Body = 1 .. Len(Body) /\ Len(Body) \in Nat
      /\ Top = frames[n]
      /\ \A i \in 1 .. n : frames[i].next \in Nat
  BY LeaveFacts, TopFacts, StackShape DEF Inv, FrameType
<1>2. /\ frames' \in Seq(FrameType) /\ Len(frames') = n - 1
      /\ \A i \in 1 .. n - 1 : frames'[i] = frames[i]
  BY LeaveFacts DEF Popped
<1>3. DOMAIN frames' = 1 .. n - 1
  BY <1>2, LenProperties
<1>4. /\ program' = program /\ diagnostics' = diagnostics /\ Top.next \notin DOMAIN Body
  BY DEF Leave
<1>5. /\ DOMAIN states' = DOMAIN states
      /\ \A x : Visited(x)' <=> Visited(x) \/ x = m
  BY LeaveFacts
<1>6. /\ o \in Nat /\ DOMAIN order = 1 .. o /\ DOMAIN order' = 1 .. o + 1
      /\ \A i \in 1 .. o : order'[i] = order[i]
      /\ order'[o + 1] = m
  BY LeaveFacts
<1>7. Top.next = Len(Body) + 1
  BY <1>1, <1>4
<1>8. /\ \A x \in DOMAIN states : ~program[x].broken
      /\ \A x \in DOMAIN states : Visited(x) =>
           \A k \in DOMAIN program[x].body : Handled(x, k)
      /\ \A i \in 1 .. n : \A k \in 1 .. frames[i].next - 1 :
           Handled(frames[i].module, k) \/ Awaits(i, k)
      /\ \A j \in 1 .. o : \A t \in Targets(order[j]) : Before(order, t, order[j])
  BY <1>1, <1>6 DEF Inv, CleanInv
<1>9. Body = program[m].body
  BY DEF Body
<1> HIDE DEF n, m, o
<1>10. \A k \in DOMAIN program[m].body : Handled(m, k)
  <2> TAKE k \in DOMAIN program[m].body
  <2>1. n \in 1 .. n /\ k \in 1 .. frames[n].next - 1
    BY <1>1, <1>7, <1>9
  <2>2. ~Awaits(n, k)
    BY <1>1 DEF Awaits
  <2> QED BY <1>1, <1>8, <2>1, <2>2
<1>11. \A x, k : Handled(x, k) => Handled(x, k)'
  BY <1>4, <1>5 DEF Handled
<1>12. \A x \in DOMAIN states' : ~program'[x].broken
  BY <1>4, <1>5, <1>8
<1>13. \A x \in DOMAIN states' : Visited(x)' =>
         \A k \in DOMAIN program'[x].body : Handled(x, k)'
  BY <1>4, <1>5, <1>8, <1>10, <1>11
<1>14. ASSUME NEW i \in 1 .. n - 1, NEW k \in 1 .. frames[i].next - 1
       PROVE  Handled(frames[i].module, k)' \/ Awaits(i, k)'
  <2>1. i \in 1 .. n /\ i + 1 \in 1 .. n /\ frames'[i] = frames[i]
    BY <1>1, <1>2
  <2>2. CASE Handled(frames[i].module, k)
    <3>1. \A x : x = frames[i].module => Handled(x, k)'
      BY <1>11, <2>2
    <3> QED BY <2>1, <3>1 DEF Handled, Visited
  <2>3. CASE Awaits(i, k) /\ i + 1 = n
    <3>1. /\ Supported(program[frames[i].module].body[k].from)
          /\ Resolved(frames[i].module, program[frames[i].module].body[k].from) = m
      BY <1>1, <2>3 DEF Awaits
    <3>2. states'[m] = "visited" /\ m \in DOMAIN states'
      BY <1>5, <1>1 DEF Visited
    <3> QED BY <1>4, <2>1, <3>1, <3>2 DEF Handled, Visited
  <2>4. CASE Awaits(i, k) /\ i + 1 # n
    <3>1. i + 1 \in 1 .. n - 1 /\ frames'[i + 1] = frames[i + 1]
      BY <1>1, <1>2, <2>1, <2>4
    <3> QED BY <1>3, <1>4, <2>1, <2>4, <3>1 DEF Awaits
  <2>5. Handled(frames[i].module, k) \/ Awaits(i, k)
    BY <1>8, <2>1
  <2> QED BY <2>2, <2>3, <2>4, <2>5
<1>15. \A i \in DOMAIN frames' : \A k \in 1 .. frames'[i].next - 1 :
         Handled(frames[i].module, k)' \/ Awaits(i, k)'
  BY <1>2, <1>3, <1>14
<1>16. ASSUME NEW x, NEW t, Before(order, t, x)
       PROVE  Before(order', t, x)
  BY <1>6, <1>16 DEF Before
<1>17. ASSUME NEW t \in Targets(m)
       PROVE  Before(order', t, m)
  <2>1. PICK k \in DOMAIN program[m].body :
          /\ program[m].body[k].kind = "import"
          /\ t = Resolved(m, program[m].body[k].from)
    BY TargetsAreResolved
  <2>2. Visited(t)
    BY <1>10, <2>1 DEF Handled
  <2>3. PICK i \in 1 .. o : order[i] = t
    BY <1>6, <2>2 DEF Inv, OrderInv, Visited
  <2> QED BY <1>6, <2>3 DEF Before
<1>18. \A j \in 1 .. o + 1 : \A t \in Targets(order'[j]) : Before(order', t, order'[j])
  <2>1. \A j \in 1 .. o : \A t \in Targets(order'[j]) : Before(order', t, order'[j])
    BY <1>6, <1>8, <1>16
  <2>2. \A t \in Targets(order'[o + 1]) : Before(order', t, order'[o + 1])
    BY <1>6, <1>17
  <2> QED BY <1>6, <2>1, <2>2
<1>19. \A j \in DOMAIN order' : \A t \in Targets(order[j])' : Before(order, t, order[j])'
  BY <1>4, <1>6, <1>18 DEF Before, Targets, Imports
<1> QED BY <1>12, <1>13, <1>15, <1>19 DEF CleanInv
-----------------------------------------------------------------------------
(* Reports.                                                                *)

LEMMA ReportsTyped ==
  ASSUME Typed, NEW m \in Provided
  PROVE  /\ ParseReports(m) \in Seq(DiagnosticType)
         /\ diagnostics \o ParseReports(m) \in Seq(DiagnosticType)
         /\ diagnostics \o ParseReports(m) = <<>> => diagnostics = <<>> /\ ~program[m].broken
         /\ diagnostics \o ParseReports(m) # <<>> => diagnostics # <<>> \/ program[m].broken
         /\ \A k \in DOMAIN (diagnostics \o ParseReports(m)) :
              (diagnostics \o ParseReports(m))[k].code = "cycle" =>
                k \in DOMAIN diagnostics /\ (diagnostics \o ParseReports(m))[k] = diagnostics[k]
<1> DEFINE d == [code |-> "parse", modules |-> <<m>>]
<1>1. m \in AllModules /\ diagnostics \in Seq(DiagnosticType)
  BY Bodies DEF AllModules, Typed
<1>2. d \in DiagnosticType
  BY <1>1 DEF DiagnosticType
<1>3. CASE program[m].broken
  <2>1. ParseReports(m) = <<d>>
    BY <1>3 DEF ParseReports, Diagnostic
  <2>2. /\ <<d>> \in Seq(DiagnosticType) /\ Len(<<d>>) = 1 /\ <<d>>[1] = d /\ d.code = "parse"
    BY <1>2
  <2> HIDE DEF d
  <2>3. /\ diagnostics \o <<d>> \in Seq(DiagnosticType)
        /\ Len(diagnostics) \in Nat /\ DOMAIN diagnostics = 1 .. Len(diagnostics)
        /\ Len(diagnostics \o <<d>>) = Len(diagnostics) + 1
        /\ \A i \in 1 .. Len(diagnostics) + 1 :
             (diagnostics \o <<d>>)[i] =
               IF i <= Len(diagnostics) THEN diagnostics[i] ELSE <<d>>[i - Len(diagnostics)]
    BY <1>1, <2>2, ConcatProperties, LenProperties
  <2>4. DOMAIN (diagnostics \o <<d>>) = 1 .. Len(diagnostics) + 1
    BY <2>3, LenProperties
  <2>5. diagnostics \o <<d>> # <<>>
    BY <2>3, EmptySeq
  <2>6. \A k \in 1 .. Len(diagnostics) + 1 :
          (diagnostics \o <<d>>)[k].code = "cycle" =>
             k \in 1 .. Len(diagnostics) /\ (diagnostics \o <<d>>)[k] = diagnostics[k]
    BY <2>2, <2>3
  <2> QED BY <1>3, <2>1, <2>2, <2>3, <2>4, <2>5, <2>6
<1>4. CASE ~program[m].broken
  <2>1. ParseReports(m) = <<>> /\ diagnostics \o <<>> = diagnostics
    BY <1>1, <1>4, ConcatEmptySeq DEF ParseReports
  <2> QED BY <1>1, <1>4, <2>1, EmptySeq
<1> QED BY <1>3, <1>4

LEMMA AppendedReport ==
  ASSUME Typed, NEW d \in DiagnosticType
  PROVE  /\ Append(diagnostics, d) \in Seq(DiagnosticType)
         /\ Append(diagnostics, d) # <<>>
         /\ \A k \in DOMAIN Append(diagnostics, d) :
              \/ Append(diagnostics, d)[k] = d
              \/ k \in DOMAIN diagnostics /\ Append(diagnostics, d)[k] = diagnostics[k]
<1>1. /\ Append(diagnostics, d) \in Seq(DiagnosticType) /\ Append(diagnostics, d) # <<>>
      /\ Len(Append(diagnostics, d)) = Len(diagnostics) + 1
      /\ \A i \in 1 .. Len(diagnostics) : Append(diagnostics, d)[i] = diagnostics[i]
      /\ Append(diagnostics, d)[Len(diagnostics) + 1] = d
      /\ Len(diagnostics) \in Nat /\ DOMAIN diagnostics = 1 .. Len(diagnostics)
  BY AppendProperties, LenProperties DEF Typed
<1>2. DOMAIN Append(diagnostics, d) = 1 .. Len(diagnostics) + 1
  BY <1>1, LenProperties
<1> QED BY <1>1, <1>2

\* A module on the stack that the innermost one imports depends on itself, and
\* the stack from there on is how.
LEMMA ReportedCycle ==
  ASSUME Inv, frames # <<>>, NEW t \in Targets(Top.module), Visiting(t)
  PROVE  /\ IsCycle(Cycle(t))
         /\ Cycle(t) \in Seq(AllModules)
         /\ t \in Provided /\ t \in Reachable /\ t \in ReachableFrom(Targets(t))
<1> DEFINE n == Len(frames)
           j == CHOOSE k \in DOMAIN Stack : Stack[k] = t
           S == SubSeq(Stack, j, n)
           C == Append(S, t)
<1>1. /\ n \in Nat \ {0} /\ DOMAIN frames = 1 .. n /\ Top = frames[n]
      /\ t \in DOMAIN states /\ t \in Provided /\ t \in Reachable /\ t \in AllModules
  <2>1. t \in DOMAIN states /\ t \in Provided /\ t \in Reachable
    BY DEF Visiting, Inv, Typed, ReportInv
  <2>2. t \in AllModules
    BY <2>1, Bodies DEF Inv, AllModules
  <2> QED BY <2>1, <2>2, TopFacts
<1>2. /\ DOMAIN Stack = 1 .. n /\ Stack \in [1 .. n -> AllModules]
      /\ \A k \in 1 .. n : Stack[k] = frames[k].module
  <2>1. \A k \in 1 .. n : frames[k].module \in AllProvided
    BY <1>1, StackShape DEF Inv, FrameType
  <2>2. AllProvided \subseteq AllModules
    BY DEF AllModules
  <2> QED BY <1>1, <2>1, <2>2 DEF Stack
<1>3. Stack \in Seq(AllModules) /\ Len(Stack) = n
  BY <1>1, <1>2
<1>4. j \in 1 .. n /\ frames[j].module = t /\ Stack[j] = t
  <2>1. \E k \in DOMAIN Stack : Stack[k] = t
    BY <1>1, <1>2 DEF Inv, StackInv
  <2>2. j \in DOMAIN Stack /\ Stack[j] = t
    BY <2>1
  <2> HIDE DEF j
  <2> QED BY <1>2, <2>2
<1>5. Cycle(t) = C
  BY <1>3 DEF Cycle
<1> HIDE DEF j
<1>6. /\ S \in Seq(AllModules) /\ Len(S) = n - j + 1
      /\ \A i \in 1 .. n - j + 1 : S[i] = frames[j + i - 1].module
  <2>1. \A i \in j .. n : Stack[i] \in AllModules
    BY <1>1, <1>2, <1>4
  <2>2. j \in Int /\ n \in Int /\ j <= n
    BY <1>1, <1>4
  <2>3. /\ S \in Seq(AllModules) /\ Len(S) = IF j <= n THEN n - j + 1 ELSE 0
        /\ \A i \in 1 .. n - j + 1 : S[i] = Stack[j + i - 1]
    BY <2>1, <2>2, SubSeqProperties
  <2> QED BY <1>1, <1>2, <1>4, <2>2, <2>3
<1> DEFINE c == n - j + 1
<1>7. c \in Nat /\ c >= 1 /\ j + c - 1 = n
  BY <1>1, <1>4
<1> HIDE DEF S
<1>8. /\ C \in Seq(AllModules) /\ Len(C) = c + 1
      /\ \A i \in 1 .. c : C[i] = frames[j + i - 1].module
      /\ C[c + 1] = t
  BY <1>1, <1>6, AppendProperties
<1> HIDE DEF C, c, n
<1>9. C[1] = t
  BY <1>4, <1>7, <1>8
<1>10. IsInjective(Front(C))
  <2>1. \A i \in 1 .. c : C[i] \in AllModules
    BY <1>7, <1>8, ElementOfSeq
  <2>2. /\ SubSeq(C, 1, c) \in Seq(AllModules)
        /\ Len(SubSeq(C, 1, c)) = IF 1 <= c THEN c - 1 + 1 ELSE 0
        /\ \A i \in 1 .. c - 1 + 1 : SubSeq(C, 1, c)[i] = C[1 + i - 1]
    BY <1>7, <2>1, SubSeqProperties
  <2>3. Front(C) = SubSeq(C, 1, c)
    BY <1>7, <1>8 DEF Front
  <2>4. DOMAIN Front(C) = 1 .. c
    BY <1>7, <2>2, <2>3, LenProperties
  <2>5. \A i \in 1 .. c : Front(C)[i] = frames[j + i - 1].module
    BY <1>7, <1>8, <2>2, <2>3
  <2>6. \A i \in 1 .. c : j + i - 1 \in DOMAIN frames
    BY <1>1, <1>4, <1>7
  <2>7. \A a, b \in 1 .. c : Front(C)[a] = Front(C)[b] => a = b
    <3> TAKE a, b \in 1 .. c
    <3> HAVE Front(C)[a] = Front(C)[b]
    <3>1. j + a - 1 = j + b - 1
      BY <2>5, <2>6 DEF Inv, StackInv
    <3> QED BY <1>4, <3>1
  <2> QED BY <2>4, <2>7 DEF IsInjective
<1>11. ASSUME NEW i \in 1 .. c
       PROVE  C[i + 1] \in Targets(C[i])
  <2>1. CASE i = c
    BY <1>1, <1>7, <1>8, <2>1
  <2>2. CASE i # c
    <3>1. /\ i + 1 \in 1 .. c /\ j + i - 1 \in DOMAIN frames
          /\ j + (i + 1) - 1 = (j + i - 1) + 1 /\ (j + i - 1) + 1 \in DOMAIN frames
      BY <1>1, <1>4, <1>7, <2>2
    <3>2. frames[(j + i - 1) + 1].module \in Targets(frames[j + i - 1].module)
      BY <3>1 DEF Inv, StackInv
    <3> QED BY <1>8, <3>1, <3>2
  <2> QED BY <2>1, <2>2
<1>12. IsCycle(C)
  <2>1. Len(C) >= 2 /\ Len(C) - 1 = c
    BY <1>7, <1>8
  <2>2. C[1] = C[Len(C)]
    BY <1>8, <1>9
  <2> QED BY <1>10, <1>11, <2>1, <2>2 DEF IsCycle
<1>13. t \in ReachableFrom(Targets(t))
  BY <1>1, <1>4, StackReaches
<1> QED BY <1>1, <1>5, <1>8, <1>12, <1>13
-----------------------------------------------------------------------------
(* The invariant, action by action.                                        *)

\* A step that reports nothing new and visits nothing new keeps the reports true.
LEMMA SameReports ==
  ASSUME Inv, UNCHANGED <<program, diagnostics>>, DOMAIN states' = DOMAIN states
  PROVE  ReportInv'
<1>1. Reachable' = Reachable /\ Defective' = Defective
  BY SameProgram
<1>2. \A k \in DOMAIN diagnostics : IsCycle(diagnostics[k].modules)' <=> IsCycle(diagnostics[k].modules)
  BY DEF IsCycle, Targets, Imports
<1> QED BY <1>1, <1>2 DEF Inv, ReportInv

LEMMA InitInv == Init => Inv
<1> SUFFICES ASSUME Init PROVE Inv
  OBVIOUS
<1>1. DOMAIN states = {} /\ states \in [DOMAIN states -> {"visiting", "visited"}]
  BY DEF Init, NoMap
<1>2. Typed
  BY <1>1 DEF Init, Typed
<1>3. /\ DOMAIN frames = {} /\ DOMAIN order = {} /\ DOMAIN diagnostics = {}
  BY DEF Init
<1>4. PhaseInv
  BY <1>1 DEF Init, PhaseInv
<1>5. StackInv /\ OrderInv /\ CleanInv /\ ReportInv
  BY <1>1, <1>3 DEF Init, StackInv, OrderInv, CleanInv, ReportInv
<1> QED BY <1>2, <1>4, <1>5 DEF Inv

LEMMA AdvancedMoves ==
  ASSUME Inv, frames # <<>>, NEW imports \in Seq(AllModules), NEW exports \in Seq(AllNames),
         frames' = Advanced(imports, exports)
  PROVE  Moved
<1>1. LET F == Advanced(imports, exports)
      IN  /\ F \in Seq(FrameType) /\ Len(F) = Len(frames)
          /\ \A i \in DOMAIN frames :
               /\ F[i].module = frames[i].module
               /\ F[i].next = IF i = Len(frames) THEN frames[i].next + 1 ELSE frames[i].next
  BY AdvancedShape DEF Inv
<1>2. DOMAIN frames = 1 .. Len(frames)
  BY TopFacts
<1> QED BY <1>1, <1>2 DEF Moved

\* Statements that are no imports.
LEMMA ExportAndOtherKeepInv ==
  ASSUME Inv, Export \/ Other
  PROVE  Inv'
<1>1. /\ frames # <<>> /\ phase = "visit" /\ Top.next \in DOMAIN Body
      /\ Body[Top.next].kind # "import"
      /\ UNCHANGED <<program, states, order, diagnostics, phase>>
  BY DEF Export, Other, AtStatement
<1>2. Moved
  <2>1. CASE Other
    <3>1. <<>> \in Seq(AllModules) /\ <<>> \in Seq(AllNames) /\ frames' = Advanced(<<>>, <<>>)
      BY <2>1 DEF Other
    <3> QED BY <1>1, <3>1, AdvancedMoves
  <2>2. CASE Export
    <3> DEFINE exports == IF Here.name = Anonymous THEN <<>> ELSE <<Here.name>>
    <3>1. Here.name \in AllNames
      <4>1. /\ program \in Programs /\ Top.module \in AllProvided /\ Top.next \in Nat
        BY <1>1, TopFacts DEF Inv, Typed
      <4> QED BY <4>1 DEF AllNames, Here, Body
    <3>2. <<>> \in Seq(AllModules) /\ exports \in Seq(AllNames) /\ frames' = Advanced(<<>>, exports)
      BY <2>2, <3>1 DEF Export
    <3> HIDE DEF exports
    <3> QED BY <1>1, <3>2, AdvancedMoves
  <2> QED BY <2>1, <2>2
<1>3. StackInv' /\ OrderInv'
  BY <1>1, <1>2, MoveKeepsStackAndOrder
<1>4. CleanInv'
  <2>1. Handled(Top.module, Top.next)
    BY <1>1 DEF Handled, Body
  <2> QED BY <1>1, <1>2, <2>1, MoveKeepsClean
<1>5. ReportInv'
  BY <1>1, SameReports
<1>6. Typed'
  BY <1>1, <1>2 DEF Inv, Typed, Moved, Provided
<1>7. PhaseInv'
  BY <1>1 DEF Inv, PhaseInv
<1> QED BY <1>3, <1>4, <1>5, <1>6, <1>7 DEF Inv

\* A report of one of the codes, when there is a defect.
LEMMA NewReport ==
  ASSUME Inv, NEW d \in DiagnosticType, diagnostics' = Append(diagnostics, d),
         Defective, d.code = "cycle" => IsCycle(d.modules),
         UNCHANGED <<program, states>>
  PROVE  /\ ReportInv' /\ diagnostics' # <<>> /\ diagnostics' \in Seq(DiagnosticType)
<1>1. /\ diagnostics' # <<>> /\ diagnostics' \in Seq(DiagnosticType)
      /\ \A k \in DOMAIN diagnostics' :
           \/ diagnostics'[k] = d
           \/ k \in DOMAIN diagnostics /\ diagnostics'[k] = diagnostics[k]
  BY AppendedReport DEF Inv
<1>2. Reachable' = Reachable /\ Defective'
  BY SameProgram
<1>3. \A k \in DOMAIN diagnostics' : diagnostics'[k].code = "cycle" => IsCycle(diagnostics'[k].modules)
  BY <1>1 DEF Inv, ReportInv
<1>4. \A k \in DOMAIN diagnostics' :
        diagnostics'[k].code = "cycle" => IsCycle(diagnostics[k].modules)'
  BY <1>3 DEF IsCycle, Targets, Imports
<1> QED BY <1>1, <1>2, <1>4 DEF Inv, ReportInv

\* An import: its target, and what a defect at it means.
LEMMA ImportFacts ==
  ASSUME Inv, AtStatement("import")
  PROVE  /\ frames # <<>> /\ phase = "visit" /\ Top.next \in DOMAIN Body
         /\ Here \in Imports(Top.module)
         /\ Supported(Here.from) => /\ Resolved(Top.module, Here.from) \in Targets(Top.module)
                                    /\ Resolved(Top.module, Here.from) \in AllModules
         /\ Supported(Here.from) /\ Resolved(Top.module, Here.from) \in Provided =>
              Resolved(Top.module, Here.from) \in Reachable
<1>1. /\ frames # <<>> /\ phase = "visit" /\ Top.next \in DOMAIN Body /\ Here.kind = "import"
  BY DEF AtStatement, Here
<1>2. Top.module \in Provided /\ Top.module \in Reachable
  BY <1>1, TopFacts
<1>3. Here \in Imports(Top.module)
  BY <1>1 DEF Imports, ToSet, Here, Body
<1>4. Supported(Here.from) => /\ Resolved(Top.module, Here.from) \in Targets(Top.module)
                              /\ Resolved(Top.module, Here.from) \in AllModules
  BY <1>1, <1>2, SupportedTargets DEF Here, Body, Inv
<1>5. Supported(Here.from) /\ Resolved(Top.module, Here.from) \in Provided =>
        Resolved(Top.module, Here.from) \in Reachable
  BY <1>2, <1>4, ReachedOnwards DEF Reachable
<1> QED BY <1>1, <1>3, <1>4, <1>5

\* A reported import: the visit goes on behind it.
LEMMA ReportedImportKeepsInv ==
  ASSUME Inv, AtStatement("import"), Moved,
         NEW d \in DiagnosticType, diagnostics' = Append(diagnostics, d),
         Defective, d.code = "cycle" => IsCycle(d.modules),
         UNCHANGED <<program, states, order, phase>>
  PROVE  Inv'
<1>1. frames # <<>> /\ Top.next \in DOMAIN Body /\ phase = "visit"
  BY ImportFacts
<1>2. ReportInv' /\ diagnostics' # <<>> /\ diagnostics' \in Seq(DiagnosticType)
  BY NewReport
<1>3. StackInv' /\ OrderInv'
  BY <1>1, MoveKeepsStackAndOrder
<1>4. CleanInv'
  BY <1>2 DEF CleanInv
<1>5. Typed'
  BY <1>2 DEF Inv, Typed, Moved, Provided
<1>6. PhaseInv'
  BY <1>1, <1>2 DEF Inv, PhaseInv
<1> QED BY <1>2, <1>3, <1>4, <1>5, <1>6 DEF Inv

LEMMA ImportUnsupportedKeepsInv ==
  ASSUME Inv, ImportUnsupported
  PROVE  Inv'
<1> DEFINE d == Diagnostic("unsupported", <<Top.module>>)
<1>1. AtStatement("import") /\ ~Supported(Here.from)
  BY DEF ImportUnsupported
<1>2. /\ frames # <<>> /\ Here \in Imports(Top.module)
  BY <1>1, ImportFacts
<1>3. Defective
  <2>1. Top.module \in Reachable
    BY <1>2, TopFacts
  <2> QED BY <1>1, <1>2, <2>1 DEF Defective
<1>4. d \in DiagnosticType /\ d.code # "cycle"
  <2>1. Top.module \in AllModules
    BY <1>2, TopFacts DEF AllModules
  <2> QED BY <2>1 DEF Diagnostic, DiagnosticType
<1>5. Moved
  <2>1. <<>> \in Seq(AllModules) /\ <<>> \in Seq(AllNames) /\ frames' = Advanced(<<>>, <<>>)
    BY DEF ImportUnsupported
  <2> QED BY <1>2, <2>1, AdvancedMoves
<1>6. /\ diagnostics' = Append(diagnostics, d)
      /\ UNCHANGED <<program, states, order, phase>>
  BY DEF ImportUnsupported
<1> HIDE DEF d
<1> QED BY <1>1, <1>3, <1>4, <1>5, <1>6, ReportedImportKeepsInv

LEMMA ImportDismissedKeepsInv ==
  ASSUME Inv, ImportDismissed
  PROVE  Inv'
<1> DEFINE t == Resolved(Top.module, Here.from)
<1>1. /\ AtStatement("import") /\ Supported(Here.from)
      /\ Dismiss(t) /\ frames' = Advanced(<<t>>, <<>>)
      /\ UNCHANGED <<program, states, order, phase>>
  BY DEF ImportDismissed, Dismiss
<1>2. /\ frames # <<>> /\ Top.next \in DOMAIN Body /\ phase = "visit"
      /\ t \in Targets(Top.module) /\ t \in AllModules
  BY <1>1, ImportFacts
<1>3. Moved
  <2>1. <<t>> \in Seq(AllModules) /\ <<>> \in Seq(AllNames)
    BY <1>2
  <2> HIDE DEF t
  <2> QED BY <1>1, <1>2, <2>1, AdvancedMoves
<1>4. Top.module \in Reachable
  BY <1>2, TopFacts
<1>5. CASE Visited(t) /\ diagnostics' = diagnostics
  <2>1. Handled(Top.module, Top.next)
    BY <1>1, <1>5 DEF Handled, Here, Body
  <2>2. CleanInv'
    BY <1>1, <1>2, <1>3, <1>5, <2>1, MoveKeepsClean
  <2>3. StackInv' /\ OrderInv'
    BY <1>1, <1>2, <1>3, MoveKeepsStackAndOrder
  <2>4. ReportInv'
    BY <1>1, <1>5, SameReports
  <2>5. Typed'
    BY <1>1, <1>3, <1>5 DEF Inv, Typed, Moved, Provided
  <2>6. PhaseInv'
    BY <1>1, <1>2, <1>5 DEF Inv, PhaseInv
  <2> QED BY <2>2, <2>3, <2>4, <2>5, <2>6 DEF Inv
<1>6. CASE Visiting(t) /\ diagnostics' = Append(diagnostics, Diagnostic("cycle", Cycle(t)))
  <2> DEFINE d == Diagnostic("cycle", Cycle(t))
  <2>1. /\ IsCycle(Cycle(t)) /\ Cycle(t) \in Seq(AllModules)
        /\ t \in Provided /\ t \in Reachable /\ t \in ReachableFrom(Targets(t))
    BY <1>2, <1>6, ReportedCycle
  <2>2. Defective
    BY <2>1 DEF Defective
  <2>3. d \in DiagnosticType /\ IsCycle(d.modules)
    BY <2>1 DEF Diagnostic, DiagnosticType
  <2>4. diagnostics' = Append(diagnostics, d)
    BY <1>6
  <2> HIDE DEF d, t
  <2> QED BY <1>1, <1>3, <2>2, <2>3, <2>4, ReportedImportKeepsInv
<1>7. CASE t \notin Provided /\ diagnostics' = Append(diagnostics, Diagnostic("missing", <<t>>))
  <2> DEFINE d == Diagnostic("missing", <<t>>)
  <2>1. Defective
    BY <1>2, <1>4, <1>7 DEF Defective
  <2>2. d \in DiagnosticType /\ d.code # "cycle"
    BY <1>2 DEF Diagnostic, DiagnosticType
  <2>3. diagnostics' = Append(diagnostics, d)
    BY <1>7
  <2> HIDE DEF d, t
  <2> QED BY <1>1, <1>3, <2>1, <2>2, <2>3, ReportedImportKeepsInv
<1> QED BY <1>1, <1>5, <1>6, <1>7 DEF Dismiss

\* A module seen for the first time: what the invariant says of the reports.
LEMMA EnterFacts ==
  ASSUME Inv, NEW m \in Reachable, NEW below, Enter(m, below), program' = program
  PROVE  /\ Entered(m) /\ m \in Provided /\ m \in AllProvided
         /\ frames' = Append(below, NewFrame(m)) /\ NewFrame(m) \in FrameType
         /\ ReportInv'
         /\ diagnostics' \in Seq(DiagnosticType)
         /\ diagnostics' = <<>> => diagnostics = <<>> /\ ~program[m].broken
         /\ DOMAIN states' \subseteq Provided
         /\ states' \in [DOMAIN states' -> {"visiting", "visited"}]
<1>1. /\ Entered(m) /\ m \in Provided /\ frames' = Append(below, NewFrame(m))
      /\ diagnostics' = diagnostics \o ParseReports(m)
      /\ DOMAIN states' = DOMAIN states \union {m}
  BY DEF Enter, Entered
<1>2. /\ diagnostics' \in Seq(DiagnosticType)
      /\ diagnostics' = <<>> => diagnostics = <<>> /\ ~program[m].broken
      /\ diagnostics' # <<>> => diagnostics # <<>> \/ program[m].broken
      /\ \A k \in DOMAIN diagnostics' : diagnostics'[k].code = "cycle" =>
           k \in DOMAIN diagnostics /\ diagnostics'[k] = diagnostics[k]
  BY <1>1, ReportsTyped DEF Inv
<1>3. m \in AllProvided
  BY <1>1, Bodies DEF Inv
<1>4. NewFrame(m) \in FrameType
  BY <1>3 DEF NewFrame, FrameType
<1>5. /\ DOMAIN states' \subseteq Provided
      /\ states' \in [DOMAIN states' -> {"visiting", "visited"}]
  BY <1>1 DEF Enter, Inv, Typed
<1>6. ReportInv'
  <2>1. Reachable' = Reachable /\ Defective' = Defective
    BY SameProgram
  <2>2. \A n \in DOMAIN states' : n \in Reachable'
    BY <1>1, <2>1 DEF Inv, ReportInv
  <2>3. diagnostics' # <<>> => Defective'
    BY <1>2, <2>1 DEF Inv, ReportInv, Defective
  <2>4. \A k \in DOMAIN diagnostics' :
          diagnostics'[k].code = "cycle" => IsCycle(diagnostics'[k].modules)
    BY <1>2 DEF Inv, ReportInv
  <2>5. \A k \in DOMAIN diagnostics' :
          diagnostics'[k].code = "cycle" => IsCycle(diagnostics[k].modules)'
    BY <2>4 DEF IsCycle, Targets, Imports
  <2> QED BY <2>2, <2>3, <2>5 DEF ReportInv
<1> QED BY <1>1, <1>2, <1>3, <1>4, <1>5, <1>6

LEMMA ImportNewKeepsInv ==
  ASSUME Inv, ImportNew
  PROVE  Inv'
<1> DEFINE t == Resolved(Top.module, Here.from)
           F == Advanced(<<t>>, <<>>)
<1>1. /\ AtStatement("import") /\ Supported(Here.from) /\ Enter(t, F)
      /\ UNCHANGED <<program, order, phase>>
  BY DEF ImportNew
<1>2. /\ frames # <<>> /\ Top.next \in DOMAIN Body /\ phase = "visit"
      /\ Here.kind = "import" /\ Here = Body[Top.next]
      /\ t \in Targets(Top.module) /\ t \in AllModules
  BY <1>1, ImportFacts DEF AtStatement, Here
<1>3. t \in Provided
  BY <1>1 DEF Enter
<1>4. t \in Reachable
  BY <1>1, <1>3, ImportFacts
<1>5. t = Resolved(Top.module, Body[Top.next].from)
  BY <1>2
<1> HIDE DEF t
<1>6. <<t>> \in Seq(AllModules) /\ <<>> \in Seq(AllNames)
  BY <1>2
<1>7. /\ F \in Seq(FrameType) /\ Len(F) = Len(frames)
      /\ \A i \in 1 .. Len(frames) :
           /\ F[i].module = frames[i].module
           /\ F[i].next = IF i = Len(frames) THEN frames[i].next + 1 ELSE frames[i].next
  <2>1. DOMAIN frames = 1 .. Len(frames)
    BY <1>2, TopFacts
  <2> QED BY <1>2, <1>6, <2>1, AdvancedShape DEF Inv
<1> HIDE DEF F
<1>8. /\ Entered(t) /\ frames' = Append(F, NewFrame(t)) /\ NewFrame(t) \in FrameType
      /\ ReportInv' /\ diagnostics' \in Seq(DiagnosticType)
      /\ diagnostics' = <<>> => diagnostics = <<>> /\ ~program[t].broken
      /\ DOMAIN states' \subseteq Provided
      /\ states' \in [DOMAIN states' -> {"visiting", "visited"}]
  BY <1>1, <1>4, EnterFacts
<1>9. NewFrame(t).module = t /\ NewFrame(t).next = 1
  BY DEF NewFrame
<1>10. MovedAndPushed(t)
  <2>1. /\ frames' \in Seq(FrameType) /\ Len(frames') = Len(F) + 1
        /\ \A i \in 1 .. Len(F) : frames'[i] = F[i]
        /\ frames'[Len(F) + 1] = NewFrame(t)
    BY <1>7, <1>8, AppendProperties
  <2> QED BY <1>7, <1>9, <2>1 DEF MovedAndPushed
<1>11. StackInv' /\ OrderInv'
  BY <1>1, <1>2, <1>3, <1>8, <1>10, PushKeepsStackAndOrder
<1>12. CleanInv'
  BY <1>1, <1>2, <1>5, <1>8, <1>10, PushKeepsClean
<1>13. Typed'
  BY <1>1, <1>8, <1>10 DEF Inv, Typed, MovedAndPushed, Provided
<1>14. PhaseInv'
  BY <1>1, <1>2, <1>8 DEF Inv, PhaseInv, Entered
<1> QED BY <1>8, <1>11, <1>12, <1>13, <1>14 DEF Inv

LEMMA StartKeepsInv ==
  ASSUME Inv, Start
  PROVE  Inv'
<1>1. /\ phase = "start" /\ phase' = "visit" /\ UNCHANGED <<program, order>>
      /\ DOMAIN states = {} /\ frames = <<>> /\ order = <<>> /\ diagnostics = <<>>
      /\ DOMAIN order = {}
  BY DEF Start, Inv, PhaseInv
<1>2. CASE Enter(Entry, <<>>)
  <2>1. Entry \in Reachable
    BY <1>2, ReachedFromStart DEF Reachable, Enter
  <2>2. /\ Entered(Entry) /\ Entry \in Provided
        /\ frames' = Append(<<>>, NewFrame(Entry)) /\ NewFrame(Entry) \in FrameType
        /\ ReportInv' /\ diagnostics' \in Seq(DiagnosticType)
        /\ diagnostics' = <<>> => diagnostics = <<>> /\ ~program[Entry].broken
        /\ DOMAIN states' \subseteq Provided
        /\ states' \in [DOMAIN states' -> {"visiting", "visited"}]
    BY <1>1, <1>2, <2>1, EnterFacts
  <2>3. /\ frames' \in Seq(FrameType) /\ Len(frames') = 1 /\ frames'[1] = NewFrame(Entry)
        /\ DOMAIN frames' = {1}
    <3>1. <<>> \in Seq(FrameType) /\ Len(<<>>) = 0
      OBVIOUS
    <3>2. /\ frames' \in Seq(FrameType) /\ Len(frames') = 0 + 1
          /\ frames'[0 + 1] = NewFrame(Entry)
      BY <2>2, <3>1, AppendProperties
    <3>3. DOMAIN frames' = 1 .. 1
      BY <3>2, LenProperties
    <3> QED BY <3>2, <3>3
  <2>4. NewFrame(Entry).module = Entry /\ NewFrame(Entry).next = 1
    BY DEF NewFrame
  <2>5. DOMAIN states' = {Entry} /\ states'[Entry] = "visiting"
    BY <1>1, <2>2 DEF Entered
  <2>6. Typed'
    BY <1>1, <2>2, <2>3 DEF Inv, Typed, Provided
  <2>7. PhaseInv'
    BY <1>1, <2>5 DEF PhaseInv
  <2>8. StackInv'
    <3>1. Len(program[Entry].body) \in Nat
      BY <2>2, Bodies DEF Inv
    <3> QED BY <1>1, <2>3, <2>4, <2>5, <3>1 DEF StackInv, Visiting
  <2>9. OrderInv'
    BY <1>1, <2>5 DEF OrderInv, Visited
  <2>10. CleanInv'
    <3> SUFFICES ASSUME diagnostics' = <<>> PROVE CleanInv'
      BY DEF CleanInv
    <3>1. /\ \A m \in DOMAIN states' : ~program'[m].broken
          /\ \A m \in DOMAIN states' : ~Visited(m)'
          /\ \A i \in DOMAIN frames' : \A k : k \notin 1 .. frames'[i].next - 1
      BY <1>1, <2>2, <2>3, <2>4, <2>5 DEF Visited
    <3> QED BY <1>1, <3>1 DEF CleanInv
  <2> QED BY <2>2, <2>6, <2>7, <2>8, <2>9, <2>10 DEF Inv
<1>3. CASE Dismiss(Entry) /\ UNCHANGED frames
  <2> DEFINE d == Diagnostic("missing", <<Entry>>)
  <2>1. /\ diagnostics' = Append(diagnostics, d) /\ Entry \notin Provided
        /\ UNCHANGED <<program, states>>
    BY <1>1, <1>3 DEF Dismiss, Visited, Visiting
  <2>2. Defective
    BY <2>1 DEF Defective
  <2>3. d \in DiagnosticType /\ d.code # "cycle"
    <3>1. Entry \in AllModules
      BY DEF AllModules
    <3> QED BY <3>1 DEF Diagnostic, DiagnosticType
  <2> HIDE DEF d
  <2>4. ReportInv' /\ diagnostics' # <<>> /\ diagnostics' \in Seq(DiagnosticType)
    BY <2>1, <2>2, <2>3, NewReport
  <2>5. Typed'
    BY <1>1, <1>3, <2>1, <2>4 DEF Inv, Typed, Provided
  <2>6. PhaseInv'
    BY <1>1, <2>4 DEF PhaseInv
  <2>7. StackInv' /\ OrderInv'
    BY <1>1, <1>3, <2>1 DEF StackInv, OrderInv
  <2>8. CleanInv'
    BY <2>4 DEF CleanInv
  <2> QED BY <2>4, <2>5, <2>6, <2>7, <2>8 DEF Inv
<1> QED BY <1>2, <1>3 DEF Start

LEMMA LeaveKeepsInv ==
  ASSUME Inv, Leave
  PROVE  Inv'
<1>1. StackInv' /\ OrderInv' /\ CleanInv'
  BY LeaveKeepsStackAndOrder, LeaveKeepsClean
<1>2. /\ frames' \in Seq(FrameType) /\ order' \in Seq(AllProvided)
      /\ DOMAIN states' = DOMAIN states
      /\ UNCHANGED <<program, diagnostics, phase>> /\ phase = "visit"
  BY LeaveFacts DEF Popped, Leave
<1>3. states' \in [DOMAIN states' -> {"visiting", "visited"}]
  BY DEF Leave, Ended, Inv, Typed
<1>4. Typed'
  BY <1>2, <1>3 DEF Inv, Typed, Provided
<1>5. PhaseInv'
  BY <1>2 DEF Inv, PhaseInv
<1>6. ReportInv'
  BY <1>2, SameReports
<1> QED BY <1>1, <1>4, <1>5, <1>6 DEF Inv

LEMMA UnchangedKeepsInv ==
  ASSUME Inv, UNCHANGED <<program, states, frames, order, diagnostics>>,
         phase' = phase \/ Finish
  PROVE  Inv'
<1>1. Typed'
  BY DEF Inv, Typed, Provided, Finish
<1>2. PhaseInv'
  BY DEF Inv, PhaseInv, Finish
<1>3. OrderInv'
  BY DEF Inv, OrderInv, Visited
<1>4. StackInv'
  BY DEF Inv, StackInv, Visiting, Targets, Imports, ReachableFrom, Closed, Provided
<1>5. CleanInv'
  BY DEF Inv, CleanInv, Visited, Handled, Awaits, Before, Targets, Imports
<1>6. ReportInv'
  BY SameReports
<1> QED BY <1>1, <1>2, <1>3, <1>4, <1>5, <1>6 DEF Inv

\* The invariant is kept by every step, whatever the sources.
LEMMA NextInv == Inv /\ [Next]_vars => Inv'
<1> SUFFICES ASSUME Inv, [Next]_vars PROVE Inv'
  OBVIOUS
<1>1. CASE Start
  BY <1>1, StartKeepsInv
<1>2. CASE ImportUnsupported
  BY <1>2, ImportUnsupportedKeepsInv
<1>3. CASE ImportDismissed
  BY <1>3, ImportDismissedKeepsInv
<1>4. CASE ImportNew
  BY <1>4, ImportNewKeepsInv
<1>5. CASE Export \/ Other
  BY <1>5, ExportAndOtherKeepInv
<1>6. CASE Leave
  BY <1>6, LeaveKeepsInv
<1>7. CASE Finish
  BY <1>7, UnchangedKeepsInv DEF Finish
<1>8. CASE UNCHANGED vars
  BY <1>8, UnchangedKeepsInv DEF vars
<1> QED BY <1>1, <1>2, <1>3, <1>4, <1>5, <1>6, <1>7, <1>8 DEF Next
-----------------------------------------------------------------------------
(* What the invariant says.                                                *)

LEMMA InvOrdersDependencies == Inv => DependenciesFirst
<1> SUFFICES ASSUME Inv PROVE DependenciesFirst
  OBVIOUS
<1>1. \A i, j \in DOMAIN order : order[i] = order[j] => i = j
  BY DEF Inv, OrderInv
<1>2. ASSUME diagnostics = <<>>, NEW m \in ToSet(order), NEW t \in Targets(m)
      PROVE  Before(order, t, m)
  <2>1. PICK j \in DOMAIN order : order[j] = m
    BY DEF ToSet
  <2> QED BY <1>2, <2>1 DEF Inv, CleanInv
<1> QED BY <1>1, <1>2 DEF DependenciesFirst

\* When nothing has been reported at the end, everything reachable was visited.
LEMMA BundledIsComplete ==
  ASSUME Inv, phase = "bundled"
  PROVE  /\ \A m \in DOMAIN states : Visited(m)
         /\ Reachable \subseteq DOMAIN states
         /\ Entry \in Provided
         /\ \A m \in DOMAIN states : Targets(m) \subseteq DOMAIN states
<1>1. frames = <<>> /\ diagnostics = <<>> /\ Entry \in DOMAIN states /\ DOMAIN states \subseteq Provided
  BY DEF Inv, PhaseInv, Typed
<1>2. \A m \in DOMAIN states : Visited(m)
  BY <1>1 DEF Inv, StackInv, Typed, Visiting, Visited
<1>3. \A m \in DOMAIN states : Targets(m) \subseteq DOMAIN states
  <2> TAKE m \in DOMAIN states
  <2> SUFFICES ASSUME NEW t \in Targets(m) PROVE t \in DOMAIN states
    OBVIOUS
  <2>1. PICK k \in DOMAIN program[m].body :
          program[m].body[k].kind = "import" /\ t = Resolved(m, program[m].body[k].from)
    BY TargetsAreResolved
  <2>2. Handled(m, k)
    BY <1>1, <1>2 DEF Inv, CleanInv
  <2> QED BY <2>1, <2>2 DEF Handled, Visited
<1>4. Reachable \subseteq DOMAIN states
  <2>1. Closed(DOMAIN states) /\ {Entry} \intersect Provided \subseteq DOMAIN states
    BY <1>1, <1>3 DEF Closed
  <2> QED BY <1>1, <2>1 DEF Reachable, ReachableFrom
<1> QED BY <1>1, <1>2, <1>3, <1>4

LEMMA InvFailsExactly == Inv => FailsExactlyWhenItMust
<1> SUFFICES ASSUME Inv PROVE FailsExactlyWhenItMust
  OBVIOUS
<1>1. phase = "failed" => Defective
  BY DEF Inv, PhaseInv, ReportInv
<1>2. ASSUME phase = "bundled" PROVE ~Defective
  <2>1. /\ \A m \in DOMAIN states : Visited(m)
        /\ Reachable \subseteq DOMAIN states
        /\ Entry \in Provided
        /\ \A m \in DOMAIN states : Targets(m) \subseteq DOMAIN states
        /\ DOMAIN states \subseteq Provided
        /\ diagnostics = <<>>
    BY <1>2, BundledIsComplete DEF Inv, Typed, PhaseInv
  <2> SUFFICES ASSUME NEW m \in Reachable
               PROVE  /\ ~program[m].broken
                      /\ \A s \in Imports(m) : Supported(s.from)
                      /\ Targets(m) \subseteq Provided
                      /\ m \notin ReachableFrom(Targets(m))
    BY <2>1 DEF Defective
  <2>2. m \in DOMAIN states
    BY <2>1
  <2>3. ~program[m].broken /\ Targets(m) \subseteq Provided
    BY <2>1, <2>2 DEF Inv, CleanInv
  <2>4. \A s \in Imports(m) : Supported(s.from)
    <3> TAKE s \in Imports(m)
    <3>1. PICK k \in DOMAIN program[m].body : s = program[m].body[k] /\ s.kind = "import"
      BY DEF Imports, ToSet
    <3>2. Handled(m, k)
      BY <2>1, <2>2 DEF Inv, CleanInv
    <3> QED BY <3>1, <3>2 DEF Handled
  <2>5. m \notin ReachableFrom(Targets(m))
    <3> DEFINE C == {x \in Provided : Before(order, x, m)}
    <3>1. \A i, j \in DOMAIN order : order[i] = order[j] => i = j
      BY DEF Inv, OrderInv
    <3>2. PICK i \in DOMAIN order : order[i] = m
      BY <2>1, <2>2 DEF Inv, OrderInv
    <3>3. DOMAIN order \subseteq Int
      BY LenProperties DEF Inv, Typed
    <3>4. \A j \in DOMAIN order : \A t \in Targets(order[j]) : Before(order, t, order[j])
      BY <2>1 DEF Inv, CleanInv
    <3>5. Targets(m) \intersect Provided \subseteq C
      BY <3>2, <3>4
    <3>6. Closed(C)
      <4> SUFFICES ASSUME NEW x \in C, NEW t \in Targets(x), t \in Provided
                   PROVE  Before(order, t, m)
        BY DEF Closed
      <4>1. PICK a, b \in DOMAIN order : a < b /\ order[a] = x /\ order[b] = m
        BY DEF Before
      <4>2. PICK c, d \in DOMAIN order : c < d /\ order[c] = t /\ order[d] = x
        BY <3>4, <4>1 DEF Before
      <4>3. d = a /\ c < b
        BY <3>1, <3>3, <4>1, <4>2
      <4> QED BY <4>1, <4>2, <4>3 DEF Before
    <3>7. m \notin C
      BY <3>1, <3>3 DEF Before
    <3> QED BY <3>5, <3>6, <3>7 DEF ReachableFrom
  <2> QED BY <2>3, <2>4, <2>5
<1>3. \A k \in DOMAIN diagnostics :
        diagnostics[k].code = "cycle" => IsCycle(diagnostics[k].modules)
  BY DEF Inv, ReportInv
<1> QED BY <1>1, <1>2, <1>3 DEF FailsExactlyWhenItMust, IsCycle
-----------------------------------------------------------------------------
(* Bundles: sequences laid out one after the other.                        *)

\* b holds the elements of the first n of some sequences in their order: those
\* of an earlier one first, those of one as they stand there.
LaidOut(seqs, n, b) ==
  /\ IsSeq(b)
  /\ \A i \in DOMAIN b : \E c \in 1..n : \E k \in DOMAIN seqs[c] : b[i] = seqs[c][k]
  /\ \A c \in 1..n : \A k \in DOMAIN seqs[c] : \E i \in DOMAIN b : b[i] = seqs[c][k]
  /\ \A i, j \in DOMAIN b : i < j =>
       \E c, d \in 1..n : \E k \in DOMAIN seqs[c], l \in DOMAIN seqs[d] :
         b[i] = seqs[c][k] /\ b[j] = seqs[d][l] /\ (c < d \/ (c = d /\ k < l))

\* One sequence by itself.
LEMMA OneLaidOut ==
  ASSUME NEW seqs, IsSeq(seqs[1])
  PROVE  LaidOut(seqs, 1, seqs[1])
<1>1. 1 \in 1..1 /\ \A c \in 1..1 : c = 1
  OBVIOUS
<1>2. DOMAIN seqs[1] \subseteq Int
  BY SeqFacts
<1>3. \A i \in DOMAIN seqs[1] : \E c \in 1..1 : \E k \in DOMAIN seqs[c] : seqs[1][i] = seqs[c][k]
  BY <1>1, Zenon
<1>4. \A c \in 1..1 : \A k \in DOMAIN seqs[c] : \E i \in DOMAIN seqs[1] : seqs[1][i] = seqs[c][k]
  BY <1>1, Zenon
<1>5. \A i, j \in DOMAIN seqs[1] : i < j =>
       \E c, d \in 1..1 : \E k \in DOMAIN seqs[c], l \in DOMAIN seqs[d] :
         seqs[1][i] = seqs[c][k] /\ seqs[1][j] = seqs[d][l] /\ (c < d \/ (c = d /\ k < l))
  BY <1>1, Zenon
<1> QED BY <1>3, <1>4, <1>5, Zenon DEF LaidOut

\* The next one after those before.
LEMMA NextLaidOut ==
  ASSUME NEW seqs, NEW n \in Nat, NEW b, NEW t,
         LaidOut(seqs, n, b), t = seqs[n + 1], IsSeq(t)
  PROVE  LaidOut(seqs, n + 1, b \o t)
<1> DEFINE u == b \o t
           m == Len(b)
<1>1. IsSeq(b) /\ IsSeq(t)
  BY DEF LaidOut
<1>2. /\ DOMAIN b = 1..m /\ m \in Nat /\ DOMAIN t = 1..Len(t) /\ Len(t) \in Nat
  BY <1>1, SeqFacts
<1>3. IsSeq(u) /\ DOMAIN u = 1..(m + Len(t))
  BY <1>1, ConcatFacts
<1>4. \A i \in DOMAIN b : i \in DOMAIN u /\ u[i] = b[i]
  <2>1. \A i \in DOMAIN b : u[i] = b[i]
    BY <1>1, ConcatFacts
  <2> QED BY <1>2, <1>3, <2>1
<1>5. \A k \in DOMAIN t : m + k \in DOMAIN u /\ u[m + k] = t[k]
  <2>1. \A k \in DOMAIN t : (b \o t)[Len(b) + k] = t[k]
    BY <1>1, ConcatBehind
  <2> QED BY <1>2, <1>3, <2>1
<1> HIDE DEF u
<1>6. n + 1 \in 1..(n + 1) /\ \A c \in 1..n : c \in 1..(n + 1) /\ c < n + 1
  OBVIOUS
\* A place of u is one of b or of t.
<1>7. ASSUME NEW i \in DOMAIN u
      PROVE  \/ i \in DOMAIN b /\ u[i] = b[i]
             \/ i \notin DOMAIN b /\ \E k \in DOMAIN t : i = m + k /\ u[i] = t[k]
  <2>1. CASE i \in DOMAIN b
    BY <1>4, <2>1
  <2>2. CASE i \notin DOMAIN b
    <3>1. i - m \in DOMAIN t /\ i = m + (i - m)
      BY <1>2, <1>3, <2>2
    <3> QED BY <1>5, <2>2, <3>1
  <2> QED BY <2>1, <2>2
<1>8. ASSUME NEW i \in DOMAIN b
      PROVE  \E c \in 1..n : \E k \in DOMAIN seqs[c] : b[i] = seqs[c][k]
  BY DEF LaidOut
<1>9. \A i \in DOMAIN u : \E c \in 1..(n + 1) : \E k \in DOMAIN seqs[c] : u[i] = seqs[c][k]
  BY <1>6, <1>7, <1>8
<1>10. ASSUME NEW c \in 1..(n + 1), NEW k \in DOMAIN seqs[c]
       PROVE  \E i \in DOMAIN u : u[i] = seqs[c][k]
  <2>1. CASE c = n + 1
    BY <1>5, <2>1
  <2>2. CASE c # n + 1
    <3>1. c \in 1..n
      BY <2>2
    <3>2. \E i \in DOMAIN b : b[i] = seqs[c][k]
      BY <3>1 DEF LaidOut
    <3> QED BY <1>4, <3>2
  <2> QED BY <2>1, <2>2
<1>11. ASSUME NEW i \in DOMAIN u, NEW j \in DOMAIN u, i < j
       PROVE  \E c, d \in 1..(n + 1) : \E k \in DOMAIN seqs[c], l \in DOMAIN seqs[d] :
                u[i] = seqs[c][k] /\ u[j] = seqs[d][l] /\ (c < d \/ (c = d /\ k < l))
  <2>1. CASE j \in DOMAIN b
    <3>1. i \in DOMAIN b /\ u[i] = b[i] /\ u[j] = b[j]
      BY <1>2, <1>3, <1>4, <1>11, <2>1
    <3>2. \E c, d \in 1..n : \E k \in DOMAIN seqs[c], l \in DOMAIN seqs[d] :
            b[i] = seqs[c][k] /\ b[j] = seqs[d][l] /\ (c < d \/ (c = d /\ k < l))
      BY <1>11, <2>1, <3>1 DEF LaidOut
    <3> QED BY <1>6, <3>1, <3>2
  <2>2. CASE j \notin DOMAIN b /\ i \in DOMAIN b
    <3>1. PICK l \in DOMAIN t : u[j] = t[l]
      BY <1>7, <2>2
    <3>2. PICK c \in 1..n : \E k \in DOMAIN seqs[c] : u[i] = seqs[c][k]
      BY <1>4, <1>8, <2>2
    <3> QED BY <1>6, <3>1, <3>2
  <2>3. CASE j \notin DOMAIN b /\ i \notin DOMAIN b
    <3>1. PICK l \in DOMAIN t : j = m + l /\ u[j] = t[l]
      BY <1>7, <2>3
    <3>2. PICK k \in DOMAIN t : i = m + k /\ u[i] = t[k]
      BY <1>7, <2>3
    <3>3. k < l
      BY <1>2, <1>11, <3>1, <3>2
    <3> QED BY <1>6, <3>1, <3>2, <3>3
  <2> QED BY <2>1, <2>2, <2>3
<1>12. LaidOut(seqs, n + 1, u)
  BY <1>3, <1>9, <1>10, <1>11 DEF LaidOut
<1> QED BY <1>12 DEF u

\* FlattenSeq lays out all of its sequences.
LEMMA FlattenLaysOut ==
  ASSUME NEW seqs, IsSeq(seqs), \A c \in DOMAIN seqs : IsSeq(seqs[c])
  PROVE  LaidOut(seqs, Len(seqs), FlattenSeq(seqs))
<1> DEFINE N == Len(seqs)
           f == CHOOSE g : FlattenedTo(seqs, N, g)
           Bad == {m \in Nat : m >= 1 /\ m <= N /\ ~LaidOut(seqs, m, f[m])}
<1>1. N \in Nat /\ DOMAIN seqs = 1..N /\ (seqs = <<>> <=> N = 0)
  BY SeqFacts
<1>2. CASE N = 0
  <2>1. FlattenSeq(seqs) = seqs
    BY <1>2 DEF FlattenSeq
  <2>2. DOMAIN seqs = {} /\ 1..N = {}
    BY <1>1, <1>2
  <2> QED BY <2>1, <2>2 DEF LaidOut
<1>3. CASE N # 0
  <2>1. FlattenSeq(seqs) = f[N]
    BY <1>3 DEF FlattenSeq, FlattenedTo
  <2>2. FlattenedTo(seqs, N, f)
    BY <1>1, FlattenedExists
  <2> HIDE DEF f
  <2>3. \A i \in 1..N : f[i] = IF i = 1 THEN seqs[i] ELSE f[i - 1] \o seqs[i]
    BY <2>2 DEF FlattenedTo
  <2>4. Bad = {}
    <3> SUFFICES ASSUME Bad # {} PROVE FALSE
      OBVIOUS
    <3>1. PICK m \in Bad : \A k \in Bad : ~(k < m)
      BY LeastOf
    <3>2. CASE m = 1
      <4>1. f[1] = seqs[1] /\ IsSeq(seqs[1])
        BY <1>1, <1>3, <2>3
      <4> QED BY <3>1, <3>2, <4>1, OneLaidOut
    <3>3. CASE m # 1
      <4>1. m - 1 \in Nat /\ m - 1 >= 1 /\ m - 1 <= N /\ m - 1 < m /\ m \in 1..N /\ m - 1 + 1 = m
        BY <1>1, <3>1, <3>3
      <4>2. LaidOut(seqs, m - 1, f[m - 1])
        BY <3>1, <4>1
      <4>3. f[m] = f[m - 1] \o seqs[m]
        BY <2>3, <3>3, <4>1
      <4> DEFINE p == m - 1
                 s == f[m - 1]
      <4>4. p \in Nat /\ LaidOut(seqs, p, s) /\ IsSeq(seqs[p + 1])
        BY <1>1, <4>1, <4>2
      <4> HIDE DEF p, s
      <4>5. LaidOut(seqs, p + 1, s \o seqs[p + 1])
        BY <4>4, NextLaidOut, Zenon
      <4>6. p + 1 = m
        BY <4>1 DEF p
      <4>7. LaidOut(seqs, m, f[m])
        BY <4>3, <4>5, <4>6 DEF s
      <4> QED BY <3>1, <4>7
    <3> QED BY <3>2, <3>3
  <2>5. LaidOut(seqs, N, f[N])
    BY <1>1, <1>3, <2>4
  <2> QED BY <2>1, <2>5
<1> QED BY <1>2, <1>3

\* The places a module's bundled statements have there, one after the other.
PlacesOf(m, b) ==
  /\ IsSeq(b)
  /\ \A i \in DOMAIN b : \E k \in Bundled(m) : b[i] = <<m, k>>
  /\ \A k \in Bundled(m) : \E i \in DOMAIN b : b[i] = <<m, k>>
  /\ \A i, j \in DOMAIN b : i < j =>
       \E k, l \in Bundled(m) : b[i] = <<m, k>> /\ b[j] = <<m, l>> /\ k < l

\* A statement by itself, or nothing of an import.
Piece(m, k) ==
  IF program[m].body[k].kind = "import" THEN <<>> ELSE <<<<m, k>>>>

LEMMA PieceFacts ==
  ASSUME NEW m, NEW k \in DOMAIN program[m].body
  PROVE  /\ IsSeq(Piece(m, k))
         /\ \A i \in DOMAIN Piece(m, k) : i = 1 /\ k \in Bundled(m) /\ Piece(m, k)[i] = <<m, k>>
         /\ k \in Bundled(m) => 1 \in DOMAIN Piece(m, k) /\ Piece(m, k)[1] = <<m, k>>
<1> DEFINE s == <<m, k>>
<1>1. CASE program[m].body[k].kind = "import"
  <2>1. Piece(m, k) = <<>> /\ k \notin Bundled(m)
    BY <1>1 DEF Piece, Bundled
  <2>2. IsSeq(Piece(m, k)) /\ DOMAIN Piece(m, k) = {}
    <3>1. <<>> \in Seq({1}) /\ DOMAIN <<>> = {}
      OBVIOUS
    <3>2. IsSeq(<<>>)
      BY <3>1, SeqIsSeq, Zenon
    <3> QED BY <2>1, <3>1, <3>2, Zenon
  <2> QED BY <2>1, <2>2
<1>2. CASE program[m].body[k].kind # "import"
  <2>1. Piece(m, k) = <<s>> /\ k \in Bundled(m)
    BY <1>2 DEF Piece, Bundled
  <2> HIDE DEF s
  <2>2. <<s>> \in Seq({s}) /\ DOMAIN <<s>> = 1..1 /\ <<s>>[1] = s
    OBVIOUS
  <2>3. IsSeq(<<s>>)
    BY <2>2, SeqIsSeq, Zenon
  <2>4. \A i \in 1..1 : i = 1
    OBVIOUS
  <2>5. 1 \in 1..1
    OBVIOUS
  <2> QED BY <2>1, <2>2, <2>3, <2>4, <2>5 DEF s
<1> QED BY <1>1, <1>2

LEMMA ModulePlaces ==
  ASSUME NEW m, IsSeq(program[m].body)
  PROVE  PlacesOf(m, BundledOf(m))
<1> DEFINE body == program[m].body
           pieces == [k \in DOMAIN body |-> Piece(m, k)]
           n == Len(body)
           b == BundledOf(m)
<1>1. n \in Nat /\ DOMAIN body = 1..n
  BY SeqFacts
<1>2. \A k \in 1..n : pieces[k] = Piece(m, k)
  BY <1>1
<1>3. IsSeq(pieces) /\ Len(pieces) = n /\ DOMAIN pieces = 1..n
  <2> DEFINE W == {pieces[k] : k \in 1..n}
  <2>1. pieces \in [1..n -> W]
    BY <1>1
  <2>2. DOMAIN pieces = 1..n
    BY <1>1
  <2> HIDE DEF pieces
  <2>3. pieces \in Seq(W) /\ Len(pieces) = n
    BY <1>1, <2>1, FunctionIsSeq
  <2> QED BY <2>2, <2>3, SeqIsSeq
<1>4. b = FlattenSeq(pieces)
  BY DEF BundledOf, Piece
<1> HIDE DEF pieces, b
<1>5. \A k \in 1..n : k \in DOMAIN body
  BY <1>1
<1>6. \A c \in DOMAIN pieces : IsSeq(pieces[c])
  BY <1>2, <1>3, <1>5, PieceFacts
<1>7. LaidOut(pieces, n, b)
  BY <1>3, <1>4, <1>6, FlattenLaysOut
\* What a piece holds.
<1>8. ASSUME NEW c \in 1..n, NEW k \in DOMAIN pieces[c]
      PROVE  k = 1 /\ c \in Bundled(m) /\ pieces[c][k] = <<m, c>>
  BY <1>2, <1>5, PieceFacts
<1>9. ASSUME NEW k \in Bundled(m)
      PROVE  k \in 1..n /\ 1 \in DOMAIN pieces[k] /\ pieces[k][1] = <<m, k>>
  <2>1. k \in DOMAIN body /\ k \in 1..n
    BY <1>1 DEF Bundled
  <2> QED BY <1>2, <2>1, PieceFacts
<1>10. ASSUME NEW i \in DOMAIN b PROVE \E k \in Bundled(m) : b[i] = <<m, k>>
  <2>1. PICK c \in 1..n : \E k \in DOMAIN pieces[c] : b[i] = pieces[c][k]
    BY <1>7, Zenon DEF LaidOut
  <2> QED BY <1>8, <2>1
<1>11. ASSUME NEW k \in Bundled(m) PROVE \E i \in DOMAIN b : b[i] = <<m, k>>
  <2>1. \E i \in DOMAIN b : b[i] = pieces[k][1]
    BY <1>7, <1>9, Zenon DEF LaidOut
  <2> QED BY <1>9, <2>1
<1>12. ASSUME NEW i \in DOMAIN b, NEW j \in DOMAIN b, i < j
       PROVE  \E k, l \in Bundled(m) : b[i] = <<m, k>> /\ b[j] = <<m, l>> /\ k < l
  <2>1. PICK c \in 1..n, d \in 1..n :
          \E k \in DOMAIN pieces[c], l \in DOMAIN pieces[d] :
            b[i] = pieces[c][k] /\ b[j] = pieces[d][l] /\ (c < d \/ (c = d /\ k < l))
    BY <1>7, <1>12, Zenon DEF LaidOut
  <2>2. PICK k \in DOMAIN pieces[c], l \in DOMAIN pieces[d] :
          b[i] = pieces[c][k] /\ b[j] = pieces[d][l] /\ (c < d \/ (c = d /\ k < l))
    BY <2>1
  <2>3. k = 1 /\ l = 1 /\ c \in Bundled(m) /\ d \in Bundled(m)
        /\ pieces[c][k] = <<m, c>> /\ pieces[d][l] = <<m, d>>
    BY <1>8
  <2>4. c < d
    BY <2>2, <2>3
  <2> QED BY <2>2, <2>3, <2>4
<1>13. IsSeq(b)
  BY <1>7 DEF LaidOut
<1>14. PlacesOf(m, b)
  BY <1>10, <1>11, <1>12, <1>13, Zenon DEF PlacesOf
<1> QED BY <1>14 DEF b

\* Where the statements of the ordered modules stand in the bundle.
Bundling(b) ==
  /\ \A i \in DOMAIN b : \E c \in DOMAIN order : \E p \in Bundled(order[c]) : b[i] = <<order[c], p>>
  /\ \A c \in DOMAIN order : \A p \in Bundled(order[c]) : \E i \in DOMAIN b : b[i] = <<order[c], p>>
  /\ \A i, j \in DOMAIN b : i < j =>
       \E c, d \in DOMAIN order : \E p \in Bundled(order[c]), q \in Bundled(order[d]) :
         b[i] = <<order[c], p>> /\ b[j] = <<order[d], q>> /\ (c < d \/ (c = d /\ p < q))

LEMMA BundleLaysOut ==
  ASSUME Inv
  PROVE  IsSeq(Bundle) /\ Bundling(Bundle)
<1> DEFINE parts == [k \in DOMAIN order |-> BundledOf(order[k])]
           n == Len(order)
           b == Bundle
<1>1. n \in Nat /\ DOMAIN order = 1..n
  BY LenProperties DEF Inv, Typed
<1>2. \A k \in DOMAIN order : PlacesOf(order[k], BundledOf(order[k]))
  <2> TAKE k \in DOMAIN order
  <2>1. program \in Programs /\ order[k] \in DOMAIN program
    BY DEF Inv, Typed, OrderInv, Provided
  <2>2. IsSeq(program[order[k]].body)
    BY <2>1, ProgramsAssumption DEF IsSeq
  <2> QED BY <2>2, ModulePlaces
<1>3. \A k \in DOMAIN order : PlacesOf(order[k], parts[k])
  BY <1>2
<1>4. IsSeq(parts) /\ Len(parts) = n /\ DOMAIN parts = 1..n
  <2> DEFINE W == {parts[k] : k \in 1..n}
  <2>1. parts \in [1..n -> W] /\ DOMAIN parts = 1..n
    BY <1>1
  <2> HIDE DEF parts
  <2>2. parts \in Seq(W) /\ Len(parts) = n
    BY <1>1, <2>1, FunctionIsSeq
  <2> QED BY <2>1, <2>2, SeqIsSeq
<1>5. b = FlattenSeq(parts)
  BY DEF Bundle
<1> HIDE DEF parts, b
<1>6. \A c \in DOMAIN parts : IsSeq(parts[c])
  BY <1>1, <1>3, <1>4 DEF PlacesOf
<1>7. LaidOut(parts, n, b)
  BY <1>4, <1>5, <1>6, FlattenLaysOut
<1>8. ASSUME NEW i \in DOMAIN b
      PROVE  \E c \in DOMAIN order : \E p \in Bundled(order[c]) : b[i] = <<order[c], p>>
  <2>1. PICK c \in 1..n : \E k \in DOMAIN parts[c] : b[i] = parts[c][k]
    BY <1>7, Zenon DEF LaidOut
  <2>2. PICK k \in DOMAIN parts[c] : b[i] = parts[c][k]
    BY <2>1
  <2>3. \E p \in Bundled(order[c]) : parts[c][k] = <<order[c], p>>
    BY <1>1, <1>3, Zenon DEF PlacesOf
  <2> QED BY <1>1, <2>2, <2>3
<1>9. ASSUME NEW c \in DOMAIN order, NEW p \in Bundled(order[c])
      PROVE  \E i \in DOMAIN b : b[i] = <<order[c], p>>
  <2>1. PICK k \in DOMAIN parts[c] : parts[c][k] = <<order[c], p>>
    BY <1>3, Zenon DEF PlacesOf
  <2>2. \E i \in DOMAIN b : b[i] = parts[c][k]
    BY <1>1, <1>7, Zenon DEF LaidOut
  <2> QED BY <2>1, <2>2
<1>10. ASSUME NEW i \in DOMAIN b, NEW j \in DOMAIN b, i < j
       PROVE  \E c, d \in DOMAIN order : \E p \in Bundled(order[c]), q \in Bundled(order[d]) :
                b[i] = <<order[c], p>> /\ b[j] = <<order[d], q>> /\ (c < d \/ (c = d /\ p < q))
  <2>1. PICK c \in 1..n, d \in 1..n :
          \E k \in DOMAIN parts[c], l \in DOMAIN parts[d] :
            b[i] = parts[c][k] /\ b[j] = parts[d][l] /\ (c < d \/ (c = d /\ k < l))
    BY <1>7, <1>10, Zenon DEF LaidOut
  <2>2. PICK k \in DOMAIN parts[c], l \in DOMAIN parts[d] :
          b[i] = parts[c][k] /\ b[j] = parts[d][l] /\ (c < d \/ (c = d /\ k < l))
    BY <2>1
  <2>3. c \in DOMAIN order /\ d \in DOMAIN order
    BY <1>1
  <2>4. CASE c < d
    <3>1. PICK p \in Bundled(order[c]) : parts[c][k] = <<order[c], p>>
      BY <1>3, <2>3, Zenon DEF PlacesOf
    <3>2. PICK q \in Bundled(order[d]) : parts[d][l] = <<order[d], q>>
      BY <1>3, <2>3, Zenon DEF PlacesOf
    <3> QED BY <2>2, <2>3, <2>4, <3>1, <3>2, Zenon
  <2>5. CASE c = d /\ k < l
    <3>1. l \in DOMAIN parts[c] /\ PlacesOf(order[c], parts[c])
      BY <1>3, <2>3, <2>5
    <3>2. \E p, q \in Bundled(order[c]) :
            parts[c][k] = <<order[c], p>> /\ parts[c][l] = <<order[c], q>> /\ p < q
      BY <2>5, <3>1, Zenon DEF PlacesOf
    <3> QED BY <2>2, <2>3, <2>5, <3>2, Zenon
  <2> QED BY <2>2, <2>4, <2>5
<1>11. IsSeq(b)
  BY <1>7 DEF LaidOut
<1>12. Bundling(b)
  BY <1>8, <1>9, <1>10, Zenon DEF Bundling
<1> QED BY <1>11, <1>12 DEF b

\* When everything reachable is ordered and no module stands before one it
\* imports, the bundle is right.
LEMMA InvBundles == Inv => BundleCorrect
<1> SUFFICES ASSUME Inv, phase = "bundled" PROVE BundleCorrect
  BY DEF BundleCorrect
<1> DEFINE b == Bundle
<1>1. /\ DOMAIN order \subseteq Int
      /\ \A c, d \in DOMAIN order : order[c] = order[d] => c = d
  BY LenProperties DEF Inv, Typed, OrderInv
<1>2. \A c \in DOMAIN order : \A t \in Targets(order[c]) : Before(order, t, order[c])
  BY DEF Inv, PhaseInv, CleanInv
<1>3. ToSet(order) = Reachable
  <2>1. \A m \in DOMAIN states : \E c \in DOMAIN order : order[c] = m
    BY BundledIsComplete DEF Inv, OrderInv
  <2>2. \A m \in Reachable : \E c \in DOMAIN order : order[c] = m
    BY <2>1, BundledIsComplete
  <2>3. \A c \in DOMAIN order : order[c] \in Reachable
    BY DEF Inv, OrderInv, ReportInv
  <2> QED BY <2>2, <2>3 DEF ToSet
<1>4. IsSeq(b) /\ Bundling(b) /\ DOMAIN b \subseteq Int
  BY BundleLaysOut, SeqFacts
<1>5. b = Bundle
  OBVIOUS
<1> HIDE DEF b
\* Of two places, the later one has the later module or the later statement.
<1>6. ASSUME NEW i \in DOMAIN b, NEW j \in DOMAIN b, i < j
      PROVE  \E c, d \in DOMAIN order :
               /\ b[i][1] = order[c] /\ b[j][1] = order[d]
               /\ c < d \/ (c = d /\ b[i][2] < b[j][2])
               /\ b[i][2] \in Int /\ b[j][2] \in Int
  <2>1. PICK c \in DOMAIN order, d \in DOMAIN order :
          \E p \in Bundled(order[c]), q \in Bundled(order[d]) :
            b[i] = <<order[c], p>> /\ b[j] = <<order[d], q>> /\ (c < d \/ (c = d /\ p < q))
    BY <1>4, <1>6, Zenon DEF Bundling
  <2>2. PICK p \in Bundled(order[c]), q \in Bundled(order[d]) :
          b[i] = <<order[c], p>> /\ b[j] = <<order[d], q>> /\ (c < d \/ (c = d /\ p < q))
    BY <2>1
  <2>3. \A e \in DOMAIN order : Bundled(order[e]) \subseteq Int
    <3> TAKE e \in DOMAIN order
    <3>1. program \in Programs /\ order[e] \in DOMAIN program
      BY DEF Inv, Typed, OrderInv, Provided
    <3>2. IsSeq(program[order[e]].body)
      BY <3>1, ProgramsAssumption DEF IsSeq
    <3> QED BY <3>2, SeqFacts DEF Bundled
  <2> QED BY <2>2, <2>3
<1>7. ToSet(b) = UNION {{m} \X Bundled(m) : m \in Reachable}
  <2>1. \A i \in DOMAIN b : \E c \in DOMAIN order : \E p \in Bundled(order[c]) : b[i] = <<order[c], p>>
    BY <1>4 DEF Bundling
  <2>2. \A c \in DOMAIN order : \A p \in Bundled(order[c]) : \E i \in DOMAIN b : b[i] = <<order[c], p>>
    BY <1>4 DEF Bundling
  <2>3. \A m \in Reachable : \A p \in Bundled(m) : \E i \in DOMAIN b : b[i] = <<m, p>>
    BY <1>3, <2>2 DEF ToSet
  <2>4. \A i \in DOMAIN b : \E m \in Reachable : \E p \in Bundled(m) : b[i] = <<m, p>>
    BY <1>3, <2>1 DEF ToSet
  <2> QED BY <2>3, <2>4 DEF ToSet
<1>8. IsInjective(b)
  <2> SUFFICES ASSUME NEW i \in DOMAIN b, NEW j \in DOMAIN b, i < j PROVE b[i] # b[j]
    BY <1>4 DEF IsInjective
  <2>1. PICK c \in DOMAIN order, d \in DOMAIN order :
          /\ b[i][1] = order[c] /\ b[j][1] = order[d]
          /\ c < d \/ (c = d /\ b[i][2] < b[j][2])
          /\ b[i][2] \in Int /\ b[j][2] \in Int
    BY <1>6
  <2>2. CASE c < d
    BY <1>1, <2>1, <2>2
  <2>3. CASE b[i][2] < b[j][2]
    BY <2>1, <2>3
  <2> QED BY <2>1, <2>2, <2>3
<1>9. ASSUME NEW i \in DOMAIN b, NEW j \in DOMAIN b,
             b[i][1] = b[j][1], b[i][2] < b[j][2]
      PROVE  i < j
  <2>1. CASE i = j
    <3>1. \E c \in DOMAIN order : \E p \in Bundled(order[c]) : b[i] = <<order[c], p>>
      BY <1>4 DEF Bundling
    <3>2. b[i][2] \in Int
      <4>1. PICK c \in DOMAIN order : \E p \in Bundled(order[c]) : b[i] = <<order[c], p>>
        BY <3>1
      <4>2. program \in Programs /\ order[c] \in DOMAIN program
        BY DEF Inv, Typed, OrderInv, Provided
      <4>3. IsSeq(program[order[c]].body)
        BY <4>2, ProgramsAssumption DEF IsSeq
      <4>4. Bundled(order[c]) \subseteq Int
        BY <4>3, SeqFacts DEF Bundled
      <4> QED BY <4>1, <4>4
    <3> QED BY <1>9, <2>1, <3>2
  <2>2. CASE j < i
    <3>1. PICK c \in DOMAIN order, d \in DOMAIN order :
            /\ b[j][1] = order[c] /\ b[i][1] = order[d]
            /\ c < d \/ (c = d /\ b[j][2] < b[i][2])
            /\ b[j][2] \in Int /\ b[i][2] \in Int
      BY <1>6, <2>2
    <3>2. c = d
      BY <1>1, <1>9, <3>1
    <3> QED BY <1>1, <1>9, <3>1, <3>2
  <2> QED BY <1>4, <2>1, <2>2
<1>10. ASSUME NEW i \in DOMAIN b, NEW j \in DOMAIN b, b[i][1] \in Targets(b[j][1])
       PROVE  i < j
  <2>1. \A c, d \in DOMAIN order :
          order[c] \in Targets(order[d]) => c < d
    <3> SUFFICES ASSUME NEW c \in DOMAIN order, NEW d \in DOMAIN order,
                        order[c] \in Targets(order[d])
                 PROVE  c < d
      OBVIOUS
    <3>1. PICK e \in DOMAIN order, f \in DOMAIN order :
            e < f /\ order[e] = order[c] /\ order[f] = order[d]
      BY <1>2 DEF Before
    <3> QED BY <1>1, <3>1
  <2>2. CASE i = j
    <3>1. PICK c \in DOMAIN order : \E p \in Bundled(order[c]) : b[i] = <<order[c], p>>
      BY <1>4 DEF Bundling
    <3>2. b[i][1] = order[c]
      BY <3>1
    <3> QED BY <1>1, <1>10, <2>1, <2>2, <3>2
  <2>3. CASE j < i
    <3>1. PICK c \in DOMAIN order, d \in DOMAIN order :
            /\ b[j][1] = order[c] /\ b[i][1] = order[d]
            /\ c < d \/ (c = d /\ b[j][2] < b[i][2])
      BY <1>6, <2>3
    <3>2. d < c
      BY <1>10, <2>1, <3>1
    <3> QED BY <1>1, <3>1, <3>2
  <2> QED BY <1>4, <2>2, <2>3
<1> QED BY <1>3, <1>5, <1>7, <1>8, <1>9, <1>10, Zenon DEF BundleCorrect
-----------------------------------------------------------------------------
(***************************************************************************)
(* Picking elements from a sequence.                                       *)
(***************************************************************************)

\* What has been picked up to each place.
PicksTo(s, K, m, f) ==
  f = [n \in 0..m |->
         IF n = 0 THEN <<>> ELSE IF n \in K THEN Append(f[n - 1], s[n]) ELSE f[n - 1]]

LEMMA PicksExist ==
  ASSUME NEW s, NEW K
  PROVE  \A m \in Nat : \E f : PicksTo(s, K, m, f)
<1> DEFINE Step(x, n) == IF n \in K THEN Append(x, s[n]) ELSE x
           Bad == {m \in Nat : ~ \E f : f = [n \in 0..m |-> IF n = 0 THEN <<>> ELSE Step(f[n - 1], n)]}
<1>1. \A m \in Nat : \A f : PicksTo(s, K, m, f) <=>
        f = [n \in 0..m |-> IF n = 0 THEN <<>> ELSE Step(f[n - 1], n)]
  BY DEF PicksTo
<1> HIDE DEF Step
<1>2. Bad = {}
  <2> SUFFICES ASSUME Bad # {} PROVE FALSE
    OBVIOUS
  <2>1. Bad \in SUBSET Nat
    OBVIOUS
  <2>2. PICK m \in Bad : \A k \in Bad : ~(k < m)
    BY <2>1, LeastOf
  <2>3. CASE m = 0
    <3> DEFINE f == [n \in 0..0 |-> <<>>]
    <3>1. \A n \in 0..0 : n = 0
      OBVIOUS
    <3>2. f = [n \in 0..0 |-> IF n = 0 THEN <<>> ELSE Step(f[n - 1], n)]
      BY <3>1
    <3> QED BY <2>2, <2>3, <3>2
  <2>4. CASE m # 0
    <3>1. m \in Nat /\ m - 1 \in Nat /\ m - 1 < m
      BY <2>2, <2>4
    <3>2. m - 1 \notin Bad
      BY <2>2, <3>1
    <3>3. PICK g : g = [n \in 0..(m - 1) |-> IF n = 0 THEN <<>> ELSE Step(g[n - 1], n)]
      BY <3>1, <3>2
    <3>4. \A n \in 0..(m - 1) : g[n] = IF n = 0 THEN <<>> ELSE Step(g[n - 1], n)
      BY <3>3
    <3> DEFINE last == Step(g[m - 1], m)
               f == [n \in 0..m |-> IF n < m THEN g[n] ELSE last]
    <3>5. \A n \in 0..(m - 1) : n \in 0..m /\ n < m /\ f[n] = g[n]
      BY <3>1
    <3>6. f[m] = last
      BY <3>1
    <3>7. f = [n \in 0..m |-> f[n]]
      OBVIOUS
    <3> HIDE DEF f
    <3>8. ASSUME NEW n \in 0..m PROVE f[n] = IF n = 0 THEN <<>> ELSE Step(f[n - 1], n)
      <4>1. CASE n < m
        <5>1. n \in 0..(m - 1) /\ (n # 0 => n - 1 \in 0..(m - 1))
          BY <3>1, <4>1
        <5> QED BY <3>4, <3>5, <5>1
      <4>2. CASE ~(n < m)
        <5>1. n = m /\ n # 0 /\ n - 1 \in 0..(m - 1)
          BY <3>1, <4>2, <2>4
        <5> QED BY <3>5, <3>6, <5>1
      <4> QED BY <4>1, <4>2
    <3>9. f = [n \in 0..m |-> IF n = 0 THEN <<>> ELSE Step(f[n - 1], n)]
      BY <3>7, <3>8, Zenon
    <3> QED BY <2>2, <3>9
  <2> QED BY <2>3, <2>4
<1>3. \A m \in Nat : \E f : f = [n \in 0..m |-> IF n = 0 THEN <<>> ELSE Step(f[n - 1], n)]
  BY <1>2
<1> QED BY <1>1, <1>3

UpTo(s, K) == CHOOSE f : PicksTo(s, K, Len(s), f)

\* Picking goes place by place.
LEMMA UpToSteps ==
  ASSUME NEW s, IsSeq(s), NEW K
  PROVE  /\ Picked(s, K) = UpTo(s, K)[Len(s)] /\ UpTo(s, K)[0] = <<>>
         /\ \A n \in 1 .. Len(s) :
              UpTo(s, K)[n] = IF n \in K THEN Append(UpTo(s, K)[n - 1], s[n]) ELSE UpTo(s, K)[n - 1]
<1>1. Len(s) \in Nat
  BY SeqFacts
<1>2. PicksTo(s, K, Len(s), UpTo(s, K))
  BY <1>1, PicksExist DEF UpTo
<1>3. Picked(s, K) = UpTo(s, K)[Len(s)]
  BY DEF Picked, UpTo, PicksTo
<1> DEFINE f == UpTo(s, K)
<1> HIDE DEF f
<1>4. f = [n \in 0 .. Len(s) |->
             IF n = 0 THEN <<>> ELSE IF n \in K THEN Append(f[n - 1], s[n]) ELSE f[n - 1]]
  BY <1>2 DEF PicksTo, f
<1>5. 0 \in 0 .. Len(s) /\ \A n \in 1 .. Len(s) : n \in 0 .. Len(s) /\ n # 0
  BY <1>1
<1>6. f[0] = <<>>
  BY <1>4, <1>5
<1>7. \A n \in 1 .. Len(s) : f[n] = IF n \in K THEN Append(f[n - 1], s[n]) ELSE f[n - 1]
  BY <1>4, <1>5
<1> QED BY <1>3, <1>6, <1>7 DEF f

\* They are sequences of elements at those places.
LEMMA UpToSeq ==
  ASSUME NEW s, IsSeq(s), NEW K
  PROVE  \A n \in 0 .. Len(s) :
           /\ IsSeq(UpTo(s, K)[n])
           /\ \A p \in DOMAIN UpTo(s, K)[n] : \E i \in K : i \in 1..n /\ UpTo(s, K)[n][p] = s[i]
<1> DEFINE f == UpTo(s, K)
           Good(n) == /\ IsSeq(f[n])
                      /\ \A p \in DOMAIN f[n] : \E i \in K : i \in 1..n /\ f[n][p] = s[i]
           Bad == {n \in Nat : n <= Len(s) /\ ~Good(n)}
<1>1. /\ Len(s) \in Nat /\ f[0] = <<>>
      /\ \A n \in 1 .. Len(s) : f[n] = IF n \in K THEN Append(f[n - 1], s[n]) ELSE f[n - 1]
  BY UpToSteps, SeqFacts
<1> HIDE DEF f
<1>2. Bad = {}
  <2> SUFFICES ASSUME Bad # {} PROVE FALSE
    OBVIOUS
  <2>1. Bad \in SUBSET Nat
    OBVIOUS
  <2>2. PICK n \in Bad : \A k \in Bad : ~(k < n)
    BY <2>1, LeastOf
  <2>3. CASE n = 0
    <3>1. <<>> \in Seq({1}) /\ DOMAIN <<>> = {}
      OBVIOUS
    <3>2. IsSeq(f[0]) /\ DOMAIN f[0] = {}
      BY <1>1, <3>1, SeqIsSeq, Zenon
    <3> QED BY <2>2, <2>3, <3>2
  <2>4. CASE n # 0
    <3>1. n \in 1 .. Len(s) /\ n - 1 \in Nat /\ n - 1 <= Len(s) /\ n - 1 < n /\ n \in 1..n
      BY <1>1, <2>2, <2>4
    <3>2. Good(n - 1)
      BY <2>2, <3>1
    <3>3. CASE n \notin K
      <4>1. f[n] = f[n - 1]
        BY <1>1, <3>1, <3>3
      <4>2. \A i : i \in 1..(n - 1) => i \in 1..n
        BY <3>1
      <4>3. Good(n)
        BY <3>2, <4>1, <4>2
      <4> QED BY <2>2, <4>3
    <3>4. CASE n \in K
      <4> DEFINE g == f[n - 1]
                 v == s[n]
      <4>1. f[n] = Append(g, v)
        BY <1>1, <3>1, <3>4
      <4>2. IsSeq(g) /\ \A p \in DOMAIN g : \E i \in K : i \in 1..(n - 1) /\ g[p] = s[i]
        BY <3>2
      <4> HIDE DEF g
      <4>3. /\ IsSeq(Append(g, v)) /\ DOMAIN Append(g, v) = 1..(Len(g) + 1)
            /\ Append(g, v)[Len(g) + 1] = v /\ \A p \in DOMAIN g : Append(g, v)[p] = g[p]
        BY <4>2, AppendFacts
      <4> HIDE DEF v
      <4> DEFINE t == Append(g, v)
      <4>4. \A p \in 1..(Len(g) + 1) : p \in DOMAIN g \/ p = Len(g) + 1
        BY <4>2, SeqFacts
      <4> HIDE DEF t
      <4>5. ASSUME NEW p \in DOMAIN t PROVE \E i \in K : i \in 1..n /\ t[p] = s[i]
        <5>1. CASE p = Len(g) + 1
          BY <3>1, <3>4, <4>3, <5>1 DEF t, v
        <5>2. CASE p \in DOMAIN g
          <6>1. PICK i \in K : i \in 1..(n - 1) /\ g[p] = s[i]
            BY <4>2, <5>2
          <6>2. i \in 1..n
            BY <3>1, <6>1
          <6>3. t[p] = g[p]
            BY <4>3, <5>2 DEF t
          <6> QED BY <6>1, <6>2, <6>3
        <5>3. p \in 1..(Len(g) + 1)
          BY <4>3, <4>5 DEF t
        <5> QED BY <4>4, <5>1, <5>2, <5>3
      <4>6. f[n] = t /\ IsSeq(t)
        BY <4>1, <4>3 DEF t
      <4> QED BY <2>2, <4>5, <4>6
    <3> QED BY <3>3, <3>4
  <2> QED BY <2>3, <2>4
<1>3. \A n \in 0 .. Len(s) : n \in Nat /\ n <= Len(s)
  BY <1>1
<1>4. \A n \in 0 .. Len(s) : Good(n)
  BY <1>2, <1>3
<1> QED BY <1>4 DEF f

\* Only the places so far count.
LEMMA UpToSame ==
  ASSUME NEW s, IsSeq(s), NEW K, NEW J, NEW m \in 0 .. Len(s), \A i \in 1..m : i \in K <=> i \in J
  PROVE  UpTo(s, K)[m] = UpTo(s, J)[m]
<1> DEFINE f == UpTo(s, K)
           g == UpTo(s, J)
           Bad == {n \in Nat : n <= m /\ f[n] # g[n]}
<1>1. /\ Len(s) \in Nat /\ f[0] = <<>> /\ g[0] = <<>>
      /\ \A n \in 1 .. Len(s) : f[n] = IF n \in K THEN Append(f[n - 1], s[n]) ELSE f[n - 1]
      /\ \A n \in 1 .. Len(s) : g[n] = IF n \in J THEN Append(g[n - 1], s[n]) ELSE g[n - 1]
  BY UpToSteps, SeqFacts
<1> HIDE DEF f, g
<1>2. Bad = {}
  <2> SUFFICES ASSUME Bad # {} PROVE FALSE
    OBVIOUS
  <2>1. Bad \in SUBSET Nat
    OBVIOUS
  <2>2. PICK n \in Bad : \A k \in Bad : ~(k < n)
    BY <2>1, LeastOf
  <2>3. n # 0
    BY <1>1, <2>2
  <2>4. n \in 1 .. Len(s) /\ n \in 1..m /\ n - 1 \in Nat /\ n - 1 <= m /\ n - 1 < n
    BY <1>1, <2>2, <2>3
  <2>5. f[n - 1] = g[n - 1]
    BY <2>2, <2>4
  <2>6. f[n] = g[n]
    BY <1>1, <2>4, <2>5
  <2> QED BY <2>2, <2>6
<1>3. m \in Nat /\ m <= m
  BY <1>1
<1> QED BY <1>2, <1>3 DEF f, g

\* Where nothing is picked nothing changes.
LEMMA UpToRests ==
  ASSUME NEW s, IsSeq(s), NEW K, NEW a \in 0 .. Len(s), NEW m \in a .. Len(s),
         \A i \in a + 1 .. m : i \notin K
  PROVE  UpTo(s, K)[m] = UpTo(s, K)[a]
<1> DEFINE f == UpTo(s, K)
           Bad == {n \in Nat : a <= n /\ n <= m /\ f[n] # f[a]}
<1>1. /\ Len(s) \in Nat
      /\ \A n \in 1 .. Len(s) : f[n] = IF n \in K THEN Append(f[n - 1], s[n]) ELSE f[n - 1]
  BY UpToSteps, SeqFacts
<1> HIDE DEF f
<1>2. Bad = {}
  <2> SUFFICES ASSUME Bad # {} PROVE FALSE
    OBVIOUS
  <2>1. Bad \in SUBSET Nat
    OBVIOUS
  <2>2. PICK n \in Bad : \A k \in Bad : ~(k < n)
    BY <2>1, LeastOf
  <2>3. n # a
    BY <2>2
  <2>4. n \in 1 .. Len(s) /\ n \in a + 1 .. m /\ n - 1 \in Nat /\ a <= n - 1 /\ n - 1 <= m /\ n - 1 < n
    BY <1>1, <2>2, <2>3
  <2>5. f[n - 1] = f[a]
    BY <2>2, <2>4
  <2>6. f[n] = f[n - 1]
    BY <1>1, <2>4
  <2> QED BY <2>2, <2>5, <2>6
<1>3. m \in Nat /\ a <= m /\ m <= m
  BY <1>1
<1> QED BY <1>2, <1>3 DEF f

\* Where everything is picked it is the beginning of the sequence.
LEMMA UpToWhole ==
  ASSUME NEW s, IsSeq(s), NEW K, NEW m \in 0 .. Len(s), \A i \in 1..m : i \in K
  PROVE  UpTo(s, K)[m] = SubSeq(s, 1, m)
<1> DEFINE f == UpTo(s, K)
           b(n) == SubSeq(s, 1, n)
           Bad == {n \in Nat : n <= m /\ f[n] # b(n)}
<1>1. /\ Len(s) \in Nat /\ f[0] = <<>>
      /\ \A n \in 1 .. Len(s) : f[n] = IF n \in K THEN Append(f[n - 1], s[n]) ELSE f[n - 1]
  BY UpToSteps, SeqFacts
<1>2. b(0) = <<>> /\ \A n \in 1 .. Len(s) : b(n) = Append(b(n - 1), s[n])
  BY PrefixGrows
<1> HIDE DEF f, b
<1>3. Bad = {}
  <2> SUFFICES ASSUME Bad # {} PROVE FALSE
    OBVIOUS
  <2>1. Bad \in SUBSET Nat
    OBVIOUS
  <2>2. PICK n \in Bad : \A k \in Bad : ~(k < n)
    BY <2>1, LeastOf
  <2>3. n # 0
    BY <1>1, <1>2, <2>2
  <2>4. n \in 1 .. Len(s) /\ n \in 1..m /\ n - 1 \in Nat /\ n - 1 <= m /\ n - 1 < n
    BY <1>1, <2>2, <2>3
  <2>5. f[n - 1] = b(n - 1)
    BY <2>2, <2>4
  <2>6. f[n] = Append(f[n - 1], s[n]) /\ b(n) = Append(b(n - 1), s[n])
    BY <1>1, <1>2, <2>4
  <2> QED BY <2>2, <2>5, <2>6
<1>4. m \in Nat /\ m <= m
  BY <1>1
<1> QED BY <1>3, <1>4 DEF f, b

\* Without its last element what has been picked is what comes before it.
LEMMA FrontOfAppend ==
  ASSUME NEW s, IsSeq(s), NEW v
  PROVE  Front(Append(s, v)) = s /\ Append(s, v) # <<>>
<1> DEFINE t == Append(s, v)
<1>1. Len(s) \in Nat /\ DOMAIN s = 1..Len(s)
  BY SeqFacts
<1>2. IsSeq(t) /\ Len(t) = Len(s) + 1 /\ \A k \in DOMAIN s : t[k] = s[k]
  BY AppendFacts
<1> HIDE DEF t
<1>3. Len(t) - 1 = Len(s) /\ Len(t) # 0 /\ Len(s) <= Len(t)
  BY <1>1, <1>2
<1> DEFINE u == SubSeq(t, 1, Len(s))
<1>4. IsSeq(u) /\ Len(u) = Len(s) /\ \A k \in 1..Len(s) : u[k] = t[k]
  BY <1>1, <1>2, <1>3, PrefixFacts
<1>5. Front(t) = u
  BY <1>3 DEF Front
<1> HIDE DEF u
<1>6. u = s
  BY <1>1, <1>2, <1>4, SameSeq
<1>7. t # <<>>
  BY <1>2, <1>3, SeqFacts
<1> QED BY <1>5, <1>6, <1>7 DEF t

LEMMA UpToFront ==
  ASSUME NEW s, IsSeq(s), NEW K, NEW m \in 0 .. Len(s), NEW x \in K, x \in 1..m,
         \A i \in K : i \in 1..m => i <= x
  PROVE  /\ UpTo(s, K)[m] # <<>>
         /\ UpTo(s, K \ {x})[m] = Front(UpTo(s, K)[m])
<1> DEFINE f == UpTo(s, K)
           g == UpTo(s, K \ {x})
           v == s[x]
<1>1. Len(s) \in Nat /\ x \in 1 .. Len(s) /\ x \in 0 .. Len(s) /\ m \in x .. Len(s)
      /\ x - 1 \in 0 .. Len(s)
  <2>1. Len(s) \in Nat
    BY SeqFacts
  <2> QED BY <2>1
<1>2. f[x] = Append(f[x - 1], v)
  BY <1>1, UpToSteps
<1>3. g[x] = g[x - 1]
  BY <1>1, UpToSteps
<1>4. g[x - 1] = f[x - 1]
  <2> DEFINE J == K \ {x}
             w == x - 1
  <2>1. \A i \in 1..w : i \in J <=> i \in K
    BY <1>1
  <2>2. w \in 0 .. Len(s)
    BY <1>1
  <2> HIDE DEF J, w
  <2>3. UpTo(s, J)[w] = UpTo(s, K)[w]
    BY <2>1, <2>2, UpToSame
  <2> QED BY <2>3 DEF J, w
<1>5. \A i \in x + 1 .. m : i \notin K /\ i \notin K \ {x}
  BY <1>1
<1>6. f[m] = f[x]
  BY <1>1, <1>5, UpToRests
<1>7. g[m] = g[x]
  BY <1>1, <1>5, UpToRests
<1>8. IsSeq(f[x - 1])
  BY <1>1, UpToSeq
<1> HIDE DEF f, g, v
<1>9. Front(f[m]) = f[x - 1] /\ f[m] # <<>>
  BY <1>2, <1>6, <1>8, FrontOfAppend
<1> QED BY <1>3, <1>4, <1>7, <1>9 DEF f, g
-----------------------------------------------------------------------------
(***************************************************************************)
(* Counting names and ".."s.                                               *)
(***************************************************************************)
CountIn(K, i, j) == Cardinality(K \intersect i..j)

\* Counting, from an empty interval on, one place further, of another set.
LEMMA CountType ==
  ASSUME NEW K, NEW i \in Nat, NEW j \in Nat
  PROVE  /\ IsFiniteSet(K \intersect i..j) /\ CountIn(K, i, j) \in Nat
         /\ CountIn(K, i, j) = 0 <=> \A k \in i..j : k \notin K
<1> DEFINE S == i..j
           T == K \intersect S
<1>1. IsFiniteSet(S)
  BY FS_Interval
<1>2. T \in SUBSET S
  OBVIOUS
<1> HIDE DEF S
<1>3. IsFiniteSet(T)
  BY <1>1, <1>2, FS_Subset
<1> HIDE DEF T
<1>4. Cardinality(T) \in Nat
  BY <1>3, FS_CardinalityType
<1>5. Cardinality(T) = 0 <=> T = {}
  BY <1>3, FS_EmptySet
<1> QED BY <1>3, <1>4, <1>5 DEF S, T, CountIn

LEMMA CountNext ==
  ASSUME NEW K, NEW i \in Nat, NEW j \in Nat, i <= j + 1
  PROVE  CountIn(K, i, j + 1) = IF j + 1 \in K THEN CountIn(K, i, j) + 1 ELSE CountIn(K, i, j)
<1> DEFINE S == K \intersect i..j
           T == K \intersect i..(j + 1)
<1>1. IsFiniteSet(S)
  BY CountType
<1>2. j + 1 \notin S
  OBVIOUS
<1>3. T = IF j + 1 \in K THEN S \union {j + 1} ELSE S
  OBVIOUS
<1> HIDE DEF S, T
<1>4. Cardinality(S \union {j + 1}) = Cardinality(S) + 1
  BY <1>1, <1>2, FS_AddElement
<1> QED BY <1>3, <1>4 DEF CountIn, S, T

LEMMA CountSame ==
  ASSUME NEW K, NEW J, NEW i \in Nat, NEW j \in Nat, \A k \in i..j : k \in K <=> k \in J
  PROVE  CountIn(K, i, j) = CountIn(J, i, j)
<1>1. K \intersect i..j = J \intersect i..j
  OBVIOUS
<1> QED BY <1>1 DEF CountIn

LEMMA CountWithout ==
  ASSUME NEW K, NEW i \in Nat, NEW j \in Nat, NEW x \in K, x \in i..j
  PROVE  CountIn(K \ {x}, i, j) = CountIn(K, i, j) - 1
<1> DEFINE S == K \intersect i..j
           T == (K \ {x}) \intersect i..j
<1>1. IsFiniteSet(S)
  BY CountType
<1>2. x \in S /\ T = S \ {x}
  OBVIOUS
<1> HIDE DEF S, T
<1>3. Cardinality(S \ {x}) = Cardinality(S) - 1
  BY <1>1, <1>2, FS_RemoveElement
<1> QED BY <1>2, <1>3 DEF CountIn, S, T
-----------------------------------------------------------------------------
(***************************************************************************)
(* The names among the first n places that no ".." takes back.             *)
(***************************************************************************)
Stay(N, U, n) ==
  {i \in N : i <= n /\ \A j \in i + 1 .. n : CountIn(U, i + 1, j) <= CountIn(N, i + 1, j)}

\* Behind one that stays, the names that stay and the ".."s are the names.
Balanced(N, U, n) ==
  \A i \in Stay(N, U, n) :
    CountIn(Stay(N, U, n), i + 1, n) + CountIn(U, i + 1, n) = CountIn(N, i + 1, n)

\* One that stays is a name, and the ".."s behind it do not outnumber the names.
LEMMA StayFacts ==
  ASSUME NEW N \in SUBSET Nat, NEW U \in SUBSET Nat, NEW n \in Nat
  PROVE  \A i \in Stay(N, U, n) :
           /\ i \in N /\ i \in Nat /\ i <= n
           /\ CountIn(U, i + 1, n) <= CountIn(N, i + 1, n)
<1> SUFFICES ASSUME NEW i \in Stay(N, U, n)
             PROVE  i \in N /\ i \in Nat /\ i <= n /\ CountIn(U, i + 1, n) <= CountIn(N, i + 1, n)
  OBVIOUS
<1>1. /\ i \in N /\ i \in Nat /\ i <= n
      /\ \A j \in i + 1 .. n : CountIn(U, i + 1, j) <= CountIn(N, i + 1, j)
  BY DEF Stay
<1>2. CASE i = n
  <2>1. i + 1 \in Nat /\ \A k \in i + 1 .. n : FALSE
    BY <1>1, <1>2
  <2>2. CountIn(U, i + 1, n) = 0 /\ CountIn(N, i + 1, n) = 0
    BY <2>1, CountType
  <2> QED BY <1>1, <2>2
<1>3. CASE i # n
  <2>1. n \in i + 1 .. n
    BY <1>1, <1>3
  <2> QED BY <1>1, <2>1
<1> QED BY <1>2, <1>3

\* Which of those so far stay one place further.
LEMMA StayNext ==
  ASSUME NEW N \in SUBSET Nat, NEW U \in SUBSET Nat, NEW n \in Nat, NEW i, i <= n
  PROVE  i \in Stay(N, U, n + 1) <=>
           i \in Stay(N, U, n) /\ CountIn(U, i + 1, n + 1) <= CountIn(N, i + 1, n + 1)
<1> DEFINE Fine(j) == CountIn(U, i + 1, j) <= CountIn(N, i + 1, j)
<1>1. i \in Stay(N, U, n + 1) <=> i \in N /\ i <= n + 1 /\ \A j \in i + 1 .. n + 1 : Fine(j)
  BY DEF Stay
<1>2. i \in Stay(N, U, n) <=> i \in N /\ i <= n /\ \A j \in i + 1 .. n : Fine(j)
  BY DEF Stay
<1> HIDE DEF Fine
<1>3. CASE i \in N
  <2>1. i \in Nat /\ i <= n + 1 /\ n + 1 \in i + 1 .. n + 1
    BY <1>3
  <2>2. \A j \in i + 1 .. n + 1 : j \in i + 1 .. n \/ j = n + 1
    BY <2>1
  <2>3. \A j \in i + 1 .. n : j \in i + 1 .. n + 1
    BY <2>1
  <2>4. i \in Stay(N, U, n + 1) <=> i \in Stay(N, U, n) /\ Fine(n + 1)
    BY <1>1, <1>2, <2>1, <2>2, <2>3
  <2> QED BY <2>4 DEF Fine
<1>4. CASE i \notin N
  BY <1>1, <1>2, <1>4
<1> QED BY <1>3, <1>4

\* The last place stays if it is a name.
LEMMA StayLast ==
  ASSUME NEW N \in SUBSET Nat, NEW U \in SUBSET Nat, NEW n \in Nat
  PROVE  n \in Stay(N, U, n) <=> n \in N
<1>1. \A j \in n + 1 .. n : FALSE
  OBVIOUS
<1> QED BY <1>1 DEF Stay

\* A segment that is neither.
LEMMA StayQuiet ==
  ASSUME NEW N \in SUBSET Nat, NEW U \in SUBSET Nat, NEW n \in Nat, Balanced(N, U, n),
         n + 1 \notin N, n + 1 \notin U
  PROVE  Stay(N, U, n + 1) = Stay(N, U, n) /\ Balanced(N, U, n + 1)
<1> DEFINE S == Stay(N, U, n)
           T == Stay(N, U, n + 1)
<1>1. \A i \in S : /\ i \in N /\ i \in Nat /\ i <= n
                   /\ CountIn(U, i + 1, n) <= CountIn(N, i + 1, n)
                   /\ CountIn(S, i + 1, n) + CountIn(U, i + 1, n) = CountIn(N, i + 1, n)
  BY StayFacts DEF Balanced
<1>2. \A i \in T : i \in N /\ i \in Nat /\ i <= n + 1
  BY StayFacts
<1>3. \A i : i <= n => (i \in T <=> i \in S /\ CountIn(U, i + 1, n + 1) <= CountIn(N, i + 1, n + 1))
  BY StayNext
<1> HIDE DEF S, T
<1>4. ASSUME NEW i \in S
      PROVE  /\ CountIn(U, i + 1, n + 1) = CountIn(U, i + 1, n)
             /\ CountIn(N, i + 1, n + 1) = CountIn(N, i + 1, n)
             /\ CountIn(S, i + 1, n + 1) = CountIn(S, i + 1, n)
  <2>1. i + 1 \in Nat /\ i + 1 <= n + 1 /\ n + 1 \notin S
    BY <1>1
  <2> QED BY <2>1, CountNext
<1>5. T = S
  <2>1. ASSUME NEW i \in T PROVE i \in S
    <3>1. i <= n
      BY <1>2, <2>1
    <3> QED BY <1>3, <2>1, <3>1
  <2>2. ASSUME NEW i \in S PROVE i \in T
    BY <1>1, <1>3, <1>4
  <2> QED BY <2>1, <2>2
<1>6. \A i \in T : CountIn(T, i + 1, n + 1) + CountIn(U, i + 1, n + 1) = CountIn(N, i + 1, n + 1)
  BY <1>1, <1>4, <1>5
<1> QED BY <1>5, <1>6 DEF Balanced, S, T

\* A name.
LEMMA StayName ==
  ASSUME NEW N \in SUBSET Nat, NEW U \in SUBSET Nat, NEW n \in Nat, Balanced(N, U, n),
         n + 1 \in N, n + 1 \notin U
  PROVE  Stay(N, U, n + 1) = Stay(N, U, n) \union {n + 1} /\ Balanced(N, U, n + 1)
<1> DEFINE S == Stay(N, U, n)
           T == Stay(N, U, n + 1)
<1>1. \A i \in S : /\ i \in N /\ i \in Nat /\ i <= n
                   /\ CountIn(U, i + 1, n) <= CountIn(N, i + 1, n)
                   /\ CountIn(S, i + 1, n) + CountIn(U, i + 1, n) = CountIn(N, i + 1, n)
  BY StayFacts DEF Balanced
<1>2. \A i \in T : i \in N /\ i \in Nat /\ i <= n + 1
  BY StayFacts
<1>3. \A i : i <= n => (i \in T <=> i \in S /\ CountIn(U, i + 1, n + 1) <= CountIn(N, i + 1, n + 1))
  BY StayNext
<1>4. n + 1 \in T
  BY StayLast
<1> HIDE DEF S, T
<1>5. ASSUME NEW i \in S
      PROVE  /\ CountIn(U, i + 1, n + 1) = CountIn(U, i + 1, n)
             /\ CountIn(N, i + 1, n + 1) = CountIn(N, i + 1, n) + 1
             /\ CountIn(U, i + 1, n) \in Nat /\ CountIn(N, i + 1, n) \in Nat
  <2>1. i + 1 \in Nat /\ i + 1 <= n + 1
    BY <1>1
  <2>2. /\ CountIn(U, i + 1, n + 1) = CountIn(U, i + 1, n)
        /\ CountIn(N, i + 1, n + 1) = CountIn(N, i + 1, n) + 1
    BY <2>1, CountNext
  <2>3. CountIn(U, i + 1, n) \in Nat /\ CountIn(N, i + 1, n) \in Nat
    BY <2>1, CountType
  <2> QED BY <2>2, <2>3
<1>6. T = S \union {n + 1}
  <2>1. ASSUME NEW i \in T, i # n + 1 PROVE i \in S
    <3>1. i <= n
      BY <1>2, <2>1
    <3> QED BY <1>3, <2>1, <3>1
  <2>2. ASSUME NEW i \in S PROVE i \in T
    <3>1. CountIn(U, i + 1, n + 1) <= CountIn(N, i + 1, n + 1)
      BY <1>1, <1>5
    <3> QED BY <1>1, <1>3, <3>1
  <2> QED BY <1>4, <2>1, <2>2
<1>7. ASSUME NEW i \in T
      PROVE  CountIn(T, i + 1, n + 1) + CountIn(U, i + 1, n + 1) = CountIn(N, i + 1, n + 1)
  <2>1. CASE i = n + 1
    <3>1. i + 1 \in Nat /\ \A k \in i + 1 .. n + 1 : FALSE
      BY <2>1
    <3>2. CountIn(T, i + 1, n + 1) = 0 /\ CountIn(U, i + 1, n + 1) = 0 /\ CountIn(N, i + 1, n + 1) = 0
      BY <3>1, CountType
    <3> QED BY <3>2
  <2>2. CASE i # n + 1
    <3>1. i \in S
      BY <1>6, <1>7, <2>2
    <3>2. i + 1 \in Nat /\ i + 1 <= n + 1
      BY <1>1, <3>1
    <3>3. CountIn(T, i + 1, n + 1) = CountIn(T, i + 1, n) + 1
      BY <1>4, <3>2, CountNext
    <3>4. \A k \in i + 1 .. n : k \in T <=> k \in S
      BY <1>6
    <3>5. CountIn(T, i + 1, n) = CountIn(S, i + 1, n)
      BY <3>2, <3>4, CountSame
    <3>6. CountIn(S, i + 1, n) \in Nat
      BY <3>2, CountType
    <3> QED BY <1>1, <1>5, <3>1, <3>3, <3>5, <3>6
  <2> QED BY <2>1, <2>2
<1> QED BY <1>6, <1>7 DEF Balanced, S, T

\* A "..": it takes back the last one that stays, if any.
LEMMA StayUp ==
  ASSUME NEW N \in SUBSET Nat, NEW U \in SUBSET Nat, NEW n \in Nat, Balanced(N, U, n),
         n + 1 \notin N, n + 1 \in U
  PROVE  /\ Balanced(N, U, n + 1)
         /\ Stay(N, U, n) = {} => Stay(N, U, n + 1) = {}
         /\ \A x \in Stay(N, U, n) : (\A i \in Stay(N, U, n) : i <= x) =>
              Stay(N, U, n + 1) = Stay(N, U, n) \ {x}
<1> DEFINE S == Stay(N, U, n)
           T == Stay(N, U, n + 1)
<1>1. \A i \in S : /\ i \in N /\ i \in Nat /\ i <= n
                   /\ CountIn(S, i + 1, n) + CountIn(U, i + 1, n) = CountIn(N, i + 1, n)
  BY StayFacts DEF Balanced
<1>2. \A i \in T : i \in N /\ i \in Nat /\ i <= n + 1
  BY StayFacts
<1>3. \A i : i <= n => (i \in T <=> i \in S /\ CountIn(U, i + 1, n + 1) <= CountIn(N, i + 1, n + 1))
  BY StayNext
<1> HIDE DEF S, T
<1>4. ASSUME NEW i \in S
      PROVE  /\ CountIn(U, i + 1, n + 1) = CountIn(U, i + 1, n) + 1
             /\ CountIn(N, i + 1, n + 1) = CountIn(N, i + 1, n)
             /\ CountIn(U, i + 1, n) \in Nat /\ CountIn(N, i + 1, n) \in Nat
             /\ CountIn(S, i + 1, n) \in Nat
             /\ CountIn(S, i + 1, n) = 0 <=> \A k \in i + 1 .. n : k \notin S
  <2>1. i + 1 \in Nat /\ i + 1 <= n + 1
    BY <1>1
  <2>2. /\ CountIn(U, i + 1, n + 1) = CountIn(U, i + 1, n) + 1
        /\ CountIn(N, i + 1, n + 1) = CountIn(N, i + 1, n)
    BY <2>1, CountNext
  <2>3. CountIn(U, i + 1, n) \in Nat /\ CountIn(N, i + 1, n) \in Nat
    BY <2>1, CountType
  <2>4. /\ CountIn(S, i + 1, n) \in Nat
        /\ CountIn(S, i + 1, n) = 0 <=> \A k \in i + 1 .. n : k \notin S
    BY <2>1, CountType
  <2> QED BY <2>2, <2>3, <2>4
<1>5. T \subseteq S
  <2> SUFFICES ASSUME NEW i \in T PROVE i \in S
    OBVIOUS
  <2>1. i <= n
    BY <1>2
  <2> QED BY <1>3, <2>1
<1>6. \A i \in S : i \in T <=> CountIn(S, i + 1, n) # 0
  <2> SUFFICES ASSUME NEW i \in S PROVE i \in T <=> CountIn(S, i + 1, n) # 0
    OBVIOUS
  <2>1. CountIn(U, i + 1, n + 1) <= CountIn(N, i + 1, n + 1) <=> CountIn(S, i + 1, n) # 0
    BY <1>1, <1>4
  <2> QED BY <1>1, <1>3, <2>1
<1>7. S = {} => T = {}
  BY <1>5
<1>8. ASSUME NEW x \in S, \A i \in S : i <= x PROVE T = S \ {x}
  <2>1. x \notin T
    <3>1. x \in Nat /\ \A k \in x + 1 .. n : k \notin S
      BY <1>1, <1>8
    <3> QED BY <1>4, <1>6, <3>1
  <2>2. ASSUME NEW i \in S, i # x PROVE i \in T
    <3>1. x \in i + 1 .. n
      BY <1>1, <1>8, <2>2
    <3> QED BY <1>4, <1>6, <3>1
  <2> QED BY <1>5, <2>1, <2>2
<1>9. ASSUME NEW i \in T
      PROVE  CountIn(T, i + 1, n + 1) + CountIn(U, i + 1, n + 1) = CountIn(N, i + 1, n + 1)
  <2>1. i \in S /\ i \in Nat
    BY <1>2, <1>5, <1>9
  <2>2. S \in SUBSET (1..n) \/ 0 \in S
    BY <1>1
  <2>3. PICK x \in S : \A k \in S : k <= x
    <3>1. CASE S \in SUBSET (1..n)
      BY <2>1, <3>1, GreatestOf
    <3>2. CASE 0 \in S
      <4> DEFINE P == S \ {0}
      <4>1. CASE P = {}
        <5>1. \A k \in S : k <= 0
          BY <4>1
        <5> QED BY <3>2, <5>1
      <4>2. CASE P # {}
        <5>1. P \in SUBSET (1..n)
          BY <1>1
        <5> HIDE DEF P
        <5>2. PICK x \in P : \A k \in P : k <= x
          BY <4>2, <5>1, GreatestOf
        <5>3. x \in S /\ x \in 1..n
          BY <5>1, <5>2 DEF P
        <5>4. \A k \in S : k <= x
          <6> SUFFICES ASSUME NEW k \in S PROVE k <= x
            OBVIOUS
          <6>1. k = 0 \/ k \in P
            BY DEF P
          <6> QED BY <5>2, <5>3, <6>1
        <5> QED BY <5>3, <5>4
      <4> QED BY <4>1, <4>2
    <3> QED BY <2>2, <3>1, <3>2
  <2>4. T = S \ {x}
    BY <1>8, <2>3
  <2>5. i # x /\ x \in i + 1 .. n
    BY <1>1, <1>9, <2>1, <2>3, <2>4
  <2>6. i + 1 \in Nat /\ i + 1 <= n + 1
    BY <1>1, <2>1
  <2>7. CountIn(T, i + 1, n) = CountIn(S, i + 1, n) - 1
    BY <2>3, <2>4, <2>5, <2>6, CountWithout
  <2>8. n + 1 \notin T
    BY <1>1, <1>5
  <2>9. CountIn(T, i + 1, n + 1) = CountIn(T, i + 1, n)
    BY <2>6, <2>8, CountNext
  <2>10. CountIn(T, i + 1, n + 1) = CountIn(S, i + 1, n) - 1
    BY <2>7, <2>9
  <2> QED BY <1>1, <1>4, <2>1, <2>10
<1> QED BY <1>7, <1>8, <1>9 DEF Balanced, S, T
-----------------------------------------------------------------------------
(***************************************************************************)
(* Walking.                                                                *)
(***************************************************************************)

\* Where the walk has come to after each segment.
WalkTo(d, s, m, f) ==
  f = [n \in 0..m |-> IF n = 0 THEN d ELSE StepSegment(f[n - 1], s[n])]

LEMMA WalksExist ==
  ASSUME NEW d, NEW s
  PROVE  \A m \in Nat : \E f : WalkTo(d, s, m, f)
<1> DEFINE Step(x, n) == StepSegment(x, s[n])
           Bad == {m \in Nat : ~ \E f : f = [n \in 0..m |-> IF n = 0 THEN d ELSE Step(f[n - 1], n)]}
<1>1. \A m \in Nat : \A f : WalkTo(d, s, m, f) <=>
        f = [n \in 0..m |-> IF n = 0 THEN d ELSE Step(f[n - 1], n)]
  BY DEF WalkTo
<1> HIDE DEF Step
<1>2. Bad = {}
  <2> SUFFICES ASSUME Bad # {} PROVE FALSE
    OBVIOUS
  <2>1. Bad \in SUBSET Nat
    OBVIOUS
  <2>2. PICK m \in Bad : \A k \in Bad : ~(k < m)
    BY <2>1, LeastOf
  <2>3. CASE m = 0
    <3> DEFINE f == [n \in 0..0 |-> d]
    <3>1. \A n \in 0..0 : n = 0
      OBVIOUS
    <3>2. f = [n \in 0..0 |-> IF n = 0 THEN d ELSE Step(f[n - 1], n)]
      BY <3>1
    <3> QED BY <2>2, <2>3, <3>2
  <2>4. CASE m # 0
    <3>1. m \in Nat /\ m - 1 \in Nat /\ m - 1 < m
      BY <2>2, <2>4
    <3>2. m - 1 \notin Bad
      BY <2>2, <3>1
    <3>3. PICK g : g = [n \in 0..(m - 1) |-> IF n = 0 THEN d ELSE Step(g[n - 1], n)]
      BY <3>1, <3>2
    <3>4. \A n \in 0..(m - 1) : g[n] = IF n = 0 THEN d ELSE Step(g[n - 1], n)
      BY <3>3
    <3> DEFINE last == Step(g[m - 1], m)
               f == [n \in 0..m |-> IF n < m THEN g[n] ELSE last]
    <3>5. \A n \in 0..(m - 1) : n \in 0..m /\ n < m /\ f[n] = g[n]
      BY <3>1
    <3>6. f[m] = last
      BY <3>1
    <3>7. f = [n \in 0..m |-> f[n]]
      OBVIOUS
    <3> HIDE DEF f
    <3>8. ASSUME NEW n \in 0..m PROVE f[n] = IF n = 0 THEN d ELSE Step(f[n - 1], n)
      <4>1. CASE n < m
        <5>1. n \in 0..(m - 1) /\ (n # 0 => n - 1 \in 0..(m - 1))
          BY <3>1, <4>1
        <5> QED BY <3>4, <3>5, <5>1
      <4>2. CASE ~(n < m)
        <5>1. n = m /\ n # 0 /\ n - 1 \in 0..(m - 1)
          BY <3>1, <4>2, <2>4
        <5> QED BY <3>5, <3>6, <5>1
      <4> QED BY <4>1, <4>2
    <3>9. f = [n \in 0..m |-> IF n = 0 THEN d ELSE Step(f[n - 1], n)]
      BY <3>7, <3>8, Zenon
    <3> QED BY <2>2, <3>9
  <2> QED BY <2>3, <2>4
<1>3. \A m \in Nat : \E f : f = [n \in 0..m |-> IF n = 0 THEN d ELSE Step(f[n - 1], n)]
  BY <1>2
<1> QED BY <1>1, <1>3

After(d, s) == CHOOSE f : WalkTo(d, s, Len(s), f)

\* Walking goes segment by segment.
LEMMA WalkSteps ==
  ASSUME NEW d, NEW s, IsSeq(s)
  PROVE  /\ Walk(d, s) = After(d, s)[Len(s)] /\ After(d, s)[0] = d
         /\ \A n \in 1 .. Len(s) : After(d, s)[n] = StepSegment(After(d, s)[n - 1], s[n])
<1>1. Len(s) \in Nat
  BY SeqFacts
<1>2. WalkTo(d, s, Len(s), After(d, s))
  BY <1>1, WalksExist DEF After
<1>3. Walk(d, s) = After(d, s)[Len(s)]
  BY DEF Walk, After, WalkTo
<1> DEFINE f == After(d, s)
<1> HIDE DEF f
<1>4. f = [n \in 0 .. Len(s) |-> IF n = 0 THEN d ELSE StepSegment(f[n - 1], s[n])]
  BY <1>2 DEF WalkTo, f
<1>5. 0 \in 0 .. Len(s) /\ \A n \in 1 .. Len(s) : n \in 0 .. Len(s) /\ n # 0
  BY <1>1
<1>6. f[0] = d
  BY <1>4, <1>5
<1>7. \A n \in 1 .. Len(s) : f[n] = StepSegment(f[n - 1], s[n])
  BY <1>4, <1>5
<1> QED BY <1>3, <1>6, <1>7 DEF f

\* The names and the ".."s of a sequence of segments.
NamesOf(w) == {k \in DOMAIN w : w[k] \notin Dots}
UpsOf(w) == {k \in DOMAIN w : w[k] = ".."}

\* The segments that remain are those at the places that stay.
LEMMA RemainingStays ==
  ASSUME NEW w, IsSeq(w)
  PROVE  Remaining(w) = Picked(w, Stay(NamesOf(w), UpsOf(w), Len(w)))
<1> DEFINE N == NamesOf(w)
           U == UpsOf(w)
           K == {i \in N : \A j \in i + 1 .. Len(w) :
                   Cardinality(U \intersect i + 1 .. j) <= Cardinality(N \intersect i + 1 .. j)}
<1>1. Remaining(w) = Picked(w, K)
  BY DEF Remaining, NamesOf, UpsOf
<1>2. \A i \in N : i <= Len(w)
  BY SeqFacts DEF NamesOf
<1>3. Stay(N, U, Len(w)) = {i \in N : i <= Len(w) /\ \A j \in i + 1 .. Len(w) :
                   Cardinality(U \intersect i + 1 .. j) <= Cardinality(N \intersect i + 1 .. j)}
  BY DEF Stay, CountIn
<1>4. K = Stay(N, U, Len(w))
  <2> HIDE DEF N, U
  <2> QED BY <1>2, <1>3
<1> HIDE DEF K
<1> QED BY <1>1, <1>4

\* A step by its cases.
LEMMA StepCases ==
  ASSUME NEW a, NEW v
  PROVE  /\ v \in {".", ""} => StepSegment(a, v) = a
         /\ v = ".." => StepSegment(a, v) = IF a = <<>> THEN <<>> ELSE Front(a)
         /\ v \notin Dots => StepSegment(a, v) = Append(a, v)
<1> DEFINE f == Front(a)
           e == Append(a, v)
<1>1. StepSegment(a, v) = CASE v \in {".", ""} -> a
                            [] v = ".."        -> IF a = <<>> THEN <<>> ELSE f
                            [] v \notin Dots   -> e
  BY DEF StepSegment
<1> HIDE DEF f, e
<1>2. CASE v \in {".", ""}
  BY <1>1, <1>2 DEF Dots
<1>3. CASE v = ".."
  BY <1>1, <1>3 DEF Dots, f
<1>4. CASE v \notin Dots
  BY <1>1, <1>4 DEF Dots, e
<1> QED BY <1>2, <1>3, <1>4 DEF Dots

\* The segments of a directory all stay.
LEMMA DirectoryStays ==
  ASSUME NEW w, IsSeq(w), NEW L \in 0 .. Len(w), \A i \in 1..L : w[i] \notin Dots
  PROVE  /\ Balanced(NamesOf(w), UpsOf(w), L)
         /\ UpTo(w, Stay(NamesOf(w), UpsOf(w), L))[L] = SubSeq(w, 1, L)
<1> DEFINE N == NamesOf(w)
           U == UpsOf(w)
           S == Stay(N, U, L)
<1>1. Len(w) \in Nat /\ DOMAIN w = 1 .. Len(w) /\ L \in Nat
  <2>1. Len(w) \in Nat /\ DOMAIN w = 1 .. Len(w)
    BY SeqFacts
  <2> QED BY <2>1
<1>2. N \in SUBSET Nat /\ U \in SUBSET Nat
  BY <1>1 DEF NamesOf, UpsOf
<1>3. \A i \in 1..L : i \in N /\ i \notin U
  <2> SUFFICES ASSUME NEW i \in 1..L PROVE i \in N /\ i \notin U
    OBVIOUS
  <2>1. i \in DOMAIN w /\ w[i] \notin Dots
    BY <1>1
  <2>2. w[i] # ".."
    BY <2>1 DEF Dots
  <2> QED BY <2>1, <2>2 DEF NamesOf, UpsOf
<1>4. 0 \notin N
  BY <1>1 DEF NamesOf
<1>5. \A i \in S : i \in N /\ i \in Nat /\ i <= L
  BY <1>1, <1>2, StayFacts
<1>6. \A i : i \in S <=> /\ i \in N /\ i <= L
                         /\ \A j \in i + 1 .. L : CountIn(U, i + 1, j) <= CountIn(N, i + 1, j)
  BY DEF Stay
<1> HIDE DEF N, U, S
<1>7. ASSUME NEW i \in Nat, NEW j \in Nat, j <= L
      PROVE  CountIn(U, i + 1, j) = 0 /\ CountIn(N, i + 1, j) \in Nat
  <2>1. i + 1 \in Nat /\ \A k \in i + 1 .. j : k \notin U
    BY <1>1, <1>3, <1>7
  <2> QED BY <2>1, CountType
<1>8. ASSUME NEW i \in 1..L PROVE i \in S
  <2>1. i \in N /\ i <= L /\ i \in Nat
    BY <1>1, <1>3
  <2>2. ASSUME NEW j \in i + 1 .. L PROVE CountIn(U, i + 1, j) <= CountIn(N, i + 1, j)
    <3>1. j \in Nat /\ j <= L
      BY <1>1, <2>1
    <3> QED BY <1>7, <2>1, <3>1
  <2> QED BY <1>6, <2>1, <2>2
<1>9. ASSUME NEW i \in S PROVE CountIn(S, i + 1, L) + CountIn(U, i + 1, L) = CountIn(N, i + 1, L)
  <2>1. i \in Nat /\ i + 1 \in Nat /\ L <= L
    BY <1>1, <1>5
  <2>2. \A k \in i + 1 .. L : k \in S <=> k \in N
    BY <1>3, <1>8, <2>1
  <2>3. CountIn(S, i + 1, L) = CountIn(N, i + 1, L)
    BY <1>1, <2>1, <2>2, CountSame
  <2>4. CountIn(U, i + 1, L) = 0 /\ CountIn(N, i + 1, L) \in Nat
    BY <1>1, <1>7, <2>1
  <2> QED BY <2>3, <2>4
<1>10. UpTo(w, S)[L] = SubSeq(w, 1, L)
  BY <1>8, UpToWhole
<1> QED BY <1>9, <1>10 DEF Balanced, N, U, S

\* A step of the walk, and what stays.
LEMMA StepStays ==
  ASSUME NEW w, IsSeq(w), NEW n \in Nat, n + 1 \in DOMAIN w, Balanced(NamesOf(w), UpsOf(w), n)
  PROVE  /\ Balanced(NamesOf(w), UpsOf(w), n + 1)
         /\ UpTo(w, Stay(NamesOf(w), UpsOf(w), n + 1))[n + 1] =
              StepSegment(UpTo(w, Stay(NamesOf(w), UpsOf(w), n))[n], w[n + 1])
<1> DEFINE N == NamesOf(w)
           U == UpsOf(w)
           S == Stay(N, U, n)
           T == Stay(N, U, n + 1)
           v == w[n + 1]
<1>1. /\ Len(w) \in Nat /\ DOMAIN w = 1 .. Len(w) /\ n + 1 \in 1 .. Len(w) /\ n + 1 \in 0 .. Len(w)
      /\ n \in 0 .. Len(w)
  <2>1. Len(w) \in Nat /\ DOMAIN w = 1 .. Len(w)
    BY SeqFacts
  <2> QED BY <2>1
<1>2. N \in SUBSET Nat /\ U \in SUBSET Nat
  BY <1>1 DEF NamesOf, UpsOf
<1>3. (n + 1 \in N <=> v \notin Dots) /\ (n + 1 \in U <=> v = "..")
  BY DEF NamesOf, UpsOf
<1>4. \A i \in S : i \in N /\ i \in Nat /\ i <= n
  BY <1>2, StayFacts
<1>5. \A i \in N : i \in 1 .. Len(w)
  BY <1>1 DEF NamesOf
<1>6. \A K : UpTo(w, K)[n + 1] = IF n + 1 \in K THEN Append(UpTo(w, K)[n], v) ELSE UpTo(w, K)[n]
  <2> TAKE K
  <2>1. (n + 1) - 1 = n
    OBVIOUS
  <2>2. UpTo(w, K)[n + 1] =
          IF n + 1 \in K THEN Append(UpTo(w, K)[(n + 1) - 1], v) ELSE UpTo(w, K)[(n + 1) - 1]
    BY <1>1, UpToSteps
  <2> QED BY <2>1, <2>2
<1> DEFINE a == UpTo(w, S)[n]
           b == UpTo(w, T)[n + 1]
<1>7. Balanced(N, U, n)
  OBVIOUS
<1>8. CASE v \in {".", ""}
  <2>1. n + 1 \notin N /\ n + 1 \notin U
    BY <1>3, <1>8 DEF Dots
  <2>2. T = S /\ Balanced(N, U, n + 1)
    BY <1>2, <1>7, <2>1, StayQuiet
  <2>3. n + 1 \notin S
    BY <1>4
  <2>4. b = a
    BY <1>6, <2>2, <2>3
  <2>5. StepSegment(a, v) = a
    BY <1>8, StepCases
  <2> QED BY <2>2, <2>4, <2>5
<1>9. CASE v \notin Dots
  <2>1. n + 1 \in N /\ n + 1 \notin U
    BY <1>3, <1>9 DEF Dots
  <2>2. T = S \union {n + 1} /\ Balanced(N, U, n + 1)
    BY <1>2, <1>7, <2>1, StayName
  <2>3. \A i \in 1..n : i \in T <=> i \in S
    BY <2>2
  <2>4. n + 1 \in T
    BY <2>2
  <2> HIDE DEF S, T
  <2>5. UpTo(w, T)[n] = UpTo(w, S)[n]
    BY <1>1, <2>3, UpToSame
  <2>6. b = Append(a, v)
    BY <1>6, <2>4, <2>5
  <2>7. StepSegment(a, v) = Append(a, v)
    BY <1>9, StepCases
  <2> QED BY <2>2, <2>6, <2>7 DEF S, T
<1>10. CASE v = ".."
  <2>1. n + 1 \notin N /\ n + 1 \in U
    BY <1>3, <1>10 DEF Dots
  <2>2. /\ Balanced(N, U, n + 1)
        /\ S = {} => T = {}
        /\ \A x \in S : (\A i \in S : i <= x) => T = S \ {x}
    BY <1>2, <1>7, <2>1, StayUp
  <2>3. StepSegment(a, v) = IF a = <<>> THEN <<>> ELSE Front(a)
    BY <1>10, StepCases
  <2>4. \A i \in S : i \in 1..n
    BY <1>1, <1>4, <1>5
  <2> HIDE DEF S, T
  <2>5. CASE S = {}
    <3>1. n + 1 \notin T /\ UpTo(w, T)[n] = UpTo(w, S)[n]
      BY <2>2, <2>5
    <3>2. \A i \in 0 + 1 .. n : i \notin S
      BY <2>5
    <3>3. 0 \in 0 .. Len(w) /\ n \in 0 .. Len(w)
      BY <1>1
    <3>4. UpTo(w, S)[n] = UpTo(w, S)[0] /\ UpTo(w, S)[0] = <<>>
      <4>1. UpTo(w, S)[n] = UpTo(w, S)[0]
        BY <3>2, <3>3, UpToRests
      <4>2. UpTo(w, S)[0] = <<>>
        BY UpToSteps
      <4> QED BY <4>1, <4>2
    <3>5. b = a /\ a = <<>>
      BY <1>6, <3>1, <3>4
    <3> QED BY <2>2, <2>3, <3>5 DEF S, T
  <2>6. CASE S # {}
    <3>1. S \in SUBSET (1..n)
      BY <2>4
    <3>2. PICK x \in S : \A i \in S : i <= x
      BY <2>6, <3>1, GreatestOf
    <3>3. T = S \ {x}
      BY <2>2, <3>2
    <3>4. x \in 1..n /\ \A i \in S : i \in 1..n => i <= x
      BY <2>4, <3>2
    <3>5. a # <<>> /\ UpTo(w, S \ {x})[n] = Front(a)
      BY <1>1, <3>2, <3>4, UpToFront
    <3>6. n + 1 \notin T
      BY <2>4, <3>3
    <3>7. b = UpTo(w, T)[n]
      BY <1>6, <3>6
    <3> QED BY <2>2, <2>3, <3>3, <3>5, <3>7 DEF S, T
  <2> QED BY <2>5, <2>6
<1> HIDE DEF N, U, S, T, v, a, b
<1>11. v \in {".", ""} \/ v = ".." \/ v \notin Dots
  BY DEF Dots
<1> QED BY <1>8, <1>9, <1>10, <1>11, Zenon

\* A walk from a directory ends with the segments that remain.
LEMMA WalkRemains ==
  ASSUME NEW d, IsSeq(d), Normal(d), NEW s, IsSeq(s)
  PROVE  Walk(d, s) = Remaining(d \o s)
<1> DEFINE w == d \o s
           L == Len(d)
           N == NamesOf(w)
           U == UpsOf(w)
           g(n) == UpTo(w, Stay(N, U, L + n))[L + n]
           Bad == {n \in Nat : n <= Len(s) /\ ~(Balanced(N, U, L + n) /\ After(d, s)[n] = g(n))}
<1>1. /\ L \in Nat /\ DOMAIN d = 1..L
      /\ Len(s) \in Nat /\ DOMAIN s = 1..Len(s)
  BY SeqFacts
<1>2. /\ IsSeq(w) /\ DOMAIN w = 1..(L + Len(s)) /\ Len(w) = L + Len(s)
      /\ \A k \in DOMAIN d : w[k] = d[k]
      /\ \A k \in DOMAIN s : w[L + k] = s[k]
  BY ConcatFacts
<1> HIDE DEF w, L
<1>3. SubSeq(w, 1, L) = d
  <2>1. L <= Len(w)
    BY <1>1, <1>2
  <2> DEFINE t == SubSeq(w, 1, L)
  <2>2. IsSeq(t) /\ Len(t) = L /\ \A k \in 1..L : t[k] = w[k]
    BY <1>1, <1>2, <2>1, PrefixFacts
  <2> HIDE DEF t
  <2>3. \A k \in 1..L : t[k] = d[k]
    BY <1>1, <1>2, <2>2
  <2>4. t = d
    BY <2>2, <2>3, SameSeq DEF L
  <2> QED BY <2>4 DEF t
<1>4. Balanced(N, U, L) /\ UpTo(w, Stay(N, U, L))[L] = d
  <2>1. L \in 0 .. Len(w)
    BY <1>1, <1>2
  <2>2. \A i \in 1..L : w[i] \notin Dots
    BY <1>1, <1>2 DEF Normal
  <2> QED BY <1>2, <1>3, <2>1, <2>2, DirectoryStays
<1>5. /\ Walk(d, s) = After(d, s)[Len(s)] /\ After(d, s)[0] = d
      /\ \A n \in 1 .. Len(s) : After(d, s)[n] = StepSegment(After(d, s)[n - 1], s[n])
  BY WalkSteps
<1>6. Bad = {}
  <2> SUFFICES ASSUME Bad # {} PROVE FALSE
    OBVIOUS
  <2>1. Bad \in SUBSET Nat
    OBVIOUS
  <2> HIDE DEF g
  <2>2. PICK n \in Bad : \A k \in Bad : ~(k < n)
    BY <2>1, LeastOf
  <2>3. CASE n = 0
    <3>1. L + n = L
      BY <1>1, <2>3
    <3>2. g(n) = d
      BY <1>4, <3>1 DEF g
    <3> QED BY <1>4, <1>5, <2>2, <2>3, <3>1, <3>2
  <2>4. CASE n # 0
    <3> DEFINE p == n - 1
               q == L + p
    <3>1. p \in Nat /\ p <= Len(s) /\ p < n /\ n = p + 1 /\ n \in 1 .. Len(s)
      BY <1>1, <2>2, <2>4
    <3>2. Balanced(N, U, q) /\ After(d, s)[p] = g(p)
      BY <2>2, <3>1
    <3>3. q \in Nat /\ q + 1 = L + n /\ q + 1 \in DOMAIN w /\ w[q + 1] = s[n]
      <4>1. q \in Nat /\ q + 1 = L + n /\ L + n \in 1..(L + Len(s))
        BY <1>1, <3>1
      <4> QED BY <1>1, <1>2, <3>1, <4>1
    <3>4. After(d, s)[n] = StepSegment(After(d, s)[p], s[n])
      BY <1>5, <3>1
    <3> HIDE DEF p, q
    <3>5. /\ Balanced(N, U, q + 1)
          /\ UpTo(w, Stay(N, U, q + 1))[q + 1] = StepSegment(UpTo(w, Stay(N, U, q))[q], w[q + 1])
      BY <1>2, <3>2, <3>3, StepStays
    <3>6. g(p) = UpTo(w, Stay(N, U, q))[q] /\ g(n) = UpTo(w, Stay(N, U, q + 1))[q + 1]
      BY <3>3 DEF g, q
    <3>7. g(n) = StepSegment(g(p), s[n])
      BY <3>3, <3>5, <3>6
    <3>8. Balanced(N, U, L + n) /\ After(d, s)[n] = g(n)
      BY <3>2, <3>3, <3>4, <3>5, <3>7
    <3> QED BY <2>2, <3>8
  <2> QED BY <2>3, <2>4
<1>7. After(d, s)[Len(s)] = g(Len(s))
  <2>1. Len(s) \in Nat /\ Len(s) <= Len(s)
    BY <1>1
  <2> QED BY <1>6, <2>1
<1>8. Remaining(w) = g(Len(s))
  <2>1. L + Len(s) = Len(w)
    BY <1>2
  <2>2. Remaining(w) = Picked(w, Stay(N, U, Len(w)))
    BY <1>2, RemainingStays
  <2>3. Picked(w, Stay(N, U, Len(w))) = UpTo(w, Stay(N, U, Len(w)))[Len(w)]
    BY <1>2, UpToSteps
  <2> QED BY <2>1, <2>2, <2>3
<1>9. Walk(d, s) = Remaining(w)
  BY <1>5, <1>7, <1>8
<1> QED BY <1>9 DEF w
-----------------------------------------------------------------------------
(***************************************************************************)
(* Modules.                                                                *)
(***************************************************************************)

\* The directory of a module with a normal path.
LEMMA DirectoryFacts ==
  ASSUME NEW m, IsSeq(m), Normal(m)
  PROVE  /\ DirectoryOf(m) = Front(m)
         /\ IsSeq(Front(m)) /\ Normal(Front(m))
<1> DEFINE n == Len(m)
           K == {k \in DOMAIN m : m[k] # ""}
<1>1. n \in Nat /\ DOMAIN m = 1..n /\ (m = <<>> <=> n = 0)
  BY SeqFacts
<1>2. \A i \in 1..n : i \in K
  BY <1>1 DEF Normal, Dots
<1>3. NonEmptySegments(m) = Picked(m, K)
  BY DEF NonEmptySegments
<1> HIDE DEF K
<1>4. NonEmptySegments(m) = m
  <2>1. Picked(m, K) = UpTo(m, K)[n]
    BY UpToSteps
  <2>2. n \in 0 .. Len(m)
    BY <1>1
  <2>3. UpTo(m, K)[n] = SubSeq(m, 1, n)
    BY <1>2, <2>2, UpToWhole
  <2>4. SubSeq(m, 1, n) = m
    BY PrefixGrows
  <2> QED BY <1>3, <2>1, <2>3, <2>4
<1>5. CASE m = <<>>
  <2>1. <<>> \in Seq({1}) /\ DOMAIN <<>> = {} /\ Front(<<>>) = <<>>
    BY DEF Front
  <2>2. IsSeq(<<>>)
    BY <2>1, SeqIsSeq, Zenon
  <2>3. Normal(<<>>)
    BY <2>1 DEF Normal
  <2> QED BY <1>4, <1>5, <2>1, <2>2, <2>3 DEF DirectoryOf
<1>6. CASE m # <<>>
  <2> DEFINE p == n - 1
  <2>1. p \in Nat /\ p <= Len(m)
    BY <1>1, <1>6
  <2>2. Front(m) = SubSeq(m, 1, p)
    BY DEF Front
  <2> HIDE DEF p
  <2> DEFINE t == SubSeq(m, 1, p)
  <2>3. IsSeq(t) /\ DOMAIN t = 1..p /\ \A k \in 1..p : k \in DOMAIN m /\ t[k] = m[k]
    BY <2>1, PrefixFacts
  <2> HIDE DEF t
  <2>4. Normal(t)
    BY <2>3 DEF Normal
  <2>5. DirectoryOf(m) = Front(m)
    BY <1>4, <1>6 DEF DirectoryOf
  <2> QED BY <2>2, <2>3, <2>4, <2>5 DEF t
<1> QED BY <1>5, <1>6

\* Resolution gives what remains, and that is a normal path.
LEMMA ResolvedRemains ==
  ASSUME NEW m, IsSeq(m), Normal(m), NEW s, IsSeq(s)
  PROVE  Resolved(m, s) = Remaining(Front(m) \o s) /\ Normal(Remaining(Front(m) \o s))
<1> DEFINE d == Front(m)
           w == d \o s
           K == Stay(NamesOf(w), UpsOf(w), Len(w))
<1>1. DirectoryOf(m) = d /\ IsSeq(d) /\ Normal(d)
  BY DirectoryFacts
<1> HIDE DEF d
<1>2. Walk(d, s) = Remaining(w)
  BY <1>1, WalkRemains
<1>3. IsSeq(w)
  BY <1>1, Joined, Zenon
<1> HIDE DEF w
<1>4. Remaining(w) = UpTo(w, K)[Len(w)]
  <2>1. Remaining(w) = Picked(w, K)
    BY <1>3, RemainingStays
  <2> HIDE DEF K
  <2> QED BY <1>3, <2>1, UpToSteps
<1>5. \A i \in K : w[i] \notin Dots
  BY DEF Stay, NamesOf
<1> HIDE DEF K
<1>6. \A p \in DOMAIN UpTo(w, K)[Len(w)] : \E i \in K : UpTo(w, K)[Len(w)][p] = w[i]
  <2>1. Len(w) \in 0 .. Len(w)
    BY <1>3, SeqFacts
  <2> QED BY <1>3, <2>1, UpToSeq
<1>7. Normal(Remaining(w))
  BY <1>4, <1>5, <1>6 DEF Normal
<1>8. Resolved(m, s) = Walk(d, s)
  BY <1>1 DEF Resolved, ResolveFrom
<1> QED BY <1>2, <1>7, <1>8 DEF w, d

\* The imports a visit of a module follows, and the modules they name, up to
\* each statement.
LocalImports(p, m) ==
  {k \in DOMAIN p[m].body : p[m].body[k].kind = "import" /\ Supported(p[m].body[k].from)}

ImportsTo(p, m, n) ==
  LET u == UpTo(p[m].body, LocalImports(p, m))[n]
  IN  [k \in DOMAIN u |-> Resolved(m, u[k].from)]

\* One statement further there is one import more, if it is one.
LEMMA ImportsNext ==
  ASSUME NEW m, IsSeq(program[m].body)
  PROVE  /\ ImportsTo(program, m, 0) = <<>>
         /\ \A n \in 1 .. Len(program[m].body) :
              ImportsTo(program, m, n) =
                IF n \in LocalImports(program, m)
                  THEN ImportsTo(program, m, n - 1) \o <<Resolved(m, program[m].body[n].from)>>
                  ELSE ImportsTo(program, m, n - 1)
<1> DEFINE s == program[m].body
           K == LocalImports(program, m)
           R(x) == Resolved(m, x.from)
<1>1. Len(s) \in Nat /\ DOMAIN s = 1 .. Len(s)
  BY SeqFacts
<1>2. \A n : ImportsTo(program, m, n) = [k \in DOMAIN UpTo(s, K)[n] |-> R(UpTo(s, K)[n][k])]
  BY DEF ImportsTo
<1> HIDE DEF s, K, R
<1>3. /\ UpTo(s, K)[0] = <<>>
      /\ \A n \in 1 .. Len(s) :
           UpTo(s, K)[n] = IF n \in K THEN Append(UpTo(s, K)[n - 1], s[n]) ELSE UpTo(s, K)[n - 1]
  BY UpToSteps DEF s
<1>4. ImportsTo(program, m, 0) = <<>>
  <2>1. DOMAIN <<>> = {}
    OBVIOUS
  <2> QED BY <1>2, <1>3, <2>1
<1>5. ASSUME NEW n \in 1 .. Len(s), n \notin K PROVE ImportsTo(program, m, n) = ImportsTo(program, m, n - 1)
  <2>1. UpTo(s, K)[n] = UpTo(s, K)[n - 1]
    BY <1>3, <1>5
  <2> QED BY <1>2, <2>1
<1>6. ASSUME NEW n \in 1 .. Len(s), n \in K
      PROVE  ImportsTo(program, m, n) = ImportsTo(program, m, n - 1) \o <<R(s[n])>>
  <2> DEFINE u == UpTo(s, K)[n - 1]
             v == s[n]
             a == Append(u, v)
             x == ImportsTo(program, m, n - 1)
             y == ImportsTo(program, m, n)
             r == <<R(v)>>
             z == x \o r
  <2>1. IsSeq(u)
    <3>1. n - 1 \in 0 .. Len(s)
      BY <1>1
    <3> QED BY <3>1, UpToSeq DEF s
  <2>2. UpTo(s, K)[n] = a
    BY <1>3, <1>6
  <2> HIDE DEF u, v
  <2>3. /\ IsSeq(a) /\ DOMAIN a = 1..(Len(u) + 1) /\ Len(a) = Len(u) + 1 /\ a[Len(u) + 1] = v
        /\ \A k \in DOMAIN u : a[k] = u[k]
    BY <2>1, AppendFacts
  <2>4. Len(u) \in Nat /\ DOMAIN u = 1..Len(u)
    BY <2>1, SeqFacts
  <2> HIDE DEF a
  <2>5. x = [k \in DOMAIN u |-> R(u[k])]
    BY <1>2 DEF u
  <2>6. y = [k \in DOMAIN a |-> R(a[k])]
    BY <1>2, <2>2
  <2> HIDE DEF x, y
  <2>7. IsSeq(x) /\ Len(x) = Len(u) /\ DOMAIN x = DOMAIN u /\ \A k \in DOMAIN u : x[k] = R(u[k])
    <3>1. x = [k \in DOMAIN u |-> x[k]] /\ \A k \in DOMAIN u : x[k] = R(u[k])
      BY <2>5
    <3> QED BY <2>1, <3>1, MappedSeq
  <2>8. IsSeq(y) /\ Len(y) = Len(a) /\ \A k \in DOMAIN a : y[k] = R(a[k])
    <3>1. y = [k \in DOMAIN a |-> y[k]] /\ \A k \in DOMAIN a : y[k] = R(a[k])
      BY <2>6
    <3> QED BY <2>3, <3>1, MappedSeq
  <2>9. IsSeq(r) /\ Len(r) = 1 /\ DOMAIN r = 1..1 /\ r[1] = R(v)
    <3> DEFINE e == R(v)
    <3> HIDE DEF e
    <3>1. <<e>> \in Seq({e}) /\ Len(<<e>>) = 1 /\ DOMAIN <<e>> = 1..1 /\ <<e>>[1] = e
      OBVIOUS
    <3>2. IsSeq(<<e>>)
      BY <3>1, SeqIsSeq, Zenon
    <3> QED BY <3>1, <3>2 DEF e
  <2> HIDE DEF r
  <2>10. IsSeq(z) /\ Len(z) = Len(x) + Len(r) /\ \A k \in DOMAIN x : z[k] = x[k]
    BY <2>7, <2>9, ConcatFacts
  <2>11. \A k \in DOMAIN r : z[Len(x) + k] = r[k]
    <3>1. IsSeq(x) /\ IsSeq(r)
      BY <2>7, <2>9
    <3> QED BY <3>1, ConcatBehind, Zenon
  <2> HIDE DEF z
  <2>12. Len(y) = Len(z) /\ Len(y) = Len(u) + 1
    BY <2>3, <2>4, <2>7, <2>8, <2>9, <2>10
  <2>13. ASSUME NEW k \in 1..Len(y) PROVE y[k] = z[k]
    <3>1. k \in DOMAIN a /\ (k \in DOMAIN u \/ k = Len(u) + 1)
      BY <2>3, <2>4, <2>12
    <3>2. CASE k \in DOMAIN u
      BY <2>3, <2>7, <2>8, <2>10, <3>1, <3>2
    <3>3. CASE k = Len(u) + 1
      <4>1. 1 \in DOMAIN r
        BY <2>9
      <4>2. z[Len(x) + 1] = r[1]
        BY <2>11, <4>1
      <4>3. y[k] = R(v)
        BY <2>3, <2>8, <3>1, <3>3
      <4> QED BY <2>7, <2>9, <3>3, <4>2, <4>3
    <3> QED BY <3>1, <3>2, <3>3
  <2>14. y = z
    BY <2>8, <2>10, <2>12, <2>13, SameSeq
  <2> QED BY <2>14 DEF y, z, x, r, v
<1>7. \A n \in 1 .. Len(s) :
        ImportsTo(program, m, n) =
          IF n \in K THEN ImportsTo(program, m, n - 1) \o <<R(s[n])>> ELSE ImportsTo(program, m, n - 1)
  BY <1>5, <1>6
<1> QED BY <1>4, <1>7 DEF s, K, R

\* What visits and records note: the imports seen so far.
NotedSoFar(p, f) == f.imports = ImportsTo(p, f.module, f.next - 1)

RecordsInv ==
  /\ \A i \in DOMAIN frames : NotedSoFar(program, frames[i])
  /\ \A m \in DOMAIN records :
       m \in Provided /\ records[m].imports = ImportsTo(program, m, Len(program[m].body))

\* Records stay as they are while frames change.
LEMMA FramesNoted ==
  ASSUME RecordsInv, UNCHANGED <<program, records>>,
         \A i \in DOMAIN frames' : NotedSoFar(program, frames'[i])
  PROVE  RecordsInv'
BY DEF RecordsInv, Provided

\* The innermost visit notes the module it imports at its statement, if any.
LEMMA AdvancedNotes ==
  ASSUME Inv, RecordsInv, frames # <<>>, Top.next \in DOMAIN Body, NEW imports, NEW exports,
         imports = IF Top.next \in LocalImports(program, Top.module)
                     THEN <<Resolved(Top.module, Here.from)>> ELSE <<>>
  PROVE  /\ DOMAIN Advanced(imports, exports) = DOMAIN frames
         /\ \A i \in DOMAIN frames : NotedSoFar(program, Advanced(imports, exports)[i])
<1> DEFINE n == Len(frames)
           m == Top.module
           x == Top.imports
           e == Top.exports \o exports
           f == [module |-> m, next |-> Top.next + 1, imports |-> x \o imports, exports |-> e]
           F == Advanced(imports, exports)
<1>1. /\ n \in DOMAIN frames /\ Top = frames[n] /\ Top \in FrameType /\ m \in Provided
      /\ DOMAIN Body = 1 .. Len(Body) /\ Top.next \in 1 .. Len(Body)
  BY TopFacts
<1>2. F = [frames EXCEPT ![n] = f]
  BY DEF Advanced
<1> HIDE DEF f, F
<1>3. DOMAIN F = DOMAIN frames /\ F[n] = f /\ \A i \in DOMAIN frames : i # n => F[i] = frames[i]
  BY <1>1, <1>2
<1>4. NotedSoFar(program, f)
  <2>1. x = ImportsTo(program, m, Top.next - 1)
    BY <1>1 DEF RecordsInv, NotedSoFar
  <2>2. IsSeq(program[m].body)
    BY <1>1, ProgramsAssumption DEF Inv, Typed, Provided, IsSeq
  <2>3. Top.next \in 1 .. Len(program[m].body)
    BY <1>1 DEF Body
  <2>4. ImportsTo(program, m, Top.next) =
          IF Top.next \in LocalImports(program, m)
            THEN ImportsTo(program, m, Top.next - 1) \o <<Resolved(m, program[m].body[Top.next].from)>>
            ELSE ImportsTo(program, m, Top.next - 1)
    BY <2>2, <2>3, ImportsNext
  <2>5. x \in Seq(AllModules)
    BY <1>1 DEF FrameType
  <2>6. x \o <<>> = x
    BY <2>5, ConcatEmptySeq
  <2>7. x \o imports = ImportsTo(program, m, Top.next)
    <3>1. CASE Top.next \in LocalImports(program, m)
      <4>1. imports = <<Resolved(m, program[m].body[Top.next].from)>>
        BY <3>1 DEF Here, Body
      <4> QED BY <2>1, <2>4, <3>1, <4>1
    <3>2. CASE Top.next \notin LocalImports(program, m)
      BY <2>1, <2>4, <2>6, <3>2
    <3> QED BY <3>1, <3>2
  <2> DEFINE y == x \o imports
             k == Top.next + 1
  <2>8. k - 1 = Top.next
    BY <1>1
  <2>9. f = [module |-> m, next |-> k, imports |-> y, exports |-> e]
    BY DEF f
  <2> HIDE DEF x, e, k, m, f
  <2>10. y = ImportsTo(program, m, k - 1)
    <3>1. ImportsTo(program, m, k - 1) = ImportsTo(program, m, Top.next)
      BY <2>8, Zenon
    <3> QED BY <2>7, <3>1, Zenon
  <2> HIDE DEF y
  <2>11. f.module = m /\ f.next = k /\ f.imports = y
    BY <2>9
  <2> QED BY <2>10, <2>11 DEF NotedSoFar
<1>5. \A i \in DOMAIN frames : NotedSoFar(program, F[i])
  BY <1>3, <1>4 DEF RecordsInv
<1> QED BY <1>3, <1>5 DEF F

\* A visit that begins has noted nothing.
LEMMA NewFrameNotes ==
  ASSUME Inv, NEW m \in Provided
  PROVE  NotedSoFar(program, NewFrame(m))
<1>1. IsSeq(program[m].body)
  BY ProgramsAssumption DEF Inv, Typed, Provided, IsSeq
<1>2. ImportsTo(program, m, 0) = <<>>
  BY <1>1, ImportsNext
<1>3. NewFrame(m).module = m /\ NewFrame(m).next - 1 = 0 /\ NewFrame(m).imports = <<>>
  BY DEF NewFrame
<1> QED BY <1>2, <1>3 DEF NotedSoFar

LEMMA InitRecordsInv == Init => RecordsInv
<1> SUFFICES ASSUME Init PROVE RecordsInv
  OBVIOUS
<1>1. DOMAIN frames = {} /\ DOMAIN records = {}
  BY DEF Init, NoMap
<1> QED BY <1>1 DEF RecordsInv

\* Statements whose visit goes on: no import, or one that needs no frame.
LEMMA StatementKeepsRecords ==
  ASSUME Inv, RecordsInv, ImportUnsupported \/ ImportDismissed \/ Export \/ Other
  PROVE  RecordsInv'
<1>1. PICK imports, exports :
        /\ frames' = Advanced(imports, exports)
        /\ imports = IF Top.next \in LocalImports(program, Top.module)
                       THEN <<Resolved(Top.module, Here.from)>> ELSE <<>>
  <2>1. CASE ImportUnsupported
    <3>1. ~Supported(Here.from) /\ frames' = Advanced(<<>>, <<>>)
      BY <2>1 DEF ImportUnsupported
    <3>2. Top.next \notin LocalImports(program, Top.module)
      BY <3>1 DEF LocalImports, Here, Body
    <3> QED BY <3>1, <3>2
  <2>2. CASE Export
    <3> DEFINE exports == IF Here.name = Anonymous THEN <<>> ELSE <<Here.name>>
    <3>1. Here.kind = "export" /\ frames' = Advanced(<<>>, exports)
      BY <2>2 DEF Export, AtStatement, Here
    <3> HIDE DEF exports
    <3>2. Top.next \notin LocalImports(program, Top.module)
      BY <3>1 DEF LocalImports, Here, Body
    <3> QED BY <3>1, <3>2
  <2>3. CASE Other
    <3>1. Here.kind = "other" /\ frames' = Advanced(<<>>, <<>>)
      BY <2>3 DEF Other, AtStatement, Here
    <3>2. Top.next \notin LocalImports(program, Top.module)
      BY <3>1 DEF LocalImports, Here, Body
    <3> QED BY <3>1, <3>2
  <2>4. CASE ImportDismissed
    <3> DEFINE t == Resolved(Top.module, Here.from)
    <3>1. /\ Here.kind = "import" /\ Supported(Here.from) /\ Top.next \in DOMAIN Body
          /\ frames' = Advanced(<<t>>, <<>>)
      BY <2>4 DEF ImportDismissed, AtStatement, Here
    <3>2. Top.next \in LocalImports(program, Top.module)
      BY <3>1 DEF LocalImports, Here, Body
    <3> QED BY <3>1, <3>2
  <2> QED BY <2>1, <2>2, <2>3, <2>4
<1>2. frames # <<>> /\ Top.next \in DOMAIN Body /\ UNCHANGED <<program, records>>
  BY DEF ImportUnsupported, ImportDismissed, Export, Other, AtStatement
<1>3. DOMAIN frames' = DOMAIN frames /\ \A i \in DOMAIN frames : NotedSoFar(program, frames'[i])
  BY <1>1, <1>2, AdvancedNotes
<1> QED BY <1>2, <1>3, FramesNoted

\* The import is noted below, and the new visit has noted nothing.
LEMMA ImportNewKeepsRecords ==
  ASSUME Inv, RecordsInv, ImportNew
  PROVE  RecordsInv'
<1> DEFINE t == Resolved(Top.module, Here.from)
           F == Advanced(<<t>>, <<>>)
<1>1. /\ frames # <<>> /\ Top.next \in DOMAIN Body /\ Here.kind = "import" /\ Supported(Here.from)
      /\ t \in Provided /\ frames' = Append(F, NewFrame(t)) /\ UNCHANGED <<program, records>>
  BY DEF ImportNew, Enter, AtStatement, Here
<1>2. Top.next \in LocalImports(program, Top.module)
  BY <1>1 DEF LocalImports, Here, Body
<1>3. DOMAIN F = DOMAIN frames /\ \A i \in DOMAIN frames : NotedSoFar(program, F[i])
  BY <1>1, <1>2, AdvancedNotes
<1>4. IsSeq(F)
  <2>1. IsSeq(frames)
    BY SeqIsSeq DEF Inv, Typed
  <2>2. \E f : F = [frames EXCEPT ![Len(frames)] = f]
    BY DEF Advanced
  <2> HIDE DEF F
  <2>3. F = [k \in DOMAIN frames |-> F[k]]
    BY <2>2
  <2> QED BY <2>1, <2>3, MappedSeq
<1>5. NotedSoFar(program, NewFrame(t))
  BY <1>1, NewFrameNotes
<1> HIDE DEF F
<1> DEFINE f == NewFrame(t)
<1> HIDE DEF f
<1>6. /\ DOMAIN Append(F, f) = 1..(Len(F) + 1) /\ Append(F, f)[Len(F) + 1] = f
      /\ \A k \in DOMAIN F : Append(F, f)[k] = F[k]
  BY <1>4, AppendFacts
<1>7. Len(F) \in Nat /\ DOMAIN F = 1..Len(F)
  BY <1>4, SeqFacts
<1>8. \A i \in DOMAIN frames' : NotedSoFar(program, frames'[i])
  <2> SUFFICES ASSUME NEW i \in 1..(Len(F) + 1) PROVE NotedSoFar(program, Append(F, f)[i])
    BY <1>1, <1>6 DEF f
  <2>1. i \in DOMAIN F \/ i = Len(F) + 1
    BY <1>7
  <2>2. CASE i \in DOMAIN F
    <3>1. NotedSoFar(program, F[i]) /\ Append(F, f)[i] = F[i]
      BY <1>3, <1>6, <2>2
    <3> QED BY <3>1
  <2>3. CASE i = Len(F) + 1
    <3>1. Append(F, f)[i] = f
      BY <1>6, <2>3
    <3> QED BY <1>5, <3>1 DEF f
  <2> QED BY <2>1, <2>2, <2>3
<1> QED BY <1>1, <1>8, FramesNoted

LEMMA StartKeepsRecords ==
  ASSUME Inv, RecordsInv, Start
  PROVE  RecordsInv'
<1>1. UNCHANGED <<program, records>> /\ frames = <<>>
  BY DEF Start, Inv, PhaseInv
<1>2. CASE Enter(Entry, <<>>)
  <2> DEFINE f == NewFrame(Entry)
  <2>1. Entry \in Provided /\ frames' = Append(<<>>, f)
    BY <1>2 DEF Enter
  <2>2. NotedSoFar(program, f)
    BY <2>1, NewFrameNotes
  <2> HIDE DEF f
  <2>3. frames' = <<f>>
    BY <2>1
  <2>4. \A i \in DOMAIN frames' : frames'[i] = f
    BY <2>3
  <2> QED BY <1>1, <2>2, <2>4, FramesNoted
<1>3. CASE UNCHANGED frames
  <2>1. \A i \in DOMAIN frames' : NotedSoFar(program, frames'[i])
    BY <1>3 DEF RecordsInv
  <2> QED BY <1>1, <2>1, FramesNoted
<1> QED BY <1>2, <1>3 DEF Start

\* A visit that ends has noted all its imports.
LEMMA LeaveKeepsRecords ==
  ASSUME Inv, RecordsInv, Leave
  PROVE  RecordsInv'
<1> DEFINE m == Top.module
<1>1. /\ frames # <<>> /\ Top.next \notin DOMAIN Body /\ program' = program
      /\ records' = [l \in DOMAIN records \union {m} |->
                       IF l = m THEN [imports |-> Top.imports, exports |-> Top.exports]
                       ELSE records[l]]
  BY DEF Leave
<1>2. /\ Len(frames) \in DOMAIN frames /\ Top = frames[Len(frames)] /\ m \in Provided
      /\ DOMAIN Body = 1 .. Len(Body) /\ Len(Body) \in Nat /\ Top.next \in 1 .. Len(Body) + 1
      /\ Len(frames) \in Nat \ {0} /\ DOMAIN frames = 1 .. Len(frames)
  BY <1>1, TopFacts
<1>3. Top.next - 1 = Len(program[m].body)
  BY <1>1, <1>2 DEF Body
<1>4. Top.imports = ImportsTo(program, m, Len(program[m].body))
  BY <1>2, <1>3 DEF RecordsInv, NotedSoFar
<1>6. ASSUME NEW l \in DOMAIN records'
      PROVE  l \in Provided /\ records'[l].imports = ImportsTo(program, l, Len(program[l].body))
  <2>1. CASE l = m
    <3>1. records'[l].imports = Top.imports
      BY <1>1, <2>1
    <3> QED BY <1>2, <1>4, <2>1, <3>1
  <2>2. CASE l # m
    <3>1. l \in DOMAIN records /\ records'[l] = records[l]
      BY <1>1, <1>6, <2>2
    <3> QED BY <3>1 DEF RecordsInv
  <2> QED BY <2>1, <2>2
<1>7. \A i \in DOMAIN frames' : NotedSoFar(program, frames'[i])
  <2>1. Popped
    BY LeaveFacts
  <2>2. DOMAIN frames' = 1 .. Len(frames')
    BY <2>1, LenProperties DEF Popped
  <2>3. \A i \in DOMAIN frames' : i \in DOMAIN frames /\ frames'[i] = frames[i]
    BY <1>2, <2>1, <2>2 DEF Popped
  <2> QED BY <2>3 DEF RecordsInv
<1> HIDE DEF m
<1> QED BY <1>1, <1>6, <1>7 DEF RecordsInv, Provided

LEMMA NextRecordsInv == Inv /\ RecordsInv /\ [Next]_vars => RecordsInv'
<1> SUFFICES ASSUME Inv, RecordsInv, [Next]_vars PROVE RecordsInv'
  OBVIOUS
<1>1. CASE Start
  BY <1>1, StartKeepsRecords
<1>2. CASE ImportUnsupported \/ ImportDismissed \/ Export \/ Other
  BY <1>2, StatementKeepsRecords
<1>3. CASE ImportNew
  BY <1>3, ImportNewKeepsRecords
<1>4. CASE Leave
  BY <1>4, LeaveKeepsRecords
<1>5. CASE Finish \/ UNCHANGED vars
  <2>1. UNCHANGED <<program, records, frames>>
    BY <1>5 DEF Finish, vars
  <2>2. \A i \in DOMAIN frames' : NotedSoFar(program, frames'[i])
    BY <2>1 DEF RecordsInv
  <2> QED BY <2>1, <2>2, FramesNoted
<1> QED BY <1>1, <1>2, <1>3, <1>4, <1>5 DEF Next

\* What is recorded of a module with a normal path is what remains.
LEMMA InvResolves == Inv /\ RecordsInv => ResolutionCanonical
<1> SUFFICES ASSUME Inv, RecordsInv, NEW m \in DOMAIN records, Normal(m)
             PROVE  LET body == program[m].body
                        imports == Picked(body, {k \in DOMAIN body :
                                     body[k].kind = "import" /\ Supported(body[k].from)})
                    IN  /\ records[m].imports =
                             [k \in DOMAIN imports |-> Remaining(Front(m) \o imports[k].from)]
                        /\ \A k \in DOMAIN records[m].imports : Normal(records[m].imports[k])
  BY DEF ResolutionCanonical
<1> DEFINE s == program[m].body
           K == LocalImports(program, m)
           u == Picked(s, K)
<1>1. m \in Provided /\ records[m].imports = ImportsTo(program, m, Len(s)) /\ program \in Programs
  BY DEF RecordsInv, Inv, Typed
<1>2. IsSeq(m) /\ IsSeq(s)
  <2>1. IsSeq(m)
    BY <1>1, PathsAssumption DEF Provided, IsSeq
  <2>2. IsSeq(s)
    BY <1>1, ProgramsAssumption DEF Provided, IsSeq
  <2> QED BY <2>1, <2>2
<1>3. \A i \in K : IsSeq(s[i].from)
  <2> TAKE i \in K
  <2>1. s[i] \in ToSet(s) /\ s[i].kind = "import"
    BY DEF LocalImports, ToSet
  <2> QED BY <1>1, <2>1, PathsAssumption DEF Provided, IsSeq
<1>4. K = {k \in DOMAIN s : s[k].kind = "import" /\ Supported(s[k].from)}
  BY DEF LocalImports
<1>5. ImportsTo(program, m, Len(s)) =
        [k \in DOMAIN UpTo(s, K)[Len(s)] |-> Resolved(m, UpTo(s, K)[Len(s)][k].from)]
  BY DEF ImportsTo
<1>6. u = UpTo(s, K)[Len(s)] /\ \A p \in DOMAIN u : \E i \in K : u[p] = s[i]
  <2>1. u = UpTo(s, K)[Len(s)]
    BY <1>2, UpToSteps
  <2>2. Len(s) \in 0 .. Len(s)
    BY <1>2, SeqFacts
  <2>3. \A p \in DOMAIN UpTo(s, K)[Len(s)] : \E i \in K : UpTo(s, K)[Len(s)][p] = s[i]
    <3> HIDE DEF s, K
    <3> QED BY <1>2, <2>2, UpToSeq
  <2> QED BY <2>1, <2>3
<1> HIDE DEF s, K, u
<1>7. \A k \in DOMAIN u : IsSeq(u[k].from)
  BY <1>3, <1>6
<1>8. \A k \in DOMAIN u : /\ Resolved(m, u[k].from) = Remaining(Front(m) \o u[k].from)
                          /\ Normal(Remaining(Front(m) \o u[k].from))
  BY <1>2, <1>7, ResolvedRemains
<1>9. records[m].imports = [k \in DOMAIN u |-> Resolved(m, u[k].from)]
  BY <1>1, <1>5, <1>6
<1>10. records[m].imports = [k \in DOMAIN u |-> Remaining(Front(m) \o u[k].from)]
  BY <1>8, <1>9
<1>11. \A k \in DOMAIN records[m].imports : Normal(records[m].imports[k])
  BY <1>8, <1>10
<1>12. u = Picked(s, {k \in DOMAIN s : s[k].kind = "import" /\ Supported(s[k].from)})
  BY <1>4 DEF u
<1> QED BY <1>10, <1>11, <1>12 DEF s
-----------------------------------------------------------------------------
\* The invariant holds in every state, for every entry and all sources.
THEOREM GraphInvariant == Spec => []Inv
<1> QED BY InitInv, NextInv, PTL DEF Spec

\* visit pushes a module behind everything it imports and pushes it once, for
\* every shape of the graph.
THEOREM OrderIsTopological == Spec => []DependenciesFirst
<1> QED BY GraphInvariant, InvOrdersDependencies, PTL

\* bundle_module_graph refuses a graph if and only if something reachable is
\* wrong with it, and every cycle it reports is one.
THEOREM GraphVerdictIsRight == Spec => []FailsExactlyWhenItMust
<1> QED BY GraphInvariant, InvFailsExactly, PTL

\* bundle writes every statement but the imports of every reachable module once,
\* the statements of a module in their order and after those of the modules it
\* imports, however many modules and statements there are.
THEOREM BundleIsRight == Spec => []BundleCorrect
<1> QED BY GraphInvariant, InvBundles, PTL

\* resolve_import, called from visit for every local import, gives the path
\* that remains of the importing module's directory and the specifier, and a
\* normal one again: however a specifier climbs and descends, a module has one
\* key.
THEOREM ResolutionIsCanonical == Spec => []ResolutionCanonical
<1>1. Inv /\ RecordsInv /\ [Next]_vars => (Inv /\ RecordsInv)'
  BY NextInv, NextRecordsInv
<1>2. Init => Inv /\ RecordsInv
  BY InitInv, InitRecordsInv
<1>3. Inv /\ RecordsInv => ResolutionCanonical
  BY InvResolves
<1> QED BY <1>1, <1>2, <1>3, PTL DEF Spec
=============================================================================
