---------------------------- MODULE Interpreter ----------------------------
(***************************************************************************)
(* The interpreter of runtime/interpreter: verification gate, frames, the  *)
(* twelve instructions, calls into functions and the host, and the final   *)
(* collection before values cross to the embedder.                         *)
(*                                                                         *)
(* Of a value the model keeps its kind and its truth; of an object its     *)
(* kind and what it holds.  The heap is the store GcHeap implements        *)
(* (module ObjectStore): an object stays until a collection that does not  *)
(* reach it.                                                               *)
(***************************************************************************)
EXTENDS Bytecode

CONSTANTS
  Modules,        \* bytecode modules handed to execute_module or call_function
  Texts,          \* texts of constants, names of functions among them
  HostFunctions,  \* the names the HostEnvironment has functions for
  Exported,       \* the names the embedder calls through call_function
  MaxDepth,       \* bound: frames on the stack
  MaxValues,      \* bound: values of one frame
  MaxObjects      \* bound: objects allocated

ASSUME InterpreterAssumption ==
  /\ Modules \subseteq ModuleType(Texts)
  /\ {"console.log", "__entry"} \subseteq Texts
  /\ HostFunctions \subseteq Texts /\ Exported \subseteq Texts
  /\ MaxDepth \in Nat /\ MaxValues \in Nat /\ MaxObjects \in Nat

VARIABLES
  module,
  via,       \* the entry point in use: [kind, name, args], kind "execute" or "call"
  status,
  frames,    \* the call stack, innermost last
  heap,      \* reference |-> object
  console,
  result

vars == <<module, via, status, frames, heap, console, result>>

Primitive(kind, truth) == [kind |-> kind, truth |-> truth]
Undefined == Primitive("undefined", FALSE)
Reference(kind, r) == [kind |-> kind, ref |-> r]

IsReference(v) == v.kind \in {"object", "array"}

\* Errors of the program, of the host, and of the embedder's view of the heap;
\* "missing" is an operand, constant, value, local or block that is not there,
\* "overflow" a recursion without end.
Errors == {"runtime", "interop", "stale", "overflow", "missing", "no entry block"}
Ended == Errors \union {"rejected", "done"}
-----------------------------------------------------------------------------
\* References and what they reach.
Refs(V) == {v.ref : v \in {w \in V : IsReference(w)}}

Contents(o) ==
  IF o.kind = "object"
    THEN {o.fields[n] : n \in DOMAIN o.fields}
    ELSE {o.items[k] : k \in DOMAIN o.items}

Reach(h, R) ==
  LET universe == DOMAIN h \union R
      closed(S) == R \subseteq S /\ \A r \in S \cap DOMAIN h : Refs(Contents(h[r])) \subseteq S
  IN  {r \in universe : \A S \in SUBSET universe : closed(S) => r \in S}

\* materialize for a set of values: it walks everything they reach, fails on a
\* handle that does not resolve and never returns from a cycle.
Materialized(h, V) ==
  LET reached == Reach(h, Refs(V))
  IN  IF reached \subseteq DOMAIN h
        THEN IF \E r \in reached : r \in Reach(h, Refs(Contents(h[r])))
               THEN "overflow" ELSE "ok"
        ELSE "stale"

Allocated(h, o) == [r \in DOMAIN h \union {Cardinality(DOMAIN h) + 1} |->
                      IF r \in DOMAIN h THEN h[r] ELSE o]
NewRef(h) == Cardinality(DOMAIN h) + 1

\* runtime_from_interop: a primitive, or an object made of one.
FromInterop(h) ==
  {[value |-> Primitive("number", t), heap |-> h] : t \in BOOLEAN}
    \union {[value |-> Reference("object", NewRef(h)),
             heap |-> Allocated(h, [kind |-> "object",
                                    fields |-> [n \in {"x"} |-> Primitive("number", TRUE)]])]}
-----------------------------------------------------------------------------
\* value_from_constant; a number that does not parse is a runtime error.
ConstantValue(c) ==
  CASE c.kind = "number" -> Primitive("number", c.text # "0")
    [] c.kind \in {"string", "symbol"} -> Primitive("string", c.text # "")
    [] c.kind = "boolean" -> Primitive("boolean", c.text = "true")
    [] OTHER -> Primitive(c.kind, FALSE)

Parses(c) == c.kind = "number" => c.text \in {"0", "1"}

\* symbol_name.
IsSymbol(c) == c.kind \in {"symbol", "string"}

Truthy(v) == IF IsReference(v) THEN TRUE ELSE v.truth

\* binary: the values it may return, none when it fails.
BinaryResults(op, l, r) ==
  LET both(kind) == l.kind = kind /\ r.kind = kind
      any(kind) == {Primitive(kind, t) : t \in BOOLEAN}
  IN  CASE op = 0 /\ "string" \in {l.kind, r.kind} -> any("string")
        [] op = 0 /\ "string" \notin {l.kind, r.kind} ->
             IF both("number") THEN any("number") ELSE {}
        [] op \in 1..4 -> IF both("number") THEN any("number") ELSE {}
        [] op \in 5..8 -> any("boolean")
        [] op \in 9..12 -> IF both("number") THEN any("boolean") ELSE {}
        [] op = 13 -> {Primitive("boolean", Truthy(l) /\ Truthy(r))}
        [] op = 14 -> {Primitive("boolean", Truthy(l) \/ Truthy(r))}
        [] op = 15 -> {IF l.kind \in {"null", "undefined"} THEN r ELSE l}
        [] OTHER -> {}
-----------------------------------------------------------------------------
Top == frames[Len(frames)]
Code(fr) == module.functions[fr.fn].blocks[fr.block].code
Instr == Code(Top)[Top.pc]

\* Operands of the instruction at hand: as a value, a constant, a number.
ValueAt(p) == Top.values[Instr.args[p] + 1]
ConstAt(p) == module.constants[Instr.args[p] + 1]
NameAt(p) == ConstAt(p).text

\* The operands an instruction indexes whether they are there or not.
Indexed(i) ==
  CASE i.op \in {"LoadConst", "BuildArray", "LoadLocal", "Jump"} -> {1}
    [] i.op \in {"StoreLocal", "LoadMember", "Call"} -> {1, 2}
    [] i.op \in {"StoreMember", "Binary", "Branch"} -> {1, 2, 3}
    [] i.op = "BuildObject" -> IF i.args = <<>> THEN {1} ELSE 1..(1 + 2 * i.args[1])
    [] OTHER -> {}

\* The instruction at hand asks for an operand, a constant, a value or a local
\* that is not there.
Missing ==
  \/ ~(Indexed(Instr) \subseteq DOMAIN Instr.args)
  \/ \E p \in ConstantOperands(Instr) : Instr.args[p] >= Len(module.constants)
  \/ \E p \in ValueOperands(Instr) : Instr.args[p] >= Len(Top.values)
  \/ Instr.op = "LoadLocal" /\ Instr.args[1] >= Len(Top.locals)

\* The names it takes from the constant pool.
NameOperands(i) == IF i.op = "LoadConst" THEN {} ELSE ConstantOperands(i)

Running == status = "running" /\ frames # <<>> /\ Top.pc <= Len(Code(Top))

At(op) == Running /\ Instr.op = op

Fail(error) ==
  /\ status' = error
  /\ UNCHANGED <<module, via, frames, heap, console, result>>

\* An instruction takes effect once its operands are found and its names are
\* symbols.
Checked(effect) ==
  CASE Missing -> Fail("missing")
    [] ~Missing /\ (\E p \in NameOperands(Instr) : ~IsSymbol(ConstAt(p))) -> Fail("runtime")
    [] OTHER -> effect

\* A frame past the instruction it stood at, with its result.
Resumed(fr, v) == [fr EXCEPT !.values = Append(@, v), !.pc = @ + 1]

\* The value of a call goes to the frame that made it, or to the embedder.
Deliver(fs, v) ==
  IF fs = <<>>
    THEN frames' = <<>> /\ status' = "returning" /\ result' = v
    ELSE /\ frames' = [fs EXCEPT ![Len(fs)] = Resumed(fs[Len(fs)], v)]
         /\ status' = "running" /\ UNCHANGED result

\* push_value on the running frame.
Push(v) ==
  /\ Len(Top.values) < MaxValues
  /\ Deliver(frames, v)
  /\ UNCHANGED <<module, via>>

FindFunction(name) ==
  CHOOSE x \in DOMAIN module.functions :
    /\ module.functions[x].name = name
    /\ \A y \in 1..(x - 1) : module.functions[y].name # name

FindBlock(f, id) ==
  CHOOSE b \in DOMAIN f.blocks :
    f.blocks[b].id = id /\ \A c \in 1..(b - 1) : f.blocks[c].id # id

\* Frame::new: the arguments, cut or filled to the parameters.
NewFrame(x, args) ==
  LET f == module.functions[x]
  IN  [fn |-> x, block |-> FindBlock(f, 0), pc |-> 1, values |-> <<>>,
       locals |-> [k \in 1..f.params |-> IF k <= Len(args) THEN args[k] ELSE Undefined]]
-----------------------------------------------------------------------------
\* call_function, by outcome: console.log, arguments that do not materialize, a
\* host function, a function of the module, no function.
InvokeConsole(name, args) ==
  /\ name = "console.log"
  /\ console' = console \o args
  /\ Deliver(frames, Undefined)
  /\ UNCHANGED <<module, via, heap>>

ArgumentValues(args) == {args[k] : k \in DOMAIN args}

InvokeUnmaterialized(name, args) ==
  /\ name # "console.log"
  /\ Materialized(heap, ArgumentValues(args)) # "ok"
  /\ Fail(Materialized(heap, ArgumentValues(args)))

Crosses(name, args) ==
  name # "console.log" /\ Materialized(heap, ArgumentValues(args)) = "ok"

InvokeHost(name, args) ==
  /\ Crosses(name, args) /\ name \in HostFunctions
  /\ \/ Fail("interop")
     \/ \E answer \in FromInterop(heap) :
          /\ Cardinality(DOMAIN answer.heap) <= MaxObjects
          /\ heap' = answer.heap
          /\ Deliver(frames, answer.value)
          /\ UNCHANGED <<module, via, console>>

InvokeFunction(name, args) ==
  /\ Crosses(name, args) /\ name \notin HostFunctions
  /\ \E x \in DOMAIN module.functions : module.functions[x].name = name
  /\ IF BlockExists(module.functions[FindFunction(name)], 0)
       THEN /\ Len(frames) < MaxDepth
            /\ frames' = Append(frames, NewFrame(FindFunction(name), args))
            /\ status' = "running"
            /\ UNCHANGED <<module, via, heap, console, result>>
       ELSE Fail("no entry block")

InvokeUnknown(name, args) ==
  /\ Crosses(name, args) /\ name \notin HostFunctions
  /\ \A x \in DOMAIN module.functions : module.functions[x].name # name
  /\ Fail("runtime")

Invoke(name, args) ==
  \/ InvokeConsole(name, args)
  \/ InvokeUnmaterialized(name, args)
  \/ InvokeHost(name, args)
  \/ InvokeFunction(name, args)
  \/ InvokeUnknown(name, args)
-----------------------------------------------------------------------------
\* execute runs __entry on an empty heap; call_function runs the function the
\* embedder names on arguments it has put on the heap.
Init ==
  /\ module \in Modules
  /\ \/ /\ via = [kind |-> "execute", name |-> "__entry", args |-> <<>>]
        /\ heap = <<>>
     \/ \E name \in Exported, arg \in FromInterop(<<>>) :
          /\ via = [kind |-> "call", name |-> name, args |-> <<arg.value>>]
          /\ heap = arg.heap
  /\ status = "loaded"
  /\ frames = <<>>
  /\ console = <<>>
  /\ result = Undefined

\* verify_module stands before both.
Reject ==
  /\ status = "loaded" /\ ~VerifyModule(module)
  /\ Fail("rejected")

Start ==
  /\ status = "loaded" /\ VerifyModule(module)
  /\ Invoke(via.name, via.args)
-----------------------------------------------------------------------------
\* execute_instruction, one action per opcode.
LoadConst ==
  At("LoadConst") /\ Checked(
    IF Parses(ConstAt(1))
      THEN Push(ConstantValue(ConstAt(1))) /\ UNCHANGED <<heap, console>>
      ELSE Fail("runtime"))

\* The object or array is on the heap before the frame knows its handle.
Build(kind, o) ==
  /\ Cardinality(DOMAIN heap) < MaxObjects
  /\ heap' = Allocated(heap, o)
  /\ Push(Reference(kind, NewRef(heap)))
  /\ UNCHANGED console

\* The fields BuildObject names; a name given twice keeps its last value.
BuiltFields ==
  LET pairs == 1..Instr.args[1]
      last(n) == CHOOSE p \in pairs :
                   NameAt(2 * p) = n /\ \A q \in pairs : NameAt(2 * q) = n => q <= p
  IN  [n \in {NameAt(2 * p) : p \in pairs} |-> ValueAt(2 * last(n) + 1)]

BuildObject ==
  At("BuildObject") /\ Checked(Build("object", [kind |-> "object", fields |-> BuiltFields]))

BuildArray ==
  At("BuildArray") /\ Checked(
    Build("array", [kind |-> "array",
                    items |-> [k \in 1..(Len(Instr.args) - 1) |-> ValueAt(k + 1)]]))

LoadLocal ==
  At("LoadLocal") /\ Checked(
    Push(Top.locals[Instr.args[1] + 1]) /\ UNCHANGED <<heap, console>>)

\* Writes in place and never grows the locals.
StoredLocalInPlace(locals, l, v) ==
  IF l < Len(locals) THEN [locals EXCEPT ![l + 1] = v] ELSE locals

\* store_local grows the locals up to the one it stores to.
StoredLocal(locals, l, v) ==
  [k \in 1..(IF Len(locals) <= l THEN l + 1 ELSE Len(locals)) |->
     CASE k = l + 1 -> v
       [] k # l + 1 /\ k <= Len(locals) -> locals[k]
       [] OTHER -> Undefined]

Advanced(fr) == [fr EXCEPT !.pc = @ + 1]

\* The running frame moves on; nothing else changes but what the caller says.
Advance(fr) ==
  /\ frames' = [frames EXCEPT ![Len(frames)] = Advanced(fr)]
  /\ UNCHANGED <<module, via, status, console, result>>

StoreLocal ==
  At("StoreLocal") /\ Checked(
    /\ Advance([Top EXCEPT !.locals = StoredLocal(@, Instr.args[1], ValueAt(2))])
    /\ UNCHANGED heap)

\* load_member: an absent field reads as undefined.
LoadMember ==
  At("LoadMember") /\ Checked(
    CASE ValueAt(1).kind # "object" -> Fail("runtime")
      [] ValueAt(1).kind = "object" /\ ValueAt(1).ref \notin DOMAIN heap -> Fail("stale")
      [] OTHER ->
           LET fields == heap[ValueAt(1).ref].fields
           IN  /\ Push(IF NameAt(2) \in DOMAIN fields THEN fields[NameAt(2)] ELSE Undefined)
               /\ UNCHANGED <<heap, console>>)

\* store_member.
StoreMember ==
  At("StoreMember") /\ Checked(
    CASE ValueAt(1).kind # "object" -> Fail("runtime")
      [] ValueAt(1).kind = "object" /\ ValueAt(1).ref \notin DOMAIN heap -> Fail("stale")
      [] OTHER ->
           LET fields == heap[ValueAt(1).ref].fields
           IN  /\ heap' = [heap EXCEPT ![ValueAt(1).ref].fields =
                             [n \in DOMAIN fields \union {NameAt(2)} |->
                                IF n = NameAt(2) THEN ValueAt(3) ELSE fields[n]]]
               /\ Advance(Top))

Binary ==
  At("Binary") /\ Checked(
    LET results == BinaryResults(Instr.args[1], ValueAt(2), ValueAt(3))
    IN  IF results = {}
          THEN Fail("runtime")
          ELSE \E v \in results : Push(v) /\ UNCHANGED <<heap, console>>)

Call ==
  At("Call") /\ Checked(
    /\ Len(Top.values) < MaxValues
    /\ Invoke(NameAt(1), [k \in 1..Instr.args[2] |-> ValueAt(k + 2)]))

\* The next block starts with the values and the locals the frame has.
GoTo(id) ==
  LET f == module.functions[Top.fn]
  IN  IF BlockExists(f, id)
        THEN /\ frames' = [frames EXCEPT ![Len(frames)] =
                             [Top EXCEPT !.block = FindBlock(f, id), !.pc = 1]]
             /\ UNCHANGED <<module, via, status, heap, console, result>>
        ELSE Fail("missing")

Branch ==
  At("Branch") /\ Checked(
    GoTo(IF Truthy(ValueAt(1)) THEN Instr.args[2] ELSE Instr.args[3]))

Jump == At("Jump") /\ Checked(GoTo(Instr.args[1]))

Caller == SubSeq(frames, 1, Len(frames) - 1)

Return ==
  At("Return") /\ Checked(
    /\ Deliver(Caller, IF Instr.args = <<>> THEN Undefined ELSE ValueAt(1))
    /\ UNCHANGED <<module, via, heap, console>>)

\* A block that ends without a jump returns undefined.
FallOff ==
  /\ status = "running" /\ frames # <<>> /\ Top.pc > Len(Code(Top))
  /\ Deliver(Caller, Undefined)
  /\ UNCHANGED <<module, via, heap, console>>

\* What crosses to the embedder: execute returns the console and the result,
\* call_function the result alone.
Outputs ==
  {result} \union (IF via.kind = "execute" THEN ArgumentValues(console) ELSE {})

\* Keeps alive what the console shows only.
RootsOfConsole == Refs(ArgumentValues(console))

\* runtime_roots and extend_roots.
Roots == Refs(Outputs)

\* The final collection, then materialize on what it left.
Finish ==
  LET kept == Reach(heap, Roots) \cap DOMAIN heap
      collected == [r \in kept |-> heap[r]]
      outcome == Materialized(collected, Outputs)
  IN  /\ status = "returning"
      /\ heap' = collected
      /\ status' = IF outcome = "ok" THEN "done" ELSE outcome
      /\ UNCHANGED <<module, via, frames, console, result>>

Step ==
  \/ LoadConst \/ BuildObject \/ BuildArray \/ LoadLocal \/ StoreLocal
  \/ LoadMember \/ StoreMember \/ Binary \/ Call \/ Branch \/ Jump \/ Return \/ FallOff

Next == Reject \/ Start \/ Step \/ Finish

Spec == Init /\ [][Next]_vars

-----------------------------------------------------------------------------
\* What the verifier promises the interpreter: a verified module never asks for
\* an operand, a constant, a value, a local or a jump target that is not there,
\* whatever path its branches take and however its functions call each other.
VerifiedNeverMissing == status # "missing"

\* Why it holds: whatever the verifier counted as defined before an instruction
\* of a block, the frame has by the time it gets there, on every path.
FramesCoverBlocks ==
  \A x \in DOMAIN frames :
    LET fr == frames[x]
    IN  /\ DefinedCount(Code(fr), fr.pc) <= Len(fr.values)
        /\ \A l \in 0..(MaxValues + Len(fr.locals)) :
             LocalKnown(module.functions[fr.fn].params, Code(fr), fr.pc, l) => l < Len(fr.locals)

\* Every handle that a frame, the console, the result or an object holds resolves
\* until the embedder has its copy: nothing the program can still name and
\* nothing it returns is collected.
HandlesResolve ==
  /\ status # "stale"
  /\ status \in {"running", "returning"} =>
       LET held == ArgumentValues(console) \union {result}
                     \union (UNION {ArgumentValues(frames[x].values) : x \in DOMAIN frames})
                     \union (UNION {ArgumentValues(frames[x].locals) : x \in DOMAIN frames})
                     \union (UNION {Contents(heap[r]) : r \in DOMAIN heap})
       IN  Refs(held) \subseteq DOMAIN heap

=============================================================================
