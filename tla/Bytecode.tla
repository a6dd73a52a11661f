------------------------------ MODULE Bytecode ------------------------------
(***************************************************************************)
(* Bytecode modules and their verifier (runtime/bytecode).                 *)
(*                                                                         *)
(*   module       [header, constants, functions, sources]                  *)
(*   function     [name, params, blocks, exceptions]                       *)
(*   block        [id, code]                                               *)
(*   instruction  [op, args, typed, source]                                *)
(*                                                                         *)
(* header says whether magic and version are the expected ones, params and *)
(* sources are lengths, typed says that the type tag is not Unknown.       *)
(* Operands, block ids and the values and locals they name count from 0,   *)
(* as in the code; sequences count from 1.                                 *)
(***************************************************************************)
EXTENDS Naturals, Sequences, FiniteSets

Opcodes ==
  {"LoadConst", "BuildObject", "BuildArray", "LoadLocal", "StoreLocal", "LoadMember",
   "StoreMember", "Binary", "Call", "Branch", "Jump", "Return"}

\* instruction_result_value: the opcodes whose result is the block's next value.
Defines(i) ==
  i.op \in {"LoadConst", "BuildObject", "BuildArray", "LoadLocal", "LoadMember", "Binary", "Call"}

Terminates(i) == i.op \in {"Return", "Jump", "Branch"}

\* defined_values before instruction k is 0 .. DefinedCount(code, k) - 1.
DefinedCount(code, k) == Cardinality({j \in 1..(k - 1) : Defines(code[j])})

\* l < local_count before instruction k: a parameter, or no larger than a local
\* stored to before in the block.  A store may add one local, never skip one, so
\* while nothing was rejected local_count is one more than the largest of them.
LocalKnown(params, code, k, l) ==
  \/ l < params
  \/ \E j \in 1..(k - 1) :
       code[j].op = "StoreLocal" /\ Len(code[j].args) = 2 /\ l <= code[j].args[1]

BlockExists(f, id) == \E b \in DOMAIN f.blocks : f.blocks[b].id = id

CheckLocal(params, code, k, l) == LocalKnown(params, code, k, l)

\* Accepts any value the block defines, before or after.
CheckValueAnywhere(code, k, v) == v < DefinedCount(code, Len(code) + 1)

CheckValue(code, k, v) == v < DefinedCount(code, k)

CheckConstant(m, c) == c < Len(m.constants)

\* expect_operands and the counts the variadic instructions carry.
OperandCounts(i) ==
  LET n == Len(i.args)
  IN  /\ i.op \in {"LoadConst", "LoadLocal", "Jump"} => n = 1
      /\ i.op \in {"StoreLocal", "LoadMember"} => n = 2
      /\ i.op \in {"StoreMember", "Binary", "Branch"} => n = 3
      /\ i.op = "BuildObject" => n > 0 /\ n = 1 + 2 * i.args[1]
      /\ i.op = "BuildArray" => n > 0 /\ n = 1 + i.args[1]
      /\ i.op = "Call" => n > 1 /\ n = 2 + i.args[2]
      /\ i.op = "Return" => n <= 1

\* The operands of an instruction with the right number of them, by what they
\* index.
ConstantOperands(i) ==
  CASE i.op \in {"LoadConst", "Call"} -> {1}
    [] i.op \in {"LoadMember", "StoreMember"} -> {2}
    [] i.op = "BuildObject" -> {2 * p : p \in 1..i.args[1]}
    [] OTHER -> {}

ValueOperands(i) ==
  CASE i.op = "StoreLocal" -> {2}
    [] i.op \in {"LoadMember", "Branch"} -> {1}
    [] i.op = "StoreMember" -> {1, 3}
    [] i.op = "Binary" -> {2, 3}
    [] i.op = "BuildObject" -> {2 * p + 1 : p \in 1..i.args[1]}
    [] i.op = "BuildArray" -> 2..Len(i.args)
    [] i.op = "Call" -> 3..Len(i.args)
    [] i.op = "Return" -> 1..Len(i.args)
    [] OTHER -> {}

BlockOperands(i) ==
  CASE i.op = "Branch" -> {2, 3}
    [] i.op = "Jump" -> {1}
    [] OTHER -> {}

\* verify_instruction for instruction k of a block of f.
VerifyInstruction(m, f, code, k) ==
  LET i == code[k]
  IN  /\ i.source < m.sources
      /\ OperandCounts(i)
      /\ \A p \in ConstantOperands(i) : CheckConstant(m, i.args[p])
      /\ \A p \in ValueOperands(i) : CheckValue(code, k, i.args[p])
      /\ \A p \in BlockOperands(i) : BlockExists(f, i.args[p])
      /\ i.op = "LoadLocal" => CheckLocal(f.params, code, k, i.args[1])
      /\ i.op = "StoreLocal" =>
           i.args[1] = 0 \/ LocalKnown(f.params, code, k, i.args[1] - 1)
      /\ i.op = "Binary" => i.typed

ExceptionEntryOk(f, e) ==
  /\ BlockExists(f, e.start) /\ BlockExists(f, e.end) /\ BlockExists(f, e.handler)
  /\ e.start <= e.end

\* verify_function: values and locals start anew in every block; one terminator
\* anywhere in the function is enough.
VerifyFunction(m, f) ==
  /\ \A x \in DOMAIN f.exceptions : ExceptionEntryOk(f, f.exceptions[x])
  /\ \A b \in DOMAIN f.blocks : \A k \in DOMAIN f.blocks[b].code :
       VerifyInstruction(m, f, f.blocks[b].code, k)
  /\ \E b \in DOMAIN f.blocks : \E k \in DOMAIN f.blocks[b].code :
       Terminates(f.blocks[b].code[k])

\* verify_module.
VerifyModule(m) ==
  /\ m.header
  /\ m.functions # <<>>
  /\ \A x \in DOMAIN m.functions : VerifyFunction(m, m.functions[x])
-----------------------------------------------------------------------------
InstructionType ==
  [op : Opcodes, args : Seq(Nat), typed : BOOLEAN, source : Nat]

BlockType == [id : Nat, code : Seq(InstructionType)]

ExceptionType == [start : Nat, end : Nat, handler : Nat]

FunctionType(names) ==
  [name : names, params : Nat, blocks : Seq(BlockType), exceptions : Seq(ExceptionType)]

ConstantType(texts) ==
  [kind : {"number", "string", "boolean", "null", "undefined", "symbol"}, text : texts]

ModuleType(names) ==
  [header : BOOLEAN, constants : Seq(ConstantType(names)), functions : Seq(FunctionType(names)),
   sources : Nat]
=============================================================================
