------------------------------ MODULE Lowering ------------------------------
(***************************************************************************)
(* One function on its way from syntax to bytecode: the FunctionLowerer of *)
(* runtime/ir and the Compiler of runtime/bytecode, whose output goes to   *)
(* the verifier of module Bytecode.                                        *)
(*                                                                         *)
(* The lowerer walks a syntax tree; here its calls come in the order in    *)
(* which they emit code, an operand before its operator, and the values it *)
(* holds on the way are the stack.  Every sequence of these steps is the   *)
(* walk of one tree.  Of a type the model keeps whether it is known, which *)
(* is what the verifier asks of a binary instruction; of names, what the   *)
(* semantic analysis in front lets through: declarations that are new in   *)
(* their scope, and identifiers that are in scope, except in the arguments *)
(* of calls, which it need not look at (see Semantics).                    *)
(***************************************************************************)
EXTENDS Bytecode

CONSTANTS
  Variables,   \* names of parameters and variables
  Globals,     \* names in scope that are no variables: functions, console
  Profiles,    \* bound: the kinds of syntax a function uses together, and how
               \* many instructions it may have
  MaxParams,   \* bound: parameters
  MaxStack,    \* bound: values held at a time
  MaxNesting,  \* bound: blocks and ifs inside each other
  MaxArity     \* bound: arguments, elements, properties

Syntax ==
  {"identifier", "literal", "object", "array", "member", "call", "binary", "assign",
   "member assign", "variable", "expression", "return", "block", "if"}

\* What an instruction without a local has in the place of its name.
NoLocal == "no local"

ASSUME LoweringAssumption ==
  /\ Variables \cap Globals = {} /\ NoLocal \notin Variables \union Globals
  /\ Profiles \subseteq [syntax : SUBSET Syntax, instructions : Nat]
  /\ MaxParams \in Nat /\ MaxStack \in Nat /\ MaxNesting \in Nat /\ MaxArity \in Nat

VARIABLES
  profile,    \* what this function uses
  entry,      \* whether this is __entry
  params,
  blocks,     \* the instructions of each block; block id b is blocks[b + 1]
  current,    \* current_block
  nextValue,  \* next_value
  stack,      \* values of the expression being lowered: [value, known, bound]
  known,      \* the names whose type in locals is known
  scopes,     \* the analyzer's value_scopes inside the function
  open,       \* blocks and ifs being lowered, innermost last
  finished

code == <<blocks, current, nextValue>>
vars == <<profile, entry, params, code, stack, known, scopes, open, finished>>
-----------------------------------------------------------------------------
\* An identifier semantic analysis resolves.
Visible == Globals \union UNION {scopes[k] : k \in DOMAIN scopes}

\* An instruction, its operands by what they name; result is read for the
\* opcodes that define a value only, visible of those that name a local.
Ir(op, local, consts, values, targets, typed) ==
  [op |-> op, local |-> local, consts |-> consts, values |-> values, targets |-> targets,
   typed |-> typed, result |-> nextValue, visible |-> local \in Visible]

\* Instructions that name no local, no constant or no block leave that out.
Define(op, consts, values, typed) == Ir(op, NoLocal, consts, values, <<>>, typed)
Store(name, value) == Ir("StoreLocal", name, <<>>, <<value>>, <<>>, TRUE)
JumpTo(b) == Ir("Jump", NoLocal, <<>>, <<>>, <<b>>, TRUE)

\* Puts the instruction into the block created last.
EmittedAtEnd(bs, b, i) == [bs EXCEPT ![Len(bs)] = Append(@, i)]

\* emit: the instruction goes to the end of block b.
Emitted(bs, b, i) == [bs EXCEPT ![b + 1] = Append(@, i)]

Places == UNION {{b} \X DOMAIN blocks[b] : b \in DOMAIN blocks}
Instruction(p) == blocks[p[1]][p[2]]

Room(n) == Cardinality(Places) + n <= profile.instructions

\* The top n values of the stack, and what is below them.
Values(n) == [k \in 1..n |-> stack[Len(stack) - n + k].value]
Below(n) == SubSeq(stack, 1, Len(stack) - n)
AllBound(n) == \A k \in Len(stack) - n + 1 .. Len(stack) : stack[k].bound
Top == stack[Len(stack)]

\* The innermost thing being lowered takes one more statement.
InIf == open # <<>> /\ open[Len(open)].kind = "if"
Open == ~finished /\ (InIf => ~open[Len(open)].done)

\* A statement is complete: the body of an if is one statement.
Completed(os) ==
  [k \in DOMAIN os |-> IF k = Len(os) /\ os[k].kind = "if" THEN [os[k] EXCEPT !.done = TRUE]
                                                           ELSE os[k]]

Init ==
  /\ profile \in Profiles
  /\ entry \in BOOLEAN
  /\ params \in UNION {{p \in [1..n -> Variables] : \A i, j \in 1..n : p[i] = p[j] => i = j} :
                         n \in 0..MaxParams}
  /\ entry => params = <<>>
  /\ blocks = <<<<>>>> /\ current = 0 /\ nextValue = 0
  /\ stack = <<>>
  /\ known \in SUBSET {params[k] : k \in DOMAIN params}
  /\ scopes = <<{params[k] : k \in DOMAIN params}>>
  /\ open = <<>>
  /\ finished = FALSE
-----------------------------------------------------------------------------
\* Expressions.  Each takes its operands from the stack and leaves its value.

\* allocate_value, emit with a result, and the value returned to the caller.
\* It is bound when all the names it is made of are visible.
Produce(i, n, isKnown) ==
  /\ Open /\ Room(1) /\ Len(stack) >= n /\ Len(stack) < MaxStack + n
  /\ blocks' = Emitted(blocks, current, i)
  /\ nextValue' = nextValue + 1
  /\ stack' = Append(Below(n),
                     [value |-> nextValue, known |-> isKnown,
                      bound |-> IF i.op = "LoadLocal" THEN i.visible
                                ELSE i.op = "Call" \/ AllBound(n)])
  /\ UNCHANGED <<profile, entry, params, current, known, scopes, open, finished>>

Identifier(name) ==
  Produce(Ir("LoadLocal", name, <<>>, <<>>, <<>>, name \in known), 0, name \in known)

\* A number, a string, a boolean, null, undefined.
Literal == Produce(Define("LoadConst", <<"literal">>, <<>>, TRUE), 0, TRUE)

ObjectLiteral(n) ==
  Produce(Define("BuildObject", [k \in 1..n |-> "property"], Values(n), TRUE), n, TRUE)

ArrayLiteral(n) == Produce(Define("BuildArray", <<>>, Values(n), TRUE), n, TRUE)

\* member_type knows the fields of object types only.
Member(isKnown) ==
  Produce(Define("LoadMember", <<"property">>, Values(1), isKnown), 1, isKnown)

\* The callee is a name, never a value.  What is in the arguments goes no
\* further than here.
CallExpression(n) == Produce(Define("Call", <<"callee">>, Values(n), FALSE), n, FALSE)

\* binary_type gives every operator a type but ??.
BinaryExpression(nullish) ==
  Produce(Define("Binary", <<>>, Values(2), ~nullish), 2, ~nullish)

\* lower_assignment to an identifier: the operator is not looked at, and the
\* value stays for the enclosing expression.
AssignIdentifier(name) ==
  /\ Open /\ Room(1) /\ stack # <<>>
  /\ blocks' = Emitted(blocks, current, Store(name, Top.value))
  /\ stack' = Append(Below(1), [Top EXCEPT !.bound = @ /\ name \in Visible])
  /\ UNCHANGED <<profile, entry, params, current, nextValue, known, scopes, open, finished>>

\* lower_assignment to a member with "=".
AssignMember ==
  /\ Open /\ Room(1) /\ Len(stack) >= 2
  /\ blocks' = Emitted(blocks, current,
                       Define("StoreMember", <<"property">>, Values(2), TRUE))
  /\ stack' = Append(Below(2), [Top EXCEPT !.bound = AllBound(2)])
  /\ UNCHANGED <<profile, entry, params, current, nextValue, known, scopes, open, finished>>

\* Allocates the result before the value that is read.
CompoundAssignMemberSwapped ==
  LET object == Values(2)[1]
      read == [Define("LoadMember", <<"property">>, <<object>>, Top.known)
                 EXCEPT !.result = nextValue + 1]
      combine == Define("Binary", <<>>, <<nextValue + 1, Top.value>>, Top.known)
      write == Define("StoreMember", <<"property">>, <<object, nextValue>>, TRUE)
      step1 == Emitted(blocks, current, read)
      step2 == Emitted(step1, current, combine)
  IN  /\ Open /\ Room(3) /\ Len(stack) >= 2
      /\ blocks' = Emitted(step2, current, write)
      /\ nextValue' = nextValue + 2
      /\ stack' = Append(Below(2), [value |-> nextValue, known |-> Top.known, bound |-> AllBound(2)])
      /\ UNCHANGED <<profile, entry, params, current, known, scopes, open, finished>>

\* lower_assignment to a member with a compound operator: read, combine, write.
CompoundAssignMember ==
  LET object == Values(2)[1]
      read == Define("LoadMember", <<"property">>, <<object>>, Top.known)
      combine == [Define("Binary", <<>>, <<nextValue, Top.value>>, Top.known)
                    EXCEPT !.result = nextValue + 1]
      write == Define("StoreMember", <<"property">>, <<object, nextValue + 1>>, TRUE)
      step1 == Emitted(blocks, current, read)
      step2 == Emitted(step1, current, combine)
  IN  /\ Open /\ Room(3) /\ Len(stack) >= 2
      /\ blocks' = Emitted(step2, current, write)
      /\ nextValue' = nextValue + 2
      /\ stack' = Append(Below(2), [value |-> nextValue + 1, known |-> Top.known, bound |-> AllBound(2)])
      /\ UNCHANGED <<profile, entry, params, current, known, scopes, open, finished>>
-----------------------------------------------------------------------------
\* Statements.  Each starts with its expressions lowered and leaves no value.

\* Declares name in the innermost scope, with a known type or not.
Declared(name, isKnown) ==
  /\ name \notin scopes[Len(scopes)]
  /\ scopes' = [scopes EXCEPT ![Len(scopes)] = @ \union {name}]
  /\ known' = IF isKnown THEN known \union {name} ELSE known \ {name}

\* lower_variable with an initializer, with or without a declared type.
Variable(name, declared) ==
  /\ Open /\ Room(1) /\ Len(stack) = 1 /\ AllBound(1)
  /\ Declared(name, declared \/ Top.known)
  /\ blocks' = Emitted(blocks, current, Store(name, Top.value))
  /\ stack' = <<>>
  /\ open' = Completed(open)
  /\ UNCHANGED <<profile, entry, params, current, nextValue, finished>>

\* lower_variable without: undefined is loaded first.
VariableUndefined(name) ==
  /\ Open /\ Room(2) /\ stack = <<>>
  /\ Declared(name, TRUE)
  /\ blocks' = Emitted(Emitted(blocks, current, Define("LoadConst", <<"undefined">>, <<>>, TRUE)),
                       current, Store(name, nextValue))
  /\ nextValue' = nextValue + 1
  /\ open' = Completed(open)
  /\ UNCHANGED <<profile, entry, params, current, stack, finished>>

\* An expression statement; throw lowers to its expression.
ExpressionStatement ==
  /\ Open /\ Len(stack) = 1 /\ AllBound(1)
  /\ stack' = <<>>
  /\ open' = Completed(open)
  /\ UNCHANGED <<profile, entry, params, code, known, scopes, finished>>

\* return, with a value or without.
ReturnStatement ==
  /\ Open /\ Room(1) /\ Len(stack) <= 1 /\ AllBound(Len(stack))
  /\ blocks' = Emitted(blocks, current, Ir("Return", NoLocal, <<>>, Values(Len(stack)), <<>>, TRUE))
  /\ stack' = <<>>
  /\ open' = Completed(open)
  /\ UNCHANGED <<profile, entry, params, current, nextValue, known, scopes, finished>>

\* while, for, import, class and the declarations of types lower to nothing.
Skipped ==
  /\ Open /\ InIf /\ stack = <<>>
  /\ open' = Completed(open)
  /\ UNCHANGED <<profile, entry, params, code, stack, known, scopes, finished>>

Block ==
  /\ Open /\ stack = <<>> /\ Len(open) < MaxNesting
  /\ open' = Append(open, [kind |-> "block"])
  /\ scopes' = Append(scopes, {})
  /\ UNCHANGED <<profile, entry, params, code, stack, known, finished>>

EndBlock ==
  /\ ~finished /\ stack = <<>>
  /\ open # <<>> /\ open[Len(open)].kind = "block"
  /\ open' = Completed(SubSeq(open, 1, Len(open) - 1))
  /\ scopes' = SubSeq(scopes, 1, Len(scopes) - 1)
  /\ UNCHANGED <<profile, entry, params, code, stack, known, finished>>

\* The test of an if: three blocks, a branch, and on into the first.
If ==
  LET thenBlock == Len(blocks)
      elseBlock == Len(blocks) + 1
      mergeBlock == Len(blocks) + 2
      branch == Ir("Branch", NoLocal, <<>>, <<Top.value>>, <<thenBlock, elseBlock>>, TRUE)
  IN  /\ Open /\ Room(3) /\ Len(stack) = 1 /\ AllBound(1) /\ Len(open) < MaxNesting
      /\ blocks' = Emitted(blocks \o <<<<>>, <<>>, <<>>>>, current, branch)
      /\ current' = thenBlock
      /\ stack' = <<>>
      /\ open' = Append(open, [kind |-> "if", part |-> "then", done |-> FALSE,
                               elseBlock |-> elseBlock, mergeBlock |-> mergeBlock])
      /\ UNCHANGED <<profile, entry, params, nextValue, known, scopes, finished>>

\* The body of the innermost if is lowered.
BodyDone(part) ==
  ~finished /\ InIf /\ open[Len(open)].done /\ open[Len(open)].part = part

\* else.
Else ==
  LET this == open[Len(open)]
  IN  /\ BodyDone("then") /\ Room(2)
      /\ blocks' = Emitted(blocks, current, JumpTo(this.mergeBlock))
      /\ current' = this.elseBlock
      /\ open' = [open EXCEPT ![Len(open)] = [@ EXCEPT !.part = "else", !.done = FALSE]]
      /\ UNCHANGED <<profile, entry, params, nextValue, stack, known, scopes, finished>>

\* Stays in the block of the alternative.
EndIfInElse ==
  LET this == open[Len(open)]
  IN  /\ BodyDone("else") /\ Room(1)
      /\ blocks' = Emitted(blocks, current, JumpTo(this.mergeBlock))
      /\ open' = Completed(SubSeq(open, 1, Len(open) - 1))
      /\ UNCHANGED <<profile, entry, params, current, nextValue, stack, known, scopes, finished>>

\* The end of an if with an alternative.
EndIf ==
  LET this == open[Len(open)]
  IN  /\ BodyDone("else") /\ Room(1)
      /\ blocks' = Emitted(blocks, current, JumpTo(this.mergeBlock))
      /\ current' = this.mergeBlock
      /\ open' = Completed(SubSeq(open, 1, Len(open) - 1))
      /\ UNCHANGED <<profile, entry, params, nextValue, stack, known, scopes, finished>>

\* The end of an if without one: its else block only jumps on.
EndIfWithoutElse ==
  LET this == open[Len(open)]
      jump == JumpTo(this.mergeBlock)
  IN  /\ BodyDone("then") /\ Room(2)
      /\ blocks' = Emitted(Emitted(blocks, current, jump), this.elseBlock, jump)
      /\ current' = this.mergeBlock
      /\ open' = Completed(SubSeq(open, 1, Len(open) - 1))
      /\ UNCHANGED <<profile, entry, params, nextValue, stack, known, scopes, finished>>

\* finish: __entry gets a return at its end, other functions as they are.
Finish ==
  /\ Open /\ open = <<>> /\ stack = <<>>
  /\ entry => Room(1)
  /\ blocks' = IF entry THEN Emitted(blocks, current, Ir("Return", NoLocal, <<>>, <<>>, <<>>, TRUE))
                        ELSE blocks
  /\ finished' = TRUE
  /\ UNCHANGED <<profile, entry, params, current, nextValue, stack, known, scopes, open>>

Uses(form) == form \in profile.syntax

Expression ==
  \/ Uses("identifier") /\ \E name \in Variables \union Globals : Identifier(name)
  \/ Uses("literal") /\ Literal
  \/ Uses("object") /\ \E n \in 0..MaxArity : ObjectLiteral(n)
  \/ Uses("array") /\ \E n \in 0..MaxArity : ArrayLiteral(n)
  \/ Uses("member") /\ \E isKnown \in BOOLEAN : Member(isKnown)
  \/ Uses("call") /\ \E n \in 0..MaxArity : CallExpression(n)
  \/ Uses("binary") /\ \E nullish \in BOOLEAN : BinaryExpression(nullish)
  \/ Uses("assign") /\ \E name \in Variables \union Globals : AssignIdentifier(name)
  \/ Uses("member assign") /\ AssignMember
  \/ Uses("member assign") /\ CompoundAssignMember

Statement ==
  \/ Uses("variable") /\ \E name \in Variables, declared \in BOOLEAN : Variable(name, declared)
  \/ Uses("variable") /\ \E name \in Variables : VariableUndefined(name)
  \/ Uses("expression") /\ ExpressionStatement
  \/ Uses("return") /\ ReturnStatement
  \/ Uses("block") /\ Block
  \/ EndBlock
  \/ Uses("if") /\ If
  \/ Skipped
  \/ Else
  \/ EndIf
  \/ EndIfWithoutElse
  \/ Finish

Next == Expression \/ Statement

Spec == Init /\ [][Next]_vars
-----------------------------------------------------------------------------
\* The compiler.  Names and constants get the index of their first occurrence
\* in the order of the blocks, which is not the order they were lowered in.
Before(p, q) == p[1] < q[1] \/ (p[1] = q[1] /\ p[2] < q[2])

\* The items of S that occur for the first time before x does.
Earlier(S, Occurrences(_), x) ==
  {y \in S \ {x} : \E p \in Occurrences(y) : \A q \in Occurrences(x) : ~Before(q, p)}

LocalUses(name) == {p \in Places : Instruction(p).local = name}

\* Hands out locals after the parameters without knowing the parameters' own.
LocalIdForgettingParams(name) ==
  Len(params) + Cardinality(Earlier(Variables \union Globals, LocalUses, name))

\* local_id, with the parameters inserted first.
LocalId(name) ==
  IF \E k \in DOMAIN params : params[k] = name
    THEN (CHOOSE k \in DOMAIN params : params[k] = name) - 1
    ELSE Len(params) + Cardinality(Earlier((Variables \union Globals)
                                             \ {params[k] : k \in DOMAIN params},
                                           LocalUses, name))

Pool == UNION {{Instruction(p).consts[k] : k \in DOMAIN Instruction(p).consts} : p \in Places}

ConstantUses(c) ==
  {p \in Places : \E k \in DOMAIN Instruction(p).consts : Instruction(p).consts[k] = c}

\* intern_constant.  No instruction names two different constants.
ConstantId(c) == Cardinality(Earlier(Pool, ConstantUses, c))

\* compile_instruction: operands in the order of the encoding.
Operands(i) ==
  LET n == Len(i.values)
      constant(k) == ConstantId(i.consts[k])
  IN  CASE i.op = "LoadConst" -> <<constant(1)>>
        [] i.op = "BuildObject" -> [k \in 1..(1 + 2 * n) |->
                                      CASE k = 1 -> n
                                        [] k > 1 /\ k % 2 = 0 -> constant(k \div 2)
                                        [] OTHER -> i.values[k \div 2]]
        [] i.op = "BuildArray" -> <<n>> \o i.values
        [] i.op = "LoadLocal" -> <<LocalId(i.local)>>
        [] i.op = "StoreLocal" -> <<LocalId(i.local)>> \o i.values
        [] i.op = "LoadMember" -> <<i.values[1], constant(1)>>
        [] i.op = "StoreMember" -> <<i.values[1], constant(1), i.values[2]>>
        [] i.op = "Binary" -> <<0>> \o i.values
        [] i.op = "Call" -> <<constant(1), n>> \o i.values
        [] OTHER -> i.values \o i.targets

\* Source spans are interned like constants; one stands for all.
Compiled(i) == [op |-> i.op, args |-> Operands(i), typed |-> i.typed, source |-> 0]

CompiledFunction ==
  [name |-> IF entry THEN "__entry" ELSE "f", params |-> Len(params), exceptions |-> <<>>,
   blocks |-> [b \in DOMAIN blocks |->
                 [id |-> b - 1, code |-> [k \in DOMAIN blocks[b] |-> Compiled(blocks[b][k])]]]]

CompiledModule ==
  [header |-> TRUE, functions |-> <<CompiledFunction>>, sources |-> 1,
   constants |-> [k \in 1..Cardinality(Pool) |-> CHOOSE c \in Pool : ConstantId(c) = k - 1]]
-----------------------------------------------------------------------------
\* Every value an instruction takes was defined before it in its own block, and
\* no two instructions define one value: expressions never straddle a branch,
\* however ifs are nested, so values could be numbered block by block.
ValuesStayInBlock ==
  /\ \A p \in Places : \A k \in DOMAIN Instruction(p).values :
       \E q \in Places : /\ q[1] = p[1] /\ Before(q, p)
                         /\ Defines(Instruction(q))
                         /\ Instruction(q).result = Instruction(p).values[k]
  /\ \A p, q \in Places :
       (Defines(Instruction(p)) /\ Defines(Instruction(q))
          /\ Instruction(p).result = Instruction(q).result) => p = q

\* Without a branch, the number the lowerer gives a value is the place the frame
\* will push it to, so an operand reads the value it was lowered from and not
\* another that happens to be there.
ValuesAreFramePositions ==
  Len(blocks) = 1 =>
    \A p \in Places :
      Defines(Instruction(p)) => Instruction(p).result = DefinedCount(blocks[1], p[2])

\* The blocks that are still to be filled: the one being filled, and the
\* alternatives and continuations of the ifs around it.
Waiting ==
  {current} \union {open[k].mergeBlock : k \in {j \in DOMAIN open : open[j].kind = "if"}}
    \union {open[k].elseBlock : k \in {j \in DOMAIN open : /\ open[j].kind = "if"
                                                           /\ open[j].part = "then"}}

\* Every block the lowerer has left ends in a branch or a jump to a block that
\* exists, every block it has not come to is empty, and it never comes back to
\* one it has left: control cannot fall off the end of a block except the last.
BlocksAreClosed ==
  \A b \in DOMAIN blocks :
    LET last == blocks[b][Len(blocks[b])]
    IN  IF b - 1 \in Waiting
          THEN b - 1 # current => blocks[b] = <<>>
          ELSE /\ blocks[b] # <<>>
               /\ last.op \in {"Branch", "Jump"}
               /\ \A k \in DOMAIN last.targets : last.targets[k] + 1 \in DOMAIN blocks

\* What a function may do without losing the verifier: use variables only and
\* read those in scope, use operators whose type is known, and return somewhere.
ReadsVariables ==
  \A p \in Places : /\ Instruction(p).local \in Variables \union {NoLocal}
                    /\ Instruction(p).op = "LoadLocal" => Instruction(p).visible
OperatorsTyped == \A p \in Places : Instruction(p).op = "Binary" => Instruction(p).typed
Returns == \E p \in Places : Instruction(p).op = "Return"

\* A function without an if that returns, uses variables in scope only and has
\* typed operators passes the verifier: lowering, the compiler's numbering of locals
\* and constants, and the verifier's counting agree.
StraightLineVerifies ==
  (finished /\ Len(blocks) = 1 /\ Returns /\ ReadsVariables /\ OperatorsTyped)
    => VerifyModule(CompiledModule)

\* The same of a function with branches, as docs/milestones.md has it:
\* "Interpreter supports local variables, member access, member mutation,
\* arithmetic, function calls, branches, jumps, returns".
BranchesVerify ==
  (finished /\ Returns /\ ReadsVariables /\ OperatorsTyped) => VerifyModule(CompiledModule)
=============================================================================
