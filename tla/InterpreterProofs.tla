------------------------- MODULE InterpreterProofs -------------------------
(***************************************************************************)
(* Proofs about the interpreter, for every set of modules.  Parts 1 to 7:  *)
(* the verifier keeps its promise, a verified program never asks for an    *)
(* operand, constant, value, local or block that is not there.  Parts 8 to *)
(* 12: no handle it can still name or return goes stale.  Parts 13 to 20:  *)
(* a module decodes from its bytes, whole, and from nothing less or more.  *)
(*                                                                         *)
(* The verifier counts from nothing in every block; a frame keeps what it  *)
(* has.  The invariant says that every frame on the stack covers what the  *)
(* verifier counted up to the instruction it stands at, and that every     *)
(* frame below the innermost stands at a call: what the call returns is    *)
(* the value the verifier counts for it.                                   *)
(***************************************************************************)
EXTENDS Loading, SequenceFacts, FiniteSetTheorems, TLAPS

(***************************************************************************)
(* Part 1: what the verifier counts, from one instruction to the next.     *)
(***************************************************************************)

\* Nothing is defined before the first instruction of a block.
LEMMA DefinedAtStart == ASSUME NEW c PROVE DefinedCount(c, 1) = 0
<1>1. {j \in 1..(1 - 1) : Defines(c[j])} = {}
  OBVIOUS
<1> QED BY <1>1, FS_EmptySet DEF DefinedCount

\* define_value: an instruction adds at most its own result, the next number.
LEMMA DefinedNext ==
  ASSUME NEW c, NEW k \in Nat \ {0}
  PROVE  /\ DefinedCount(c, k) \in Nat
         /\ DefinedCount(c, k + 1) =
              IF Defines(c[k]) THEN DefinedCount(c, k) + 1 ELSE DefinedCount(c, k)
<1> DEFINE before == {j \in 1..(k - 1) : Defines(c[j])}
           upto == {j \in 1..((k + 1) - 1) : Defines(c[j])}
<1>1. IsFiniteSet(before)
  <2>1. before \in SUBSET (1..(k - 1)) /\ 1 \in Int /\ k - 1 \in Int
    OBVIOUS
  <2>2. IsFiniteSet(1..(k - 1))
    BY <2>1, FS_Interval
  <2> QED BY <2>1, <2>2, FS_Subset, Zenon
<1>2. Cardinality(before) \in Nat
  BY <1>1, FS_CardinalityType
<1>3. upto = IF Defines(c[k]) THEN before \union {k} ELSE before
  OBVIOUS
<1>4. k \notin before
  OBVIOUS
<1>5. Cardinality(upto) = IF Defines(c[k]) THEN Cardinality(before) + 1 ELSE Cardinality(before)
  <2> HIDE DEF before, upto
  <2> QED BY <1>1, <1>3, <1>4, FS_AddElement
<1> QED BY <1>2, <1>5 DEF DefinedCount

\* Before the first instruction the parameters are the locals.
LEMMA LocalsAtStart ==
  ASSUME NEW params, NEW c, NEW l, LocalKnown(params, c, 1, l)
  PROVE  l < params
BY DEF LocalKnown

\* An instruction that is no store makes no local known.
LEMMA LocalsNext ==
  ASSUME NEW params, NEW c, NEW k \in Nat \ {0}, NEW l, LocalKnown(params, c, k + 1, l)
  PROVE  \/ LocalKnown(params, c, k, l)
         \/ c[k].op = "StoreLocal" /\ Len(c[k].args) = 2 /\ l <= c[k].args[1]
<1>1. CASE l < params
  BY <1>1 DEF LocalKnown
<1>2. CASE \E j \in 1..((k + 1) - 1) :
             c[j].op = "StoreLocal" /\ Len(c[j].args) = 2 /\ l <= c[j].args[1]
  <2>1. PICK j \in 1..k : c[j].op = "StoreLocal" /\ Len(c[j].args) = 2 /\ l <= c[j].args[1]
    BY <1>2
  <2>2. j \in 1..(k - 1) \/ j = k
    OBVIOUS
  <2> QED BY <2>1, <2>2 DEF LocalKnown
<1> QED BY <1>1, <1>2 DEF LocalKnown

\* find_block finds a block where check_block saw one.
LEMMA BlockFound ==
  ASSUME NEW f, NEW B, f.blocks \in Seq(B), NEW id, BlockExists(f, id)
  PROVE  FindBlock(f, id) \in DOMAIN f.blocks
<1> DEFINE S == {b \in DOMAIN f.blocks : f.blocks[b].id = id}
<1>1. DOMAIN f.blocks = 1..Len(f.blocks) /\ Len(f.blocks) \in Nat
  BY LenProperties
<1>2. S \in SUBSET Nat /\ S # {}
  BY <1>1 DEF BlockExists
<1>3. PICK b \in S : \A c \in S : ~(c < b)
  BY <1>2, LeastOf
<1>4. \A c \in 1..(b - 1) : f.blocks[c].id # id
  <2> SUFFICES ASSUME NEW c \in 1..(b - 1), f.blocks[c].id = id PROVE FALSE
    OBVIOUS
  <2>1. c \in S /\ c < b
    BY <1>1, <1>2, <1>3
  <2> QED BY <2>1, <1>3
<1>5. b \in DOMAIN f.blocks /\ f.blocks[b].id = id
  OBVIOUS
<1> QED BY <1>4, <1>5 DEF FindBlock
-----------------------------------------------------------------------------
(***************************************************************************)
(* Part 2: what a module of the right type is made of, and the operands of *)
(* a verified instruction.                                                 *)
(***************************************************************************)

CodeOf(m, fr) == m.functions[fr.fn].blocks[fr.block].code

\* Functions, blocks and instructions found by index are of their types.
LEMMA ModuleTyped ==
  ASSUME NEW m \in ModuleType(Texts)
  PROVE  \A x \in DOMAIN m.functions :
           /\ m.functions[x].params \in Nat
           /\ m.functions[x].blocks \in Seq(BlockType)
           /\ \A b \in DOMAIN m.functions[x].blocks :
                /\ m.functions[x].blocks[b].code \in Seq(InstructionType)
                /\ \A k \in DOMAIN m.functions[x].blocks[b].code :
                     /\ m.functions[x].blocks[b].code[k] \in InstructionType
                     /\ m.functions[x].blocks[b].code[k].args \in Seq(Nat)
<1>1. m.functions \in Seq(FunctionType(Texts))
  BY DEF ModuleType
<1> SUFFICES ASSUME NEW x \in DOMAIN m.functions
             PROVE  /\ m.functions[x].params \in Nat
                    /\ m.functions[x].blocks \in Seq(BlockType)
                    /\ \A b \in DOMAIN m.functions[x].blocks :
                         /\ m.functions[x].blocks[b].code \in Seq(InstructionType)
                         /\ \A k \in DOMAIN m.functions[x].blocks[b].code :
                              /\ m.functions[x].blocks[b].code[k] \in InstructionType
                              /\ m.functions[x].blocks[b].code[k].args \in Seq(Nat)
  OBVIOUS
<1>2. m.functions[x] \in FunctionType(Texts)
  BY <1>1, LenProperties, ElementOfSeq
<1>3. m.functions[x].params \in Nat /\ m.functions[x].blocks \in Seq(BlockType)
  BY <1>2 DEF FunctionType
<1> SUFFICES ASSUME NEW b \in DOMAIN m.functions[x].blocks
             PROVE  /\ m.functions[x].blocks[b].code \in Seq(InstructionType)
                    /\ \A k \in DOMAIN m.functions[x].blocks[b].code :
                         /\ m.functions[x].blocks[b].code[k] \in InstructionType
                         /\ m.functions[x].blocks[b].code[k].args \in Seq(Nat)
  BY <1>3
<1>4. m.functions[x].blocks[b] \in BlockType
  BY <1>3, LenProperties, ElementOfSeq
<1>5. m.functions[x].blocks[b].code \in Seq(InstructionType)
  BY <1>4 DEF BlockType
<1>6. ASSUME NEW k \in DOMAIN m.functions[x].blocks[b].code
      PROVE  /\ m.functions[x].blocks[b].code[k] \in InstructionType
             /\ m.functions[x].blocks[b].code[k].args \in Seq(Nat)
  <2>1. m.functions[x].blocks[b].code[k] \in InstructionType
    BY <1>5, LenProperties, ElementOfSeq
  <2> QED BY <2>1 DEF InstructionType
<1> QED BY <1>5, <1>6

\* expect_operands counts every operand the interpreter and the verifier index.
LEMMA OperandsThere ==
  ASSUME NEW i \in InstructionType, OperandCounts(i)
  PROVE  /\ Indexed(i) \subseteq DOMAIN i.args
         /\ ValueOperands(i) \subseteq DOMAIN i.args
         /\ ConstantOperands(i) \subseteq DOMAIN i.args
         /\ BlockOperands(i) \subseteq DOMAIN i.args
<1>1. i.args \in Seq(Nat) /\ i.op \in Opcodes
  BY DEF InstructionType
<1>2. DOMAIN i.args = 1..Len(i.args) /\ Len(i.args) \in Nat
  BY <1>1, LenProperties
<1>3. \A p \in DOMAIN i.args : i.args[p] \in Nat
  BY <1>1, <1>2, ElementOfSeq
<1>4. CASE i.op = "LoadConst"
  <2>1. Len(i.args) = 1
    BY <1>2, <1>4 DEF OperandCounts
  <2>2. Indexed(i) = {1}
    BY <1>4 DEF Indexed
  <2>3. ValueOperands(i) = {}
    BY <1>4 DEF ValueOperands
  <2>4. ConstantOperands(i) = {1}
    BY <1>4 DEF ConstantOperands
  <2>5. BlockOperands(i) = {}
    BY <1>4 DEF BlockOperands
  <2> QED BY <1>2, <2>1, <2>2, <2>3, <2>4, <2>5
<1>5. CASE i.op = "LoadLocal"
  <2>1. Len(i.args) = 1
    BY <1>2, <1>5 DEF OperandCounts
  <2>2. Indexed(i) = {1}
    BY <1>5 DEF Indexed
  <2>3. ValueOperands(i) = {}
    BY <1>5 DEF ValueOperands
  <2>4. ConstantOperands(i) = {}
    BY <1>5 DEF ConstantOperands
  <2>5. BlockOperands(i) = {}
    BY <1>5 DEF BlockOperands
  <2> QED BY <1>2, <2>1, <2>2, <2>3, <2>4, <2>5
<1>6. CASE i.op = "Jump"
  <2>1. Len(i.args) = 1
    BY <1>2, <1>6 DEF OperandCounts
  <2>2. Indexed(i) = {1}
    BY <1>6 DEF Indexed
  <2>3. ValueOperands(i) = {}
    BY <1>6 DEF ValueOperands
  <2>4. ConstantOperands(i) = {}
    BY <1>6 DEF ConstantOperands
  <2>5. BlockOperands(i) = {1}
    BY <1>6 DEF BlockOperands
  <2> QED BY <1>2, <2>1, <2>2, <2>3, <2>4, <2>5
<1>7. CASE i.op = "StoreLocal"
  <2>1. Len(i.args) = 2
    BY <1>2, <1>7 DEF OperandCounts
  <2>2. Indexed(i) = {1, 2}
    BY <1>7 DEF Indexed
  <2>3. ValueOperands(i) = {2}
    BY <1>7 DEF ValueOperands
  <2>4. ConstantOperands(i) = {}
    BY <1>7 DEF ConstantOperands
  <2>5. BlockOperands(i) = {}
    BY <1>7 DEF BlockOperands
  <2> QED BY <1>2, <2>1, <2>2, <2>3, <2>4, <2>5
<1>8. CASE i.op = "LoadMember"
  <2>1. Len(i.args) = 2
    BY <1>2, <1>8 DEF OperandCounts
  <2>2. Indexed(i) = {1, 2}
    BY <1>8 DEF Indexed
  <2>3. ValueOperands(i) = {1}
    BY <1>8 DEF ValueOperands
  <2>4. ConstantOperands(i) = {2}
    BY <1>8 DEF ConstantOperands
  <2>5. BlockOperands(i) = {}
    BY <1>8 DEF BlockOperands
  <2> QED BY <1>2, <2>1, <2>2, <2>3, <2>4, <2>5
<1>9. CASE i.op = "StoreMember"
  <2>1. Len(i.args) = 3
    BY <1>2, <1>9 DEF OperandCounts
  <2>2. Indexed(i) = {1, 2, 3}
    BY <1>9 DEF Indexed
  <2>3. ValueOperands(i) = {1, 3}
    BY <1>9 DEF ValueOperands
  <2>4. ConstantOperands(i) = {2}
    BY <1>9 DEF ConstantOperands
  <2>5. BlockOperands(i) = {}
    BY <1>9 DEF BlockOperands
  <2> QED BY <1>2, <2>1, <2>2, <2>3, <2>4, <2>5
<1>10. CASE i.op = "Binary"
  <2>1. Len(i.args) = 3
    BY <1>2, <1>10 DEF OperandCounts
  <2>2. Indexed(i) = {1, 2, 3}
    BY <1>10 DEF Indexed
  <2>3. ValueOperands(i) = {2, 3}
    BY <1>10 DEF ValueOperands
  <2>4. ConstantOperands(i) = {}
    BY <1>10 DEF ConstantOperands
  <2>5. BlockOperands(i) = {}
    BY <1>10 DEF BlockOperands
  <2> QED BY <1>2, <2>1, <2>2, <2>3, <2>4, <2>5
<1>11. CASE i.op = "Branch"
  <2>1. Len(i.args) = 3
    BY <1>2, <1>11 DEF OperandCounts
  <2>2. Indexed(i) = {1, 2, 3}
    BY <1>11 DEF Indexed
  <2>3. ValueOperands(i) = {1}
    BY <1>11 DEF ValueOperands
  <2>4. ConstantOperands(i) = {}
    BY <1>11 DEF ConstantOperands
  <2>5. BlockOperands(i) = {2, 3}
    BY <1>11 DEF BlockOperands
  <2> QED BY <1>2, <2>1, <2>2, <2>3, <2>4, <2>5
<1>12. CASE i.op = "Return"
  <2>1. Len(i.args) <= 1
    BY <1>2, <1>12 DEF OperandCounts
  <2>2. Indexed(i) = {}
    BY <1>12 DEF Indexed
  <2>3. ValueOperands(i) = 1..Len(i.args)
    BY <1>12 DEF ValueOperands
  <2>4. ConstantOperands(i) = {}
    BY <1>12 DEF ConstantOperands
  <2>5. BlockOperands(i) = {}
    BY <1>12 DEF BlockOperands
  <2> QED BY <1>2, <2>1, <2>2, <2>3, <2>4, <2>5
<1>13. CASE i.op = "BuildArray"
  <2>1. Len(i.args) > 0
    BY <1>2, <1>13 DEF OperandCounts
  <2>2. Indexed(i) = {1}
    BY <1>13 DEF Indexed
  <2>3. ValueOperands(i) = 2..Len(i.args)
    BY <1>13 DEF ValueOperands
  <2>4. ConstantOperands(i) = {}
    BY <1>13 DEF ConstantOperands
  <2>5. BlockOperands(i) = {}
    BY <1>13 DEF BlockOperands
  <2> QED BY <1>2, <2>1, <2>2, <2>3, <2>4, <2>5
<1>14. CASE i.op = "Call"
  <2>1. Len(i.args) > 1
    BY <1>2, <1>14 DEF OperandCounts
  <2>2. Indexed(i) = {1, 2}
    BY <1>14 DEF Indexed
  <2>3. ValueOperands(i) = 3..Len(i.args)
    BY <1>14 DEF ValueOperands
  <2>4. ConstantOperands(i) = {1}
    BY <1>14 DEF ConstantOperands
  <2>5. BlockOperands(i) = {}
    BY <1>14 DEF BlockOperands
  <2> QED BY <1>2, <2>1, <2>2, <2>3, <2>4, <2>5
<1>15. CASE i.op = "BuildObject"
  <2>1. Len(i.args) > 0 /\ Len(i.args) = 1 + 2 * i.args[1]
    BY <1>15 DEF OperandCounts
  <2>2. 1 \in DOMAIN i.args /\ i.args[1] \in Nat /\ i.args # <<>>
    BY <2>1, <1>2, <1>3
  <2>3. \A p \in 1..i.args[1] : 2 * p \in 1..Len(i.args) /\ 2 * p + 1 \in 1..Len(i.args)
    BY <2>1, <2>2
  <2>4. Indexed(i) = 1..(1 + 2 * i.args[1])
    BY <2>2, <1>15 DEF Indexed
  <2>5. ValueOperands(i) = {2 * p + 1 : p \in 1..i.args[1]}
    BY <1>15 DEF ValueOperands
  <2>6. ConstantOperands(i) = {2 * p : p \in 1..i.args[1]}
    BY <1>15 DEF ConstantOperands
  <2>7. BlockOperands(i) = {}
    BY <1>15 DEF BlockOperands
  <2> QED BY <2>1, <2>3, <2>4, <2>5, <2>6, <2>7, <1>2
<1> QED BY <1>1, <1>4, <1>5, <1>6, <1>7, <1>8, <1>9, <1>10, <1>11, <1>12, <1>13, <1>14, <1>15
       DEF Opcodes
-----------------------------------------------------------------------------
(***************************************************************************)
(* Part 3: frames.                                                         *)
(***************************************************************************)

\* A frame over values V.
FrameOf(V) == [fn : Nat, block : Nat, pc : Nat, values : Seq(V), locals : Seq(V)]

\* The frame stands in a block of a function, before an instruction or at the
\* end, and has what the verifier counted as defined there.
Covers(m, fr) ==
  /\ fr.fn \in DOMAIN m.functions
  /\ fr.block \in DOMAIN m.functions[fr.fn].blocks
  /\ fr.pc \in 1..(Len(CodeOf(m, fr)) + 1)
  /\ DefinedCount(CodeOf(m, fr), fr.pc) <= Len(fr.values)
  /\ \A l \in Nat :
       LocalKnown(m.functions[fr.fn].params, CodeOf(m, fr), fr.pc, l) => l < Len(fr.locals)

\* The frame stands at an instruction that has a result.
AtResult(m, fr) == fr.pc <= Len(CodeOf(m, fr)) /\ Defines(CodeOf(m, fr)[fr.pc])

\* Every frame covers its block, and those below the innermost wait for a result.
StackOver(V, m, fs) ==
  /\ fs \in Seq(FrameOf(V))
  /\ \A x \in 1..Len(fs) : Covers(m, fs[x])
  /\ \A x \in 1..(Len(fs) - 1) : AtResult(m, fs[x])

StackOK(m, fs) == \E V : StackOver(V, m, fs)

\* Frames over some values are frames over more of them.
LEMMA FrameMonotonic ==
  ASSUME NEW V, NEW W, V \subseteq W
  PROVE  FrameOf(V) \subseteq FrameOf(W)
<1>1. ASSUME NEW s \in Seq(V) PROVE s \in Seq(W)
  BY SeqMonotonic
<1> QED BY <1>1 DEF FrameOf

\* The innermost frame can be replaced by another that covers its block.
LEMMA TopReplaced ==
  ASSUME NEW m, NEW V, NEW W, V \subseteq W, NEW fs, StackOver(V, m, fs), fs # <<>>,
         NEW fr \in FrameOf(W), Covers(m, fr)
  PROVE  StackOK(m, [fs EXCEPT ![Len(fs)] = fr])
<1> DEFINE new == [fs EXCEPT ![Len(fs)] = fr]
<1>1. fs \in Seq(FrameOf(W))
  BY FrameMonotonic, SeqMonotonic DEF StackOver
<1>2. Len(fs) \in Nat \ {0}
  BY <1>1, EmptySeq
<1>3. /\ new \in Seq(FrameOf(W)) /\ Len(new) = Len(fs)
      /\ \A x \in 1..Len(fs) : new[x] = IF x = Len(fs) THEN fr ELSE fs[x]
  BY <1>1, <1>2, ExceptSeq
<1>4. StackOver(W, m, new)
  <2> HIDE DEF new
  <2> QED BY <1>2, <1>3 DEF StackOver
<1> QED BY <1>4 DEF StackOK

\* A frame pushed on a stack that waits for a result leaves it in order.
LEMMA FramePushed ==
  ASSUME NEW m, NEW V, NEW W, V \subseteq W, NEW fs, StackOver(V, m, fs),
         fs # <<>> => AtResult(m, fs[Len(fs)]),
         NEW fr \in FrameOf(W), Covers(m, fr)
  PROVE  StackOK(m, Append(fs, fr))
<1> DEFINE new == Append(fs, fr)
<1>1. fs \in Seq(FrameOf(W))
  BY FrameMonotonic, SeqMonotonic DEF StackOver
<1>2. Len(fs) \in Nat /\ (fs # <<>> => Len(fs) # 0) /\ (fs = <<>> => Len(fs) = 0)
  BY <1>1, EmptySeq, LenProperties
<1>3. /\ new \in Seq(FrameOf(W)) /\ Len(new) = Len(fs) + 1
      /\ \A x \in 1..Len(fs) : new[x] = fs[x]
      /\ new[Len(fs) + 1] = fr
  BY <1>1, AppendProperties
<1>4. StackOver(W, m, new)
  <2> HIDE DEF new
  <2> QED BY <1>2, <1>3 DEF StackOver
<1> QED BY <1>4 DEF StackOK

\* The frame below the innermost one waits for a result.
LEMMA FramePopped ==
  ASSUME NEW m, NEW V, NEW fs, StackOver(V, m, fs), fs # <<>>
  PROVE  LET rest == SubSeq(fs, 1, Len(fs) - 1)
         IN  /\ StackOver(V, m, rest)
             /\ rest # <<>> => AtResult(m, rest[Len(rest)])
<1> DEFINE rest == SubSeq(fs, 1, Len(fs) - 1)
<1>1. fs \in Seq(FrameOf(V)) /\ Len(fs) \in Nat \ {0}
  BY EmptySeq DEF StackOver
<1>2. \A x \in 1..(Len(fs) - 1) : fs[x] \in FrameOf(V)
  BY <1>1, ElementOfSeq
<1>3. /\ rest \in Seq(FrameOf(V)) /\ Len(rest) = Len(fs) - 1
      /\ \A x \in 1..(Len(fs) - 1) : rest[x] = fs[x]
  <2> DEFINE n == Len(fs) - 1
  <2>1. n \in Nat
    BY <1>1
  <2>2. \A x \in 1..n : fs[x] \in FrameOf(V)
    BY <1>2
  <2> HIDE DEF n
  <2>3. /\ SubSeq(fs, 1, n) \in Seq(FrameOf(V))
        /\ Len(SubSeq(fs, 1, n)) = IF 1 <= n THEN n - 1 + 1 ELSE 0
        /\ \A x \in 1..(n - 1 + 1) : SubSeq(fs, 1, n)[x] = fs[1 + x - 1]
    BY <2>1, <2>2, SubSeqProperties
  <2>4. /\ SubSeq(fs, 1, n) \in Seq(FrameOf(V)) /\ Len(SubSeq(fs, 1, n)) = n
        /\ \A x \in 1..n : SubSeq(fs, 1, n)[x] = fs[x]
    BY <2>1, <2>3
  <2> QED BY <2>4 DEF n
<1>4. rest # <<>> => Len(rest) \in Nat \ {0}
  BY <1>3, EmptySeq
<1> HIDE DEF rest
<1>5. StackOver(V, m, rest)
  BY <1>1, <1>3 DEF StackOver
<1>6. rest # <<>> => AtResult(m, rest[Len(rest)])
  BY <1>1, <1>3, <1>4 DEF StackOver
<1> QED BY <1>5, <1>6 DEF rest
-----------------------------------------------------------------------------
(***************************************************************************)
(* Part 4: how each way to go on keeps the frame covered.                  *)
(***************************************************************************)

\* The instruction a frame of a verified module stands at passed the verifier.
LEMMA Standing ==
  ASSUME NEW m \in ModuleType(Texts), VerifyModule(m), NEW fr, Covers(m, fr),
         fr.pc <= Len(CodeOf(m, fr))
  PROVE  /\ fr.pc \in Nat \ {0} /\ fr.pc \in 1..Len(CodeOf(m, fr))
         /\ CodeOf(m, fr)[fr.pc] \in InstructionType
         /\ CodeOf(m, fr)[fr.pc].args \in Seq(Nat)
         /\ VerifyInstruction(m, m.functions[fr.fn], CodeOf(m, fr), fr.pc)
<1>1. fr.fn \in DOMAIN m.functions /\ fr.block \in DOMAIN m.functions[fr.fn].blocks
  BY DEF Covers
<1>2. CodeOf(m, fr) \in Seq(InstructionType)
  BY <1>1, ModuleTyped DEF CodeOf
<1>3. DOMAIN CodeOf(m, fr) = 1..Len(CodeOf(m, fr)) /\ Len(CodeOf(m, fr)) \in Nat
  BY <1>2, LenProperties
<1>4. fr.pc \in 1..Len(CodeOf(m, fr))
  BY <1>3 DEF Covers
<1>5. CodeOf(m, fr)[fr.pc] \in InstructionType /\ CodeOf(m, fr)[fr.pc].args \in Seq(Nat)
  BY <1>1, <1>3, <1>4, ModuleTyped DEF CodeOf
<1>6. VerifyFunction(m, m.functions[fr.fn])
  BY <1>1 DEF VerifyModule
<1>7. VerifyInstruction(m, m.functions[fr.fn], CodeOf(m, fr), fr.pc)
  BY <1>1, <1>3, <1>4, <1>6 DEF VerifyFunction, CodeOf
<1> QED BY <1>4, <1>5, <1>7

\* Past an instruction with a result, a frame that got the result is covered.
LEMMA ResultCovers ==
  ASSUME NEW m \in ModuleType(Texts), NEW V, NEW fr \in FrameOf(V), Covers(m, fr),
         AtResult(m, fr), NEW v
  PROVE  Resumed(fr, v) \in FrameOf(V \union {v}) /\ Covers(m, Resumed(fr, v))
<1> DEFINE W == V \union {v}
           new == Resumed(fr, v)
           code == CodeOf(m, fr)
<1>1. fr \in FrameOf(W)
  BY FrameMonotonic
<1>2. fr.values \in Seq(W) /\ fr.pc \in Nat /\ v \in W
  BY <1>1 DEF FrameOf
<1>3. Append(fr.values, v) \in Seq(W) /\ Len(Append(fr.values, v)) = Len(fr.values) + 1
      /\ Len(fr.values) \in Nat
  BY <1>2, AppendProperties, LenProperties
<1>4. /\ new.fn = fr.fn /\ new.block = fr.block /\ new.pc = fr.pc + 1
      /\ new.values = Append(fr.values, v) /\ new.locals = fr.locals
      /\ new \in FrameOf(W)
  <2>1. fr \in [fn : Nat, block : Nat, pc : Nat, values : Seq(W), locals : Seq(W)]
    BY <1>1 DEF FrameOf
  <2>2. fr.pc + 1 \in Nat
    BY <1>2
  <2> HIDE DEF W
  <2> QED BY <2>1, <2>2, <1>3 DEF FrameOf, Resumed
<1>5. CodeOf(m, new) = code
  BY <1>4 DEF CodeOf
<1>6. code \in Seq(InstructionType)
  BY ModuleTyped DEF CodeOf, Covers
<1>7. Len(code) \in Nat /\ fr.pc \in 1..Len(code) /\ fr.pc \in Nat \ {0}
  BY <1>2, <1>6, LenProperties DEF Covers, AtResult
<1>8. /\ DefinedCount(code, fr.pc) \in Nat
      /\ DefinedCount(code, fr.pc + 1) = DefinedCount(code, fr.pc) + 1
  BY <1>7, DefinedNext DEF AtResult
<1>9. DefinedCount(code, new.pc) <= Len(new.values)
  BY <1>3, <1>4, <1>8 DEF Covers
<1>10. ASSUME NEW l \in Nat, LocalKnown(m.functions[fr.fn].params, code, fr.pc + 1, l)
       PROVE  l < Len(fr.locals)
  <2>1. code[fr.pc].op # "StoreLocal"
    BY DEF AtResult, Defines
  <2>2. LocalKnown(m.functions[fr.fn].params, code, fr.pc, l)
    BY <1>7, <1>10, <2>1, LocalsNext
  <2> QED BY <2>2 DEF Covers
<1> HIDE DEF new
<1>11. Covers(m, new)
  BY <1>4, <1>5, <1>7, <1>9, <1>10 DEF Covers
<1> QED BY <1>4, <1>11 DEF new

\* Past an instruction without a result that is no store, nothing more is needed.
LEMMA NoResultCovers ==
  ASSUME NEW m \in ModuleType(Texts), NEW V, NEW fr \in FrameOf(V), Covers(m, fr),
         fr.pc <= Len(CodeOf(m, fr)), CodeOf(m, fr)[fr.pc].op = "StoreMember"
  PROVE  Advanced(fr) \in FrameOf(V) /\ Covers(m, Advanced(fr))
<1> DEFINE new == Advanced(fr)
           code == CodeOf(m, fr)
<1>1. /\ new.fn = fr.fn /\ new.block = fr.block /\ new.pc = fr.pc + 1
      /\ new.values = fr.values /\ new.locals = fr.locals
      /\ new \in FrameOf(V) /\ fr.pc \in Nat
  BY DEF FrameOf, Advanced
<1>2. CodeOf(m, new) = code
  BY <1>1 DEF CodeOf
<1>3. code \in Seq(InstructionType)
  BY ModuleTyped DEF CodeOf, Covers
<1>4. Len(code) \in Nat /\ fr.pc \in 1..Len(code) /\ fr.pc \in Nat \ {0}
  BY <1>1, <1>3, LenProperties DEF Covers
<1>5. DefinedCount(code, fr.pc + 1) = DefinedCount(code, fr.pc)
  BY <1>4, DefinedNext DEF Defines
<1>6. ASSUME NEW l \in Nat, LocalKnown(m.functions[fr.fn].params, code, fr.pc + 1, l)
      PROVE  l < Len(fr.locals)
  BY <1>4, <1>6, LocalsNext DEF Covers
<1> HIDE DEF new
<1>7. Covers(m, new)
  BY <1>1, <1>2, <1>4, <1>5, <1>6 DEF Covers
<1> QED BY <1>1, <1>7 DEF new

\* store_local: the locals reach at least to the one stored to.
LEMMA StoredLocalLength ==
  ASSUME NEW V, NEW locals \in Seq(V), NEW l \in Nat, NEW v
  PROVE  /\ StoredLocal(locals, l, v) \in Seq(V \union {v, Undefined})
         /\ Len(StoredLocal(locals, l, v)) = IF Len(locals) <= l THEN l + 1 ELSE Len(locals)
<1> DEFINE n == IF Len(locals) <= l THEN l + 1 ELSE Len(locals)
           W == V \union {v, Undefined}
<1>1. Len(locals) \in Nat /\ \A k \in 1..Len(locals) : locals[k] \in V
  BY LenProperties, ElementOfSeq
<1>2. n \in Nat
  BY <1>1
<1>3. StoredLocal(locals, l, v) \in [1..n -> W]
  BY <1>1, <1>2 DEF StoredLocal
<1> HIDE DEF n, W
<1>4. StoredLocal(locals, l, v) \in Seq(W) /\ Len(StoredLocal(locals, l, v)) = n
  BY <1>2, <1>3, FunctionIsSeq
<1> QED BY <1>4 DEF n, W

\* Past a store, a frame with the local stored is covered.
LEMMA StoreCovers ==
  ASSUME NEW m \in ModuleType(Texts), VerifyModule(m), NEW V, NEW fr \in FrameOf(V),
         Covers(m, fr), fr.pc <= Len(CodeOf(m, fr)),
         CodeOf(m, fr)[fr.pc].op = "StoreLocal", NEW v
  PROVE  LET l == CodeOf(m, fr)[fr.pc].args[1]
             new == Advanced([fr EXCEPT !.locals = StoredLocal(@, l, v)])
         IN  new \in FrameOf(V \union {v, Undefined}) /\ Covers(m, new)
<1> DEFINE W == V \union {v, Undefined}
           code == CodeOf(m, fr)
           i == code[fr.pc]
           l == i.args[1]
           new == Advanced([fr EXCEPT !.locals = StoredLocal(@, l, v)])
<1>1. fr \in FrameOf(W)
  BY FrameMonotonic
<1>2. /\ fr.pc \in Nat \ {0} /\ fr.pc \in 1..Len(code)
      /\ i \in InstructionType /\ i.args \in Seq(Nat)
      /\ VerifyInstruction(m, m.functions[fr.fn], code, fr.pc)
  BY Standing
<1>3. Len(i.args) = 2
  BY <1>2 DEF VerifyInstruction, OperandCounts
<1>4. l \in Nat
  BY <1>2, <1>3, ElementOfSeq
<1>5. fr.locals \in Seq(V) /\ Len(fr.locals) \in Nat
  BY LenProperties DEF FrameOf
<1>6. /\ StoredLocal(fr.locals, l, v) \in Seq(W)
      /\ Len(StoredLocal(fr.locals, l, v)) =
           IF Len(fr.locals) <= l THEN l + 1 ELSE Len(fr.locals)
  <2> DEFINE locals == fr.locals
  <2>1. locals \in Seq(V) /\ l \in Nat
    BY <1>4, <1>5
  <2> HIDE DEF l, locals
  <2>2. /\ StoredLocal(locals, l, v) \in Seq(V \union {v, Undefined})
        /\ Len(StoredLocal(locals, l, v)) = IF Len(locals) <= l THEN l + 1 ELSE Len(locals)
    BY <2>1, StoredLocalLength
  <2> QED BY <2>2 DEF locals
<1>7. /\ new.fn = fr.fn /\ new.block = fr.block /\ new.pc = fr.pc + 1
      /\ new.values = fr.values /\ new.locals = StoredLocal(fr.locals, l, v)
      /\ new \in FrameOf(W)
  <2>1. fr \in [fn : Nat, block : Nat, pc : Nat, values : Seq(W), locals : Seq(W)]
    BY <1>1 DEF FrameOf
  <2>2. fr.pc + 1 \in Nat
    BY <1>2
  <2> HIDE DEF W, l
  <2> QED BY <2>1, <2>2, <1>6 DEF FrameOf, Advanced
<1>8. CodeOf(m, new) = code
  BY <1>7 DEF CodeOf
<1>9. code \in Seq(InstructionType)
  BY ModuleTyped DEF CodeOf, Covers
<1>10. Len(code) \in Nat
  BY <1>9, LenProperties
<1>11. DefinedCount(code, fr.pc + 1) = DefinedCount(code, fr.pc)
  BY <1>2, DefinedNext DEF Defines
<1>12. ASSUME NEW k \in Nat, LocalKnown(m.functions[fr.fn].params, code, fr.pc + 1, k)
       PROVE  k < Len(StoredLocal(fr.locals, l, v))
  <2>1. LocalKnown(m.functions[fr.fn].params, code, fr.pc, k) \/ k <= l
    BY <1>2, <1>12, LocalsNext
  <2>2. k < Len(fr.locals) \/ k <= l
    BY <2>1 DEF Covers
  <2> QED BY <2>2, <1>4, <1>5, <1>6
<1> HIDE DEF new
<1>13. Covers(m, new)
  BY <1>2, <1>7, <1>8, <1>10, <1>11, <1>12 DEF Covers
<1> QED BY <1>7, <1>13 DEF new

\* The next block asks for no values and for the parameters only.
LEMMA JumpCovers ==
  ASSUME NEW m \in ModuleType(Texts), NEW V, NEW fr \in FrameOf(V), Covers(m, fr),
         NEW id, BlockExists(m.functions[fr.fn], id)
  PROVE  LET new == [fr EXCEPT !.block = FindBlock(m.functions[fr.fn], id), !.pc = 1]
         IN  new \in FrameOf(V) /\ Covers(m, new)
<1> DEFINE f == m.functions[fr.fn]
           new == [fr EXCEPT !.block = FindBlock(f, id), !.pc = 1]
<1>1. f.blocks \in Seq(BlockType) /\ f.params \in Nat
  BY ModuleTyped DEF Covers
<1>2. FindBlock(f, id) \in DOMAIN f.blocks
  BY <1>1, BlockFound
<1>3. FindBlock(f, id) \in Nat
  BY <1>1, <1>2, LenProperties
<1>4. /\ new.fn = fr.fn /\ new.block = FindBlock(f, id) /\ new.pc = 1
      /\ new.values = fr.values /\ new.locals = fr.locals
      /\ new \in FrameOf(V)
  BY <1>3 DEF FrameOf
<1>5. CodeOf(m, new) = f.blocks[FindBlock(f, id)].code
  BY <1>4 DEF CodeOf
<1>6. CodeOf(m, new) \in Seq(InstructionType)
  BY <1>2, <1>5, ModuleTyped DEF Covers
<1>7. Len(CodeOf(m, new)) \in Nat /\ Len(fr.values) \in Nat
  BY <1>6, LenProperties DEF FrameOf
<1>8. DefinedCount(CodeOf(m, new), 1) = 0
  BY DefinedAtStart
<1>9. ASSUME NEW l \in Nat, LocalKnown(f.params, CodeOf(m, new), 1, l)
      PROVE  l < Len(fr.locals)
  <2>1. l < f.params
    BY <1>9, LocalsAtStart
  <2>2. LocalKnown(f.params, CodeOf(m, fr), fr.pc, l)
    BY <2>1 DEF LocalKnown
  <2> QED BY <2>2 DEF Covers
<1> HIDE DEF new
<1>10. Covers(m, new)
  BY <1>2, <1>4, <1>7, <1>8, <1>9 DEF Covers
<1> QED BY <1>4, <1>10 DEF new
-----------------------------------------------------------------------------
(***************************************************************************)
(* Part 5: the invariant, and the operators the actions are made of.       *)
(***************************************************************************)

Inv ==
  /\ module \in Modules
  /\ status # "missing"
  /\ status = "loaded" => frames = <<>>
  /\ frames # <<>> => VerifyModule(module)
  /\ StackOK(module, frames)

\* What every step after the verification gate keeps.
Kept ==
  /\ module' = module
  /\ status' \notin {"missing", "loaded"}
  /\ StackOK(module, frames')

\* The innermost frame of a running program covers its block.
LEMMA RunningFrame ==
  ASSUME Inv, frames # <<>>
  PROVE  /\ module \in ModuleType(Texts) /\ VerifyModule(module)
         /\ \E V : StackOver(V, module, frames) /\ Top \in FrameOf(V)
         /\ Covers(module, Top)
<1>1. module \in ModuleType(Texts) /\ VerifyModule(module)
  BY InterpreterAssumption DEF Inv
<1>2. PICK V : StackOver(V, module, frames)
  BY DEF Inv, StackOK
<1>3. frames \in Seq(FrameOf(V)) /\ Len(frames) \in 1..Len(frames)
  BY <1>2, EmptySeq DEF StackOver
<1>4. Top \in FrameOf(V)
  BY <1>3, ElementOfSeq DEF Top
<1>5. Covers(module, Top)
  BY <1>2, <1>3 DEF StackOver, Top
<1> QED BY <1>1, <1>2, <1>4, <1>5

\* The heart of the matter: an instruction that passed the verifier finds every
\* operand, constant, value and local in a frame that covers its block.
LEMMA NothingMissing ==
  ASSUME Inv, Running
  PROVE  ~Missing
<1> DEFINE code == CodeOf(module, Top)
           i == code[Top.pc]
<1>1. frames # <<>> /\ Top.pc <= Len(code) /\ Instr = i
  BY DEF Running, Instr, Code, CodeOf
<1>2. module \in ModuleType(Texts) /\ VerifyModule(module) /\ Covers(module, Top)
  BY <1>1, RunningFrame
<1>3. /\ Top.pc \in Nat \ {0}
      /\ i \in InstructionType /\ i.args \in Seq(Nat)
      /\ VerifyInstruction(module, module.functions[Top.fn], code, Top.pc)
  BY <1>1, <1>2, Standing
<1>4. /\ Indexed(i) \subseteq DOMAIN i.args
      /\ ValueOperands(i) \subseteq DOMAIN i.args
      /\ ConstantOperands(i) \subseteq DOMAIN i.args
  BY <1>3, OperandsThere DEF VerifyInstruction
<1>5. \A p \in DOMAIN i.args : i.args[p] \in Nat
  BY <1>3, LenProperties, ElementOfSeq
<1>6. \A p \in ConstantOperands(i) : ~(i.args[p] >= Len(module.constants))
  <2>1. Len(module.constants) \in Nat
    BY <1>2, LenProperties DEF ModuleType
  <2>2. \A p \in ConstantOperands(i) : i.args[p] < Len(module.constants)
    BY <1>3 DEF VerifyInstruction, CheckConstant
  <2> QED BY <1>4, <1>5, <2>1, <2>2
<1>7. PICK V : Top \in FrameOf(V)
  BY <1>1, RunningFrame
<1>8. Len(Top.values) \in Nat /\ Len(Top.locals) \in Nat
  BY <1>7, LenProperties DEF FrameOf
<1>9. \A p \in ValueOperands(i) : ~(i.args[p] >= Len(Top.values))
  <2>1. DefinedCount(code, Top.pc) \in Nat
    BY <1>3, DefinedNext
  <2>2. \A p \in ValueOperands(i) : i.args[p] < DefinedCount(code, Top.pc)
    BY <1>3 DEF VerifyInstruction, CheckValue
  <2>3. DefinedCount(code, Top.pc) <= Len(Top.values)
    BY <1>2 DEF Covers
  <2> QED BY <1>4, <1>5, <1>8, <2>1, <2>2, <2>3
<1>10. ASSUME i.op = "LoadLocal" PROVE ~(i.args[1] >= Len(Top.locals))
  <2>1. LocalKnown(module.functions[Top.fn].params, code, Top.pc, i.args[1])
    BY <1>3, <1>10 DEF VerifyInstruction, CheckLocal
  <2>2. i.args[1] \in Nat
    BY <1>4, <1>5, <1>10 DEF Indexed
  <2>3. i.args[1] < Len(Top.locals)
    BY <1>2, <2>1, <2>2 DEF Covers
  <2> QED BY <1>8, <2>2, <2>3
<1> HIDE DEF i, code
<1> QED BY <1>1, <1>4, <1>6, <1>9, <1>10 DEF Missing

\* A step that ends the program with another error leaves the frames alone.
LEMMA FailKeeps ==
  ASSUME Inv, NEW error, error \notin {"missing", "loaded"}, Fail(error)
  PROVE  Kept
BY DEF Inv, Fail, Kept

\* materialize fails with a stale handle or an overflow.
LEMMA MaterializedOutcomes ==
  ASSUME NEW h, NEW V
  PROVE  Materialized(h, V) \in {"ok", "overflow", "stale"}
BY DEF Materialized

\* A value delivered to a frame that waits for it, or to the embedder.
LEMMA DeliverKeeps ==
  ASSUME module \in ModuleType(Texts), NEW V, NEW fs, StackOver(V, module, fs),
         fs # <<>> => AtResult(module, fs[Len(fs)]),
         NEW v, Deliver(fs, v), module' = module
  PROVE  Kept
<1>1. CASE fs = <<>>
  <2>1. frames' = <<>> /\ status' = "returning"
    BY <1>1 DEF Deliver
  <2> QED BY <1>1, <2>1 DEF Kept, StackOK
<1>2. CASE fs # <<>>
  <2> DEFINE top == fs[Len(fs)]
             new == Resumed(top, v)
  <2>1. frames' = [fs EXCEPT ![Len(fs)] = new] /\ status' = "running"
    BY <1>2 DEF Deliver
  <2>2. fs \in Seq(FrameOf(V)) /\ Len(fs) \in 1..Len(fs)
    BY <1>2, EmptySeq DEF StackOver
  <2>3. top \in FrameOf(V) /\ Covers(module, top) /\ AtResult(module, top)
    BY <1>2, <2>2, ElementOfSeq DEF StackOver
  <2>4. new \in FrameOf(V \union {v}) /\ Covers(module, new)
    <3> HIDE DEF top
    <3> QED BY <2>3, ResultCovers
  <2> HIDE DEF new
  <2>5. StackOK(module, frames')
    BY <1>2, <2>1, <2>4, TopReplaced
  <2> QED BY <2>1, <2>5 DEF Kept
<1> QED BY <1>1, <1>2

\* Instructions with a result push it on the running frame.
LEMMA PushKeeps ==
  ASSUME Inv, Running, Defines(Instr), NEW v, Push(v)
  PROVE  Kept
<1>1. frames # <<>> /\ Top.pc <= Len(CodeOf(module, Top))
  BY DEF Running, Code, CodeOf
<1>2. PICK V : StackOver(V, module, frames)
  BY <1>1, RunningFrame
<1>3. AtResult(module, frames[Len(frames)])
  BY <1>1 DEF AtResult, Instr, Code, CodeOf, Top
<1>4. Deliver(frames, v) /\ module' = module
  BY DEF Push
<1>5. module \in ModuleType(Texts)
  BY InterpreterAssumption DEF Inv
<1> QED BY <1>2, <1>3, <1>4, <1>5, DeliverKeeps

\* find of the function table finds the first function of a name there is.
LEMMA FunctionFound ==
  ASSUME module \in ModuleType(Texts), NEW name,
         \E x \in DOMAIN module.functions : module.functions[x].name = name
  PROVE  FindFunction(name) \in DOMAIN module.functions
<1> DEFINE S == {x \in DOMAIN module.functions : module.functions[x].name = name}
<1>1. module.functions \in Seq(FunctionType(Texts))
  BY DEF ModuleType
<1>2. DOMAIN module.functions = 1..Len(module.functions) /\ Len(module.functions) \in Nat
  BY <1>1, LenProperties
<1>3. S \in SUBSET Nat /\ S # {}
  BY <1>2
<1>4. PICK x \in S : \A y \in S : ~(y < x)
  BY <1>3, LeastOf
<1>5. \A y \in 1..(x - 1) : module.functions[y].name # name
  <2> SUFFICES ASSUME NEW y \in 1..(x - 1), module.functions[y].name = name PROVE FALSE
    OBVIOUS
  <2>1. y \in S /\ y < x
    BY <1>2, <1>3, <1>4
  <2> QED BY <2>1, <1>4
<1>6. x \in DOMAIN module.functions /\ module.functions[x].name = name
  OBVIOUS
<1> QED BY <1>5, <1>6 DEF FindFunction

\* Frame::new: a new frame stands before the entry block with its parameters.
LEMMA NewFrameCovers ==
  ASSUME module \in ModuleType(Texts), NEW x \in DOMAIN module.functions,
         BlockExists(module.functions[x], 0), NEW args
  PROVE  \E W : NewFrame(x, args) \in FrameOf(W) /\ Covers(module, NewFrame(x, args))
<1> DEFINE f == module.functions[x]
           locals == [k \in 1..f.params |-> IF k <= Len(args) THEN args[k] ELSE Undefined]
           W == {locals[k] : k \in 1..f.params}
           new == NewFrame(x, args)
<1>1. f.params \in Nat /\ f.blocks \in Seq(BlockType)
  BY ModuleTyped
<1>2. FindBlock(f, 0) \in DOMAIN f.blocks
  BY <1>1, BlockFound
<1>3. FindBlock(f, 0) \in Nat
  BY <1>1, <1>2, LenProperties
<1>4. x \in Nat
  <2>1. module.functions \in Seq(FunctionType(Texts))
    BY DEF ModuleType
  <2> QED BY <2>1, LenProperties
<1>5. locals \in Seq(W) /\ Len(locals) = f.params
  <2>1. locals \in [1..f.params -> W]
    OBVIOUS
  <2> HIDE DEF locals, W
  <2> QED BY <1>1, <2>1, FunctionIsSeq
<1>6. new = [fn |-> x, block |-> FindBlock(f, 0), pc |-> 1, values |-> <<>>, locals |-> locals]
  BY DEF NewFrame
<1> HIDE DEF new, locals, W
<1>7. <<>> \in Seq(W) /\ Len(<<>>) = 0
  BY EmptySeq
<1>8. new \in FrameOf(W)
  BY <1>3, <1>4, <1>5, <1>6, <1>7 DEF FrameOf
<1>9. CodeOf(module, new) = f.blocks[FindBlock(f, 0)].code
  BY <1>6 DEF CodeOf
<1>10. CodeOf(module, new) \in Seq(InstructionType)
  BY <1>2, <1>9, ModuleTyped
<1>11. Len(CodeOf(module, new)) \in Nat
  BY <1>10, LenProperties
<1>12. DefinedCount(CodeOf(module, new), 1) = 0
  BY DefinedAtStart
<1>13. \A l \in Nat : LocalKnown(f.params, CodeOf(module, new), 1, l) => l < Len(locals)
  BY <1>5, LocalsAtStart
<1>14. Covers(module, new)
  BY <1>2, <1>6, <1>7, <1>11, <1>12, <1>13 DEF Covers
<1> QED BY <1>8, <1>14 DEF new

\* call_function keeps the invariant from the gate and from a call, by outcome.
LEMMA InvokeKeeps ==
  ASSUME Inv, VerifyModule(module),
         frames # <<>> => AtResult(module, frames[Len(frames)]),
         NEW name, NEW args, Invoke(name, args)
  PROVE  Kept
<1>1. module \in ModuleType(Texts)
  BY InterpreterAssumption DEF Inv
<1>2. PICK V : StackOver(V, module, frames)
  BY DEF Inv, StackOK
<1>3. ASSUME NEW v, Deliver(frames, v), module' = module
      PROVE  Kept
  BY <1>1, <1>2, <1>3, DeliverKeeps
<1>4. CASE InvokeConsole(name, args)
  BY <1>3, <1>4 DEF InvokeConsole
<1>5. CASE InvokeUnmaterialized(name, args)
  <2> DEFINE outcome == Materialized(heap, ArgumentValues(args))
  <2>1. Fail(outcome)
    BY <1>5 DEF InvokeUnmaterialized
  <2>2. outcome \notin {"missing", "loaded"}
    BY MaterializedOutcomes
  <2> HIDE DEF outcome
  <2> QED BY <2>1, <2>2, FailKeeps
<1>6. CASE InvokeHost(name, args)
  <2>1. CASE Fail("interop")
    BY <2>1, FailKeeps
  <2>2. CASE \E answer \in FromInterop(heap) : Deliver(frames, answer.value) /\ UNCHANGED module
    BY <1>3, <2>2
  <2> QED BY <1>6, <2>1, <2>2 DEF InvokeHost
<1>7. CASE InvokeFunction(name, args)
  <2> DEFINE x == FindFunction(name)
  <2>1. x \in DOMAIN module.functions
    BY <1>1, <1>7, FunctionFound DEF InvokeFunction
  <2>2. CASE BlockExists(module.functions[x], 0)
    <3>1. /\ frames' = Append(frames, NewFrame(x, args))
          /\ status' = "running" /\ module' = module
      BY <1>7, <2>2 DEF InvokeFunction
    <3>2. PICK W : NewFrame(x, args) \in FrameOf(W) /\ Covers(module, NewFrame(x, args))
      BY <1>1, <2>1, <2>2, NewFrameCovers
    <3>3. NewFrame(x, args) \in FrameOf(V \union W) /\ V \subseteq V \union W
      BY <3>2, FrameMonotonic
    <3>4. StackOK(module, Append(frames, NewFrame(x, args)))
      BY <1>2, <3>2, <3>3, FramePushed
    <3> QED BY <3>1, <3>4 DEF Kept
  <2>3. CASE ~BlockExists(module.functions[x], 0)
    <3>1. Fail("no entry block")
      BY <1>7, <2>3 DEF InvokeFunction
    <3> QED BY <3>1, FailKeeps
  <2> QED BY <2>2, <2>3
<1>8. CASE InvokeUnknown(name, args)
  <2>1. Fail("runtime")
    BY <1>8 DEF InvokeUnknown
  <2> QED BY <2>1, FailKeeps
<1> QED BY <1>4, <1>5, <1>6, <1>7, <1>8 DEF Invoke
-----------------------------------------------------------------------------
(***************************************************************************)
(* Part 6: every instruction keeps the invariant.                          *)
(***************************************************************************)

\* The instructions that push what they load, build or compute.
LEMMA ResultStep ==
  ASSUME Inv, LoadConst \/ BuildObject \/ BuildArray \/ LoadLocal \/ LoadMember \/ Binary
  PROVE  Kept
<1>1. Running
  BY DEF LoadConst, BuildObject, BuildArray, LoadLocal, LoadMember, Binary, At
<1>2. ~Missing
  BY <1>1, NothingMissing
<1>3. Defines(Instr)
  BY DEF LoadConst, BuildObject, BuildArray, LoadLocal, LoadMember, Binary, At, Defines
<1>4. CASE Fail("runtime") \/ Fail("stale")
  BY <1>4, FailKeeps
<1>5. CASE \E v : Push(v)
  BY <1>1, <1>3, <1>5, PushKeeps
<1>6. CASE LoadConst
  BY <1>2, <1>4, <1>5, <1>6 DEF LoadConst, Checked
<1>7. CASE BuildObject
  BY <1>2, <1>4, <1>5, <1>7 DEF BuildObject, Checked, Build
<1>8. CASE BuildArray
  BY <1>2, <1>4, <1>5, <1>8 DEF BuildArray, Checked, Build
<1>9. CASE LoadLocal
  BY <1>2, <1>4, <1>5, <1>9 DEF LoadLocal, Checked
<1>10. CASE LoadMember
  BY <1>2, <1>4, <1>5, <1>10 DEF LoadMember, Checked
<1>11. CASE Binary
  BY <1>2, <1>4, <1>5, <1>11 DEF Binary, Checked
<1> QED BY <1>6, <1>7, <1>8, <1>9, <1>10, <1>11

\* StoreLocal: the locals grow as far as the verifier allows for.
LEMMA StoreLocalStep ==
  ASSUME Inv, StoreLocal
  PROVE  Kept
<1>1. Running /\ Instr.op = "StoreLocal"
  BY DEF StoreLocal, At
<1>2. ~Missing
  BY <1>1, NothingMissing
<1>3. CASE Fail("runtime")
  BY <1>3, FailKeeps
<1>4. CASE Advance([Top EXCEPT !.locals = StoredLocal(@, Instr.args[1], ValueAt(2))])
  <2> DEFINE v == ValueAt(2)
             new == Advanced([Top EXCEPT !.locals = StoredLocal(@, Instr.args[1], v)])
  <2>1. /\ frames # <<>> /\ Top.pc <= Len(CodeOf(module, Top))
        /\ Instr = CodeOf(module, Top)[Top.pc]
    BY <1>1 DEF Running, Instr, Code, CodeOf
  <2>2. module \in ModuleType(Texts) /\ VerifyModule(module) /\ Covers(module, Top)
    BY <2>1, RunningFrame
  <2>3. PICK V : StackOver(V, module, frames) /\ Top \in FrameOf(V)
    BY <2>1, RunningFrame
  <2>4. new \in FrameOf(V \union {v, Undefined}) /\ Covers(module, new)
    <3>1. CodeOf(module, Top)[Top.pc].op = "StoreLocal"
      BY <1>1, <2>1
    <3> HIDE DEF v
    <3> QED BY <2>1, <2>2, <2>3, <3>1, StoreCovers
  <2>5. frames' = [frames EXCEPT ![Len(frames)] = new] /\ UNCHANGED <<module, status>>
    BY <1>4 DEF Advance
  <2> HIDE DEF new, v
  <2>6. StackOK(module, [frames EXCEPT ![Len(frames)] = new])
    BY <2>1, <2>3, <2>4, TopReplaced
  <2> QED BY <1>1, <2>5, <2>6 DEF Kept, Running
<1> QED BY <1>2, <1>3, <1>4 DEF StoreLocal, Checked

\* StoreMember changes the heap and moves on.
LEMMA StoreMemberStep ==
  ASSUME Inv, StoreMember
  PROVE  Kept
<1>1. Running /\ Instr.op = "StoreMember"
  BY DEF StoreMember, At
<1>2. ~Missing
  BY <1>1, NothingMissing
<1>3. CASE Fail("runtime") \/ Fail("stale")
  BY <1>3, FailKeeps
<1>4. CASE Advance(Top)
  <2>1. /\ frames # <<>> /\ Top.pc <= Len(CodeOf(module, Top))
        /\ CodeOf(module, Top)[Top.pc].op = "StoreMember"
    BY <1>1 DEF Running, Instr, Code, CodeOf
  <2>2. module \in ModuleType(Texts) /\ Covers(module, Top)
    BY <2>1, RunningFrame
  <2>3. PICK V : StackOver(V, module, frames) /\ Top \in FrameOf(V)
    BY <2>1, RunningFrame
  <2>4. Advanced(Top) \in FrameOf(V) /\ Covers(module, Advanced(Top))
    BY <2>1, <2>2, <2>3, NoResultCovers
  <2>5. frames' = [frames EXCEPT ![Len(frames)] = Advanced(Top)] /\ UNCHANGED <<module, status>>
    BY <1>4 DEF Advance
  <2>6. StackOK(module, [frames EXCEPT ![Len(frames)] = Advanced(Top)])
    BY <2>1, <2>3, <2>4, TopReplaced
  <2> QED BY <1>1, <2>5, <2>6 DEF Kept, Running
<1> QED BY <1>2, <1>3, <1>4 DEF StoreMember, Checked

\* Call: the frame that calls waits for the result.
LEMMA CallStep ==
  ASSUME Inv, Call
  PROVE  Kept
<1>1. Running /\ Instr.op = "Call"
  BY DEF Call, At
<1>2. ~Missing
  BY <1>1, NothingMissing
<1>3. frames # <<>> /\ VerifyModule(module)
  BY <1>1 DEF Running, Inv
<1>4. AtResult(module, frames[Len(frames)])
  BY <1>1 DEF AtResult, Running, Instr, Code, CodeOf, Top, Defines
<1>5. CASE Fail("runtime")
  BY <1>5, FailKeeps
<1>6. CASE \E name, args : Invoke(name, args)
  BY <1>3, <1>4, <1>6, InvokeKeeps
<1> QED BY <1>2, <1>5, <1>6 DEF Call, Checked

\* Branch and Jump go to blocks the verifier found.
LEMMA JumpStep ==
  ASSUME Inv, Branch \/ Jump
  PROVE  Kept
<1> DEFINE f == module.functions[Top.fn]
<1>1. Running /\ Instr.op \in {"Branch", "Jump"}
  BY DEF Branch, Jump, At
<1>2. ~Missing
  BY <1>1, NothingMissing
<1>3. CASE Fail("runtime")
  BY <1>3, FailKeeps
<1>4. /\ frames # <<>> /\ Top.pc <= Len(CodeOf(module, Top))
      /\ Instr = CodeOf(module, Top)[Top.pc]
  BY <1>1 DEF Running, Instr, Code, CodeOf
<1>5. module \in ModuleType(Texts) /\ VerifyModule(module) /\ Covers(module, Top)
  BY <1>4, RunningFrame
<1>6. \A p \in BlockOperands(Instr) : BlockExists(f, Instr.args[p])
  BY <1>4, <1>5, Standing DEF VerifyInstruction
<1>7. ASSUME NEW id, BlockExists(f, id), GoTo(id)
      PROVE  Kept
  <2> DEFINE new == [Top EXCEPT !.block = FindBlock(f, id), !.pc = 1]
  <2>1. frames' = [frames EXCEPT ![Len(frames)] = new] /\ UNCHANGED <<module, status>>
    BY <1>7 DEF GoTo
  <2>2. PICK V : StackOver(V, module, frames) /\ Top \in FrameOf(V)
    BY <1>4, RunningFrame
  <2>3. new \in FrameOf(V) /\ Covers(module, new)
    BY <1>5, <1>7, <2>2, JumpCovers
  <2> HIDE DEF new
  <2>4. StackOK(module, [frames EXCEPT ![Len(frames)] = new])
    BY <1>4, <2>2, <2>3, TopReplaced
  <2> QED BY <1>1, <2>1, <2>4 DEF Kept, Running
<1>8. CASE Branch
  <2>1. BlockExists(f, Instr.args[2]) /\ BlockExists(f, Instr.args[3])
    BY <1>6, <1>8 DEF Branch, At, BlockOperands
  <2>2. Fail("runtime") \/ GoTo(Instr.args[2]) \/ GoTo(Instr.args[3])
    BY <1>2, <1>8 DEF Branch, Checked
  <2> QED BY <1>3, <1>7, <2>1, <2>2
<1>9. CASE Jump
  <2>1. BlockExists(f, Instr.args[1])
    BY <1>6, <1>9 DEF Jump, At, BlockOperands
  <2>2. Fail("runtime") \/ GoTo(Instr.args[1])
    BY <1>2, <1>9 DEF Jump, Checked
  <2> QED BY <1>3, <1>7, <2>1, <2>2
<1> QED BY <1>8, <1>9

\* A return, written or not, delivers to the frame below.
LEMMA ReturnStep ==
  ASSUME Inv, Return \/ FallOff
  PROVE  Kept
<1>1. frames # <<>>
  BY DEF Return, FallOff, At, Running
<1>2. module \in ModuleType(Texts)
  BY InterpreterAssumption DEF Inv
<1>3. PICK V : StackOver(V, module, frames)
  BY <1>1, RunningFrame
<1>4. /\ StackOver(V, module, Caller)
      /\ Caller # <<>> => AtResult(module, Caller[Len(Caller)])
  BY <1>1, <1>3, FramePopped DEF Caller
<1>5. ASSUME NEW v, Deliver(Caller, v), module' = module
      PROVE  Kept
  BY <1>2, <1>4, <1>5, DeliverKeeps
<1>6. CASE Return
  <2>1. ~Missing
    BY <1>6, NothingMissing DEF Return, At
  <2>2. CASE Fail("runtime")
    BY <2>2, FailKeeps
  <2> QED BY <1>5, <1>6, <2>1, <2>2 DEF Return, Checked
<1>7. CASE FallOff
  BY <1>5, <1>7 DEF FallOff
<1> QED BY <1>6, <1>7
-----------------------------------------------------------------------------
(***************************************************************************)
(* Part 7: the theorem.                                                    *)
(***************************************************************************)

\* The machine starts without frames.
LEMMA InvInit == Init => Inv
<1> SUFFICES ASSUME Init PROVE Inv
  OBVIOUS
<1>1. \A V, m : StackOver(V, m, <<>>)
  BY EmptySeq DEF StackOver
<1> QED BY <1>1 DEF Init, Inv, StackOK

\* Every action keeps the invariant.
LEMMA InvNext == Inv /\ [Next]_vars => Inv'
<1> SUFFICES ASSUME Inv, [Next]_vars PROVE Inv'
  OBVIOUS
<1>1. CASE UNCHANGED vars
  BY <1>1 DEF vars, Inv, StackOK, StackOver, Covers, AtResult, CodeOf
<1>2. ASSUME Kept, VerifyModule(module)
      PROVE  Inv'
  BY <1>2 DEF Kept, Inv
<1>3. CASE Reject
  <2>1. Fail("rejected")
    BY <1>3 DEF Reject
  <2>2. Kept
    BY <2>1, FailKeeps
  <2>3. frames' = <<>>
    BY <1>3, <2>1 DEF Reject, Fail, Inv
  <2> QED BY <2>2, <2>3 DEF Kept, Inv
<1>4. CASE Start
  <2>1. VerifyModule(module) /\ frames = <<>> /\ Invoke(via.name, via.args)
    BY <1>4 DEF Start, Inv
  <2>2. Kept
    BY <2>1, InvokeKeeps
  <2> QED BY <1>2, <2>1, <2>2
<1>5. CASE Step
  <2>1. Kept
    BY <1>5, ResultStep, StoreLocalStep, StoreMemberStep, CallStep, JumpStep, ReturnStep DEF Step
  <2>2. frames # <<>>
    BY <1>5 DEF Step, LoadConst, BuildObject, BuildArray, LoadLocal, StoreLocal, LoadMember,
                StoreMember, Binary, Call, Branch, Jump, Return, FallOff, At, Running
  <2> QED BY <1>2, <2>1, <2>2 DEF Inv
<1>6. CASE Finish
  <2>1. status' \in {"done", "ok", "overflow", "stale"} /\ UNCHANGED <<module, frames>>
    BY <1>6, MaterializedOutcomes DEF Finish
  <2> QED BY <2>1 DEF Inv
<1> QED BY <1>1, <1>3, <1>4, <1>5, <1>6 DEF Next

\* The verifier's promise: whatever the modules, the depth of the stack and the
\* number of values, a verified program never asks for an operand, a constant, a
\* value, a local or a block that is not there.
THEOREM VerifierSound == Spec => []VerifiedNeverMissing
<1>1. Inv => VerifiedNeverMissing
  BY DEF Inv, VerifiedNeverMissing
<1> QED BY InvInit, InvNext, <1>1, PTL DEF Spec

\* Why: on every path a frame has what the verifier, which starts anew in every
\* block, counted as defined before the instruction it stands at.
THEOREM FramesCovered == Spec => []FramesCoverBlocks
<1>1. ASSUME Inv PROVE FramesCoverBlocks
  <2>1. PICK V : StackOver(V, module, frames)
    BY <1>1 DEF Inv, StackOK
  <2>2. DOMAIN frames = 1..Len(frames)
    BY <2>1, LenProperties DEF StackOver
  <2>3. ASSUME NEW x \in DOMAIN frames, NEW l \in 0..(MaxValues + Len(frames[x].locals))
        PROVE  l \in Nat
    <3>1. frames[x] \in FrameOf(V)
      BY <2>1, <2>2, ElementOfSeq DEF StackOver
    <3>2. Len(frames[x].locals) \in Nat
      BY <3>1, LenProperties DEF FrameOf
    <3> QED BY <3>2, InterpreterAssumption
  <2> QED BY <2>1, <2>2, <2>3 DEF StackOver, Covers, CodeOf, FramesCoverBlocks, Code
<1> QED BY InvInit, InvNext, <1>1, PTL DEF Spec
-----------------------------------------------------------------------------
(***************************************************************************)
(* No handle goes stale, for every set of modules: all that frames,        *)
(* console, result, arguments and objects hold is on the heap, and on the  *)
(* heap as the kind of thing the handle says, until the final collection;  *)
(* and the final collection keeps all that the embedder is given.          *)
(***************************************************************************)

\* A handle finds an object of its own kind.
Resolves(h, v) == IsReference(v) => v.ref \in DOMAIN h /\ h[v.ref].kind = v.kind

AllResolve(h, V) == \A v \in V : Resolves(h, v)

IsObject(o) == o = [kind |-> "object", fields |-> o.fields]
IsArray(o) == o = [kind |-> "array", items |-> o.items]

\* Objects are numbered as they are allocated, and hold what resolves.
HeapOK(h) ==
  /\ \E n \in Nat : DOMAIN h = 1..n
  /\ \A r \in DOMAIN h : (IsObject(h[r]) \/ IsArray(h[r])) /\ AllResolve(h, Contents(h[r]))

ValuesOf(fr) == ArgumentValues(fr.values) \union ArgumentValues(fr.locals)

FrameValues(fs) == UNION {ValuesOf(fs[x]) : x \in DOMAIN fs}

\* All that the program can still name or return.
Held ==
  ArgumentValues(console) \union {result} \union ArgumentValues(via.args)
    \union FrameValues(frames)

\* Nothing is stale, and while the program runs nothing can become so.
HandleInv ==
  /\ status # "stale"
  /\ IsSeq(via.args)
  /\ status \in {"loaded", "running", "returning"} =>
       HeapOK(heap) /\ IsSeq(console) /\ AllResolve(heap, Held)
-----------------------------------------------------------------------------
(***************************************************************************)
(* Part 8: the heap.                                                       *)
(***************************************************************************)

\* Primitives hold no handle.
LEMMA PrimitiveResolves ==
  /\ \A h, t : \A kind \in {"number", "string", "boolean", "null", "undefined"} :
       Resolves(h, Primitive(kind, t))
  /\ \A h : Resolves(h, Undefined)
BY DEF Resolves, IsReference, Primitive, Undefined

\* What objects and arrays hold.
LEMMA ContentsOf ==
  /\ \A o : IsObject(o) => o.kind = "object" /\ Contents(o) = {o.fields[n] : n \in DOMAIN o.fields}
  /\ \A o : IsArray(o) => o.kind = "array" /\ Contents(o) = {o.items[k] : k \in DOMAIN o.items}
  /\ \A f : IsObject([kind |-> "object", fields |-> f])
  /\ \A s : IsArray([kind |-> "array", items |-> s])
BY DEF IsObject, IsArray, Contents

\* An allocation takes a number no object has, and every handle still resolves.
LEMMA AllocationFresh ==
  ASSUME NEW h, HeapOK(h), NEW o, IsObject(o) \/ IsArray(o), AllResolve(h, Contents(o))
  PROVE  LET g == Allocated(h, o)
         IN  /\ HeapOK(g) /\ NewRef(h) \in DOMAIN g /\ g[NewRef(h)] = o
             /\ \A v : Resolves(h, v) => Resolves(g, v)
<1> DEFINE g == Allocated(h, o)
<1>1. PICK n \in Nat : DOMAIN h = 1..n
  BY DEF HeapOK
<1>2. NewRef(h) = n + 1
  <2>1. Cardinality(1..n) = n
    <3>1. 1 \in Int /\ n \in Int /\ ~(1 > n + 1)
      BY <1>1
    <3>2. Cardinality(1..n) = IF 1 > n THEN 0 ELSE n - 1 + 1
      BY <3>1, FS_Interval
    <3> QED BY <3>2
  <2> QED BY <1>1, <2>1 DEF NewRef
<1>3. /\ DOMAIN g = 1..(n + 1) /\ g[n + 1] = o
      /\ \A r \in DOMAIN h : g[r] = h[r]
  <2>1. g = [r \in DOMAIN h \union {n + 1} |-> IF r \in DOMAIN h THEN h[r] ELSE o]
    BY <1>2 DEF Allocated, NewRef
  <2> HIDE DEF g
  <2> QED BY <1>1, <2>1
<1> HIDE DEF g
<1>4. ASSUME NEW v, Resolves(h, v) PROVE Resolves(g, v)
  BY <1>1, <1>3, <1>4 DEF Resolves
<1>5. ASSUME NEW r \in DOMAIN g
      PROVE  (IsObject(g[r]) \/ IsArray(g[r])) /\ AllResolve(g, Contents(g[r]))
  <2>1. CASE r = n + 1
    BY <1>3, <1>4, <2>1 DEF AllResolve
  <2>2. CASE r # n + 1
    <3>1. r \in DOMAIN h /\ g[r] = h[r]
      BY <1>1, <1>3, <2>2
    <3> QED BY <1>4, <3>1 DEF HeapOK, AllResolve
  <2> QED BY <2>1, <2>2
<1>6. HeapOK(g)
  BY <1>1, <1>3, <1>5 DEF HeapOK
<1> QED BY <1>2, <1>3, <1>4, <1>6 DEF g

\* runtime_from_interop: the handle it answers is on the heap it leaves.
LEMMA FromInteropResolves ==
  ASSUME NEW h, HeapOK(h), NEW answer \in FromInterop(h)
  PROVE  /\ HeapOK(answer.heap) /\ Resolves(answer.heap, answer.value)
         /\ \A v : Resolves(h, v) => Resolves(answer.heap, v)
<1> DEFINE o == [kind |-> "object", fields |-> [n \in {"x"} |-> Primitive("number", TRUE)]]
           made == [value |-> Reference("object", NewRef(h)), heap |-> Allocated(h, o)]
<1>1. CASE \E t \in BOOLEAN : answer = [value |-> Primitive("number", t), heap |-> h]
  BY <1>1, PrimitiveResolves
<1>2. CASE answer = made
  <2>1. IsObject(o) /\ Contents(o) = {Primitive("number", TRUE)} /\ o.kind = "object"
    BY DEF IsObject, Contents
  <2>2. AllResolve(h, Contents(o))
    BY <2>1, PrimitiveResolves DEF AllResolve
  <2> HIDE DEF o
  <2>3. LET g == Allocated(h, o)
        IN  /\ HeapOK(g) /\ NewRef(h) \in DOMAIN g /\ g[NewRef(h)] = o
            /\ \A v : Resolves(h, v) => Resolves(g, v)
    BY <2>1, <2>2, AllocationFresh
  <2>4. Resolves(Allocated(h, o), Reference("object", NewRef(h)))
    BY <2>1, <2>3 DEF Resolves, Reference
  <2> QED BY <1>2, <2>3, <2>4
<1>3. answer = made \/ \E t \in BOOLEAN : answer = [value |-> Primitive("number", t), heap |-> h]
  BY DEF FromInterop
<1> QED BY <1>1, <1>2, <1>3

\* store_member: the object stays an object, with a field more or another value.
LEMMA FieldStored ==
  ASSUME NEW h, HeapOK(h), NEW r \in DOMAIN h, h[r].kind = "object",
         NEW new, \A n \in DOMAIN new : Resolves(h, new[n])
  PROVE  LET g == [h EXCEPT ![r].fields = new]
         IN  HeapOK(g) /\ \A w : Resolves(h, w) => Resolves(g, w)
<1> DEFINE o == [kind |-> "object", fields |-> new]
           g == [h EXCEPT ![r].fields = new]
<1>1. h[r] = [kind |-> "object", fields |-> h[r].fields]
  BY DEF HeapOK, IsObject, IsArray
<1>2. g = [h EXCEPT ![r] = o]
  <2>1. [h[r] EXCEPT !.fields = new] = o
    BY <1>1
  <2> HIDE DEF o
  <2> QED BY <2>1
<1> HIDE DEF g
<1>3. /\ DOMAIN g = DOMAIN h /\ g[r] = o /\ o.kind = "object"
      /\ \A q \in DOMAIN h : q # r => g[q] = h[q]
  BY <1>2
<1>4. ASSUME NEW w, Resolves(h, w) PROVE Resolves(g, w)
  <2> HIDE DEF o
  <2> QED BY <1>3, <1>4 DEF Resolves
<1>5. IsObject(o) /\ Contents(o) = {new[n] : n \in DOMAIN new}
  BY DEF IsObject, Contents
<1> HIDE DEF o
<1>6. ASSUME NEW q \in DOMAIN g
      PROVE  (IsObject(g[q]) \/ IsArray(g[q])) /\ AllResolve(g, Contents(g[q]))
  <2>1. CASE q = r
    BY <1>3, <1>4, <1>5, <2>1 DEF AllResolve
  <2>2. CASE q # r
    BY <1>3, <1>4, <2>2 DEF HeapOK, AllResolve
  <2> QED BY <2>1, <2>2
<1>7. HeapOK(g)
  BY <1>3, <1>6 DEF HeapOK
<1> QED BY <1>4, <1>7 DEF g

\* What is reached from a reached object is reached.
LEMMA ReachClosed ==
  ASSUME NEW h, HeapOK(h), NEW R, R \subseteq DOMAIN h
  PROVE  /\ R \subseteq Reach(h, R)
         /\ \A r \in Reach(h, R) : Refs(Contents(h[r])) \subseteq Reach(h, R)
<1>1. DOMAIN h \union R = DOMAIN h
  OBVIOUS
<1>2. \A r \in DOMAIN h : Refs(Contents(h[r])) \subseteq DOMAIN h
  BY DEF HeapOK, AllResolve, Resolves, Refs
<1>3. R \subseteq Reach(h, R)
  BY <1>1 DEF Reach
<1>4. ASSUME NEW r \in Reach(h, R), NEW q \in Refs(Contents(h[r]))
      PROVE  q \in Reach(h, R)
  <2>1. r \in DOMAIN h
    BY <1>1 DEF Reach
  <2>2. q \in DOMAIN h
    BY <1>2, <2>1
  <2>3. ASSUME NEW S \in SUBSET (DOMAIN h \union R), R \subseteq S,
               \A p \in S \cap DOMAIN h : Refs(Contents(h[p])) \subseteq S
        PROVE  q \in S
    <3>1. r \in S
      BY <2>3 DEF Reach
    <3> QED BY <2>1, <2>3, <3>1
  <2> QED BY <1>1, <2>2, <2>3 DEF Reach
<1> QED BY <1>3, <1>4

\* materialize finds every handle on a heap where what it walks is closed.
LEMMA NeverStale ==
  ASSUME NEW h, NEW V, Refs(V) \subseteq DOMAIN h,
         \A r \in DOMAIN h : Refs(Contents(h[r])) \subseteq DOMAIN h
  PROVE  Materialized(h, V) # "stale"
<1>1. DOMAIN h \union Refs(V) = DOMAIN h
  OBVIOUS
<1>2. Reach(h, Refs(V)) \subseteq DOMAIN h
  BY <1>1 DEF Reach
<1> QED BY <1>2 DEF Materialized

\* Values that resolve have their references on the heap.
LEMMA ResolvedRefs ==
  ASSUME NEW h, NEW V, AllResolve(h, V)
  PROVE  Refs(V) \subseteq DOMAIN h
BY DEF AllResolve, Resolves, Refs

\* On a heap in order no object refers off it.
LEMMA HeapClosed ==
  ASSUME NEW h, HeapOK(h)
  PROVE  \A r \in DOMAIN h : Refs(Contents(h[r])) \subseteq DOMAIN h
BY ResolvedRefs DEF HeapOK
-----------------------------------------------------------------------------
(***************************************************************************)
(* Part 9: what frames and sequences of values hold.                       *)
(***************************************************************************)

\* A value appended is the only one added.
LEMMA AppendValues ==
  ASSUME NEW V, NEW s \in Seq(V), NEW v
  PROVE  ArgumentValues(Append(s, v)) \subseteq ArgumentValues(s) \union {v}
<1> DEFINE t == Append(s, v)
<1>1. IsSeq(s)
  BY SeqIsSeq
<1>2. DOMAIN s = 1..Len(s) /\ Len(s) \in Nat
  BY <1>1, SeqFacts
<1>3. /\ DOMAIN t = 1..(Len(s) + 1) /\ t[Len(s) + 1] = v
      /\ \A k \in DOMAIN s : t[k] = s[k]
  BY <1>1, AppendFacts
<1> HIDE DEF t
<1>4. ArgumentValues(t) \subseteq ArgumentValues(s) \union {v}
  BY <1>2, <1>3 DEF ArgumentValues
<1> QED BY <1>4 DEF t

\* Two lists of values one after the other hold what the two hold.
LEMMA ConcatValues ==
  ASSUME NEW s, NEW t, IsSeq(s), IsSeq(t)
  PROVE  /\ IsSeq(s \o t)
         /\ ArgumentValues(s \o t) \subseteq ArgumentValues(s) \union ArgumentValues(t)
<1> DEFINE u == s \o t
<1>1. /\ IsSeq(u)
      /\ \A k \in DOMAIN u : \/ \E j \in DOMAIN s : u[k] = s[j]
                             \/ \E j \in DOMAIN t : u[k] = t[j]
  <2>1. IsSeq(s \o t)
    BY ConcatFacts
  <2>2. \A k \in DOMAIN (s \o t) : \/ \E j \in DOMAIN s : (s \o t)[k] = s[j]
                                   \/ \E j \in DOMAIN t : (s \o t)[k] = t[j]
    BY ConcatHolds
  <2> QED BY <2>1, <2>2
<1> HIDE DEF u
<1>2. ArgumentValues(u) \subseteq ArgumentValues(s) \union ArgumentValues(t)
  BY <1>1 DEF ArgumentValues
<1> QED BY <1>1, <1>2 DEF u

\* A result adds itself to what the frame holds.
LEMMA ResumedValues ==
  ASSUME NEW V, NEW fr \in FrameOf(V), NEW v
  PROVE  ValuesOf(Resumed(fr, v)) \subseteq ValuesOf(fr) \union {v}
<1>1. Resumed(fr, v).values = Append(fr.values, v) /\ Resumed(fr, v).locals = fr.locals
  BY DEF Resumed, FrameOf
<1>2. fr.values \in Seq(V)
  BY DEF FrameOf
<1> QED BY <1>1, <1>2, AppendValues DEF ValuesOf

\* A store adds the value stored, and undefined for the locals it makes room for.
LEMMA StoredValues ==
  ASSUME NEW V, NEW locals \in Seq(V), NEW l \in Nat, NEW v
  PROVE  ArgumentValues(StoredLocal(locals, l, v))
           \subseteq ArgumentValues(locals) \union {v, Undefined}
<1> DEFINE n == IF Len(locals) <= l THEN l + 1 ELSE Len(locals)
           new == StoredLocal(locals, l, v)
<1>1. DOMAIN locals = 1..Len(locals) /\ Len(locals) \in Nat
  BY LenProperties
<1>2. /\ DOMAIN new = 1..n
      /\ \A k \in 1..n : new[k] = v \/ new[k] = Undefined
                            \/ (k <= Len(locals) /\ new[k] = locals[k])
  BY <1>1 DEF StoredLocal
<1>3. \A k \in 1..n : k <= Len(locals) => k \in DOMAIN locals
  BY <1>1
<1> HIDE DEF new, n
<1>4. ArgumentValues(new) \subseteq ArgumentValues(locals) \union {v, Undefined}
  BY <1>2, <1>3 DEF ArgumentValues
<1> QED BY <1>4 DEF new

\* A frame replaced, pushed or popped brings in its own values only.
LEMMA StackValues ==
  ASSUME NEW V, NEW fs \in Seq(FrameOf(V)), NEW fr
  PROVE  /\ FrameValues(Append(fs, fr)) \subseteq FrameValues(fs) \union ValuesOf(fr)
         /\ FrameValues([fs EXCEPT ![Len(fs)] = fr]) \subseteq FrameValues(fs) \union ValuesOf(fr)
         /\ fs # <<>> => FrameValues(SubSeq(fs, 1, Len(fs) - 1)) \subseteq FrameValues(fs)
<1> DEFINE W == FrameOf(V) \union {fr}
<1>1. fs \in Seq(W) /\ fr \in W
  BY SeqMonotonic
<1> HIDE DEF W
<1>2. DOMAIN fs = 1..Len(fs) /\ Len(fs) \in Nat
  BY LenProperties
<1>3. FrameValues(Append(fs, fr)) \subseteq FrameValues(fs) \union ValuesOf(fr)
  <2> DEFINE t == Append(fs, fr)
  <2>1. t \in Seq(W) /\ Len(t) = Len(fs) + 1 /\ t[Len(fs) + 1] = fr
        /\ \A k \in 1..Len(fs) : t[k] = fs[k]
    BY <1>1, AppendProperties
  <2>2. DOMAIN t = 1..Len(t)
    BY <2>1, LenProperties
  <2> HIDE DEF t
  <2>3. \A x \in DOMAIN t : t[x] = fr \/ (x \in DOMAIN fs /\ t[x] = fs[x])
    BY <1>2, <2>1, <2>2
  <2>4. FrameValues(t) \subseteq FrameValues(fs) \union ValuesOf(fr)
    BY <2>3 DEF FrameValues
  <2> QED BY <2>4 DEF t
<1>4. FrameValues([fs EXCEPT ![Len(fs)] = fr]) \subseteq FrameValues(fs) \union ValuesOf(fr)
  <2> DEFINE t == [fs EXCEPT ![Len(fs)] = fr]
  <2>1. DOMAIN t = DOMAIN fs /\ \A x \in DOMAIN t : t[x] = fr \/ t[x] = fs[x]
    OBVIOUS
  <2> HIDE DEF t
  <2>2. FrameValues(t) \subseteq FrameValues(fs) \union ValuesOf(fr)
    BY <2>1 DEF FrameValues
  <2> QED BY <2>2 DEF t
<1>5. fs # <<>> => FrameValues(SubSeq(fs, 1, Len(fs) - 1)) \subseteq FrameValues(fs)
  <2> SUFFICES ASSUME fs # <<>>
               PROVE  FrameValues(SubSeq(fs, 1, Len(fs) - 1)) \subseteq FrameValues(fs)
    OBVIOUS
  <2> DEFINE n == Len(fs) - 1
             t == SubSeq(fs, 1, n)
  <2>1. n \in Nat
    BY <1>2, EmptySeq
  <2>2. n < Len(fs)
    BY <1>2
  <2>3. \A x \in 1..n : fs[x] \in FrameOf(V)
    BY <1>2, <2>1, <2>2, ElementOfSeq
  <2> HIDE DEF n
  <2>4. /\ t \in Seq(FrameOf(V)) /\ Len(t) = IF 1 <= n THEN n - 1 + 1 ELSE 0
        /\ \A x \in 1..(n - 1 + 1) : t[x] = fs[1 + x - 1]
    BY <2>1, <2>3, SubSeqProperties
  <2>5. DOMAIN t = 1..Len(t)
    BY <2>4, LenProperties
  <2> HIDE DEF t
  <2>6. \A x \in DOMAIN t : x \in DOMAIN fs /\ t[x] = fs[x]
    BY <1>2, <2>1, <2>2, <2>4, <2>5
  <2>7. FrameValues(t) \subseteq FrameValues(fs)
    BY <2>6 DEF FrameValues
  <2> QED BY <2>7 DEF n, t
<1> QED BY <1>3, <1>4, <1>5

\* Frame::new holds arguments and undefined only.
LEMMA NewFrameValues ==
  ASSUME NEW x, NEW args, IsSeq(args)
  PROVE  ValuesOf(NewFrame(x, args)) \subseteq ArgumentValues(args) \union {Undefined}
<1> DEFINE n == module.functions[x].params
           locals == [k \in 1..n |-> IF k <= Len(args) THEN args[k] ELSE Undefined]
<1>1. NewFrame(x, args).values = <<>> /\ NewFrame(x, args).locals = locals
  BY DEF NewFrame
<1>2. DOMAIN args = 1..Len(args) /\ Len(args) \in Nat
  BY LenProperties DEF IsSeq
<1>3. ArgumentValues(<<>>) = {}
  BY EmptySeq DEF ArgumentValues
<1>4. ASSUME NEW w \in ArgumentValues(locals)
      PROVE  w \in ArgumentValues(args) \union {Undefined}
  <2>1. PICK k \in 1..n : w = IF k <= Len(args) THEN args[k] ELSE Undefined
    BY DEF ArgumentValues
  <2>2. k <= Len(args) => k \in DOMAIN args
    BY <1>2
  <2> QED BY <2>1, <2>2 DEF ArgumentValues
<1> QED BY <1>1, <1>3, <1>4 DEF ValuesOf
-----------------------------------------------------------------------------
(***************************************************************************)
(* Part 10: steps and calls.                                               *)
(***************************************************************************)

\* A live program knows its frames to be sequences of values.
LEMMA FramesTyped ==
  ASSUME Inv
  PROVE  \E V : /\ frames \in Seq(FrameOf(V))
                /\ \A x \in DOMAIN frames : frames[x] \in FrameOf(V)
                /\ frames # <<>> => Len(frames) \in DOMAIN frames /\ Top \in FrameOf(V)
<1>1. PICK V : frames \in Seq(FrameOf(V))
  BY DEF Inv, StackOK, StackOver
<1>2. DOMAIN frames = 1..Len(frames) /\ Len(frames) \in Nat
  BY <1>1, LenProperties
<1>3. \A x \in DOMAIN frames : frames[x] \in FrameOf(V)
  BY <1>1, <1>2, ElementOfSeq
<1>4. frames # <<>> => Len(frames) \in DOMAIN frames
  BY <1>1, <1>2, EmptySeq
<1> QED BY <1>1, <1>3, <1>4 DEF Top

\* What a step has to show.
LEMMA HandleStep ==
  ASSUME HandleInv, status \in {"loaded", "running", "returning"}, via' = via,
         status' # "stale", HeapOK(heap'), IsSeq(console'),
         \A v : Resolves(heap, v) => Resolves(heap', v),
         AllResolve(heap', ArgumentValues(console')), Resolves(heap', result'),
         AllResolve(heap', FrameValues(frames'))
  PROVE  HandleInv'
<1>1. AllResolve(heap', ArgumentValues(via.args)) /\ IsSeq(via.args)
  BY DEF HandleInv, Held, AllResolve
<1>2. AllResolve(heap', ArgumentValues(console') \union {result'} \union ArgumentValues(via'.args)
                          \union FrameValues(frames'))
  BY <1>1 DEF AllResolve
<1> QED BY <1>1, <1>2 DEF HandleInv, Held

\* The same when heap and console stay as they are.
LEMMA QuietStep ==
  ASSUME HandleInv, status \in {"loaded", "running", "returning"},
         UNCHANGED <<via, heap, console>>, status' # "stale",
         Resolves(heap, result'), AllResolve(heap, FrameValues(frames'))
  PROVE  HandleInv'
<1>1. HeapOK(heap) /\ IsSeq(console) /\ AllResolve(heap, ArgumentValues(console))
  BY DEF HandleInv, Held, AllResolve
<1> QED BY <1>1, HandleStep

\* A program that ends with another error has no stale handle.
LEMMA FailHandles ==
  ASSUME HandleInv, NEW error, error \notin {"stale", "loaded", "running", "returning"}, Fail(error)
  PROVE  HandleInv'
BY DEF HandleInv, Fail

\* What a live program holds.
LEMMA HeldResolves ==
  ASSUME HandleInv, status \in {"loaded", "running", "returning"}
  PROVE  /\ HeapOK(heap) /\ IsSeq(console) /\ IsSeq(via.args)
         /\ AllResolve(heap, FrameValues(frames)) /\ AllResolve(heap, ArgumentValues(console))
         /\ AllResolve(heap, ArgumentValues(via.args)) /\ Resolves(heap, result)
BY DEF HandleInv, Held, AllResolve

\* A value delivered to a frame or to the embedder.
LEMMA DeliverHandles ==
  ASSUME NEW V, NEW fs \in Seq(FrameOf(V)), NEW v, Deliver(fs, v), NEW h,
         AllResolve(h, FrameValues(fs)), Resolves(h, v), Resolves(h, result)
  PROVE  /\ AllResolve(h, FrameValues(frames')) /\ Resolves(h, result')
         /\ status' \in {"running", "returning"}
<1>1. CASE fs = <<>>
  BY <1>1 DEF Deliver
<1>2. CASE fs # <<>>
  <2> DEFINE top == fs[Len(fs)]
             new == Resumed(top, v)
  <2>1. frames' = [fs EXCEPT ![Len(fs)] = new] /\ status' = "running" /\ result' = result
    BY <1>2 DEF Deliver
  <2>2. Len(fs) \in 1..Len(fs) /\ DOMAIN fs = 1..Len(fs)
    BY <1>2, EmptySeq, LenProperties
  <2>3. top \in FrameOf(V)
    BY <2>2, ElementOfSeq
  <2>4. ValuesOf(top) \subseteq FrameValues(fs)
    BY <2>2 DEF FrameValues
  <2> HIDE DEF top
  <2>5. ValuesOf(new) \subseteq FrameValues(fs) \union {v}
    BY <2>3, <2>4, ResumedValues
  <2> HIDE DEF new
  <2>6. FrameValues(frames') \subseteq FrameValues(fs) \union {v}
    BY <2>1, <2>5, StackValues
  <2> QED BY <2>1, <2>6 DEF AllResolve
<1> QED BY <1>1, <1>2

\* call_function, by outcome: arguments that resolve stay resolved.
LEMMA InvokeHandles ==
  ASSUME Inv, HandleInv, status \in {"loaded", "running"}, NEW name, NEW args,
         IsSeq(args), AllResolve(heap, ArgumentValues(args)), Invoke(name, args)
  PROVE  HandleInv'
<1>1. PICK V : frames \in Seq(FrameOf(V))
  BY FramesTyped
<1>2. /\ HeapOK(heap) /\ IsSeq(console)
      /\ AllResolve(heap, FrameValues(frames)) /\ AllResolve(heap, ArgumentValues(console))
      /\ Resolves(heap, result)
  BY HeldResolves
<1>3. CASE InvokeConsole(name, args)
  <2>1. console' = console \o args /\ Deliver(frames, Undefined) /\ via' = via /\ heap' = heap
    BY <1>3 DEF InvokeConsole
  <2>2. IsSeq(console') /\ AllResolve(heap, ArgumentValues(console'))
    BY <1>2, <2>1, ConcatValues DEF AllResolve
  <2>3. /\ AllResolve(heap, FrameValues(frames')) /\ Resolves(heap, result')
        /\ status' \in {"running", "returning"}
    BY <1>1, <1>2, <2>1, PrimitiveResolves, DeliverHandles
  <2> QED BY <1>2, <2>1, <2>2, <2>3, HandleStep
<1>4. CASE InvokeUnmaterialized(name, args)
  <2> DEFINE outcome == Materialized(heap, ArgumentValues(args))
  <2>1. Fail(outcome) /\ outcome \in {"ok", "overflow", "stale"}
    BY <1>4, MaterializedOutcomes DEF InvokeUnmaterialized
  <2>2. outcome # "stale"
    BY <1>2, HeapClosed, ResolvedRefs, NeverStale
  <2> HIDE DEF outcome
  <2> QED BY <2>1, <2>2, FailHandles
<1>5. CASE InvokeHost(name, args)
  <2>1. CASE Fail("interop")
    BY <2>1, FailHandles
  <2>2. CASE \E answer \in FromInterop(heap) :
               heap' = answer.heap /\ Deliver(frames, answer.value) /\ UNCHANGED <<via, console>>
    <3>1. PICK answer \in FromInterop(heap) :
            heap' = answer.heap /\ Deliver(frames, answer.value) /\ UNCHANGED <<via, console>>
      BY <2>2
    <3>2. /\ HeapOK(heap') /\ Resolves(heap', answer.value)
          /\ \A v : Resolves(heap, v) => Resolves(heap', v)
      BY <1>2, <3>1, FromInteropResolves
    <3>3. /\ AllResolve(heap', FrameValues(frames)) /\ AllResolve(heap', ArgumentValues(console))
          /\ Resolves(heap', result)
      BY <1>2, <3>2 DEF AllResolve
    <3>4. /\ AllResolve(heap', FrameValues(frames')) /\ Resolves(heap', result')
          /\ status' \in {"running", "returning"}
      BY <1>1, <3>1, <3>2, <3>3, DeliverHandles
    <3> QED BY <1>2, <3>1, <3>2, <3>3, <3>4, HandleStep
  <2> QED BY <1>5, <2>1, <2>2 DEF InvokeHost
<1>6. CASE InvokeFunction(name, args)
  <2> DEFINE fr == NewFrame(FindFunction(name), args)
  <2>1. CASE Fail("no entry block")
    BY <2>1, FailHandles
  <2>2. CASE /\ frames' = Append(frames, fr) /\ status' = "running"
             /\ UNCHANGED <<via, heap, console, result>>
    <3>1. ValuesOf(fr) \subseteq ArgumentValues(args) \union {Undefined}
      BY NewFrameValues
    <3> HIDE DEF fr
    <3>2. FrameValues(frames') \subseteq FrameValues(frames) \union ArgumentValues(args) \union {Undefined}
      BY <1>1, <2>2, <3>1, StackValues
    <3>3. AllResolve(heap, FrameValues(frames'))
      BY <1>2, <3>2, PrimitiveResolves DEF AllResolve
    <3> QED BY <1>2, <2>2, <3>3, QuietStep
  <2> QED BY <1>6, <2>1, <2>2 DEF InvokeFunction
<1>7. CASE InvokeUnknown(name, args)
  BY <1>7, FailHandles DEF InvokeUnknown
<1> QED BY <1>3, <1>4, <1>5, <1>6, <1>7 DEF Invoke
-----------------------------------------------------------------------------
(***************************************************************************)
(* Part 11: every instruction.                                             *)
(***************************************************************************)

\* The operands of a verified instruction are values the frame holds and
\* constants of the module.
LEMMA OperandsHeld ==
  ASSUME Inv, Running
  PROVE  /\ ~Missing
         /\ Instr.args \in Seq(Nat) /\ OperandCounts(Instr)
         /\ \A p \in ValueOperands(Instr) : ValueAt(p) \in FrameValues(frames)
         /\ \A p \in ConstantOperands(Instr) : ConstAt(p) \in ConstantType(Texts)
         /\ Instr.op = "LoadLocal" => Top.locals[Instr.args[1] + 1] \in FrameValues(frames)
         /\ ValuesOf(Top) \subseteq FrameValues(frames)
<1>1. frames # <<>> /\ Top.pc <= Len(CodeOf(module, Top)) /\ Instr = CodeOf(module, Top)[Top.pc]
  BY DEF Running, Instr, Code, CodeOf
<1>2. ~Missing
  BY NothingMissing
<1>3. module \in ModuleType(Texts) /\ VerifyModule(module) /\ Covers(module, Top)
  BY <1>1, RunningFrame
<1>4. /\ Instr \in InstructionType /\ Instr.args \in Seq(Nat)
      /\ VerifyInstruction(module, module.functions[Top.fn], CodeOf(module, Top), Top.pc)
  BY <1>1, <1>3, Standing
<1>5. OperandCounts(Instr)
  BY <1>1, <1>4 DEF VerifyInstruction
<1>6. /\ ValueOperands(Instr) \subseteq DOMAIN Instr.args
      /\ ConstantOperands(Instr) \subseteq DOMAIN Instr.args
      /\ Indexed(Instr) \subseteq DOMAIN Instr.args
      /\ \A p \in DOMAIN Instr.args : Instr.args[p] \in Nat
  BY <1>4, <1>5, OperandsThere, LenProperties, ElementOfSeq
<1>7. PICK V : Top \in FrameOf(V) /\ Len(frames) \in DOMAIN frames
  BY <1>1, FramesTyped
<1>8. ValuesOf(Top) \subseteq FrameValues(frames)
  BY <1>7 DEF FrameValues, Top
<1>9. /\ DOMAIN Top.values = 1..Len(Top.values) /\ Len(Top.values) \in Nat
      /\ DOMAIN Top.locals = 1..Len(Top.locals) /\ Len(Top.locals) \in Nat
  BY <1>7, LenProperties DEF FrameOf
<1>10. ASSUME NEW p \in ValueOperands(Instr) PROVE ValueAt(p) \in FrameValues(frames)
  <2>1. Instr.args[p] \in Nat /\ ~(Instr.args[p] >= Len(Top.values))
    BY <1>2, <1>6 DEF Missing
  <2>2. Instr.args[p] + 1 \in DOMAIN Top.values
    BY <1>9, <2>1
  <2> QED BY <1>8, <2>2 DEF ValueAt, ValuesOf, ArgumentValues
<1>11. ASSUME NEW p \in ConstantOperands(Instr) PROVE ConstAt(p) \in ConstantType(Texts)
  <2>1. module.constants \in Seq(ConstantType(Texts))
    BY <1>3 DEF ModuleType
  <2>2. Len(module.constants) \in Nat
    BY <2>1, LenProperties
  <2>3. Instr.args[p] \in Nat /\ ~(Instr.args[p] >= Len(module.constants))
    BY <1>2, <1>6 DEF Missing
  <2>4. Instr.args[p] + 1 \in 1..Len(module.constants)
    BY <2>2, <2>3
  <2> QED BY <2>1, <2>4, ElementOfSeq DEF ConstAt
<1>12. ASSUME Instr.op = "LoadLocal"
       PROVE  Top.locals[Instr.args[1] + 1] \in FrameValues(frames)
  <2>1. 1 \in Indexed(Instr)
    BY <1>12 DEF Indexed
  <2>2. Instr.args[1] \in Nat /\ ~(Instr.args[1] >= Len(Top.locals))
    BY <1>2, <1>6, <1>12, <2>1 DEF Missing
  <2>3. Instr.args[1] + 1 \in DOMAIN Top.locals
    BY <1>9, <2>2
  <2> QED BY <1>8, <2>3 DEF ValuesOf, ArgumentValues
<1> QED BY <1>2, <1>4, <1>5, <1>8, <1>10, <1>11, <1>12

\* An operand of a running program resolves.
LEMMA OperandResolves ==
  ASSUME Inv, HandleInv, Running, NEW p \in ValueOperands(Instr)
  PROVE  Resolves(heap, ValueAt(p))
<1>1. ValueAt(p) \in FrameValues(frames)
  BY OperandsHeld
<1>2. AllResolve(heap, FrameValues(frames))
  BY HeldResolves DEF Running
<1> QED BY <1>1, <1>2 DEF AllResolve

\* push_value of a value that resolves.
LEMMA PushHandles ==
  ASSUME Inv, HandleInv, Running, NEW v, Push(v), console' = console, HeapOK(heap'),
         \A w : Resolves(heap, w) => Resolves(heap', w), Resolves(heap', v)
  PROVE  HandleInv'
<1>1. PICK V : frames \in Seq(FrameOf(V))
  BY FramesTyped
<1>2. /\ IsSeq(console) /\ status = "running"
      /\ AllResolve(heap, FrameValues(frames)) /\ AllResolve(heap, ArgumentValues(console))
      /\ Resolves(heap, result)
  BY HeldResolves DEF Running
<1>3. /\ AllResolve(heap', FrameValues(frames)) /\ AllResolve(heap', ArgumentValues(console))
      /\ Resolves(heap', result)
  BY <1>2 DEF AllResolve
<1>4. Deliver(frames, v) /\ via' = via
  BY DEF Push
<1>5. /\ AllResolve(heap', FrameValues(frames')) /\ Resolves(heap', result')
      /\ status' \in {"running", "returning"}
  BY <1>1, <1>3, <1>4, DeliverHandles
<1> QED BY <1>2, <1>3, <1>4, <1>5, HandleStep

\* Constants are primitives.
LEMMA LoadConstHandles ==
  ASSUME Inv, HandleInv, LoadConst
  PROVE  HandleInv'
<1>1. Running /\ Instr.op = "LoadConst" /\ HeapOK(heap)
  BY HeldResolves DEF LoadConst, At, Running
<1>2. ~Missing /\ ConstAt(1) \in ConstantType(Texts)
  BY <1>1, OperandsHeld DEF ConstantOperands
<1>3. Resolves(heap, ConstantValue(ConstAt(1)))
  BY <1>2, PrimitiveResolves DEF ConstantType, ConstantValue
<1>4. CASE Fail("runtime")
  BY <1>4, FailHandles
<1>5. CASE Push(ConstantValue(ConstAt(1))) /\ UNCHANGED <<heap, console>>
  BY <1>1, <1>3, <1>5, PushHandles
<1> QED BY <1>2, <1>4, <1>5 DEF LoadConst, Checked

\* A local is a value the frame holds.
LEMMA LoadLocalHandles ==
  ASSUME Inv, HandleInv, LoadLocal
  PROVE  HandleInv'
<1> DEFINE v == Top.locals[Instr.args[1] + 1]
<1>1. /\ Running /\ Instr.op = "LoadLocal" /\ HeapOK(heap)
      /\ AllResolve(heap, FrameValues(frames))
  BY HeldResolves DEF LoadLocal, At, Running
<1>2. ~Missing /\ v \in FrameValues(frames)
  BY <1>1, OperandsHeld
<1>3. Resolves(heap, v)
  BY <1>1, <1>2 DEF AllResolve
<1>4. CASE Fail("runtime")
  BY <1>4, FailHandles
<1>5. CASE Push(v) /\ UNCHANGED <<heap, console>>
  BY <1>1, <1>3, <1>5, PushHandles
<1> QED BY <1>2, <1>4, <1>5 DEF LoadLocal, Checked

\* An operator makes primitives, except ??, which passes an operand on.
LEMMA BinaryHandles ==
  ASSUME Inv, HandleInv, Binary
  PROVE  HandleInv'
<1>1. Running /\ Instr.op = "Binary" /\ HeapOK(heap)
  BY HeldResolves DEF Binary, At, Running
<1>2. ~Missing
  BY <1>1, OperandsHeld
<1>3. Resolves(heap, ValueAt(2)) /\ Resolves(heap, ValueAt(3))
  <2>1. {2, 3} = ValueOperands(Instr)
    BY <1>1 DEF ValueOperands
  <2> QED BY <1>1, <2>1, OperandResolves
<1> DEFINE results == BinaryResults(Instr.args[1], ValueAt(2), ValueAt(3))
<1>4. ASSUME NEW v \in results PROVE Resolves(heap, v)
  <2>1. \/ v \in {ValueAt(2), ValueAt(3)}
        \/ \E t \in BOOLEAN, kind \in {"number", "string", "boolean"} : v = Primitive(kind, t)
    <3> DEFINE l == ValueAt(2)
               r == ValueAt(3)
               op == Instr.args[1]
    <3>1. v \in BinaryResults(op, l, r)
      OBVIOUS
    <3> HIDE DEF l, r, op
    <3> QED BY <3>1 DEF BinaryResults
  <2> QED BY <1>3, <2>1, PrimitiveResolves
<1>5. CASE Fail("runtime")
  BY <1>5, FailHandles
<1>6. CASE \E v \in results : Push(v) /\ UNCHANGED <<heap, console>>
  <2>1. PICK v \in results : Push(v) /\ UNCHANGED <<heap, console>>
    BY <1>6
  <2> HIDE DEF results
  <2> QED BY <1>1, <1>4, <2>1, PushHandles
<1> QED BY <1>2, <1>5, <1>6 DEF Binary, Checked

\* The object is on the heap before the frame knows its handle.
LEMMA BuildHandles ==
  ASSUME Inv, HandleInv, Running, NEW o, IsObject(o) \/ IsArray(o),
         AllResolve(heap, Contents(o)), Build(o.kind, o)
  PROVE  HandleInv'
<1>1. HeapOK(heap)
  BY HeldResolves DEF Running
<1>2. /\ heap' = Allocated(heap, o) /\ Push(Reference(o.kind, NewRef(heap))) /\ console' = console
  BY DEF Build
<1>3. /\ HeapOK(heap') /\ NewRef(heap) \in DOMAIN heap' /\ heap'[NewRef(heap)] = o
      /\ \A v : Resolves(heap, v) => Resolves(heap', v)
  BY <1>1, <1>2, AllocationFresh
<1>4. Resolves(heap', Reference(o.kind, NewRef(heap)))
  BY <1>3 DEF Resolves, Reference
<1> QED BY <1>2, <1>3, <1>4, PushHandles

\* The fields of a new object are operands, each under the last pair of its name.
LEMMA BuildObjectHandles ==
  ASSUME Inv, HandleInv, BuildObject
  PROVE  HandleInv'
<1> DEFINE o == [kind |-> "object", fields |-> BuiltFields]
           pairs == 1..Instr.args[1]
           last(n) == CHOOSE p \in pairs :
                        NameAt(2 * p) = n /\ \A q \in pairs : NameAt(2 * q) = n => q <= p
<1>1. Running /\ Instr.op = "BuildObject"
  BY DEF BuildObject, At
<1>2. /\ ~Missing /\ ValueOperands(Instr) = {2 * p + 1 : p \in pairs}
  BY <1>1, OperandsHeld DEF ValueOperands
<1>3. Instr.args[1] \in Nat
  <2>1. Instr.args \in Seq(Nat) /\ Len(Instr.args) > 0
    BY <1>1, OperandsHeld DEF OperandCounts
  <2> QED BY <2>1, LenProperties, ElementOfSeq
<1>4. ASSUME NEW n \in {NameAt(2 * p) : p \in pairs} PROVE last(n) \in pairs
  <2> DEFINE S == {p \in pairs : NameAt(2 * p) = n}
  <2>1. S \in SUBSET pairs /\ S # {}
    OBVIOUS
  <2>2. PICK p \in S : \A q \in S : q <= p
    BY <1>3, <2>1, GreatestOf
  <2> QED BY <2>2
<1>5. BuiltFields = [n \in {NameAt(2 * p) : p \in pairs} |-> ValueAt(2 * last(n) + 1)]
  BY DEF BuiltFields
<1>6. IsObject(o) /\ o.kind = "object" /\ Contents(o) = {BuiltFields[n] : n \in DOMAIN BuiltFields}
  BY DEF IsObject, Contents
<1>7. AllResolve(heap, Contents(o))
  <2> SUFFICES ASSUME NEW n \in DOMAIN BuiltFields PROVE Resolves(heap, BuiltFields[n])
    BY <1>6 DEF AllResolve
  <2>1. n \in {NameAt(2 * p) : p \in pairs} /\ BuiltFields[n] = ValueAt(2 * last(n) + 1)
    BY <1>5
  <2>2. last(n) \in pairs
    BY <1>4, <2>1
  <2>3. 2 * last(n) + 1 \in ValueOperands(Instr)
    BY <1>2, <2>2
  <2> QED BY <1>1, <2>1, <2>3, OperandResolves
<1>8. CASE Fail("runtime")
  BY <1>8, FailHandles
<1>9. CASE Build("object", o)
  <2> HIDE DEF o
  <2> QED BY <1>1, <1>6, <1>7, <1>9, BuildHandles
<1> QED BY <1>2, <1>8, <1>9 DEF BuildObject, Checked

\* The items of a new array are operands.
LEMMA BuildArrayHandles ==
  ASSUME Inv, HandleInv, BuildArray
  PROVE  HandleInv'
<1> DEFINE items == [k \in 1..(Len(Instr.args) - 1) |-> ValueAt(k + 1)]
           o == [kind |-> "array", items |-> items]
<1>1. Running /\ Instr.op = "BuildArray"
  BY DEF BuildArray, At
<1>2. ~Missing /\ ValueOperands(Instr) = 2..Len(Instr.args) /\ Len(Instr.args) \in Nat
  BY <1>1, OperandsHeld, LenProperties DEF ValueOperands
<1>3. IsArray(o) /\ o.kind = "array" /\ Contents(o) = {items[k] : k \in DOMAIN items}
  BY DEF IsArray, Contents
<1>4. AllResolve(heap, Contents(o))
  <2> SUFFICES ASSUME NEW k \in 1..(Len(Instr.args) - 1) PROVE Resolves(heap, ValueAt(k + 1))
    BY <1>3 DEF AllResolve
  <2>1. k + 1 \in ValueOperands(Instr)
    BY <1>2
  <2> QED BY <1>1, <2>1, OperandResolves
<1>5. CASE Fail("runtime")
  BY <1>5, FailHandles
<1>6. CASE Build("array", o)
  <2> HIDE DEF o
  <2> QED BY <1>1, <1>3, <1>4, <1>6, BuildHandles
<1> QED BY <1>2, <1>5, <1>6 DEF BuildArray, Checked

\* The innermost frame replaced by one that holds nothing new.
LEMMA TopHandles ==
  ASSUME Inv, HandleInv, status \in {"loaded", "running"}, NEW fr,
         \A v \in ValuesOf(fr) : Resolves(heap, v),
         frames' = [frames EXCEPT ![Len(frames)] = fr],
         UNCHANGED <<via, status, heap, console, result>>
  PROVE  HandleInv'
<1>1. PICK V : frames \in Seq(FrameOf(V))
  BY FramesTyped
<1>2. AllResolve(heap, FrameValues(frames)) /\ Resolves(heap, result)
  BY HeldResolves
<1>3. FrameValues(frames') \subseteq FrameValues(frames) \union ValuesOf(fr)
  BY <1>1, StackValues
<1>4. AllResolve(heap, FrameValues(frames'))
  BY <1>2, <1>3 DEF AllResolve
<1> QED BY <1>2, <1>4, QuietStep

\* A store moves a value of the frame into its locals.
LEMMA StoreLocalHandles ==
  ASSUME Inv, HandleInv, StoreLocal
  PROVE  HandleInv'
<1> DEFINE v == ValueAt(2)
           l == Instr.args[1]
           new == Advanced([Top EXCEPT !.locals = StoredLocal(@, l, v)])
<1>1. Running /\ Instr.op = "StoreLocal" /\ status = "running"
  BY DEF StoreLocal, At, Running
<1>2. /\ ~Missing /\ Resolves(heap, v)
      /\ ValuesOf(Top) \subseteq FrameValues(frames)
      /\ AllResolve(heap, FrameValues(frames))
  BY <1>1, OperandsHeld, OperandResolves, HeldResolves DEF ValueOperands
<1>3. l \in Nat
  <2>1. Instr.args \in Seq(Nat) /\ Len(Instr.args) = 2
    BY <1>1, OperandsHeld DEF OperandCounts
  <2> QED BY <2>1, ElementOfSeq
<1>4. CASE Fail("runtime")
  BY <1>4, FailHandles
<1>5. CASE Advance([Top EXCEPT !.locals = StoredLocal(@, l, v)]) /\ heap' = heap
  <2>1. PICK V : Top \in FrameOf(V)
    BY <1>1, FramesTyped DEF Running
  <2>2. Top.locals \in Seq(V)
    BY <2>1 DEF FrameOf
  <2>3. new.values = Top.values /\ new.locals = StoredLocal(Top.locals, l, v)
    <3> HIDE DEF l, v
    <3> QED BY <2>1 DEF FrameOf, Advanced
  <2>4. ArgumentValues(StoredLocal(Top.locals, l, v))
          \subseteq ArgumentValues(Top.locals) \union {v, Undefined}
    <3> HIDE DEF l, v
    <3> QED BY <1>3, <2>2, StoredValues
  <2>5. /\ frames' = [frames EXCEPT ![Len(frames)] = new]
        /\ UNCHANGED <<via, status, heap, console, result>>
    BY <1>5 DEF Advance
  <2> HIDE DEF new, l, v
  <2>6. \A w \in ValuesOf(new) : Resolves(heap, w)
    BY <1>2, <2>3, <2>4, PrimitiveResolves DEF ValuesOf, AllResolve
  <2> QED BY <1>1, <2>5, <2>6, TopHandles
<1> QED BY <1>2, <1>4, <1>5 DEF StoreLocal, Checked

\* An object operand is on the heap, as an object.
LEMMA MemberFound ==
  ASSUME Inv, HandleInv, Running, NEW p \in ValueOperands(Instr), ValueAt(p).kind = "object"
  PROVE  ValueAt(p).ref \in DOMAIN heap /\ heap[ValueAt(p).ref].kind = "object"
BY OperandResolves DEF Resolves, IsReference

\* A field read is held by an object on the heap, and the object is there.
LEMMA LoadMemberHandles ==
  ASSUME Inv, HandleInv, LoadMember
  PROVE  HandleInv'
<1> DEFINE r == ValueAt(1).ref
           fields == heap[r].fields
           v == IF NameAt(2) \in DOMAIN fields THEN fields[NameAt(2)] ELSE Undefined
<1>1. Running /\ Instr.op = "LoadMember" /\ HeapOK(heap) /\ 1 \in ValueOperands(Instr)
  BY HeldResolves DEF LoadMember, At, Running, ValueOperands
<1>2. ~Missing
  BY <1>1, OperandsHeld
<1>3. CASE Fail("runtime")
  BY <1>3, FailHandles
<1>4. CASE ValueAt(1).kind = "object" /\ r \in DOMAIN heap /\ Push(v) /\ UNCHANGED <<heap, console>>
  <2>1. r \in DOMAIN heap /\ heap[r].kind = "object"
    BY <1>1, <1>4, MemberFound
  <2>2. AllResolve(heap, Contents(heap[r])) /\ Contents(heap[r]) = {fields[n] : n \in DOMAIN fields}
    BY <1>1, <2>1 DEF HeapOK, Contents
  <2>3. Resolves(heap, v)
    <3> HIDE DEF fields
    <3> QED BY <2>2, PrimitiveResolves DEF AllResolve
  <2> HIDE DEF v
  <2> QED BY <1>1, <1>4, <2>3, PushHandles
<1>5. ~(ValueAt(1).kind = "object" /\ r \notin DOMAIN heap)
  BY <1>1, MemberFound
<1>6. \/ Fail("runtime")
      \/ ValueAt(1).kind = "object" /\ r \in DOMAIN heap /\ Push(v) /\ UNCHANGED <<heap, console>>
  BY <1>2, <1>5 DEF LoadMember, Checked
<1> QED BY <1>3, <1>4, <1>6

\* A field written holds an operand, and the object is there.
LEMMA StoreMemberHandles ==
  ASSUME Inv, HandleInv, StoreMember
  PROVE  HandleInv'
<1> DEFINE r == ValueAt(1).ref
           fields == heap[r].fields
           g == [heap EXCEPT ![r].fields = [n \in DOMAIN fields \union {NameAt(2)} |->
                                              IF n = NameAt(2) THEN ValueAt(3) ELSE fields[n]]]
<1>1. Running /\ Instr.op = "StoreMember" /\ status = "running" /\ {1, 3} = ValueOperands(Instr)
  BY DEF StoreMember, At, Running, ValueOperands
<1>2. ~Missing /\ Resolves(heap, ValueAt(3)) /\ ValuesOf(Top) \subseteq FrameValues(frames)
  BY <1>1, OperandsHeld, OperandResolves
<1>3. /\ HeapOK(heap) /\ IsSeq(console) /\ Resolves(heap, result)
      /\ AllResolve(heap, FrameValues(frames)) /\ AllResolve(heap, ArgumentValues(console))
  BY <1>1, HeldResolves
<1>4. CASE Fail("runtime")
  BY <1>4, FailHandles
<1>5. CASE ValueAt(1).kind = "object" /\ heap' = g /\ Advance(Top)
  <2>1. r \in DOMAIN heap /\ heap[r].kind = "object"
    BY <1>1, <1>5, MemberFound
  <2>2. HeapOK(g) /\ \A w : Resolves(heap, w) => Resolves(g, w)
    <3> DEFINE new == [n \in DOMAIN fields \union {NameAt(2)} |->
                         IF n = NameAt(2) THEN ValueAt(3) ELSE fields[n]]
               q == r
    <3>1. \A n \in DOMAIN fields : Resolves(heap, fields[n])
      BY <1>3, <2>1 DEF HeapOK, Contents, AllResolve
    <3>2. \A n \in DOMAIN new : Resolves(heap, new[n])
      <4> HIDE DEF fields
      <4> QED BY <1>2, <3>1
    <3>3. q \in DOMAIN heap /\ heap[q].kind = "object"
      BY <2>1
    <3> HIDE DEF new, q
    <3>4. LET g2 == [heap EXCEPT ![q].fields = new]
          IN  HeapOK(g2) /\ \A w : Resolves(heap, w) => Resolves(g2, w)
      BY <1>3, <3>2, <3>3, FieldStored
    <3> QED BY <3>4 DEF new, q
  <2> HIDE DEF g
  <2>3. /\ HeapOK(heap') /\ \A w : Resolves(heap, w) => Resolves(heap', w)
    BY <1>5, <2>2
  <2>4. PICK V : frames \in Seq(FrameOf(V)) /\ Top \in FrameOf(V)
    BY <1>1, FramesTyped DEF Running
  <2>5. ValuesOf(Advanced(Top)) = ValuesOf(Top)
    BY <2>4 DEF FrameOf, Advanced, ValuesOf
  <2>6. /\ frames' = [frames EXCEPT ![Len(frames)] = Advanced(Top)]
        /\ UNCHANGED <<via, status, console, result>>
    BY <1>5 DEF Advance
  <2>7. FrameValues(frames') \subseteq FrameValues(frames)
    BY <1>2, <2>4, <2>5, <2>6, StackValues
  <2>8. /\ AllResolve(heap', FrameValues(frames')) /\ AllResolve(heap', ArgumentValues(console'))
        /\ Resolves(heap', result')
    BY <1>3, <2>3, <2>6, <2>7 DEF AllResolve
  <2> QED BY <1>1, <1>3, <2>3, <2>6, <2>8, HandleStep
<1>6. ~(ValueAt(1).kind = "object" /\ r \notin DOMAIN heap)
  BY <1>1, MemberFound
<1>7. Fail("runtime") \/ (ValueAt(1).kind = "object" /\ heap' = g /\ Advance(Top))
  BY <1>2, <1>6 DEF StoreMember, Checked
<1> QED BY <1>4, <1>5, <1>7

\* The arguments of a call are operands.
LEMMA CallHandles ==
  ASSUME Inv, HandleInv, Call
  PROVE  HandleInv'
<1> DEFINE n == Instr.args[2]
           args == [k \in 1..n |-> ValueAt(k + 2)]
<1>1. Running /\ Instr.op = "Call" /\ status = "running"
  BY DEF Call, At, Running
<1>2. ~Missing /\ ValueOperands(Instr) = 3..Len(Instr.args)
  BY <1>1, OperandsHeld DEF ValueOperands
<1>3. n \in Nat /\ Len(Instr.args) = 2 + n
  <2>1. Instr.args \in Seq(Nat) /\ Len(Instr.args) > 1 /\ Len(Instr.args) = 2 + Instr.args[2]
    BY <1>1, OperandsHeld DEF OperandCounts
  <2> QED BY <2>1, LenProperties, ElementOfSeq
<1>4. ASSUME NEW k \in 1..n PROVE Resolves(heap, ValueAt(k + 2))
  <2>1. k + 2 \in ValueOperands(Instr)
    BY <1>2, <1>3
  <2> QED BY <1>1, <2>1, OperandResolves
<1> HIDE DEF n
<1>5. /\ args \in [1..n -> ArgumentValues(args)]
      /\ AllResolve(heap, ArgumentValues(args))
  BY <1>4 DEF ArgumentValues, AllResolve
<1> HIDE DEF args
<1>6. IsSeq(args)
  BY <1>3, <1>5, FunctionIsSeq DEF IsSeq
<1>7. CASE Fail("runtime")
  BY <1>7, FailHandles
<1>8. CASE Invoke(NameAt(1), args)
  BY <1>1, <1>5, <1>6, <1>8, InvokeHandles
<1>9. Fail("runtime") \/ Invoke(NameAt(1), args)
  BY <1>2 DEF Call, Checked, args, n
<1> QED BY <1>7, <1>8, <1>9

\* Jumps leave the values where they are.
LEMMA JumpHandles ==
  ASSUME Inv, HandleInv, Branch \/ Jump
  PROVE  HandleInv'
<1>1. Running /\ status = "running"
  BY DEF Branch, Jump, At, Running
<1>2. ~Missing /\ ValuesOf(Top) \subseteq FrameValues(frames) /\ AllResolve(heap, FrameValues(frames))
  BY <1>1, OperandsHeld, HeldResolves
<1>3. CASE \E error \in {"runtime", "missing"} : Fail(error)
  BY <1>3, FailHandles
<1>4. ASSUME NEW id, GoTo(id), ~Fail("missing")
      PROVE  HandleInv'
  <2> DEFINE new == [Top EXCEPT !.block = FindBlock(module.functions[Top.fn], id), !.pc = 1]
  <2>1. /\ frames' = [frames EXCEPT ![Len(frames)] = new]
        /\ UNCHANGED <<via, status, heap, console, result>>
    BY <1>4 DEF GoTo
  <2>2. PICK V : Top \in FrameOf(V)
    BY <1>1, FramesTyped DEF Running
  <2>3. ValuesOf(new) = ValuesOf(Top)
    BY <2>2 DEF FrameOf, ValuesOf
  <2> HIDE DEF new
  <2>4. \A v \in ValuesOf(new) : Resolves(heap, v)
    BY <1>2, <2>3 DEF AllResolve
  <2> QED BY <1>1, <2>1, <2>4, TopHandles
<1>5. Fail("runtime") \/ \E id : GoTo(id)
  BY <1>2 DEF Branch, Jump, Checked
<1> QED BY <1>3, <1>4, <1>5

\* What is returned was held by the frame that returns it.
LEMMA ReturnHandles ==
  ASSUME Inv, HandleInv, Return \/ FallOff
  PROVE  HandleInv'
<1>1. frames # <<>> /\ status = "running"
  BY DEF Return, FallOff, At, Running
<1>2. PICK V : StackOver(V, module, frames)
  BY DEF Inv, StackOK
<1>3. frames \in Seq(FrameOf(V)) /\ Caller \in Seq(FrameOf(V))
  BY <1>1, <1>2, FramePopped DEF Caller, StackOver
<1>4. FrameValues(Caller) \subseteq FrameValues(frames)
  BY <1>1, <1>3, StackValues DEF Caller
<1>5. /\ AllResolve(heap, FrameValues(Caller)) /\ Resolves(heap, result)
  BY <1>1, <1>4, HeldResolves DEF AllResolve
<1>6. ASSUME NEW v, Resolves(heap, v), Deliver(Caller, v), UNCHANGED <<via, heap, console>>
      PROVE  HandleInv'
  <2>1. /\ AllResolve(heap, FrameValues(frames')) /\ Resolves(heap, result')
        /\ status' \in {"running", "returning"}
    BY <1>3, <1>5, <1>6, DeliverHandles
  <2> QED BY <1>1, <1>6, <2>1, QuietStep
<1>7. CASE Return
  <2>1. Running /\ Instr.op = "Return" /\ ValueOperands(Instr) = 1..Len(Instr.args)
    BY <1>7 DEF Return, At, ValueOperands
  <2>2. ~Missing /\ Instr.args \in Seq(Nat)
    BY <2>1, OperandsHeld
  <2>3. Instr.args # <<>> => 1 \in ValueOperands(Instr)
    BY <2>1, <2>2, EmptySeq, LenProperties
  <2>4. Resolves(heap, IF Instr.args = <<>> THEN Undefined ELSE ValueAt(1))
    BY <2>1, <2>3, OperandResolves, PrimitiveResolves
  <2>5. CASE Fail("runtime")
    BY <2>5, FailHandles
  <2> QED BY <1>6, <1>7, <2>2, <2>4, <2>5 DEF Return, Checked
<1>8. CASE FallOff
  BY <1>6, <1>8, PrimitiveResolves DEF FallOff
<1> QED BY <1>7, <1>8
-----------------------------------------------------------------------------
(***************************************************************************)
(* Part 12: the theorem.                                                   *)
(***************************************************************************)

\* The machine starts on an empty heap, or with the embedder's argument on it.
LEMMA HandleInit == Init => HandleInv
<1> SUFFICES ASSUME Init PROVE HandleInv
  OBVIOUS
<1>1. HeapOK(<<>>)
  <2>1. DOMAIN <<>> = 1..0
    BY EmptySeq, LenProperties
  <2>2. 1..0 = {}
    OBVIOUS
  <2> QED BY <2>1, <2>2 DEF HeapOK
<1>2. /\ IsSeq(<<>>) /\ ArgumentValues(<<>>) = {} /\ FrameValues(<<>>) = {}
  BY EmptySeq DEF IsSeq, ArgumentValues, FrameValues
<1>3. \A v : IsSeq(<<v>>) /\ ArgumentValues(<<v>>) = {v}
  BY DEF IsSeq, ArgumentValues
<1>4. HeapOK(heap) /\ IsSeq(via.args) /\ AllResolve(heap, ArgumentValues(via.args))
  <2>1. CASE via.args = <<>> /\ heap = <<>>
    BY <1>1, <1>2, <2>1 DEF AllResolve
  <2>2. CASE \E arg \in FromInterop(<<>>) : via.args = <<arg.value>> /\ heap = arg.heap
    <3>1. PICK arg \in FromInterop(<<>>) : via.args = <<arg.value>> /\ heap = arg.heap
      BY <2>2
    <3>2. HeapOK(arg.heap) /\ Resolves(arg.heap, arg.value)
      BY <1>1, FromInteropResolves
    <3> QED BY <1>3, <3>1, <3>2 DEF AllResolve
  <2> QED BY <2>1, <2>2 DEF Init
<1>5. Resolves(heap, Undefined)
  BY PrimitiveResolves
<1>6. status = "loaded" /\ frames = <<>> /\ console = <<>> /\ result = Undefined
  BY DEF Init
<1> QED BY <1>2, <1>4, <1>5, <1>6 DEF HandleInv, Held, AllResolve

\* The final collection: what it keeps is closed, and holds all the roots.
LEMMA FinishHandles ==
  ASSUME HandleInv, Finish
  PROVE  HandleInv'
<1> DEFINE reached == Reach(heap, Roots)
           kept == reached \cap DOMAIN heap
           collected == [r \in kept |-> heap[r]]
           outcome == Materialized(collected, Outputs)
<1>1. /\ status = "returning" /\ via' = via
      /\ status' = IF outcome = "ok" THEN "done" ELSE outcome
  BY DEF Finish
<1>2. /\ HeapOK(heap) /\ Resolves(heap, result) /\ AllResolve(heap, ArgumentValues(console))
      /\ IsSeq(via.args)
  BY <1>1, HeldResolves
<1>3. Roots \subseteq DOMAIN heap
  <2>1. AllResolve(heap, Outputs)
    BY <1>2 DEF AllResolve, Outputs
  <2> QED BY <2>1, ResolvedRefs DEF Roots
<1>4. /\ Roots \subseteq reached
      /\ \A r \in reached : Refs(Contents(heap[r])) \subseteq reached
  BY <1>2, <1>3, ReachClosed
<1>5. \A r \in DOMAIN heap : Refs(Contents(heap[r])) \subseteq DOMAIN heap
  BY <1>2, HeapClosed
<1>6. DOMAIN collected = kept /\ \A r \in kept : collected[r] = heap[r]
  OBVIOUS
<1>7. Refs(Outputs) \subseteq DOMAIN collected
  BY <1>3, <1>4, <1>6 DEF Roots
<1>8. \A r \in DOMAIN collected : Refs(Contents(collected[r])) \subseteq DOMAIN collected
  <2> HIDE DEF collected, reached
  <2> QED BY <1>4, <1>5, <1>6
<1>9. outcome # "stale"
  <2> HIDE DEF collected
  <2> QED BY <1>7, <1>8, NeverStale
<1>10. outcome \in {"ok", "overflow", "stale"}
  BY MaterializedOutcomes
<1> HIDE DEF outcome
<1> QED BY <1>1, <1>2, <1>9, <1>10 DEF HandleInv

\* Every step keeps every handle resolved.
LEMMA HandleNext == Inv /\ HandleInv /\ [Next]_vars => HandleInv'
<1> SUFFICES ASSUME Inv, HandleInv, [Next]_vars PROVE HandleInv'
  OBVIOUS
<1>1. CASE UNCHANGED vars
  BY <1>1 DEF vars, HandleInv, Held
<1>2. CASE Reject
  BY <1>2, FailHandles DEF Reject
<1>3. CASE Start
  BY <1>3, HeldResolves, InvokeHandles DEF Start
<1>4. CASE Step
  BY <1>4, LoadConstHandles, BuildObjectHandles, BuildArrayHandles, LoadLocalHandles,
     StoreLocalHandles, LoadMemberHandles, StoreMemberHandles, BinaryHandles, CallHandles,
     JumpHandles, ReturnHandles DEF Step
<1>5. CASE Finish
  BY <1>5, FinishHandles
<1> QED BY <1>1, <1>2, <1>3, <1>4, <1>5 DEF Next

\* Whatever program runs, through calls, the host and stores into objects, no
\* handle a frame, the console, the result or an object holds is without its
\* object, and the final collection takes nothing the embedder is given: no run
\* ends for a stale handle.
THEOREM HandlesNeverStale == Spec => []HandlesResolve
<1>1. ASSUME HandleInv PROVE HandlesResolve
  <2>1. status # "stale"
    BY <1>1 DEF HandleInv
  <2>2. ASSUME status \in {"running", "returning"}
        PROVE  LET held == ArgumentValues(console) \union {result}
                     \union (UNION {ArgumentValues(frames[x].values) : x \in DOMAIN frames})
                     \union (UNION {ArgumentValues(frames[x].locals) : x \in DOMAIN frames})
                     \union (UNION {Contents(heap[r]) : r \in DOMAIN heap})
               IN  Refs(held) \subseteq DOMAIN heap
    <3> DEFINE values == UNION {ArgumentValues(frames[x].values) : x \in DOMAIN frames}
               locals == UNION {ArgumentValues(frames[x].locals) : x \in DOMAIN frames}
               contents == UNION {Contents(heap[r]) : r \in DOMAIN heap}
               held == ArgumentValues(console) \union {result} \union values \union locals
                         \union contents
    <3>1. /\ HeapOK(heap) /\ Resolves(heap, result)
          /\ AllResolve(heap, FrameValues(frames)) /\ AllResolve(heap, ArgumentValues(console))
      BY <1>1, <2>2, HeldResolves
    <3>2. AllResolve(heap, values) /\ AllResolve(heap, locals)
      <4>1. \A x \in DOMAIN frames : AllResolve(heap, ValuesOf(frames[x]))
        BY <3>1 DEF AllResolve, FrameValues
      <4> QED BY <4>1 DEF AllResolve, ValuesOf
    <3>3. AllResolve(heap, contents)
      BY <3>1 DEF AllResolve, HeapOK
    <3>4. Refs(held) \subseteq DOMAIN heap
      <4> HIDE DEF values, locals, contents
      <4>1. AllResolve(heap, held)
        BY <3>1, <3>2, <3>3 DEF AllResolve
      <4> QED BY <4>1, ResolvedRefs
    <3> QED BY <3>4
  <2> QED BY <2>1, <2>2 DEF HandlesResolve
<1> QED BY InvInit, InvNext, HandleInit, HandleNext, <1>1, PTL DEF Spec
-----------------------------------------------------------------------------
(***************************************************************************)
(* Bytes.  What is read is compared with what was written wherever the     *)
(* bytes read begin as those written, to their own end or to the end of    *)
(* what was written: then reading gives what was written when all of its   *)
(* bytes are there, and nothing when some are missing.  One statement for  *)
(* every reader, and so for whole modules: whole, cut anywhere or longer.  *)
(***************************************************************************)

(***************************************************************************)
(* Part 13: reading what was written.                                      *)
(***************************************************************************)

\* The bytes of w begin behind a place, as far as there are bytes.
On(bytes, at, w) ==
  /\ at \in Places(bytes) /\ IsSeq(w)
  /\ \A k \in DOMAIN w : at + k <= Len(bytes) => bytes[at + k] = w[k]

\* All of them are there.
Fits(bytes, at, w) == at + Len(w) <= Len(bytes)

\* What reading w there should give, when w stands for v.
Outcome(bytes, at, w, v) == IF Fits(bytes, at, w) THEN Got(v, at + Len(w)) ELSE Failed

LEMMA GotFields ==
  \A v, a : Got(v, a).ok /\ Got(v, a).value = v /\ Got(v, a).at = a
BY DEF Got

LEMMA FailedFields == ~Failed.ok
BY DEF Failed

LEMMA OutcomeFields ==
  ASSUME NEW bytes, IsSeq(bytes), NEW at, NEW w, On(bytes, at, w), NEW v, NEW r,
         r = Outcome(bytes, at, w, v)
  PROVE  /\ Fits(bytes, at, w) => r.ok /\ r.value = v /\ r.at = at + Len(w)
                                  /\ at + Len(w) \in Places(bytes)
         /\ ~Fits(bytes, at, w) => ~r.ok
<1>1. CASE Fits(bytes, at, w)
  <2>1. r = Got(v, at + Len(w))
    BY <1>1 DEF Outcome
  <2>2. Len(w) \in Nat /\ Len(bytes) \in Nat /\ at \in Nat
    BY SeqFacts DEF On, Places
  <2>3. at + Len(w) \in Places(bytes)
    BY <1>1, <2>2 DEF Fits, Places
  <2> QED BY <1>1, <2>1, <2>3, GotFields
<1>2. CASE ~Fits(bytes, at, w)
  BY <1>2, FailedFields DEF Outcome
<1> QED BY <1>1, <1>2

LEMMA OnParts ==
  ASSUME NEW bytes, IsSeq(bytes), NEW at, NEW u, NEW v, IsSeq(u), IsSeq(v), On(bytes, at, u \o v)
  PROVE  /\ On(bytes, at, u)
         /\ Fits(bytes, at, u) => On(bytes, at + Len(u), v)
         /\ Fits(bytes, at, u \o v) <=> Fits(bytes, at, u) /\ Fits(bytes, at + Len(u), v)
         /\ at + Len(u \o v) = at + Len(u) + Len(v)
<1> DEFINE w == u \o v
           n == Len(u)
           m == Len(v)
           l == Len(bytes)
<1>1. /\ n \in Nat /\ m \in Nat /\ l \in Nat /\ at \in Nat /\ at <= l
      /\ DOMAIN u = 1..n /\ DOMAIN v = 1..m
  BY SeqFacts DEF On, Places
<1>2. DOMAIN w = 1..(n + m) /\ Len(w) = n + m
  BY ConcatFacts
<1>3. \A k \in DOMAIN u : w[k] = u[k]
  BY ConcatFacts
<1>4. \A k \in DOMAIN v : w[n + k] = v[k]
  BY ConcatBehind
<1>5. \A k \in DOMAIN w : at + k <= l => bytes[at + k] = w[k]
  BY DEF On
<1> HIDE DEF w, n, m, l
<1>6. \A k \in DOMAIN u : at + k <= l => bytes[at + k] = u[k]
  <2> TAKE k \in DOMAIN u
  <2>1. k \in DOMAIN w
    BY <1>1, <1>2
  <2> QED BY <1>3, <1>5, <2>1
<1>7. \A k \in DOMAIN v : at + n + k <= l => bytes[at + n + k] = v[k]
  <2> SUFFICES ASSUME NEW k \in DOMAIN v, at + n + k <= l PROVE bytes[at + n + k] = v[k]
    OBVIOUS
  <2>1. n + k \in DOMAIN w /\ at + (n + k) <= l /\ at + (n + k) = at + n + k
    BY <1>1, <1>2
  <2>2. bytes[at + (n + k)] = w[n + k]
    BY <1>5, <2>1
  <2> QED BY <1>4, <2>1, <2>2
<1>8. On(bytes, at, u)
  BY <1>1, <1>6 DEF On, Places, l
<1>9. ASSUME at + n <= l PROVE On(bytes, at + n, v)
  BY <1>1, <1>7, <1>9 DEF On, Places, l
<1>10. (at + (n + m) <= l <=> at + n <= l /\ at + n + m <= l) /\ at + (n + m) = at + n + m
  BY <1>1
<1> QED BY <1>2, <1>8, <1>9, <1>10 DEF Fits, w, n, m, l

\* What Then gives, when t is what the next reader gives.
OnSuccess(r, t) == IF r.ok THEN t ELSE Failed

\* What a chain of readers of w ends with.
Ending(bytes, at, w, z) == IF Fits(bytes, at, w) THEN z ELSE Failed

\* One piece and then the rest.
LEMMA ThenEnds ==
  ASSUME NEW bytes, IsSeq(bytes), NEW at, NEW u, NEW v, IsSeq(u), IsSeq(v), On(bytes, at, u \o v),
         NEW r, NEW x, NEW t, NEW z, r = Outcome(bytes, at, u, x),
         r.value = x /\ r.at = at + Len(u) /\ On(bytes, at + Len(u), v)
           => t = Ending(bytes, at + Len(u), v, z)
  PROVE  OnSuccess(r, t) = Ending(bytes, at, u \o v, z)
<1>1. /\ On(bytes, at, u)
      /\ Fits(bytes, at, u) => On(bytes, at + Len(u), v)
      /\ Fits(bytes, at, u \o v) <=> Fits(bytes, at, u) /\ Fits(bytes, at + Len(u), v)
  BY OnParts
<1>2. /\ Fits(bytes, at, u) => r.ok /\ r.value = x /\ r.at = at + Len(u)
      /\ ~Fits(bytes, at, u) => ~r.ok
  BY <1>1, OutcomeFields
<1>3. CASE Fits(bytes, at, u)
  <2>1. t = Ending(bytes, at + Len(u), v, z) /\ r.ok
    BY <1>1, <1>2, <1>3
  <2> QED BY <1>1, <1>3, <2>1 DEF Ending, OnSuccess
<1>4. CASE ~Fits(bytes, at, u)
  BY <1>1, <1>2, <1>4 DEF Ending, OnSuccess
<1> QED BY <1>3, <1>4

LEMMA ThenReads ==
  ASSUME NEW bytes, IsSeq(bytes), NEW at, NEW u, NEW v, IsSeq(u), IsSeq(v), On(bytes, at, u \o v),
         NEW r, NEW x, NEW t, NEW y, r = Outcome(bytes, at, u, x),
         r.value = x /\ r.at = at + Len(u) /\ On(bytes, at + Len(u), v)
           => t = Outcome(bytes, at + Len(u), v, y)
  PROVE  OnSuccess(r, t) = Outcome(bytes, at, u \o v, y)
<1> DEFINE z == Got(y, at + Len(u) + Len(v))
<1>1. at + Len(u \o v) = at + Len(u) + Len(v)
  BY OnParts
<1>2. Outcome(bytes, at + Len(u), v, y) = Ending(bytes, at + Len(u), v, z)
  BY DEF Outcome, Ending
<1>3. Outcome(bytes, at, u \o v, y) = Ending(bytes, at, u \o v, z)
  BY <1>1 DEF Outcome, Ending
<1> HIDE DEF z
<1> QED BY <1>2, <1>3, ThenEnds

\* The last piece, when what it stands for is made into something else.
LEMMA LastReads ==
  ASSUME NEW bytes, IsSeq(bytes), NEW at, NEW w, On(bytes, at, w),
         NEW r, NEW x, NEW t, NEW y, r = Outcome(bytes, at, w, x),
         r.value = x /\ r.at = at + Len(w) => t = Got(y, at + Len(w))
  PROVE  OnSuccess(r, t) = Outcome(bytes, at, w, y)
<1>1. /\ Fits(bytes, at, w) => r.ok /\ r.value = x /\ r.at = at + Len(w)
      /\ ~Fits(bytes, at, w) => ~r.ok
  BY OutcomeFields
<1> QED BY <1>1 DEF Outcome, OnSuccess

LEMMA ExactReads ==
  ASSUME NEW bytes, IsSeq(bytes), NEW at, NEW w, On(bytes, at, w)
  PROVE  ReadExact(bytes, at, Len(w)) = Outcome(bytes, at, w, w)
<1>1. CASE Fits(bytes, at, w)
  <2> DEFINE n == Len(w)
             s == SubSeq(bytes, at + 1, at + n)
             V == {bytes[k] : k \in DOMAIN bytes}
             U == V \union {w[k] : k \in DOMAIN w}
  <2>1. n \in Nat /\ at \in Nat /\ Len(bytes) \in Nat /\ DOMAIN w = 1..n
        /\ DOMAIN bytes = 1..Len(bytes) /\ at + n <= Len(bytes)
    BY <1>1, SeqFacts DEF On, Places, Fits
  <2>2. \A k \in (at + 1)..(at + n) : bytes[k] \in V
    BY <2>1
  <2> HIDE DEF V
  <2>3. /\ s \in Seq(V) /\ Len(s) = IF at + 1 <= at + n THEN at + n - (at + 1) + 1 ELSE 0
        /\ \A k \in 1..(at + n - (at + 1) + 1) : s[k] = bytes[at + 1 + k - 1]
    BY <2>1, <2>2, SubSeqProperties
  <2>4. Len(s) = n /\ \A k \in 1..n : s[k] = bytes[at + k]
    <3> HIDE DEF n, s
    <3>1. (at + n) - (at + 1) + 1 = n
      BY <2>1
    <3>2. Len(s) = n /\ \A k \in 1..n : s[k] = bytes[at + 1 + k - 1]
      BY <2>1, <2>3, <3>1
    <3>3. ASSUME NEW k \in 1..n PROVE at + 1 + k - 1 = at + k
      BY <2>1
    <3> QED BY <3>2, <3>3
  <2>5. \A k \in 1..n : bytes[at + k] = w[k]
    BY <2>1 DEF On
  <2>6. s \in Seq(U) /\ w \in Seq(U)
    <3>1. w \in Seq({w[k] : k \in DOMAIN w})
      BY DEF On, IsSeq
    <3> QED BY <2>3, <3>1, SeqMonotonic
  <2>7. s = w
    <3> HIDE DEF s, n, U
    <3>1. \A k \in 1..Len(s) : s[k] = w[k]
      BY <2>4, <2>5
    <3> QED BY <2>4, <2>6, <3>1, SeqEqual DEF n
  <2> QED BY <1>1, <2>7 DEF ReadExact, Outcome, Fits
<1>2. CASE ~Fits(bytes, at, w)
  BY <1>2 DEF ReadExact, Outcome, Fits
<1> QED BY <1>1, <1>2

(***************************************************************************)
(* Part 14: numbers and texts.                                             *)
(***************************************************************************)

LEMMA U8Facts == \A n : IsSeq(U8(n)) /\ Len(U8(n)) = 1 /\ (n \in 0..255 => U8(n)[1] = n)
<1> TAKE n
<1>1. U8(n) \in Seq({n % 256})
  BY DEF U8
<1>2. IsSeq(U8(n))
  BY <1>1, SeqIsSeq
<1>3. Len(U8(n)) = 1 /\ U8(n)[1] = n % 256
  BY DEF U8
<1>4. n \in 0..255 => n % 256 = n
  OBVIOUS
<1> QED BY <1>2, <1>3, <1>4

LEMMA U8Reads ==
  ASSUME NEW bytes, IsSeq(bytes), NEW at, NEW n \in 0..255, On(bytes, at, U8(n))
  PROVE  ReadU8(bytes)[at] = Outcome(bytes, at, U8(n), n)
<1> DEFINE r == ReadExact(bytes, at, 1)
           t == Got(r.value[1], r.at)
<1>1. r = Outcome(bytes, at, U8(n), U8(n))
  BY ExactReads, U8Facts
<1>2. ReadU8(bytes)[at] = OnSuccess(r, t)
  <2> HIDE DEF r
  <2>1. at \in Places(bytes)
    BY DEF On
  <2> QED BY <2>1 DEF ReadU8, Then, OnSuccess, r
<1>3. r.value = U8(n) /\ r.at = at + Len(U8(n)) => t = Got(n, at + Len(U8(n)))
  BY U8Facts
<1> HIDE DEF r, t
<1> QED BY <1>1, <1>2, <1>3, LastReads

LEMMA U32Facts ==
  \A n : /\ IsSeq(U32(n)) /\ Len(U32(n)) = 4
         /\ IsU32(n) => U32(n)[1] + 256 * U32(n)[2] + 65536 * U32(n)[3] + 16777216 * U32(n)[4] = n
<1> TAKE n
<1>1. U32(n) \in Seq({n % 256, (n \div 256) % 256, (n \div 65536) % 256, (n \div 16777216) % 256})
  BY DEF U32
<1>2. IsSeq(U32(n)) /\ Len(U32(n)) = 4
  <2>1. IsSeq(U32(n))
    BY <1>1, SeqIsSeq
  <2>2. Len(U32(n)) = 4
    BY DEF U32
  <2> QED BY <2>1, <2>2
<1>3. ASSUME IsU32(n)
      PROVE  (n % 256) + 256 * ((n \div 256) % 256) + 65536 * ((n \div 65536) % 256)
               + 16777216 * ((n \div 16777216) % 256) = n
  <2>1. n \in Nat /\ n \div 16777216 < 256
    BY <1>3 DEF IsU32
  <2> DEFINE a == n \div 256
             b == n \div 65536
             c == n \div 16777216
  <2>2. a \in Nat /\ b \in Nat /\ c \in Nat
    BY <2>1
  <2>3. n = (n % 256) + 256 * a
    BY <2>1
  <2>4. b = a \div 256 /\ c = b \div 256
    BY <2>1
  <2> HIDE DEF a, b, c
  <2>5. a = (a % 256) + 256 * b
    BY <2>2, <2>4
  <2>6. b = (b % 256) + 256 * c
    BY <2>2, <2>4
  <2>7. c % 256 = c
    BY <2>1, <2>2 DEF c
  <2>8. n = (n % 256) + 256 * (a % 256) + 65536 * (b % 256) + 16777216 * c
    <3> DEFINE x == n % 256
               y == a % 256
               z == b % 256
    <3>1. x \in Nat /\ y \in Nat /\ z \in Nat
      BY <2>1, <2>2
    <3> HIDE DEF x, y, z
    <3>2. n = x + 256 * a /\ a = y + 256 * b /\ b = z + 256 * c
      BY <2>3, <2>5, <2>6 DEF x, y, z
    <3>3. n = x + 256 * y + 65536 * z + 16777216 * c
      BY <2>1, <2>2, <3>1, <3>2
    <3> QED BY <3>3 DEF x, y, z
  <2> QED BY <2>7, <2>8 DEF a, b, c
<1>4. /\ U32(n)[1] = n % 256 /\ U32(n)[2] = (n \div 256) % 256
      /\ U32(n)[3] = (n \div 65536) % 256 /\ U32(n)[4] = (n \div 16777216) % 256
  BY DEF U32
<1> QED BY <1>2, <1>3, <1>4

LEMMA U32IsSeq == \A n : IsSeq(U32(n))
BY U32Facts

LEMMA U32Reads ==
  ASSUME NEW bytes, IsSeq(bytes), NEW at, NEW n, IsU32(n), On(bytes, at, U32(n))
  PROVE  ReadU32(bytes)[at] = Outcome(bytes, at, U32(n), n)
<1> DEFINE r == ReadExact(bytes, at, 4)
           t == Got(r.value[1] + 256 * r.value[2] + 65536 * r.value[3] + 16777216 * r.value[4], r.at)
<1>0. Len(U32(n)) = 4
  BY U32Facts
<1>1. r = Outcome(bytes, at, U32(n), U32(n))
  BY <1>0, ExactReads
<1>2. ReadU32(bytes)[at] = OnSuccess(r, t)
  <2> HIDE DEF r
  <2>1. at \in Places(bytes)
    BY DEF On
  <2> QED BY <2>1 DEF ReadU32, Then, OnSuccess, r
<1>3. r.value = U32(n) /\ r.at = at + Len(U32(n)) => t = Got(n, at + Len(U32(n)))
  BY U32Facts
<1> HIDE DEF r, t
<1> QED BY <1>1, <1>2, <1>3, LastReads

\* A byte that stands for one of numbers.
StandsFor(numbers, n, x) == n \in 0..255 /\ n < Len(numbers) /\ numbers[n + 1] = x

LEMMA OneOfReads ==
  ASSUME NEW bytes, IsSeq(bytes), NEW at, NEW numbers, NEW n, NEW x,
         StandsFor(numbers, n, x), On(bytes, at, U8(n))
  PROVE  ReadOneOf(numbers, bytes)[at] = Outcome(bytes, at, U8(n), x)
<1> DEFINE r == ReadU8(bytes)[at]
           t == IF r.value < Len(numbers) THEN Got(numbers[r.value + 1], r.at) ELSE Failed
<1>1. r = Outcome(bytes, at, U8(n), n)
  BY U8Reads DEF StandsFor
<1>2. ReadOneOf(numbers, bytes)[at] = OnSuccess(r, t)
  <2> HIDE DEF r
  <2>1. at \in Places(bytes)
    BY DEF On
  <2> QED BY <2>1 DEF ReadOneOf, Then, OnSuccess, r
<1>3. r.value = n /\ r.at = at + Len(U8(n)) => t = Got(x, at + Len(U8(n)))
  BY DEF StandsFor
<1> HIDE DEF r, t
<1> QED BY <1>1, <1>2, <1>3, LastReads

\* read_string.
LEMMA WrittenString ==
  ASSUME NEW text, EncodableText(text)
  PROVE  /\ IsSeq(Spelling[text]) /\ IsSeq(U32(Len(Spelling[text])))
         /\ IsSeq(WriteString(text))
<1>1. Spelling[text] \in Seq(0..255)
  BY SpellingAssumption DEF EncodableText
<1>2. IsSeq(Spelling[text]) /\ IsSeq(U32(Len(Spelling[text])))
  BY <1>1, SeqIsSeq, U32IsSeq
<1> QED BY <1>2, ConcatFacts DEF WriteString

LEMMA StringReads ==
  ASSUME NEW bytes, IsSeq(bytes), NEW at, NEW text, EncodableText(text),
         On(bytes, at, WriteString(text))
  PROVE  ReadString(bytes)[at] = Outcome(bytes, at, WriteString(text), text)
<1> DEFINE u == U32(Len(Spelling[text]))
           v == Spelling[text]
           r == ReadU32(bytes)[at]
           q == ReadExact(bytes, r.at, r.value)
           s == IF \E x \in DOMAIN Spelling : Spelling[x] = q.value
                  THEN Got(CHOOSE x \in DOMAIN Spelling : Spelling[x] = q.value, q.at)
                  ELSE Failed
           t == OnSuccess(q, s)
<1>1. IsSeq(u) /\ IsSeq(v) /\ WriteString(text) = u \o v /\ IsU32(Len(v))
  BY WrittenString DEF WriteString, EncodableText, CountsFit
<1>2. ReadString(bytes)[at] = OnSuccess(r, t)
  <2> HIDE DEF r
  <2>1. at \in Places(bytes)
    BY DEF On
  <2> QED BY <2>1 DEF ReadString, Then, OnSuccess, r
<1>3. On(bytes, at, u)
  BY <1>1, OnParts
<1>4. r = Outcome(bytes, at, u, Len(v))
  BY <1>1, <1>3, U32Reads
<1>5. ASSUME r.value = Len(v), r.at = at + Len(u), On(bytes, at + Len(u), v)
      PROVE  t = Outcome(bytes, at + Len(u), v, text)
  <2>1. q = Outcome(bytes, at + Len(u), v, v)
    BY <1>5, ExactReads
  <2>2. q.value = v /\ q.at = at + Len(u) + Len(v) => s = Got(text, at + Len(u) + Len(v))
    <3> HIDE DEF q, u
    <3>1. text \in DOMAIN Spelling /\ \A x \in DOMAIN Spelling : Spelling[x] = v => x = text
      BY SpellingAssumption DEF EncodableText
    <3>2. (CHOOSE x \in DOMAIN Spelling : Spelling[x] = v) = text
      BY <3>1
    <3> QED BY <3>1, <3>2
  <2> HIDE DEF u, v, q, s
  <2> QED BY <1>5, <2>1, <2>2, LastReads
<1> HIDE DEF u, v, r, t
<1> QED BY <1>1, <1>2, <1>4, <1>5, ThenReads

(***************************************************************************)
(* Part 15: items one after the other.                                     *)
(***************************************************************************)

\* What ReadItems makes of what it has, one item further.
NextItem(read, r) ==
  Then(r, LAMBDA items, next :
    Then(read[next], LAMBDA item, after : Got(Append(items, item), after)))

ItemsFrom(read, n, at, f) ==
  f = [k \in 0..n |-> IF k = 0 THEN Got(<<>>, at) ELSE NextItem(read, f[k - 1])]

LEMMA ItemsFromExist ==
  ASSUME NEW read, NEW at
  PROVE  \A n \in Nat : \E f : ItemsFrom(read, n, at, f)
<1> DEFINE Bad == {n \in Nat : ~ \E f : ItemsFrom(read, n, at, f)}
<1> SUFFICES ASSUME Bad # {} PROVE FALSE
  OBVIOUS
<1>1. PICK n \in Bad : \A k \in Bad : ~(k < n)
  BY LeastOf
<1>2. CASE n = 0
  <2> DEFINE f == [k \in 0..0 |-> Got(<<>>, at)]
  <2>1. f = [k \in 0..0 |-> IF k = 0 THEN Got(<<>>, at) ELSE NextItem(read, f[k - 1])]
    OBVIOUS
  <2>2. ItemsFrom(read, 0, at, f)
    BY <2>1 DEF ItemsFrom
  <2> QED BY <1>1, <1>2, <2>2
<1>3. CASE n # 0
  <2>1. n \in Nat /\ n - 1 \in Nat /\ n - 1 < n
    BY <1>3
  <2>2. PICK g : ItemsFrom(read, n - 1, at, g)
    BY <1>1, <2>1
  <2>3. \A k \in 0..(n - 1) : g[k] = IF k = 0 THEN Got(<<>>, at) ELSE NextItem(read, g[k - 1])
    BY <2>2 DEF ItemsFrom
  <2> DEFINE last == NextItem(read, g[n - 1])
             f == [k \in 0..n |-> IF k < n THEN g[k] ELSE last]
  <2>4. \A k \in 0..(n - 1) : k \in 0..n /\ k < n /\ f[k] = g[k]
    BY <2>1
  <2>5. n \in 0..n /\ ~(n < n) /\ f[n] = last
    BY <2>1
  <2>6. f = [k \in 0..n |-> f[k]]
    OBVIOUS
  <2> HIDE DEF f
  <2>7. ASSUME NEW k \in 0..n
        PROVE  f[k] = IF k = 0 THEN Got(<<>>, at) ELSE NextItem(read, f[k - 1])
    <3>1. CASE k < n
      <4>1. k \in 0..(n - 1) /\ (k # 0 => k - 1 \in 0..(n - 1))
        BY <2>1, <3>1
      <4> QED BY <2>3, <2>4, <4>1
    <3>2. CASE ~(k < n)
      <4>1. k = n /\ k # 0 /\ k - 1 \in 0..(n - 1)
        BY <2>1, <3>2
      <4> QED BY <1>3, <2>4, <2>5, <4>1
    <3> QED BY <3>1, <3>2
  <2>8. ItemsFrom(read, n, at, f)
    BY <2>6, <2>7, Zenon DEF ItemsFrom
  <2> QED BY <1>1, <2>8
<1> QED BY <1>2, <1>3

LEMMA ReadItemsSteps ==
  ASSUME NEW read, NEW at, NEW n \in Nat
  PROVE  \E f : /\ ReadItems(read, n, at) = f[n] /\ f[0] = Got(<<>>, at)
                /\ \A k \in 1..n : f[k] = NextItem(read, f[k - 1])
<1> DEFINE f == CHOOSE g : ItemsFrom(read, n, at, g)
<1>1. ItemsFrom(read, n, at, f)
  BY ItemsFromExist
<1>2. ReadItems(read, n, at) = f[n]
  BY DEF ReadItems, ItemsFrom, NextItem
<1> HIDE DEF f
<1>3. \A k \in 0..n : f[k] = IF k = 0 THEN Got(<<>>, at) ELSE NextItem(read, f[k - 1])
  BY <1>1 DEF ItemsFrom
<1> QED BY <1>2, <1>3

\* A reader that reads every piece for its item reads them all.
LEMMA ItemsRead ==
  ASSUME NEW bytes, IsSeq(bytes), NEW at, NEW read, NEW pieces, NEW items,
         IsSeq(pieces), IsSeq(items), Len(items) = Len(pieces),
         \A c \in 1..Len(pieces) : IsSeq(pieces[c]),
         \A c \in 1..Len(pieces) : \A a : On(bytes, a, pieces[c])
            => read[a] = Outcome(bytes, a, pieces[c], items[c]),
         On(bytes, at, FlattenSeq(pieces))
  PROVE  ReadItems(read, Len(pieces), at) = Outcome(bytes, at, FlattenSeq(pieces), items)
<1> DEFINE n == Len(pieces)
           S(k) == SubSeq(items, 1, k)
<1>1. n \in Nat /\ DOMAIN pieces = 1..n /\ Len(items) = n
  BY SeqFacts
<1>2. PICK p : Partials(pieces, p)
  BY <1>1, PartialsExist
<1>3. PICK f : /\ ReadItems(read, n, at) = f[n] /\ f[0] = Got(<<>>, at)
               /\ \A k \in 1..n : f[k] = NextItem(read, f[k - 1])
  BY <1>1, ReadItemsSteps
<1>4. /\ p[0] = <<>> /\ p[n] = FlattenSeq(pieces)
      /\ \A k \in 1..n : p[k] = p[k - 1] \o pieces[k]
      /\ \A k \in 0..n : IsSeq(p[k])
  BY <1>2 DEF Partials
<1>5. S(0) = <<>> /\ S(n) = items /\ \A k \in 1..n : S(k) = Append(S(k - 1), items[k])
  BY <1>1, PrefixGrows
<1> HIDE DEF n, S
<1>6. \A k \in 0..n : On(bytes, at, p[k])
  <2> DEFINE Bad == {k \in 1..n : ~On(bytes, at, p[k - 1])}
  <2>1. On(bytes, at, p[n])
    BY <1>4
  <2>2. Bad = {}
    <3> SUFFICES ASSUME Bad # {} PROVE FALSE
      OBVIOUS
    <3>1. PICK k \in Bad : \A j \in Bad : j <= k
      BY <1>1, GreatestOf
    <3>2. k \in 1..n /\ k - 1 \in 0..n /\ (k # n => k + 1 \in 1..n /\ ~(k + 1 <= k) /\ k + 1 - 1 = k)
      BY <1>1
    <3>3. On(bytes, at, p[k])
      BY <2>1, <3>1, <3>2
    <3>4. p[k] = p[k - 1] \o pieces[k] /\ IsSeq(p[k - 1]) /\ IsSeq(pieces[k])
      BY <1>4, <3>2 DEF n
    <3>5. On(bytes, at, p[k - 1])
      BY <3>3, <3>4, OnParts
    <3> QED BY <3>1, <3>5
  <2>3. ASSUME NEW k \in 0..n, k # n PROVE On(bytes, at, p[k])
    <3>1. k + 1 \in 1..n /\ k + 1 - 1 = k
      BY <1>1, <2>3
    <3>2. k + 1 \notin Bad
      BY <2>2
    <3> QED BY <3>1, <3>2
  <2> QED BY <2>1, <2>3
<1>7. ASSUME NEW k \in 1..n, f[k - 1] = Outcome(bytes, at, p[k - 1], S(k - 1))
      PROVE  f[k] = Outcome(bytes, at, p[k], S(k))
  <2> DEFINE r == f[k - 1]
             q == read[r.at]
             s == Got(Append(r.value, q.value), q.at)
             t == OnSuccess(q, s)
             u == p[k - 1]
             v == pieces[k]
             x == S(k - 1)
             y == S(k)
  <2>1. k - 1 \in 0..n /\ k \in 0..n
    BY <1>1
  <2>2. IsSeq(u) /\ IsSeq(v) /\ p[k] = u \o v /\ On(bytes, at, u \o v)
    BY <1>4, <1>6, <2>1 DEF n
  <2>3. f[k] = OnSuccess(r, t)
    <3> HIDE DEF r
    <3>1. f[k] = NextItem(read, r)
      BY <1>3 DEF r
    <3> QED BY <3>1 DEF NextItem, Then, OnSuccess
  <2>4. y = Append(x, items[k])
    BY <1>5
  <2>5. ASSUME r.value = x, r.at = at + Len(u), On(bytes, at + Len(u), v)
        PROVE  t = Outcome(bytes, at + Len(u), v, y)
    <3>1. q = Outcome(bytes, at + Len(u), v, items[k])
      BY <2>5 DEF n
    <3>2. q.value = items[k] /\ q.at = at + Len(u) + Len(v) => s = Got(y, at + Len(u) + Len(v))
      BY <2>4, <2>5
    <3> HIDE DEF q, s, u, v, x, y
    <3> QED BY <2>5, <3>1, <3>2, LastReads
  <2>6. r = Outcome(bytes, at, u, x)
    BY <1>7
  <2> HIDE DEF r, t, u, v, x, y
  <2>7. OnSuccess(r, t) = Outcome(bytes, at, u \o v, y)
    BY <2>2, <2>5, <2>6, ThenReads
  <2> QED BY <2>2, <2>3, <2>7 DEF y
<1>8. f[0] = Outcome(bytes, at, p[0], S(0))
  <2>1. at \in Nat /\ at <= Len(bytes)
    BY SeqFacts DEF On, Places
  <2>2. at + 0 = at
    BY <2>1
  <2>3. Len(<<>>) = 0
    OBVIOUS
  <2> QED BY <1>3, <1>4, <1>5, <2>1, <2>2, <2>3 DEF Outcome, Fits
<1>9. \A k \in 0..n : f[k] = Outcome(bytes, at, p[k], S(k))
  <2> DEFINE Bad == {k \in 0..n : f[k] # Outcome(bytes, at, p[k], S(k))}
  <2> SUFFICES ASSUME Bad # {} PROVE FALSE
    OBVIOUS
  <2> Bad \in SUBSET Nat
    BY <1>1
  <2>1. PICK k \in Bad : \A j \in Bad : ~(j < k)
    BY LeastOf
  <2>2. k # 0
    BY <1>8, <2>1
  <2>3. k \in 1..n /\ k - 1 \in 0..n /\ k - 1 < k
    BY <1>1, <2>1, <2>2
  <2>4. f[k - 1] = Outcome(bytes, at, p[k - 1], S(k - 1))
    BY <2>1, <2>3
  <2> QED BY <1>7, <2>1, <2>3, <2>4
<1>10. f[n] = Outcome(bytes, at, p[n], S(n))
  BY <1>1, <1>9
<1> QED BY <1>3, <1>4, <1>5, <1>10 DEF n

\* Their number and then the items.
LEMMA CountedReads ==
  ASSUME NEW bytes, IsSeq(bytes), NEW at, NEW read, NEW pieces, NEW items,
         IsSeq(pieces), IsSeq(items), Len(items) = Len(pieces), IsU32(Len(pieces)),
         \A c \in 1..Len(pieces) : IsSeq(pieces[c]),
         \A c \in 1..Len(pieces) : \A a : On(bytes, a, pieces[c])
            => read[a] = Outcome(bytes, a, pieces[c], items[c]),
         On(bytes, at, U32(Len(pieces)) \o FlattenSeq(pieces))
  PROVE  ReadCounted(read, bytes, at)
           = Outcome(bytes, at, U32(Len(pieces)) \o FlattenSeq(pieces), items)
<1> DEFINE u == U32(Len(pieces))
           v == FlattenSeq(pieces)
           r == ReadU32(bytes)[at]
           t == ReadItems(read, r.value, r.at)
<1>1. IsSeq(u) /\ IsSeq(v)
  BY U32IsSeq, FlattenIsSeq
<1>2. ReadCounted(read, bytes, at) = OnSuccess(r, t)
  BY DEF ReadCounted, Then, OnSuccess
<1>3. On(bytes, at, u)
  BY <1>1, OnParts
<1>4. r = Outcome(bytes, at, u, Len(pieces))
  BY <1>3, U32Reads
<1>5. ASSUME r.value = Len(pieces), r.at = at + Len(u), On(bytes, at + Len(u), v)
      PROVE  t = Outcome(bytes, at + Len(u), v, items)
  BY <1>5, ItemsRead
<1> HIDE DEF u, v, r, t
<1> QED BY <1>1, <1>2, <1>4, <1>5, ThenReads DEF u, v

(***************************************************************************)
(* Part 16: constants and instructions.                                    *)
(***************************************************************************)

\* The numbers of constant kinds and opcodes.
LEMMA ConstantNumber ==
  ASSUME NEW texts, NEW c \in ConstantType(texts)
  PROVE  StandsFor(ConstantKinds, NumberIn(ConstantKinds, c.kind), c.kind)
<1>1. Len(ConstantKinds) = 6
  BY DEF ConstantKinds
<1>2. \E n \in 0..5 : ConstantKinds[n + 1] = c.kind
  <2>1. /\ ConstantKinds[0 + 1] = "number" /\ ConstantKinds[1 + 1] = "string"
        /\ ConstantKinds[2 + 1] = "boolean" /\ ConstantKinds[3 + 1] = "null"
        /\ ConstantKinds[4 + 1] = "undefined" /\ ConstantKinds[5 + 1] = "symbol"
    BY DEF ConstantKinds
  <2>2. c.kind \in {"number", "string", "boolean", "null", "undefined", "symbol"}
    BY DEF ConstantType
  <2> HIDE DEF ConstantKinds
  <2>3. 0 \in 0..5 /\ 1 \in 0..5 /\ 2 \in 0..5 /\ 3 \in 0..5 /\ 4 \in 0..5 /\ 5 \in 0..5
    OBVIOUS
  <2> QED BY <2>1, <2>2, <2>3, Zenon
<1>3. NumberIn(ConstantKinds, c.kind) = CHOOSE n \in 0..5 : ConstantKinds[n + 1] = c.kind
  BY <1>1 DEF NumberIn
<1>4. NumberIn(ConstantKinds, c.kind) \in 0..5
      /\ ConstantKinds[NumberIn(ConstantKinds, c.kind) + 1] = c.kind
  BY <1>2, <1>3, Zenon
<1> QED BY <1>1, <1>4 DEF StandsFor

LEMMA OpcodeNumber ==
  ASSUME NEW op \in Opcodes
  PROVE  StandsFor(OpcodeNumbers, NumberIn(OpcodeNumbers, op), op)
<1>1. Len(OpcodeNumbers) = 12
  BY DEF OpcodeNumbers
<1>2. \E n \in 0..11 : OpcodeNumbers[n + 1] = op
  <2>1. /\ OpcodeNumbers[0 + 1] = "LoadConst" /\ OpcodeNumbers[1 + 1] = "BuildObject"
        /\ OpcodeNumbers[2 + 1] = "BuildArray" /\ OpcodeNumbers[3 + 1] = "LoadLocal"
        /\ OpcodeNumbers[4 + 1] = "StoreLocal" /\ OpcodeNumbers[5 + 1] = "LoadMember"
        /\ OpcodeNumbers[6 + 1] = "StoreMember" /\ OpcodeNumbers[7 + 1] = "Binary"
        /\ OpcodeNumbers[8 + 1] = "Call" /\ OpcodeNumbers[9 + 1] = "Branch"
        /\ OpcodeNumbers[10 + 1] = "Jump" /\ OpcodeNumbers[11 + 1] = "Return"
    BY DEF OpcodeNumbers
  <2>2. /\ 0 \in 0..11 /\ 1 \in 0..11 /\ 2 \in 0..11 /\ 3 \in 0..11 /\ 4 \in 0..11 /\ 5 \in 0..11
        /\ 6 \in 0..11 /\ 7 \in 0..11 /\ 8 \in 0..11 /\ 9 \in 0..11 /\ 10 \in 0..11 /\ 11 \in 0..11
    OBVIOUS
  <2> HIDE DEF OpcodeNumbers
  <2> QED BY <2>1, <2>2, Zenon DEF Opcodes
<1>3. NumberIn(OpcodeNumbers, op) = CHOOSE n \in 0..11 : OpcodeNumbers[n + 1] = op
  BY <1>1 DEF NumberIn
<1>4. NumberIn(OpcodeNumbers, op) \in 0..11 /\ OpcodeNumbers[NumberIn(OpcodeNumbers, op) + 1] = op
  BY <1>2, <1>3, Zenon
<1> QED BY <1>1, <1>4 DEF StandsFor

\* read_type_tag.
LEMMA TypeTagReads ==
  ASSUME NEW bytes, IsSeq(bytes), NEW at, NEW typed \in BOOLEAN,
         On(bytes, at, U8(IF typed THEN NumberTag ELSE UnknownTag))
  PROVE  ReadTypeTag(bytes)[at]
           = Outcome(bytes, at, U8(IF typed THEN NumberTag ELSE UnknownTag), typed)
<1> DEFINE numbers == [t \in 1..9 |-> t # UnknownTag + 1]
           n == IF typed THEN NumberTag ELSE UnknownTag
<1>1. ReadTypeTag(bytes) = ReadOneOf(numbers, bytes)
  BY DEF ReadTypeTag
<1>2. Len(numbers) = 9
  <2>1. numbers \in [1..9 -> BOOLEAN]
    OBVIOUS
  <2> HIDE DEF numbers
  <2> QED BY <2>1, FunctionIsSeq
<1>3. n \in 0..255 /\ n < 9
  BY DEF NumberTag, UnknownTag
<1>4. numbers[n + 1] = typed
  <2>1. numbers[NumberTag + 1] = TRUE /\ numbers[UnknownTag + 1] = FALSE
    <3>1. \A t \in 1..9 : numbers[t] = (t # UnknownTag + 1)
      OBVIOUS
    <3>2. NumberTag + 1 \in 1..9 /\ UnknownTag + 1 \in 1..9 /\ NumberTag + 1 # UnknownTag + 1
      BY DEF NumberTag, UnknownTag
    <3> HIDE DEF numbers
    <3> QED BY <3>1, <3>2, Zenon
  <2> HIDE DEF numbers
  <2> QED BY <2>1, Zenon
<1> HIDE DEF numbers, n
<1>5. On(bytes, at, U8(n))
  BY DEF n
<1>6. ReadOneOf(numbers, bytes)[at] = Outcome(bytes, at, U8(n), typed)
  <2> DEFINE x == typed
  <2>1. StandsFor(numbers, n, x)
    BY <1>2, <1>3, <1>4, Zenon DEF StandsFor
  <2> HIDE DEF x
  <2>2. ReadOneOf(numbers, bytes)[at] = Outcome(bytes, at, U8(n), x)
    BY <1>5, <2>1, OneOfReads
  <2> QED BY <2>2 DEF x
<1> QED BY <1>1, <1>6 DEF n

\* Nothing is read from no bytes.
LEMMA NothingReads ==
  ASSUME NEW bytes, IsSeq(bytes), NEW at, On(bytes, at, <<>>), NEW v
  PROVE  Outcome(bytes, at, <<>>, v) = Got(v, at)
<1>1. at \in Nat /\ at <= Len(bytes)
  BY SeqFacts DEF On, Places
<1>2. Len(<<>>) = 0
  OBVIOUS
<1>3. at + 0 = at
  BY <1>1
<1> QED BY <1>1, <1>2, <1>3 DEF Outcome, Fits

\* A constant is what its kind and its text say.
LEMMA WrittenConstant ==
  ASSUME NEW texts, NEW c \in ConstantType(texts), EncodableConstant(c)
  PROVE  /\ IsSeq(U8(NumberIn(ConstantKinds, c.kind)))
         /\ c.kind \in {"number", "string", "symbol"} =>
              /\ IsSeq(WriteString(c.text))
              /\ WriteConstant(c) = U8(NumberIn(ConstantKinds, c.kind)) \o WriteString(c.text)
         /\ c.kind = "boolean" =>
              WriteConstant(c) = U8(NumberIn(ConstantKinds, c.kind))
                                   \o U8(IF c.text = "true" THEN 1 ELSE 0)
         /\ c.kind \in {"null", "undefined"} =>
              WriteConstant(c) = U8(NumberIn(ConstantKinds, c.kind)) \o <<>>
         /\ IsSeq(WriteConstant(c))
<1> DEFINE u == U8(NumberIn(ConstantKinds, c.kind))
<1>1. IsSeq(u)
  BY U8Facts
<1>2. IsSeq(WriteString(c.text))
  BY WrittenString DEF EncodableConstant
<1>3. IsSeq(<<>>)
  <2>1. <<>> \in Seq({1})
    OBVIOUS
  <2> QED BY <2>1, SeqIsSeq, Zenon
<1>4. IsSeq(U8(IF c.text = "true" THEN 1 ELSE 0))
  BY U8Facts
<1>5. c.kind \in {"number", "string", "boolean", "null", "undefined", "symbol"}
  BY DEF ConstantType
<1>6. c.kind \in {"number", "string", "symbol"} => WriteConstant(c) = u \o WriteString(c.text)
  BY DEF WriteConstant
<1>7. c.kind = "boolean" => WriteConstant(c) = u \o U8(IF c.text = "true" THEN 1 ELSE 0)
  BY DEF WriteConstant
<1>8. c.kind \in {"null", "undefined"} => WriteConstant(c) = u \o <<>>
  BY DEF WriteConstant
<1> HIDE DEF u
<1>9. IsSeq(u \o WriteString(c.text)) /\ IsSeq(u \o U8(IF c.text = "true" THEN 1 ELSE 0))
      /\ IsSeq(u \o <<>>)
  BY <1>1, <1>2, <1>3, <1>4, ConcatFacts
<1> QED BY <1>1, <1>2, <1>5, <1>6, <1>7, <1>8, <1>9 DEF u

LEMMA ConstantReads ==
  ASSUME NEW bytes, IsSeq(bytes), NEW at, NEW texts, NEW c \in ConstantType(texts),
         EncodableConstant(c), On(bytes, at, WriteConstant(c))
  PROVE  ReadConstant(bytes)[at] = Outcome(bytes, at, WriteConstant(c), c)
<1> DEFINE u == U8(NumberIn(ConstantKinds, c.kind))
           p == at + Len(u)
           r == ReadOneOf(ConstantKinds, bytes)[at]
           q == ReadString(bytes)[r.at]
           s == ReadU8(bytes)[r.at]
           texted == OnSuccess(q, Got([kind |-> r.value, text |-> q.value], q.at))
           truth == OnSuccess(s, Got([kind |-> r.value,
                                      text |-> IF s.value # 0 THEN "true" ELSE "false"], s.at))
           t == CASE r.value \in {"number", "string", "symbol"} -> texted
                  [] r.value = "boolean" -> truth
                  [] r.value \in {"null", "undefined"} -> Got([kind |-> r.value, text |-> ""], r.at)
           flag == IF c.text = "true" THEN 1 ELSE 0
<1>1. /\ c.kind \in {"number", "string", "boolean", "null", "undefined", "symbol"}
      /\ c = [kind |-> c.kind, text |-> c.text]
  BY DEF ConstantType
<1>2. ReadConstant(bytes)[at] = OnSuccess(r, t)
  <2> HIDE DEF r
  <2>1. at \in Places(bytes)
    BY DEF On
  <2> QED BY <2>1 DEF ReadConstant, Then, OnSuccess, r
<1>3. IsSeq(u)
  BY WrittenConstant
<1>4. ASSUME On(bytes, at, u) PROVE r = Outcome(bytes, at, u, c.kind)
  <2>1. StandsFor(ConstantKinds, NumberIn(ConstantKinds, c.kind), c.kind)
    BY ConstantNumber
  <2> QED BY <1>4, <2>1, OneOfReads
<1>5. CASE c.kind \in {"number", "string", "symbol"}
  <2> DEFINE v == WriteString(c.text)
  <2>1. IsSeq(v) /\ WriteConstant(c) = u \o v
    BY <1>5, WrittenConstant
  <2>2. On(bytes, at, u)
    BY <1>3, <2>1, OnParts
  <2>3. ASSUME r.value = c.kind, r.at = p, On(bytes, p, v)
        PROVE  t = Outcome(bytes, p, v, c)
    <3>1. t = texted
      <4> HIDE DEF r, texted, truth
      <4> QED BY <1>5, <2>3
    <3>2. q = Outcome(bytes, p, v, c.text)
      <4>1. EncodableText(c.text)
        BY DEF EncodableConstant
      <4> HIDE DEF p, r
      <4> QED BY <2>3, <4>1, StringReads
    <3>3. q.value = c.text /\ q.at = p + Len(v)
            => Got([kind |-> r.value, text |-> q.value], q.at) = Got(c, p + Len(v))
      BY <1>1, <2>3
    <3> DEFINE z == Got([kind |-> r.value, text |-> q.value], q.at)
    <3> HIDE DEF q, r, v, p, z, t
    <3>4. OnSuccess(q, z) = Outcome(bytes, p, v, c)
      BY <2>3, <3>2, <3>3, LastReads DEF z
    <3> QED BY <3>1, <3>4 DEF z
  <2>4. r = Outcome(bytes, at, u, c.kind)
    BY <1>4, <2>2
  <2> HIDE DEF r, t, u, v
  <2> QED BY <1>2, <1>3, <2>1, <2>3, <2>4, ThenReads DEF p
<1>6. CASE c.kind = "boolean"
  <2> DEFINE v == U8(flag)
  <2>1. IsSeq(v) /\ WriteConstant(c) = u \o v
    BY <1>6, WrittenConstant, U8Facts
  <2>2. On(bytes, at, u)
    BY <1>3, <2>1, OnParts
  <2>3. ASSUME r.value = c.kind, r.at = p, On(bytes, p, v)
        PROVE  t = Outcome(bytes, p, v, c)
    <3> DEFINE z == Got([kind |-> r.value, text |-> IF s.value # 0 THEN "true" ELSE "false"], s.at)
    <3>1. t = truth
      <4> HIDE DEF r, texted, truth
      <4> QED BY <1>6, <2>3
    <3>2. s = Outcome(bytes, p, v, flag)
      <4>1. flag \in 0..255
        OBVIOUS
      <4> HIDE DEF flag
      <4> QED BY <2>3, <4>1, U8Reads
    <3>3. s.value = flag /\ s.at = p + Len(v) => z = Got(c, p + Len(v))
      <4>1. c.text \in {"true", "false"}
        BY <1>6 DEF EncodableConstant
      <4>2. (IF flag # 0 THEN "true" ELSE "false") = c.text
        BY <4>1
      <4> HIDE DEF flag, s, v, p, r
      <4> QED BY <1>1, <2>3, <4>2
    <3> HIDE DEF s, r, v, p, z, t, flag
    <3>4. OnSuccess(s, z) = Outcome(bytes, p, v, c)
      BY <2>3, <3>2, <3>3, LastReads
    <3> QED BY <3>1, <3>4 DEF z
  <2>4. r = Outcome(bytes, at, u, c.kind)
    BY <1>4, <2>2
  <2> HIDE DEF r, t, u, v
  <2> QED BY <1>2, <1>3, <2>1, <2>3, <2>4, ThenReads DEF p
<1>7. CASE c.kind \in {"null", "undefined"}
  <2> DEFINE v == <<>>
  <2>1. IsSeq(v) /\ WriteConstant(c) = u \o v
    <3>1. <<>> \in Seq({1})
      OBVIOUS
    <3>2. IsSeq(<<>>)
      BY <3>1, SeqIsSeq, Zenon
    <3> QED BY <1>7, <3>2, WrittenConstant
  <2>2. On(bytes, at, u)
    BY <1>3, <2>1, OnParts
  <2>3. ASSUME r.value = c.kind, r.at = p, On(bytes, p, v)
        PROVE  t = Outcome(bytes, p, v, c)
    <3>1. t = Got([kind |-> r.value, text |-> ""], r.at)
      <4> HIDE DEF r, texted, truth
      <4> QED BY <1>7, <2>3
    <3>2. c = [kind |-> c.kind, text |-> ""]
      BY <1>1, <1>7 DEF EncodableConstant
    <3>3. Outcome(bytes, p, <<>>, c) = Got(c, p)
      BY <2>3, NothingReads
    <3> HIDE DEF r, p, t
    <3> QED BY <2>3, <3>1, <3>2, <3>3
  <2>4. r = Outcome(bytes, at, u, c.kind)
    BY <1>4, <2>2
  <2> HIDE DEF r, t, u, v
  <2> QED BY <1>2, <1>3, <2>1, <2>3, <2>4, ThenReads DEF p
<1> QED BY <1>1, <1>5, <1>6, <1>7

\* Numbers of four bytes, one after the other.
LEMMA WrittenNumbers ==
  ASSUME NEW s \in Seq(Nat), CountsFit(s), \A k \in DOMAIN s : IsU32(s[k]),
         NEW pieces, pieces = [k \in DOMAIN s |-> U32(s[k])]
  PROVE  /\ IsSeq(s) /\ IsSeq(pieces) /\ Len(s) = Len(pieces) /\ IsU32(Len(pieces))
         /\ \A k \in 1..Len(pieces) : IsSeq(pieces[k]) /\ pieces[k] = U32(s[k]) /\ IsU32(s[k])
<1>1. IsSeq(s)
  BY SeqIsSeq
<1>2. pieces = [k \in DOMAIN s |-> pieces[k]]
  OBVIOUS
<1>3. IsSeq(pieces) /\ Len(pieces) = Len(s) /\ DOMAIN s = 1..Len(pieces)
  BY <1>1, <1>2, MappedSeq
<1>4. \A k \in 1..Len(pieces) : pieces[k] = U32(s[k]) /\ IsU32(s[k])
  BY <1>3
<1>5. \A k \in 1..Len(pieces) : IsSeq(pieces[k])
  BY <1>4, U32IsSeq
<1> QED BY <1>1, <1>3, <1>4, <1>5 DEF CountsFit

LEMMA WrittenInstruction ==
  ASSUME NEW i \in InstructionType, EncodableInstruction(i),
         NEW pieces, pieces = [k \in DOMAIN i.args |-> U32(i.args[k])]
  PROVE  LET a == U8(NumberIn(OpcodeNumbers, i.op))
             b == U8(IF i.typed THEN NumberTag ELSE UnknownTag)
             c == U32(i.source)
             d == U32(Len(pieces)) \o FlattenSeq(pieces)
         IN  /\ WriteInstruction(i) = a \o (b \o (c \o d))
             /\ IsSeq(a) /\ IsSeq(b) /\ IsSeq(c) /\ IsSeq(d)
             /\ IsSeq(c \o d) /\ IsSeq(b \o (c \o d)) /\ IsSeq(WriteInstruction(i))
<1> DEFINE a == U8(NumberIn(OpcodeNumbers, i.op))
           b == U8(IF i.typed THEN NumberTag ELSE UnknownTag)
           c == U32(i.source)
           x == U32(Len(pieces))
           y == FlattenSeq(pieces)
<1>1. i.args \in Seq(Nat) /\ CountsFit(i.args) /\ \A k \in DOMAIN i.args : IsU32(i.args[k])
  BY DEF InstructionType, EncodableInstruction
<1>2. IsSeq(pieces) /\ Len(i.args) = Len(pieces) /\ \A k \in 1..Len(pieces) : IsSeq(pieces[k])
  BY <1>1, WrittenNumbers
<1>3. IsSeq(a) /\ IsSeq(b) /\ IsSeq(c) /\ IsSeq(x) /\ IsSeq(y)
  BY <1>2, U8Facts, U32IsSeq, FlattenIsSeq
<1>4. WriteInstruction(i) = (((a \o b) \o c) \o x) \o y
  BY <1>2 DEF WriteInstruction, WriteEach
<1> HIDE DEF a, b, c, x, y
<1>5. /\ WriteInstruction(i) = a \o (b \o (c \o (x \o y)))
      /\ IsSeq(x \o y) /\ IsSeq(c \o (x \o y)) /\ IsSeq(b \o (c \o (x \o y)))
      /\ IsSeq(a \o (b \o (c \o (x \o y))))
  <2>1. /\ (((a \o b) \o c) \o x) \o y = a \o (b \o (c \o (x \o y)))
        /\ IsSeq(x \o y) /\ IsSeq(c \o (x \o y)) /\ IsSeq(b \o (c \o (x \o y)))
        /\ IsSeq(a \o (b \o (c \o (x \o y))))
    BY <1>3, ConcatAssoc5
  <2> QED BY <1>4, <2>1
<1> QED BY <1>3, <1>5 DEF a, b, c, x, y

LEMMA InstructionReads ==
  ASSUME NEW bytes, IsSeq(bytes), NEW at, NEW i \in InstructionType, EncodableInstruction(i),
         On(bytes, at, WriteInstruction(i))
  PROVE  ReadInstruction(bytes)[at] = Outcome(bytes, at, WriteInstruction(i), i)
<1> DEFINE pieces == [k \in DOMAIN i.args |-> U32(i.args[k])]
           a == U8(NumberIn(OpcodeNumbers, i.op))
           b == U8(IF i.typed THEN NumberTag ELSE UnknownTag)
           c == U32(i.source)
           d == U32(Len(pieces)) \o FlattenSeq(pieces)
           cd == c \o d
           bcd == b \o cd
           p == at + Len(a)
           q == p + Len(b)
           o == q + Len(c)
           r1 == ReadOpcode(bytes)[at]
           r2 == ReadTypeTag(bytes)[r1.at]
           r3 == ReadU32(bytes)[r2.at]
           r4 == ReadCounted(ReadU32(bytes), bytes, r3.at)
           t4 == Got([op |-> r1.value, args |-> r4.value, typed |-> r2.value,
                      source |-> r3.value], r4.at)
           t3 == OnSuccess(r4, t4)
           t2 == OnSuccess(r3, t3)
           t1 == OnSuccess(r2, t2)
<1>1. /\ WriteInstruction(i) = a \o bcd /\ bcd = b \o cd /\ cd = c \o d
      /\ IsSeq(a) /\ IsSeq(b) /\ IsSeq(c) /\ IsSeq(d) /\ IsSeq(cd) /\ IsSeq(bcd)
  BY WrittenInstruction
<1>2. /\ i.op \in Opcodes /\ i.typed \in BOOLEAN /\ i.args \in Seq(Nat)
      /\ i = [op |-> i.op, args |-> i.args, typed |-> i.typed, source |-> i.source]
  BY DEF InstructionType
<1>3. /\ IsU32(i.source) /\ CountsFit(i.args) /\ \A k \in DOMAIN i.args : IsU32(i.args[k])
  BY DEF EncodableInstruction
<1>4. /\ IsSeq(i.args) /\ IsSeq(pieces) /\ Len(i.args) = Len(pieces) /\ IsU32(Len(pieces))
      /\ \A k \in 1..Len(pieces) : IsSeq(pieces[k]) /\ pieces[k] = U32(i.args[k])
                                   /\ IsU32(i.args[k])
  BY <1>2, <1>3, WrittenNumbers
<1>5. ReadInstruction(bytes)[at] = OnSuccess(r1, t1)
  <2>1. at \in Places(bytes)
    BY DEF On
  <2> QED BY <2>1, SMTT(30) DEF ReadInstruction, Then, OnSuccess
<1>6. On(bytes, at, a)
  BY <1>1, OnParts
<1>7. r1 = Outcome(bytes, at, a, i.op)
  <2>1. StandsFor(OpcodeNumbers, NumberIn(OpcodeNumbers, i.op), i.op)
    BY <1>2, OpcodeNumber
  <2> QED BY <1>6, <2>1, OneOfReads DEF ReadOpcode
<1>8. ASSUME r1.at = p, On(bytes, p, b) PROVE r2 = Outcome(bytes, p, b, i.typed)
  BY <1>2, <1>8, TypeTagReads
<1>9. ASSUME r2.at = q, On(bytes, q, c) PROVE r3 = Outcome(bytes, q, c, i.source)
  BY <1>3, <1>9, U32Reads
<1>10. ASSUME r3.at = o, On(bytes, o, d) PROVE r4 = Outcome(bytes, o, d, i.args)
  <2> DEFINE read == ReadU32(bytes)
  <2> HIDE DEF pieces
  <2>1. \A k \in 1..Len(pieces) : \A z : On(bytes, z, pieces[k])
          => read[z] = Outcome(bytes, z, pieces[k], i.args[k])
    BY <1>4, U32Reads
  <2> HIDE DEF read, o
  <2>2. ReadCounted(read, bytes, o) = Outcome(bytes, o, d, i.args)
    BY <1>4, <1>10, <2>1, CountedReads
  <2> QED BY <1>10, <2>2 DEF read
<1>11. ASSUME r1.value = i.op, r2.value = i.typed, r3.value = i.source,
              r4.value = i.args, r4.at = o + Len(d)
       PROVE  t4 = Got(i, o + Len(d))
  BY <1>2, <1>11
<1> HIDE DEF pieces, a, b, c, d, cd, bcd, r1, r2, r3, r4, t1, t2, t3, t4
<1>12. ASSUME r1.value = i.op, r1.at = p, On(bytes, p, bcd)
       PROVE  t1 = Outcome(bytes, p, bcd, i)
  <2> HIDE DEF p
  <2>1. On(bytes, p, b)
    BY <1>1, <1>12, OnParts
  <2>2. ASSUME r2.value = i.typed, r2.at = q, On(bytes, q, cd)
        PROVE  t2 = Outcome(bytes, q, cd, i)
    <3> HIDE DEF q
    <3>1. On(bytes, q, c)
      BY <1>1, <2>2, OnParts
    <3>2. ASSUME r3.value = i.source, r3.at = o, On(bytes, o, d)
          PROVE  t3 = Outcome(bytes, o, d, i)
      <4> HIDE DEF o
      <4>1. r4 = Outcome(bytes, o, d, i.args)
        BY <1>10, <3>2
      <4>2. r4.value = i.args /\ r4.at = o + Len(d) => t4 = Got(i, o + Len(d))
        BY <1>11, <1>12, <2>2, <3>2
      <4> QED BY <3>2, <4>1, <4>2, LastReads DEF t3
    <3>3. r3 = Outcome(bytes, q, c, i.source)
      BY <1>9, <2>2, <3>1
    <3> QED BY <1>1, <2>2, <3>2, <3>3, ThenReads DEF t2, o
  <2>3. r2 = Outcome(bytes, p, b, i.typed)
    BY <1>8, <1>12, <2>1
  <2> QED BY <1>1, <1>12, <2>2, <2>3, ThenReads DEF t1, q
<1> QED BY <1>1, <1>5, <1>7, <1>12, ThenReads DEF p

(***************************************************************************)
(* Part 17: blocks, exception tables, places in the source.                *)
(***************************************************************************)

LEMMA WrittenBlock ==
  ASSUME NEW b \in BlockType, EncodableBlock(b),
         NEW pieces, pieces = [k \in DOMAIN b.code |-> WriteInstruction(b.code[k])]
  PROVE  LET x == U32(b.id)
             y == U32(Len(pieces)) \o FlattenSeq(pieces)
         IN  /\ WriteBlock(b) = x \o y
             /\ IsSeq(x) /\ IsSeq(y) /\ IsSeq(WriteBlock(b))
             /\ IsSeq(b.code) /\ IsSeq(pieces) /\ Len(b.code) = Len(pieces) /\ IsU32(Len(pieces))
             /\ \A k \in 1..Len(pieces) :
                  /\ IsSeq(pieces[k]) /\ pieces[k] = WriteInstruction(b.code[k])
                  /\ b.code[k] \in InstructionType /\ EncodableInstruction(b.code[k])
<1> DEFINE x == U32(b.id)
           n == U32(Len(pieces))
           f == FlattenSeq(pieces)
<1>1. /\ b.code \in Seq(InstructionType) /\ CountsFit(b.code)
      /\ \A k \in DOMAIN b.code : EncodableInstruction(b.code[k])
  BY DEF BlockType, EncodableBlock
<1>2. IsSeq(b.code)
  BY <1>1, SeqIsSeq
<1>3. pieces = [k \in DOMAIN b.code |-> pieces[k]]
  OBVIOUS
<1>4. IsSeq(pieces) /\ Len(pieces) = Len(b.code) /\ DOMAIN b.code = 1..Len(pieces)
  BY <1>2, <1>3, MappedSeq
<1>5. \A k \in 1..Len(pieces) : /\ pieces[k] = WriteInstruction(b.code[k])
                                /\ EncodableInstruction(b.code[k])
  BY <1>1, <1>4
<1>6. \A k \in 1..Len(pieces) : b.code[k] \in InstructionType
  BY <1>1, <1>4, ElementOfSeq
<1>7. \A k \in 1..Len(pieces) : IsSeq(pieces[k])
  BY <1>5, <1>6, WrittenInstruction
<1>8. IsSeq(x) /\ IsSeq(n) /\ IsSeq(f)
  <2>1. IsSeq(x) /\ IsSeq(n)
    BY U32IsSeq
  <2>2. IsSeq(f)
    BY <1>4, <1>7, FlattenIsSeq
  <2> QED BY <2>1, <2>2
<1>9. WriteBlock(b) = (x \o n) \o f
  BY <1>4 DEF WriteBlock, WriteEach
<1> HIDE DEF x, n, f
<1>10. (x \o n) \o f = x \o (n \o f)
  <2>1. Regroups(x, n, f)
    BY <1>8, Regroup
  <2> QED BY <2>1, Zenon DEF Regroups
<1>11. IsSeq(n \o f)
  BY <1>8, ConcatFacts
<1>12. IsSeq(x \o (n \o f))
  BY <1>8, <1>11, ConcatFacts
<1> QED BY <1>1, <1>2, <1>4, <1>5, <1>6, <1>7, <1>8, <1>9, <1>10, <1>11, <1>12
        DEF x, n, f, CountsFit

LEMMA BlockReads ==
  ASSUME NEW bytes, IsSeq(bytes), NEW at, NEW b \in BlockType, EncodableBlock(b),
         On(bytes, at, WriteBlock(b))
  PROVE  ReadBlock(bytes)[at] = Outcome(bytes, at, WriteBlock(b), b)
<1> DEFINE pieces == [k \in DOMAIN b.code |-> WriteInstruction(b.code[k])]
           x == U32(b.id)
           y == U32(Len(pieces)) \o FlattenSeq(pieces)
           p == at + Len(x)
           r1 == ReadU32(bytes)[at]
           r2 == ReadCounted(ReadInstruction(bytes), bytes, r1.at)
           t2 == Got([id |-> r1.value, code |-> r2.value], r2.at)
           t1 == OnSuccess(r2, t2)
<1>1. /\ WriteBlock(b) = x \o y /\ IsSeq(x) /\ IsSeq(y)
      /\ IsSeq(b.code) /\ IsSeq(pieces) /\ Len(b.code) = Len(pieces) /\ IsU32(Len(pieces))
      /\ \A k \in 1..Len(pieces) :
           /\ IsSeq(pieces[k]) /\ pieces[k] = WriteInstruction(b.code[k])
           /\ b.code[k] \in InstructionType /\ EncodableInstruction(b.code[k])
  BY WrittenBlock
<1>2. b = [id |-> b.id, code |-> b.code] /\ IsU32(b.id)
  BY DEF BlockType, EncodableBlock
<1>3. ReadBlock(bytes)[at] = OnSuccess(r1, t1)
  <2>1. at \in Places(bytes)
    BY DEF On
  <2> QED BY <2>1 DEF ReadBlock, Then, OnSuccess
<1>4. On(bytes, at, x)
  BY <1>1, OnParts
<1>5. r1 = Outcome(bytes, at, x, b.id)
  BY <1>2, <1>4, U32Reads
<1>6. ASSUME r1.at = p, On(bytes, p, y) PROVE r2 = Outcome(bytes, p, y, b.code)
  <2> DEFINE read == ReadInstruction(bytes)
  <2> HIDE DEF pieces
  <2>1. \A k \in 1..Len(pieces) : \A z : On(bytes, z, pieces[k])
          => read[z] = Outcome(bytes, z, pieces[k], b.code[k])
    BY <1>1, InstructionReads
  <2> HIDE DEF read, p
  <2>2. ReadCounted(read, bytes, p) = Outcome(bytes, p, y, b.code)
    BY <1>1, <1>6, <2>1, CountedReads
  <2> QED BY <1>6, <2>2 DEF read
<1>7. ASSUME r1.value = b.id, r2.value = b.code, r2.at = p + Len(y) PROVE t2 = Got(b, p + Len(y))
  BY <1>2, <1>7
<1> HIDE DEF pieces, x, y, r1, r2, t1, t2
<1>8. ASSUME r1.value = b.id, r1.at = p, On(bytes, p, y) PROVE t1 = Outcome(bytes, p, y, b)
  <2> HIDE DEF p
  <2>1. r2 = Outcome(bytes, p, y, b.code)
    BY <1>6, <1>8
  <2>2. r2.value = b.code /\ r2.at = p + Len(y) => t2 = Got(b, p + Len(y))
    BY <1>7, <1>8
  <2> QED BY <1>8, <2>1, <2>2, LastReads DEF t1
<1> QED BY <1>1, <1>3, <1>5, <1>8, ThenReads DEF p

\* Three numbers, as in an entry of an exception table and in the header.
LEMMA ThreeRead ==
  ASSUME NEW bytes, IsSeq(bytes), NEW at, NEW l, NEW m, NEW n, IsU32(l), IsU32(m), IsU32(n),
         On(bytes, at, (U32(l) \o U32(m)) \o U32(n))
  PROVE  ReadItems(ReadU32(bytes), 3, at)
           = Outcome(bytes, at, (U32(l) \o U32(m)) \o U32(n), <<l, m, n>>)
<1> DEFINE pieces == <<U32(l), U32(m), U32(n)>>
           items == <<l, m, n>>
           read == ReadU32(bytes)
           w == (U32(l) \o U32(m)) \o U32(n)
<1>1. /\ pieces \in Seq({U32(l), U32(m), U32(n)}) /\ Len(pieces) = 3
      /\ pieces[1] = U32(l) /\ pieces[2] = U32(m) /\ pieces[3] = U32(n)
  OBVIOUS
<1>2. items \in Seq({l, m, n}) /\ Len(items) = 3 /\ items[1] = l /\ items[2] = m /\ items[3] = n
  OBVIOUS
<1> HIDE DEF pieces, items
<1>4. IsSeq(pieces) /\ IsSeq(items)
  BY <1>1, <1>2, SeqIsSeq
<1>3. FlattenSeq(pieces) = w
  <2> DEFINE x == U32(l)
             y == U32(m)
             z == U32(n)
  <2>1. IsSeq(x) /\ IsSeq(y) /\ IsSeq(z)
    BY U32IsSeq
  <2>2. pieces[1] = x /\ pieces[2] = y /\ pieces[3] = z
    BY <1>1
  <2> HIDE DEF x, y, z, w
  <2>3. FlattenSeq(pieces) = Three(x, y, z)
    BY <1>1, <1>4, <2>1, <2>2, FlattenThree
  <2> QED BY <2>3 DEF x, y, z, w, Three
<1> HIDE DEF w
<1>5. ASSUME NEW k \in 1..3 PROVE pieces[k] = U32(items[k]) /\ IsU32(items[k])
  <2>1. k = 1 \/ k = 2 \/ k = 3
    OBVIOUS
  <2> QED BY <1>1, <1>2, <2>1
<1>6. \A k \in 1..Len(pieces) : IsSeq(pieces[k])
  BY <1>1, <1>5, U32IsSeq
<1>7. \A k \in 1..Len(pieces) : \A z : On(bytes, z, pieces[k])
        => read[z] = Outcome(bytes, z, pieces[k], items[k])
  BY <1>1, <1>5, U32Reads
<1>8. On(bytes, at, FlattenSeq(pieces))
  BY <1>3 DEF w
<1>10. Len(items) = Len(pieces)
  BY <1>1, <1>2
<1> HIDE DEF read
<1>9. ReadItems(read, Len(pieces), at) = Outcome(bytes, at, FlattenSeq(pieces), items)
  BY <1>4, <1>6, <1>7, <1>8, <1>10, ItemsRead
<1> QED BY <1>1, <1>3, <1>9 DEF read, w, items

LEMMA ExceptionReads ==
  ASSUME NEW bytes, IsSeq(bytes), NEW at, NEW e \in ExceptionType,
         IsU32(e.start), IsU32(e.end), IsU32(e.handler), On(bytes, at, WriteException(e))
  PROVE  ReadException(bytes)[at] = Outcome(bytes, at, WriteException(e), e)
<1> DEFINE w == WriteException(e)
           r == ReadItems(ReadU32(bytes), 3, at)
           x == <<e.start, e.end, e.handler>>
           t == Got([start |-> r.value[1], end |-> r.value[2], handler |-> r.value[3]], r.at)
<1>1. r = Outcome(bytes, at, w, x)
  BY ThreeRead DEF WriteException
<1>2. ReadException(bytes)[at] = OnSuccess(r, t)
  <2>1. at \in Places(bytes)
    BY DEF On
  <2> HIDE DEF r
  <2> QED BY <2>1 DEF ReadException, Then, OnSuccess, r
<1>3. r.value = x /\ r.at = at + Len(w) => t = Got(e, at + Len(w))
  <2>1. e = [start |-> e.start, end |-> e.end, handler |-> e.handler]
    BY DEF ExceptionType
  <2>2. x[1] = e.start /\ x[2] = e.end /\ x[3] = e.handler
    OBVIOUS
  <2> HIDE DEF x, r, w
  <2> QED BY <2>1, <2>2
<1>4. On(bytes, at, w)
  OBVIOUS
<1> HIDE DEF r, t, w, x
<1>5. OnSuccess(r, t) = Outcome(bytes, at, w, e)
  BY <1>1, <1>3, <1>4, LastReads
<1> QED BY <1>2, <1>5 DEF w

LEMMA WrittenException == \A e : IsSeq(WriteException(e))
<1> TAKE e
<1>1. IsSeq(U32(e.start)) /\ IsSeq(U32(e.end)) /\ IsSeq(U32(e.handler))
  BY U32IsSeq
<1>2. IsSeq(U32(e.start) \o U32(e.end))
  BY <1>1, ConcatFacts
<1> QED BY <1>1, <1>2, ConcatFacts DEF WriteException

\* A place in the source: zeros.
LEMMA RepeatedFacts ==
  ASSUME NEW v, NEW n \in Nat
  PROVE  /\ IsSeq(Repeated(v, n)) /\ Len(Repeated(v, n)) = n /\ DOMAIN Repeated(v, n) = 1..n
         /\ \A k \in 1..n : Repeated(v, n)[k] = v
<1>1. Repeated(v, n) \in [1..n -> {v}]
  BY DEF Repeated
<1>2. Repeated(v, n) \in Seq({v}) /\ Len(Repeated(v, n)) = n
  BY <1>1, FunctionIsSeq
<1> QED BY <1>1, <1>2, SeqIsSeq

LEMMA SourceReads ==
  ASSUME NEW bytes, IsSeq(bytes), NEW at, NEW place, On(bytes, at, WriteSource(place))
  PROVE  ReadSource(bytes)[at] = Outcome(bytes, at, WriteSource(place), Repeated(0, 6))
<1> DEFINE items == Repeated(0, 6)
           pieces == [k \in DOMAIN items |-> U32(items[k])]
           read == ReadU32(bytes)
<1>1. IsSeq(items) /\ Len(items) = 6 /\ DOMAIN items = 1..6 /\ \A k \in 1..6 : items[k] = 0
  BY RepeatedFacts
<1>2. WriteSource(place) = FlattenSeq(pieces)
  BY DEF WriteSource, WriteEach
<1>3. pieces = [k \in DOMAIN items |-> pieces[k]]
  OBVIOUS
<1>4. \A k \in DOMAIN items : pieces[k] = U32(items[k])
  OBVIOUS
<1> HIDE DEF items, pieces
<1>5. IsSeq(pieces) /\ Len(pieces) = 6
  BY <1>1, <1>3, MappedSeq
<1>6. IsU32(0)
  BY DEF IsU32
<1>7. \A k \in 1..6 : IsSeq(pieces[k]) /\ pieces[k] = U32(0) /\ items[k] = 0
  BY <1>1, <1>4, U32IsSeq
<1>8. \A k \in 1..Len(pieces) : \A z : On(bytes, z, pieces[k])
        => read[z] = Outcome(bytes, z, pieces[k], items[k])
  BY <1>5, <1>6, <1>7, U32Reads
<1>9. On(bytes, at, FlattenSeq(pieces))
  BY <1>2
<1> HIDE DEF read
<1>10. ReadItems(read, Len(pieces), at) = Outcome(bytes, at, FlattenSeq(pieces), items)
  <2>1. /\ Len(items) = Len(pieces) /\ IsSeq(items) /\ IsSeq(pieces)
        /\ \A k \in 1..Len(pieces) : IsSeq(pieces[k])
    BY <1>1, <1>5, <1>7
  <2> QED BY <1>8, <1>9, <2>1, ItemsRead
<1>11. ReadSource(bytes)[at] = ReadItems(read, 6, at)
  BY DEF ReadSource, On, read
<1> QED BY <1>2, <1>5, <1>10, <1>11 DEF items

LEMMA WrittenSource == \A place : IsSeq(WriteSource(place))
<1> TAKE place
<1> DEFINE items == Repeated(0, 6)
           pieces == [k \in DOMAIN items |-> U32(items[k])]
<1>1. IsSeq(items) /\ DOMAIN items = 1..6
  BY RepeatedFacts
<1>2. WriteSource(place) = FlattenSeq(pieces)
  BY DEF WriteSource, WriteEach
<1>3. pieces = [k \in DOMAIN items |-> pieces[k]]
  OBVIOUS
<1>4. \A k \in DOMAIN items : IsSeq(pieces[k])
  BY U32IsSeq
<1> HIDE DEF items, pieces
<1>5. IsSeq(pieces) /\ DOMAIN items = 1..Len(pieces)
  BY <1>1, <1>3, MappedSeq
<1> QED BY <1>2, <1>4, <1>5, FlattenIsSeq

(***************************************************************************)
(* Part 18: functions.                                                     *)
(***************************************************************************)

\* The types of n parameters.
ParameterItems(n) == FlattenSeq([k \in DOMAIN Repeated(UnknownTag, n) |-> U8(Repeated(UnknownTag, n)[k])])
ParameterBytes(n) == U32(n) \o ParameterItems(n)

LEMMA ParametersRead ==
  ASSUME NEW n, IsU32(n)
  PROVE  /\ IsSeq(ParameterBytes(n)) /\ IsSeq(ParameterItems(n))
         /\ \A bytes, at : IsSeq(bytes) /\ On(bytes, at, ParameterBytes(n))
              => ReadCounted(ReadTypeTag(bytes), bytes, at)
                   = Outcome(bytes, at, ParameterBytes(n), Repeated(FALSE, n))
<1> DEFINE tags == Repeated(UnknownTag, n)
           items == Repeated(FALSE, n)
           pieces == [k \in DOMAIN tags |-> U8(tags[k])]
           count == U32(n)
           flat == FlattenSeq(pieces)
           w == ParameterBytes(n)
<1>1. n \in Nat
  BY DEF IsU32
<1>2. IsSeq(tags) /\ Len(tags) = n /\ DOMAIN tags = 1..n /\ \A k \in 1..n : tags[k] = UnknownTag
  BY <1>1, RepeatedFacts
<1>3. IsSeq(items) /\ Len(items) = n /\ \A k \in 1..n : items[k] = FALSE
  BY <1>1, RepeatedFacts
<1>4. pieces = [k \in DOMAIN tags |-> pieces[k]] /\ \A k \in DOMAIN tags : pieces[k] = U8(tags[k])
  OBVIOUS
<1>5. w = count \o flat
  BY DEF ParameterBytes, ParameterItems
<1>0. ParameterItems(n) = flat
  BY DEF ParameterItems
<1> HIDE DEF tags, items, pieces
<1>6. IsSeq(pieces) /\ Len(pieces) = n
  BY <1>2, <1>4, MappedSeq
<1>7. \A k \in 1..Len(pieces) : pieces[k] = U8(UnknownTag) /\ items[k] = FALSE
  BY <1>2, <1>3, <1>4, <1>6
<1>8. \A k \in 1..Len(pieces) : IsSeq(pieces[k])
  BY <1>7, U8Facts
<1>9. IsSeq(count) /\ IsSeq(flat)
  <2>1. IsSeq(count)
    BY U32IsSeq
  <2>2. IsSeq(flat)
    BY <1>6, <1>8, FlattenIsSeq
  <2> QED BY <2>1, <2>2
<1> HIDE DEF w
<1>10. IsSeq(w)
  <2> HIDE DEF count, flat
  <2> QED BY <1>5, <1>9, ConcatFacts
<1>11. ASSUME NEW bytes, NEW at, IsSeq(bytes), On(bytes, at, w)
       PROVE  ReadCounted(ReadTypeTag(bytes), bytes, at) = Outcome(bytes, at, w, items)
  <2> DEFINE read == ReadTypeTag(bytes)
  <2>1. ASSUME NEW k \in 1..Len(pieces), NEW z, On(bytes, z, pieces[k])
        PROVE  read[z] = Outcome(bytes, z, pieces[k], items[k])
    <3> DEFINE typed == FALSE
    <3>1. typed \in BOOLEAN /\ (IF typed THEN NumberTag ELSE UnknownTag) = UnknownTag
      OBVIOUS
    <3>2. On(bytes, z, U8(IF typed THEN NumberTag ELSE UnknownTag))
      BY <1>7, <2>1, <3>1
    <3> HIDE DEF typed
    <3>3. read[z] = Outcome(bytes, z, U8(IF typed THEN NumberTag ELSE UnknownTag), typed)
      BY <1>11, <3>1, <3>2, TypeTagReads
    <3> QED BY <1>7, <3>1, <3>3 DEF typed
  <2>2. /\ Len(items) = Len(pieces) /\ IsU32(Len(pieces)) /\ IsSeq(items) /\ IsSeq(pieces)
        /\ On(bytes, at, U32(Len(pieces)) \o FlattenSeq(pieces))
        /\ w = U32(Len(pieces)) \o FlattenSeq(pieces)
    BY <1>3, <1>5, <1>6, <1>11
  <2> HIDE DEF read
  <2>3. ReadCounted(read, bytes, at) = Outcome(bytes, at, U32(Len(pieces)) \o FlattenSeq(pieces), items)
    BY <1>8, <1>11, <2>1, <2>2, CountedReads
  <2> QED BY <2>2, <2>3 DEF read
<1> QED BY <1>0, <1>9, <1>10, <1>11 DEF w, items

\* The blocks of a function.
BlockItems(bs) == FlattenSeq([k \in DOMAIN bs |-> WriteBlock(bs[k])])
BlockBytes(bs) == U32(Len(bs)) \o BlockItems(bs)

LEMMA BlocksRead ==
  ASSUME NEW bs \in Seq(BlockType), CountsFit(bs), \A k \in DOMAIN bs : EncodableBlock(bs[k])
  PROVE  /\ IsSeq(BlockBytes(bs)) /\ IsSeq(BlockItems(bs))
         /\ \A bytes, at : IsSeq(bytes) /\ On(bytes, at, BlockBytes(bs))
              => ReadCounted(ReadBlock(bytes), bytes, at) = Outcome(bytes, at, BlockBytes(bs), bs)
<1> DEFINE pieces == [k \in DOMAIN bs |-> WriteBlock(bs[k])]
           count == U32(Len(bs))
           flat == FlattenSeq(pieces)
           w == BlockBytes(bs)
<1>1. IsSeq(bs)
  BY SeqIsSeq
<1>2. pieces = [k \in DOMAIN bs |-> pieces[k]] /\ \A k \in DOMAIN bs : pieces[k] = WriteBlock(bs[k])
  OBVIOUS
<1>3. w = count \o flat
  BY DEF BlockBytes, BlockItems
<1>0. BlockItems(bs) = flat
  BY DEF BlockItems
<1> HIDE DEF pieces
<1>4. IsSeq(pieces) /\ Len(pieces) = Len(bs) /\ DOMAIN bs = 1..Len(pieces)
  BY <1>1, <1>2, MappedSeq
<1>5. \A k \in 1..Len(pieces) : pieces[k] = WriteBlock(bs[k]) /\ EncodableBlock(bs[k])
  BY <1>2, <1>4
<1>6. \A k \in 1..Len(pieces) : bs[k] \in BlockType
  BY <1>4, ElementOfSeq
<1>7. \A k \in 1..Len(pieces) : IsSeq(pieces[k])
  BY <1>5, <1>6, WrittenBlock
<1>8. IsSeq(count) /\ IsSeq(flat)
  <2>1. IsSeq(count)
    BY U32IsSeq
  <2>2. IsSeq(flat)
    BY <1>4, <1>7, FlattenIsSeq
  <2> QED BY <2>1, <2>2
<1> HIDE DEF w
<1>9. IsSeq(w)
  <2> HIDE DEF count, flat
  <2> QED BY <1>3, <1>8, ConcatFacts
<1>10. ASSUME NEW bytes, NEW at, IsSeq(bytes), On(bytes, at, w)
       PROVE  ReadCounted(ReadBlock(bytes), bytes, at) = Outcome(bytes, at, w, bs)
  <2> DEFINE read == ReadBlock(bytes)
  <2>1. \A k \in 1..Len(pieces) : \A z : On(bytes, z, pieces[k])
          => read[z] = Outcome(bytes, z, pieces[k], bs[k])
    BY <1>5, <1>6, <1>10, BlockReads
  <2>2. /\ Len(bs) = Len(pieces) /\ IsU32(Len(pieces))
        /\ On(bytes, at, U32(Len(pieces)) \o FlattenSeq(pieces))
        /\ w = U32(Len(pieces)) \o FlattenSeq(pieces)
    BY <1>3, <1>4, <1>10 DEF CountsFit
  <2> HIDE DEF read
  <2>3. ReadCounted(read, bytes, at) = Outcome(bytes, at, U32(Len(pieces)) \o FlattenSeq(pieces), bs)
    BY <1>1, <1>4, <1>7, <1>10, <2>1, <2>2, CountedReads
  <2> QED BY <2>2, <2>3 DEF read
<1> QED BY <1>0, <1>8, <1>9, <1>10 DEF w

\* Its exception table.
ExceptionItems(es) == FlattenSeq([k \in DOMAIN es |-> WriteException(es[k])])
ExceptionBytes(es) == U32(Len(es)) \o ExceptionItems(es)

LEMMA ExceptionsRead ==
  ASSUME NEW es \in Seq(ExceptionType), CountsFit(es),
         \A k \in DOMAIN es : IsU32(es[k].start) /\ IsU32(es[k].end) /\ IsU32(es[k].handler)
  PROVE  /\ IsSeq(ExceptionBytes(es)) /\ IsSeq(ExceptionItems(es))
         /\ \A bytes, at : IsSeq(bytes) /\ On(bytes, at, ExceptionBytes(es))
              => ReadCounted(ReadException(bytes), bytes, at)
                   = Outcome(bytes, at, ExceptionBytes(es), es)
<1> DEFINE pieces == [k \in DOMAIN es |-> WriteException(es[k])]
           count == U32(Len(es))
           flat == FlattenSeq(pieces)
           w == ExceptionBytes(es)
<1>1. IsSeq(es)
  BY SeqIsSeq
<1>2. /\ pieces = [k \in DOMAIN es |-> pieces[k]]
      /\ \A k \in DOMAIN es : pieces[k] = WriteException(es[k])
  OBVIOUS
<1>3. w = count \o flat
  BY DEF ExceptionBytes, ExceptionItems
<1>0. ExceptionItems(es) = flat
  BY DEF ExceptionItems
<1> HIDE DEF pieces
<1>4. IsSeq(pieces) /\ Len(pieces) = Len(es) /\ DOMAIN es = 1..Len(pieces)
  BY <1>1, <1>2, MappedSeq
<1>5. \A k \in 1..Len(pieces) : /\ pieces[k] = WriteException(es[k])
                                /\ IsU32(es[k].start) /\ IsU32(es[k].end) /\ IsU32(es[k].handler)
  BY <1>2, <1>4
<1>6. \A k \in 1..Len(pieces) : es[k] \in ExceptionType
  BY <1>4, ElementOfSeq
<1>7. \A k \in 1..Len(pieces) : IsSeq(pieces[k])
  BY <1>5, WrittenException
<1>8. IsSeq(count) /\ IsSeq(flat)
  <2>1. IsSeq(count)
    BY U32IsSeq
  <2>2. IsSeq(flat)
    BY <1>4, <1>7, FlattenIsSeq
  <2> QED BY <2>1, <2>2
<1> HIDE DEF w
<1>9. IsSeq(w)
  <2> HIDE DEF count, flat
  <2> QED BY <1>3, <1>8, ConcatFacts
<1>10. ASSUME NEW bytes, NEW at, IsSeq(bytes), On(bytes, at, w)
       PROVE  ReadCounted(ReadException(bytes), bytes, at) = Outcome(bytes, at, w, es)
  <2> DEFINE read == ReadException(bytes)
  <2>1. \A k \in 1..Len(pieces) : \A z : On(bytes, z, pieces[k])
          => read[z] = Outcome(bytes, z, pieces[k], es[k])
    BY <1>5, <1>6, <1>10, ExceptionReads
  <2>2. /\ Len(es) = Len(pieces) /\ IsU32(Len(pieces))
        /\ On(bytes, at, U32(Len(pieces)) \o FlattenSeq(pieces))
        /\ w = U32(Len(pieces)) \o FlattenSeq(pieces)
    BY <1>3, <1>4, <1>10 DEF CountsFit
  <2> HIDE DEF read
  <2>3. ReadCounted(read, bytes, at) = Outcome(bytes, at, U32(Len(pieces)) \o FlattenSeq(pieces), es)
    BY <1>1, <1>4, <1>7, <1>10, <2>1, <2>2, CountedReads
  <2> QED BY <2>2, <2>3 DEF read
<1> QED BY <1>0, <1>8, <1>9, <1>10 DEF w

LEMMA WrittenFunction ==
  ASSUME NEW names, NEW f \in FunctionType(names), EncodableFunction(f)
  PROVE  LET n == WriteString(f.name)
             p == ParameterBytes(f.params)
             r == U8(UnknownTag)
             b == BlockBytes(f.blocks)
             x == ExceptionBytes(f.exceptions)
         IN  /\ WriteFunction(f) = n \o (p \o (r \o (b \o x)))
             /\ IsSeq(n) /\ IsSeq(p) /\ IsSeq(r) /\ IsSeq(b) /\ IsSeq(x)
             /\ IsSeq(b \o x) /\ IsSeq(r \o (b \o x)) /\ IsSeq(p \o (r \o (b \o x)))
             /\ IsSeq(WriteFunction(f))
<1> DEFINE n == WriteString(f.name)
           p1 == U32(f.params)
           p2 == ParameterItems(f.params)
           r == U8(UnknownTag)
           b1 == U32(Len(f.blocks))
           b2 == BlockItems(f.blocks)
           x1 == U32(Len(f.exceptions))
           x2 == ExceptionItems(f.exceptions)
           p == p1 \o p2
           b == b1 \o b2
           x == x1 \o x2
<1>1. /\ f.blocks \in Seq(BlockType) /\ f.exceptions \in Seq(ExceptionType)
      /\ EncodableText(f.name) /\ IsU32(f.params)
  BY DEF FunctionType, EncodableFunction
<1>2. /\ CountsFit(f.blocks) /\ \A k \in DOMAIN f.blocks : EncodableBlock(f.blocks[k])
      /\ CountsFit(f.exceptions)
      /\ \A k \in DOMAIN f.exceptions :
           /\ IsU32(f.exceptions[k].start) /\ IsU32(f.exceptions[k].end)
           /\ IsU32(f.exceptions[k].handler)
  BY DEF EncodableFunction
<1>3. ParameterBytes(f.params) = p /\ BlockBytes(f.blocks) = b /\ ExceptionBytes(f.exceptions) = x
  BY DEF ParameterBytes, BlockBytes, ExceptionBytes
<1>4. IsSeq(p) /\ IsSeq(p2)
  BY <1>1, <1>3, ParametersRead
<1>5. IsSeq(b) /\ IsSeq(b2)
  BY <1>1, <1>2, <1>3, BlocksRead
<1>6. IsSeq(x) /\ IsSeq(x2)
  BY <1>1, <1>2, <1>3, ExceptionsRead
<1>7. IsSeq(n)
  BY <1>1, WrittenString
<1>8. IsSeq(r)
  BY U8Facts
<1>9. IsSeq(p1) /\ IsSeq(b1) /\ IsSeq(x1)
  BY U32IsSeq
<1>10. WriteFunction(f) = ((((((n \o p1) \o p2) \o r) \o b1) \o b2) \o x1) \o x2
  BY DEF WriteFunction, WriteEach, ParameterItems, BlockItems, ExceptionItems
<1> HIDE DEF n, p1, p2, r, b1, b2, x1, x2
<1>11. AllSeqs({n, p1, p2, r, b1, b2, x1, x2})
  BY <1>4, <1>5, <1>6, <1>7, <1>8, <1>9 DEF AllSeqs
<1>12. Eight(n, p1, p2, r, b1, b2, x1, x2) = EightByPairs(n, p1, p2, r, b1, b2, x1, x2)
  BY <1>11, ConcatPairs
<1>13. WriteFunction(f) = (((n \o p) \o r) \o b) \o x
  BY <1>10, <1>12, Zenon DEF Eight, EightByPairs
<1> HIDE DEF p, b, x
<1>14. /\ (((n \o p) \o r) \o b) \o x = n \o (p \o (r \o (b \o x)))
       /\ IsSeq(b \o x) /\ IsSeq(r \o (b \o x)) /\ IsSeq(p \o (r \o (b \o x)))
       /\ IsSeq(n \o (p \o (r \o (b \o x))))
  BY <1>4, <1>5, <1>6, <1>7, <1>8, ConcatAssoc5
<1>15. /\ WriteFunction(f) = n \o (p \o (r \o (b \o x)))
       /\ IsSeq(b \o x) /\ IsSeq(r \o (b \o x)) /\ IsSeq(p \o (r \o (b \o x)))
       /\ IsSeq(WriteFunction(f))
  BY <1>13, <1>14
<1> QED BY <1>3, <1>4, <1>5, <1>6, <1>7, <1>8, <1>15, Zenon DEF n, r

LEMMA FunctionReads ==
  ASSUME NEW bytes, IsSeq(bytes), NEW at, NEW names, NEW f \in FunctionType(names),
         EncodableFunction(f), On(bytes, at, WriteFunction(f))
  PROVE  ReadFunction(bytes)[at] = Outcome(bytes, at, WriteFunction(f), f)
<1> DEFINE n == WriteString(f.name)
           p == ParameterBytes(f.params)
           r == U8(UnknownTag)
           b == BlockBytes(f.blocks)
           x == ExceptionBytes(f.exceptions)
           bx == b \o x
           rbx == r \o bx
           prbx == p \o rbx
           at1 == at + Len(n)
           at2 == at1 + Len(p)
           at3 == at2 + Len(r)
           at4 == at3 + Len(b)
           types == Repeated(FALSE, f.params)
           unknown == FALSE
           r1 == ReadString(bytes)[at]
           r2 == ReadCounted(ReadTypeTag(bytes), bytes, r1.at)
           r3 == ReadTypeTag(bytes)[r2.at]
           r4 == ReadCounted(ReadBlock(bytes), bytes, r3.at)
           r5 == ReadCounted(ReadException(bytes), bytes, r4.at)
           t5 == Got([name |-> r1.value, params |-> Len(r2.value), blocks |-> r4.value,
                      exceptions |-> r5.value], r5.at)
           t4 == OnSuccess(r5, t5)
           t3 == OnSuccess(r4, t4)
           t2 == OnSuccess(r3, t3)
           t1 == OnSuccess(r2, t2)
<1>1. /\ WriteFunction(f) = n \o prbx /\ prbx = p \o rbx /\ rbx = r \o bx /\ bx = b \o x
      /\ IsSeq(n) /\ IsSeq(p) /\ IsSeq(r) /\ IsSeq(b) /\ IsSeq(x)
      /\ IsSeq(bx) /\ IsSeq(rbx) /\ IsSeq(prbx)
  BY WrittenFunction
<1>2. /\ f.blocks \in Seq(BlockType) /\ f.exceptions \in Seq(ExceptionType)
      /\ f = [name |-> f.name, params |-> f.params, blocks |-> f.blocks,
              exceptions |-> f.exceptions]
  BY DEF FunctionType
<1>3. /\ EncodableText(f.name) /\ IsU32(f.params)
      /\ CountsFit(f.blocks) /\ \A k \in DOMAIN f.blocks : EncodableBlock(f.blocks[k])
      /\ CountsFit(f.exceptions)
      /\ \A k \in DOMAIN f.exceptions :
           /\ IsU32(f.exceptions[k].start) /\ IsU32(f.exceptions[k].end)
           /\ IsU32(f.exceptions[k].handler)
  BY DEF EncodableFunction
<1>4. Len(types) = f.params
  <2>1. f.params \in Nat
    BY <1>3 DEF IsU32
  <2> HIDE DEF r1, r2, r3, r4, r5, t1, t2, t3, t4, t5
  <2> QED BY <2>1, RepeatedFacts
<1>5. ReadFunction(bytes)[at] = OnSuccess(r1, t1)
  <2>1. at \in Places(bytes)
    BY DEF On
  <2> QED BY <2>1, SMTT(60) DEF ReadFunction, Then, OnSuccess
<1>6. On(bytes, at, n)
  BY <1>1, OnParts
<1>7. r1 = Outcome(bytes, at, n, f.name)
  BY <1>3, <1>6, StringReads
<1>8. ASSUME r1.at = at1, On(bytes, at1, p) PROVE r2 = Outcome(bytes, at1, p, types)
  BY <1>3, <1>8, ParametersRead
<1>9. ASSUME r2.at = at2, On(bytes, at2, r) PROVE r3 = Outcome(bytes, at2, r, unknown)
  <2>1. unknown \in BOOLEAN /\ (IF unknown THEN NumberTag ELSE UnknownTag) = UnknownTag
    OBVIOUS
  <2> HIDE DEF unknown, at2
  <2>2. ReadTypeTag(bytes)[at2]
          = Outcome(bytes, at2, U8(IF unknown THEN NumberTag ELSE UnknownTag), unknown)
    BY <1>9, <2>1, TypeTagReads
  <2> QED BY <1>9, <2>1, <2>2
<1>10. ASSUME r3.at = at3, On(bytes, at3, b) PROVE r4 = Outcome(bytes, at3, b, f.blocks)
  BY <1>2, <1>3, <1>10, BlocksRead
<1>11. ASSUME r4.at = at4, On(bytes, at4, x) PROVE r5 = Outcome(bytes, at4, x, f.exceptions)
  BY <1>2, <1>3, <1>11, ExceptionsRead
<1>12. ASSUME r1.value = f.name, r2.value = types, r4.value = f.blocks,
              r5.value = f.exceptions, r5.at = at4 + Len(x)
       PROVE  t5 = Got(f, at4 + Len(x))
  BY <1>2, <1>4, <1>12
<1> HIDE DEF n, p, r, b, x, bx, rbx, prbx, types, unknown, r1, r2, r3, r4, r5, t1, t2, t3, t4, t5
<1>13. ASSUME r1.value = f.name, r1.at = at1, On(bytes, at1, prbx)
       PROVE  t1 = Outcome(bytes, at1, prbx, f)
  <2> HIDE DEF at1
  <2>1. On(bytes, at1, p)
    BY <1>1, <1>13, OnParts
  <2>2. ASSUME r2.value = types, r2.at = at2, On(bytes, at2, rbx)
        PROVE  t2 = Outcome(bytes, at2, rbx, f)
    <3> HIDE DEF at2
    <3>1. On(bytes, at2, r)
      BY <1>1, <2>2, OnParts
    <3>2. ASSUME r3.at = at3, On(bytes, at3, bx)
          PROVE  t3 = Outcome(bytes, at3, bx, f)
      <4> HIDE DEF at3
      <4>1. On(bytes, at3, b)
        BY <1>1, <3>2, OnParts
      <4>2. ASSUME r4.value = f.blocks, r4.at = at4, On(bytes, at4, x)
            PROVE  t4 = Outcome(bytes, at4, x, f)
        <5> HIDE DEF at4
        <5>1. r5 = Outcome(bytes, at4, x, f.exceptions)
          BY <1>11, <4>2
        <5>2. r5.value = f.exceptions /\ r5.at = at4 + Len(x) => t5 = Got(f, at4 + Len(x))
          BY <1>12, <1>13, <2>2, <4>2
        <5> QED BY <4>2, <5>1, <5>2, LastReads DEF t4
      <4>3. r4 = Outcome(bytes, at3, b, f.blocks)
        BY <1>10, <3>2, <4>1
      <4> QED BY <1>1, <3>2, <4>2, <4>3, ThenReads DEF t3, at4
    <3>3. r3 = Outcome(bytes, at2, r, unknown)
      BY <1>9, <2>2, <3>1
    <3> QED BY <1>1, <2>2, <3>2, <3>3, ThenReads DEF t2, at3
  <2>3. r2 = Outcome(bytes, at1, p, types)
    BY <1>8, <1>13, <2>1
  <2> QED BY <1>1, <1>13, <2>2, <2>3, ThenReads DEF t1, at2
<1> QED BY <1>1, <1>5, <1>7, <1>13, ThenReads DEF at1

(***************************************************************************)
(* Part 19: modules.                                                       *)
(***************************************************************************)

LEMMA LastEnds ==
  ASSUME NEW bytes, IsSeq(bytes), NEW at, NEW w, On(bytes, at, w),
         NEW r, NEW x, NEW t, NEW z, r = Outcome(bytes, at, w, x),
         r.value = x /\ r.at = at + Len(w) => t = z
  PROVE  OnSuccess(r, t) = Ending(bytes, at, w, z)
<1>1. /\ Fits(bytes, at, w) => r.ok /\ r.value = x /\ r.at = at + Len(w)
      /\ ~Fits(bytes, at, w) => ~r.ok
  BY OutcomeFields
<1> QED BY <1>1 DEF Ending, OnSuccess

ConstantItems(cs) == FlattenSeq([k \in DOMAIN cs |-> WriteConstant(cs[k])])

LEMMA ConstantsRead ==
  ASSUME NEW names, NEW cs \in Seq(ConstantType(names)),
         \A k \in DOMAIN cs : EncodableConstant(cs[k])
  PROVE  /\ IsSeq(ConstantItems(cs))
         /\ \A bytes, at : IsSeq(bytes) /\ On(bytes, at, ConstantItems(cs))
              => ReadItems(ReadConstant(bytes), Len(cs), at)
                   = Outcome(bytes, at, ConstantItems(cs), cs)
<1> DEFINE pieces == [k \in DOMAIN cs |-> WriteConstant(cs[k])]
           w == ConstantItems(cs)
<1>1. IsSeq(cs)
  BY SeqIsSeq
<1>2. /\ pieces = [k \in DOMAIN cs |-> pieces[k]]
      /\ \A k \in DOMAIN cs : pieces[k] = WriteConstant(cs[k])
  OBVIOUS
<1>3. w = FlattenSeq(pieces)
  BY DEF ConstantItems
<1> HIDE DEF pieces
<1>4. IsSeq(pieces) /\ Len(pieces) = Len(cs) /\ DOMAIN cs = 1..Len(pieces)
  BY <1>1, <1>2, MappedSeq
<1>5. \A k \in 1..Len(pieces) : pieces[k] = WriteConstant(cs[k]) /\ EncodableConstant(cs[k])
  BY <1>2, <1>4
<1>6. \A k \in 1..Len(pieces) : cs[k] \in ConstantType(names)
  BY <1>4, ElementOfSeq
<1>7. \A k \in 1..Len(pieces) : IsSeq(pieces[k])
  BY <1>5, <1>6, WrittenConstant
<1> HIDE DEF w
<1>8. IsSeq(w)
  BY <1>3, <1>4, <1>7, FlattenIsSeq
<1>9. ASSUME NEW bytes, NEW at, IsSeq(bytes), On(bytes, at, w)
      PROVE  ReadItems(ReadConstant(bytes), Len(cs), at) = Outcome(bytes, at, w, cs)
  <2> DEFINE read == ReadConstant(bytes)
  <2>1. \A k \in 1..Len(pieces) : \A z : On(bytes, z, pieces[k])
          => read[z] = Outcome(bytes, z, pieces[k], cs[k])
    BY <1>5, <1>6, <1>9, ConstantReads
  <2>2. Len(cs) = Len(pieces) /\ On(bytes, at, FlattenSeq(pieces))
    BY <1>3, <1>4, <1>9
  <2> HIDE DEF read
  <2>3. ReadItems(read, Len(pieces), at) = Outcome(bytes, at, FlattenSeq(pieces), cs)
    BY <1>1, <1>4, <1>7, <1>9, <2>1, <2>2, ItemsRead
  <2> QED BY <1>3, <2>2, <2>3 DEF read
<1> QED BY <1>8, <1>9 DEF w

SourceItems(n) == FlattenSeq([k \in DOMAIN Repeated(0, n) |-> WriteSource(Repeated(0, n)[k])])

LEMMA SourcesRead ==
  ASSUME NEW n \in Nat
  PROVE  /\ IsSeq(SourceItems(n))
         /\ \A bytes, at : IsSeq(bytes) /\ On(bytes, at, SourceItems(n))
              => ReadItems(ReadSource(bytes), n, at)
                   = Outcome(bytes, at, SourceItems(n), Repeated(Repeated(0, 6), n))
<1> DEFINE places == Repeated(0, n)
           items == Repeated(Repeated(0, 6), n)
           pieces == [k \in DOMAIN places |-> WriteSource(places[k])]
           w == SourceItems(n)
<1>1. IsSeq(places) /\ Len(places) = n
  BY RepeatedFacts
<1>2. IsSeq(items) /\ Len(items) = n /\ \A k \in 1..n : items[k] = Repeated(0, 6)
  BY RepeatedFacts
<1>3. /\ pieces = [k \in DOMAIN places |-> pieces[k]]
      /\ \A k \in DOMAIN places : pieces[k] = WriteSource(places[k])
  OBVIOUS
<1>4. w = FlattenSeq(pieces)
  BY DEF SourceItems
<1> HIDE DEF places, items, pieces
<1>5. IsSeq(pieces) /\ Len(pieces) = Len(places) /\ DOMAIN places = 1..Len(pieces)
  BY <1>1, <1>3, MappedSeq
<1>6. \A k \in 1..Len(pieces) : pieces[k] = WriteSource(places[k]) /\ items[k] = Repeated(0, 6)
  BY <1>1, <1>2, <1>3, <1>5
<1>7. \A k \in 1..Len(pieces) : IsSeq(pieces[k])
  BY <1>6, WrittenSource
<1> HIDE DEF w
<1>8. IsSeq(w)
  BY <1>4, <1>5, <1>7, FlattenIsSeq
<1>9. ASSUME NEW bytes, NEW at, IsSeq(bytes), On(bytes, at, w)
      PROVE  ReadItems(ReadSource(bytes), n, at) = Outcome(bytes, at, w, items)
  <2> DEFINE read == ReadSource(bytes)
  <2>1. \A k \in 1..Len(pieces) : \A z : On(bytes, z, pieces[k])
          => read[z] = Outcome(bytes, z, pieces[k], items[k])
    BY <1>6, <1>9, SourceReads
  <2>2. n = Len(pieces) /\ Len(items) = Len(pieces) /\ On(bytes, at, FlattenSeq(pieces))
    BY <1>1, <1>2, <1>4, <1>5, <1>9
  <2> HIDE DEF read
  <2>3. ReadItems(read, Len(pieces), at) = Outcome(bytes, at, FlattenSeq(pieces), items)
    BY <1>2, <1>5, <1>7, <1>9, <2>1, <2>2, ItemsRead
  <2> QED BY <1>4, <2>2, <2>3 DEF read
<1> QED BY <1>8, <1>9 DEF w, items

FunctionItems(fs) == FlattenSeq([k \in DOMAIN fs |-> WriteFunction(fs[k])])

LEMMA FunctionsRead ==
  ASSUME NEW names, NEW fs \in Seq(FunctionType(names)),
         \A k \in DOMAIN fs : EncodableFunction(fs[k])
  PROVE  /\ IsSeq(FunctionItems(fs))
         /\ \A bytes, at : IsSeq(bytes) /\ On(bytes, at, FunctionItems(fs))
              => ReadItems(ReadFunction(bytes), Len(fs), at)
                   = Outcome(bytes, at, FunctionItems(fs), fs)
<1> DEFINE pieces == [k \in DOMAIN fs |-> WriteFunction(fs[k])]
           w == FunctionItems(fs)
<1>1. IsSeq(fs)
  BY SeqIsSeq
<1>2. /\ pieces = [k \in DOMAIN fs |-> pieces[k]]
      /\ \A k \in DOMAIN fs : pieces[k] = WriteFunction(fs[k])
  OBVIOUS
<1>3. w = FlattenSeq(pieces)
  BY DEF FunctionItems
<1> HIDE DEF pieces
<1>4. IsSeq(pieces) /\ Len(pieces) = Len(fs) /\ DOMAIN fs = 1..Len(pieces)
  BY <1>1, <1>2, MappedSeq
<1>5. \A k \in 1..Len(pieces) : pieces[k] = WriteFunction(fs[k]) /\ EncodableFunction(fs[k])
  BY <1>2, <1>4
<1>6. \A k \in 1..Len(pieces) : fs[k] \in FunctionType(names)
  BY <1>4, ElementOfSeq
<1>7. \A k \in 1..Len(pieces) : IsSeq(pieces[k])
  BY <1>5, <1>6, WrittenFunction
<1> HIDE DEF w
<1>8. IsSeq(w)
  BY <1>3, <1>4, <1>7, FlattenIsSeq
<1>9. ASSUME NEW bytes, NEW at, IsSeq(bytes), On(bytes, at, w)
      PROVE  ReadItems(ReadFunction(bytes), Len(fs), at) = Outcome(bytes, at, w, fs)
  <2> DEFINE read == ReadFunction(bytes)
  <2>1. \A k \in 1..Len(pieces) : \A z : On(bytes, z, pieces[k])
          => read[z] = Outcome(bytes, z, pieces[k], fs[k])
    BY <1>5, <1>6, <1>9, FunctionReads
  <2>2. Len(fs) = Len(pieces) /\ On(bytes, at, FlattenSeq(pieces))
    BY <1>3, <1>4, <1>9
  <2> HIDE DEF read
  <2>3. ReadItems(read, Len(pieces), at) = Outcome(bytes, at, FlattenSeq(pieces), fs)
    BY <1>1, <1>4, <1>7, <1>9, <2>1, <2>2, ItemsRead
  <2> QED BY <1>3, <2>2, <2>3 DEF read
<1> QED BY <1>8, <1>9 DEF w

\* What encode_module writes, by the parts that decode_module reads.
LEMMA WrittenModule ==
  ASSUME NEW names, NEW m \in ModuleType(names), Encodable(m)
  PROVE  LET h == Magic \o U16(Version)
             n == (U32(Len(m.constants)) \o U32(m.sources)) \o U32(Len(m.functions))
             c == ConstantItems(m.constants)
             s == SourceItems(m.sources)
             f == FunctionItems(m.functions)
         IN  /\ EncodeModule(m) = h \o (n \o (c \o (s \o f)))
             /\ Len(h) = 6 /\ IsSeq(h) /\ IsSeq(n) /\ IsSeq(c) /\ IsSeq(s) /\ IsSeq(f)
<1> DEFINE h == Magic \o U16(Version)
           n1 == U32(Len(m.constants))
           n2 == U32(m.sources)
           n3 == U32(Len(m.functions))
           n == (n1 \o n2) \o n3
           c == ConstantItems(m.constants)
           s == SourceItems(m.sources)
           f == FunctionItems(m.functions)
<1>1. /\ m.constants \in Seq(ConstantType(names)) /\ m.functions \in Seq(FunctionType(names))
      /\ m.sources \in Nat
  BY DEF ModuleType
<1>2. /\ \A k \in DOMAIN m.constants : EncodableConstant(m.constants[k])
      /\ \A k \in DOMAIN m.functions : EncodableFunction(m.functions[k])
  BY DEF Encodable
<1>3. IsSeq(h) /\ Len(h) = 6
  <2>1. Magic \in Seq(Nat) /\ Len(Magic) = 4
    BY DEF Magic
  <2>2. U16(Version) \in Seq({Version % 256, (Version \div 256) % 256}) /\ Len(U16(Version)) = 2
    BY DEF U16
  <2>3. IsSeq(Magic) /\ IsSeq(U16(Version))
    BY <2>1, <2>2, SeqIsSeq
  <2> DEFINE a == Magic
             b == U16(Version)
  <2>4. IsSeq(a) /\ IsSeq(b) /\ Len(a) = 4 /\ Len(b) = 2 /\ h = a \o b
    BY <2>1, <2>2, <2>3
  <2> HIDE DEF a, b, h
  <2>5. IsSeq(a \o b) /\ Len(a \o b) = Len(a) + Len(b)
    BY <2>4, ConcatFacts
  <2> QED BY <2>4, <2>5
<1>4. IsSeq(n1) /\ IsSeq(n2) /\ IsSeq(n3)
  BY U32IsSeq
<1>5. IsSeq(c)
  BY <1>1, <1>2, ConstantsRead
<1>6. IsSeq(s)
  BY <1>1, SourcesRead
<1>7. IsSeq(f)
  BY <1>1, <1>2, FunctionsRead
<1>8. EncodeModule(m) = (((((h \o n1) \o n2) \o n3) \o c) \o s) \o f
  BY DEF EncodeModule, WriteEach, ConstantItems, SourceItems, FunctionItems
<1> HIDE DEF h, n1, n2, n3, c, s, f
<1>9. IsSeq(n)
  <2>1. IsSeq(n1 \o n2)
    BY <1>4, ConcatFacts
  <2> QED BY <1>4, <2>1, ConcatFacts
<1>10. AllSeqs({h, n1, n2, n3, c, s, f})
  BY <1>3, <1>4, <1>5, <1>6, <1>7 DEF AllSeqs
<1>11. Seven(h, n1, n2, n3, c, s, f) = SevenByParts(h, n1, n2, n3, c, s, f)
  BY <1>10, ConcatParts
<1>12. EncodeModule(m) = h \o (n \o (c \o (s \o f)))
  BY <1>8, <1>11, Zenon DEF Seven, SevenByParts
<1> QED BY <1>3, <1>5, <1>6, <1>7, <1>9, <1>12, Zenon DEF h, n, n1, n2, n3, c, s, f

\* Bytes that begin as the encoding does, or end before it ends: they decode to the
\* module when they are the encoding, and to nothing else.
LEMMA ModuleReads ==
  ASSUME NEW bytes, IsSeq(bytes), NEW names, NEW m \in ModuleType(names), Encodable(m), m.header,
         On(bytes, 0, EncodeModule(m))
  PROVE  LET w == EncodeModule(m)
         IN  DecodeModule(bytes) = IF Fits(bytes, 0, w) /\ Len(w) = Len(bytes)
                                     THEN Got(m, Len(w)) ELSE Failed
<1> DEFINE w == EncodeModule(m)
           h == Magic \o U16(Version)
           n == (U32(Len(m.constants)) \o U32(m.sources)) \o U32(Len(m.functions))
           c == ConstantItems(m.constants)
           s == SourceItems(m.sources)
           f == FunctionItems(m.functions)
           sf == s \o f
           csf == c \o sf
           ncsf == n \o csf
           start == 0
           at1 == start + Len(h)
           at2 == at1 + Len(n)
           at3 == at2 + Len(c)
           at4 == at3 + Len(s)
           at5 == at4 + Len(f)
           places == Repeated(Repeated(0, 6), m.sources)
           counts == <<Len(m.constants), m.sources, Len(m.functions)>>
           r1 == ReadExact(bytes, 0, 6)
           r2 == ReadItems(ReadU32(bytes), 3, r1.at)
           r3 == ReadItems(ReadConstant(bytes), r2.value[1], r2.at)
           r4 == ReadItems(ReadSource(bytes), r2.value[2], r3.at)
           r5 == ReadItems(ReadFunction(bytes), r2.value[3], r4.at)
           t5 == IF r1.value = Magic \o U16(Version) /\ r5.at = Len(bytes)
                   THEN Got([header |-> TRUE, constants |-> r3.value, functions |-> r5.value,
                             sources |-> Len(r4.value)], r5.at)
                   ELSE Failed
           t4 == OnSuccess(r5, t5)
           t3 == OnSuccess(r4, t4)
           t2 == OnSuccess(r3, t3)
           t1 == OnSuccess(r2, t2)
           z == IF at5 = Len(bytes) THEN Got(m, at5) ELSE Failed
<1>1. /\ w = h \o ncsf /\ ncsf = n \o csf /\ csf = c \o sf /\ sf = s \o f
      /\ Len(h) = 6 /\ IsSeq(h) /\ IsSeq(n) /\ IsSeq(c) /\ IsSeq(s) /\ IsSeq(f)
  <2> HIDE DEF r1, r2, r3, r4, r5, t1, t2, t3, t4, t5
  <2> QED BY WrittenModule
<1>2. /\ m.constants \in Seq(ConstantType(names)) /\ m.functions \in Seq(FunctionType(names))
      /\ m.sources \in Nat
      /\ m = [header |-> TRUE, constants |-> m.constants, functions |-> m.functions,
              sources |-> m.sources]
  <2>1. m.header = TRUE
    BY DEF ModuleType
  <2> QED BY <2>1 DEF ModuleType
<1>3. /\ \A k \in DOMAIN m.constants : EncodableConstant(m.constants[k])
      /\ \A k \in DOMAIN m.functions : EncodableFunction(m.functions[k])
      /\ IsU32(Len(m.constants)) /\ IsU32(m.sources) /\ IsU32(Len(m.functions))
  BY DEF Encodable, CountsFit
<1>4. DecodeModule(bytes) = OnSuccess(r1, t1)
  BY SMTT(60) DEF DecodeModule, Then, OnSuccess
<1> HIDE DEF r1, r2, r3, r4, r5, t1, t2, t3, t4, t5
<1>5. IsSeq(sf)
  <2> HIDE DEF s, f
  <2> QED BY <1>1, ConcatFacts DEF sf
<1>6. IsSeq(csf)
  <2> HIDE DEF c, sf
  <2> QED BY <1>1, <1>5, ConcatFacts DEF csf
<1>7. IsSeq(ncsf)
  <2> HIDE DEF n, csf
  <2> QED BY <1>1, <1>6, ConcatFacts DEF ncsf
<1>8. On(bytes, 0, h)
  <2>1. On(bytes, 0, h \o ncsf)
    BY <1>1
  <2> HIDE DEF h, ncsf
  <2> QED BY <1>1, <1>7, <2>1, OnParts
<1>9. r1 = Outcome(bytes, 0, h, h)
  <2> HIDE DEF h
  <2> QED BY <1>1, <1>8, ExactReads DEF r1
<1>10. ASSUME r1.at = at1, On(bytes, at1, n) PROVE r2 = Outcome(bytes, at1, n, counts)
  <2> HIDE DEF at1
  <2>1. ReadItems(ReadU32(bytes), 3, at1) = Outcome(bytes, at1, n, counts)
    BY <1>3, <1>10, ThreeRead
  <2> QED BY <1>10, <2>1 DEF r2
<1>11. ASSUME r2.at = at2, r2.value = counts, On(bytes, at2, c)
       PROVE  r3 = Outcome(bytes, at2, c, m.constants)
  <2>1. r2.value[1] = Len(m.constants)
    BY <1>11
  <2> HIDE DEF at2, counts
  <2>2. ReadItems(ReadConstant(bytes), Len(m.constants), at2) = Outcome(bytes, at2, c, m.constants)
    BY <1>2, <1>3, <1>11, ConstantsRead
  <2> QED BY <1>11, <2>1, <2>2 DEF r3
<1>12. ASSUME r3.at = at3, r2.value = counts, On(bytes, at3, s)
       PROVE  r4 = Outcome(bytes, at3, s, places)
  <2>1. r2.value[2] = m.sources
    BY <1>12
  <2> HIDE DEF at3, counts
  <2>2. ReadItems(ReadSource(bytes), m.sources, at3) = Outcome(bytes, at3, s, places)
    BY <1>2, <1>12, SourcesRead
  <2> QED BY <1>12, <2>1, <2>2 DEF r4
<1>13. ASSUME r4.at = at4, r2.value = counts, On(bytes, at4, f)
       PROVE  r5 = Outcome(bytes, at4, f, m.functions)
  <2>1. r2.value[3] = Len(m.functions)
    BY <1>13
  <2> HIDE DEF at4, counts
  <2>2. ReadItems(ReadFunction(bytes), Len(m.functions), at4) = Outcome(bytes, at4, f, m.functions)
    BY <1>2, <1>3, <1>13, FunctionsRead
  <2> QED BY <1>13, <2>1, <2>2 DEF r5
<1>14. ASSUME r1.value = h, r3.value = m.constants, r4.value = places, r5.value = m.functions,
              r5.at = at5
       PROVE  t5 = z
  <2>1. Len(places) = m.sources
    BY <1>2, RepeatedFacts
  <2> HIDE DEF at5, places
  <2> QED BY <1>2, <1>14, <2>1 DEF t5
<1> HIDE DEF w, h, n, c, s, f, sf, csf, ncsf, places, counts, z
<1>15. ASSUME r1.value = h, r1.at = at1, On(bytes, at1, ncsf)
       PROVE  t1 = Ending(bytes, at1, ncsf, z)
  <2>0. ncsf = n \o csf /\ csf = c \o sf /\ sf = s \o f
    BY <1>1
  <2> HIDE DEF at1
  <2>1. On(bytes, at1, n)
    BY <1>1, <1>6, <1>15, OnParts
  <2>2. ASSUME r2.value = counts, r2.at = at2, On(bytes, at2, csf)
        PROVE  t2 = Ending(bytes, at2, csf, z)
    <3> HIDE DEF at2
    <3>1. On(bytes, at2, c)
      BY <1>1, <1>5, <2>2, OnParts
    <3>2. ASSUME r3.value = m.constants, r3.at = at3, On(bytes, at3, sf)
          PROVE  t3 = Ending(bytes, at3, sf, z)
      <4> HIDE DEF at3
      <4>1. On(bytes, at3, s)
        BY <1>1, <3>2, OnParts
      <4>2. ASSUME r4.value = places, r4.at = at4, On(bytes, at4, f)
            PROVE  t4 = Ending(bytes, at4, f, z)
        <5>1. r5 = Outcome(bytes, at4, f, m.functions)
          BY <1>13, <2>2, <4>2
        <5>2. r5.value = m.functions /\ r5.at = at4 + Len(f) => t5 = z
          BY <1>14, <1>15, <3>2, <4>2
        <5> HIDE DEF at4
        <5> QED BY <4>2, <5>1, <5>2, LastEnds DEF t4
      <4>3. r4 = Outcome(bytes, at3, s, places)
        BY <1>12, <2>2, <3>2, <4>1
      <4> QED BY <1>1, <3>2, <4>2, <4>3, ThenEnds DEF t3, at4
    <3>3. r3 = Outcome(bytes, at2, c, m.constants)
      BY <1>11, <2>2, <3>1
    <3> QED BY <1>1, <1>5, <2>2, <3>2, <3>3, ThenEnds DEF t2, at3
  <2>3. r2 = Outcome(bytes, at1, n, counts)
    BY <1>10, <1>15, <2>1
  <2> QED BY <1>1, <1>6, <1>15, <2>2, <2>3, ThenEnds DEF t1, at2
<1>16. DecodeModule(bytes) = Ending(bytes, 0, w, z)
  <2>1. On(bytes, start, h \o ncsf) /\ r1 = Outcome(bytes, start, h, h)
    BY <1>1, <1>9 DEF w
  <2>2. IsSeq(h) /\ w = h \o ncsf
    BY <1>1
  <2> HIDE DEF start
  <2>3. OnSuccess(r1, t1) = Ending(bytes, start, h \o ncsf, z)
    BY <1>7, <1>15, <2>1, <2>2, ThenEnds DEF at1
  <2> QED BY <1>4, <2>2, <2>3 DEF start
<1>17. Len(w) = at5
  <2>0. w = h \o ncsf /\ IsSeq(h)
    BY <1>1
  <2>1. Len(w) = Len(h) + Len(ncsf)
    <3>1. Len(h \o ncsf) = Len(h) + Len(ncsf)
      BY <1>7, <2>0, ConcatFacts
    <3> QED BY <2>0, <3>1
  <2>2. Len(ncsf) = Len(n) + Len(csf)
    BY <1>1, <1>6, ConcatFacts
  <2>3. Len(csf) = Len(c) + Len(sf)
    BY <1>1, <1>5, ConcatFacts
  <2>4. Len(sf) = Len(s) + Len(f)
    BY <1>1, ConcatFacts
  <2>5. /\ Len(h) \in Nat /\ Len(n) \in Nat /\ Len(c) \in Nat /\ Len(s) \in Nat /\ Len(f) \in Nat
    BY <1>1, SeqFacts
  <2> QED BY <2>1, <2>2, <2>3, <2>4, <2>5
<1> QED BY <1>16, <1>17 DEF Ending, z, w

\* A sequence lies where it begins, as does what begins like it.
LEMMA OnItself ==
  ASSUME NEW w, IsSeq(w)
  PROVE  On(w, 0, w) /\ Fits(w, 0, w)
<1>1. Len(w) \in Nat /\ DOMAIN w = 1..Len(w)
  BY SeqFacts
<1>2. \A k \in DOMAIN w : 0 + k = k
  BY <1>1
<1> QED BY <1>1, <1>2 DEF On, Places, Fits

LEMMA OnPrefix ==
  ASSUME NEW w, IsSeq(w), NEW n \in 0 .. Len(w) - 1
  PROVE  /\ IsSeq(SubSeq(w, 1, n)) /\ On(SubSeq(w, 1, n), 0, w)
         /\ ~Fits(SubSeq(w, 1, n), 0, w)
<1> DEFINE t == SubSeq(w, 1, n)
<1>1. Len(w) \in Nat /\ DOMAIN w = 1..Len(w) /\ n \in Nat /\ n <= Len(w) /\ n < Len(w)
  BY SeqFacts
<1>2. IsSeq(t) /\ Len(t) = n /\ \A k \in 1..n : t[k] = w[k]
  BY <1>1, PrefixFacts
<1> HIDE DEF t
<1>3. ASSUME NEW k \in DOMAIN w, 0 + k <= Len(t) PROVE t[0 + k] = w[k]
  <2>1. k \in 1..n /\ 0 + k = k
    BY <1>1, <1>2, <1>3
  <2> QED BY <1>2, <2>1
<1>4. 0 \in Places(t)
  BY <1>1, <1>2 DEF Places
<1>5. ~(0 + Len(w) <= Len(t))
  BY <1>1, <1>2
<1> QED BY <1>2, <1>3, <1>4, <1>5 DEF On, Fits, t

LEMMA OnLonger ==
  ASSUME NEW w, IsSeq(w), NEW v
  PROVE  IsSeq(Append(w, v)) /\ On(Append(w, v), 0, w) /\ Len(Append(w, v)) # Len(w)
<1> DEFINE t == Append(w, v)
<1>1. Len(w) \in Nat /\ DOMAIN w = 1..Len(w)
  BY SeqFacts
<1>2. IsSeq(t) /\ Len(t) = Len(w) + 1 /\ \A k \in DOMAIN w : t[k] = w[k]
  BY AppendFacts
<1> HIDE DEF t
<1>3. \A k \in DOMAIN w : 0 + k = k
  BY <1>1
<1>4. Len(w) \in Nat /\ Len(t) = Len(w) + 1
  BY <1>1, <1>2
<1>5. Len(t) # Len(w)
  BY <1>4
<1>6. 0 \in Places(t)
  BY <1>4 DEF Places
<1> QED BY <1>2, <1>3, <1>5, <1>6 DEF On, t

\* A sequence and another one are as long as both.
LEMMA LongerByAll ==
  \A s, t : IsSeq(s) /\ IsSeq(t) => IsSeq(s \o t) /\ Len(s \o t) = Len(s) + Len(t)
<1> SUFFICES ASSUME NEW s, NEW t, IsSeq(s), IsSeq(t)
             PROVE  IsSeq(s \o t) /\ Len(s \o t) = Len(s) + Len(t)
  OBVIOUS
<1> QED BY ConcatFacts

\* decode_module of what encode_module wrote, of less and of more.
LEMMA DecodesEncoding ==
  ASSUME NEW names, NEW m \in ModuleType(names), Encodable(m), m.header
  PROVE  LET w == EncodeModule(m)
         IN  /\ Len(w) \in Nat \ {0} /\ DecodeModule(w) = Got(m, Len(w))
             /\ \A n \in 0 .. Len(w) - 1 : ~DecodeModule(SubSeq(w, 1, n)).ok
             /\ \A v : ~DecodeModule(Append(w, v)).ok
<1> DEFINE w == EncodeModule(m)
<1>1. IsSeq(w) /\ Len(w) \in Nat \ {0}
  <2> DEFINE h == Magic \o U16(Version)
             n == (U32(Len(m.constants)) \o U32(m.sources)) \o U32(Len(m.functions))
             c == ConstantItems(m.constants)
             s == SourceItems(m.sources)
             f == FunctionItems(m.functions)
  <2>1. /\ w = h \o (n \o (c \o (s \o f)))
        /\ Len(h) = 6 /\ IsSeq(h) /\ IsSeq(n) /\ IsSeq(c) /\ IsSeq(s) /\ IsSeq(f)
    BY WrittenModule
  <2> HIDE DEF w, h, n, c, s, f
  <2>2. IsSeq(s \o f)
    BY <2>1, ConcatFacts
  <2>3. IsSeq(c \o (s \o f))
    BY <2>1, <2>2, ConcatFacts
  <2> DEFINE r == n \o (c \o (s \o f))
  <2>4. IsSeq(r)
    BY <2>1, <2>3, ConcatFacts
  <2>5. w = h \o r /\ IsSeq(h) /\ Len(h) = 6
    BY <2>1
  <2> HIDE DEF r
  <2>6. IsSeq(h \o r) /\ Len(h \o r) = Len(h) + Len(r)
    BY <2>4, <2>5, LongerByAll
  <2>7. Len(r) \in Nat
    BY <2>4, SeqFacts
  <2>8. Len(w) = 6 + Len(r) /\ IsSeq(w)
    BY <2>5, <2>6
  <2> QED BY <2>7, <2>8
<1>2. DecodeModule(w) = Got(m, Len(w))
  <2>1. On(w, 0, w) /\ Fits(w, 0, w)
    BY <1>1, OnItself
  <2> QED BY <1>1, <2>1, ModuleReads
<1>3. ASSUME NEW n \in 0 .. Len(w) - 1 PROVE ~DecodeModule(SubSeq(w, 1, n)).ok
  <2> DEFINE t == SubSeq(w, 1, n)
  <2>1. IsSeq(t) /\ On(t, 0, w) /\ ~Fits(t, 0, w)
    BY <1>1, OnPrefix
  <2> HIDE DEF t
  <2>2. DecodeModule(t) = Failed
    BY <2>1, ModuleReads
  <2> QED BY <2>2, FailedFields DEF t
<1>4. ASSUME NEW v PROVE ~DecodeModule(Append(w, v)).ok
  <2> DEFINE t == Append(w, v)
  <2>1. IsSeq(t) /\ On(t, 0, w) /\ Len(t) # Len(w)
    BY <1>1, OnLonger
  <2> HIDE DEF t
  <2>2. DecodeModule(t) = Failed
    BY <2>1, ModuleReads
  <2> QED BY <2>2, FailedFields DEF t
<1> QED BY <1>1, <1>2, <1>3, <1>4

(***************************************************************************)
(* Part 20: the theorem.                                                   *)
(***************************************************************************)

\* For every set of modules whose numbers and lengths fit in 32 bits, and every
\* spelling of texts in which no two are the same: what encode_module writes of a
\* module the interpreter is handed decodes to that module, and with any number
\* of bytes taken from its end, or one put after it, it does not decode.
THEOREM EncodingFaithful == Spec => []EncodingRoundTrips
<1>1. ASSUME Inv PROVE EncodingRoundTrips
  <2> DEFINE w == EncodeModule(module)
             least == IF module \in CutAnywhere THEN 0 ELSE Len(w) - 1
  <2>1. SUFFICES ASSUME module.header
                 PROVE  /\ DecodeModule(w) = Got(module, Len(w))
                        /\ \A n \in least .. Len(w) - 1 : ~DecodeModule(SubSeq(w, 1, n)).ok
                        /\ ~DecodeModule(Append(w, 0)).ok
    BY DEF EncodingRoundTrips
  <2>2. module \in ModuleType(Texts) /\ Encodable(module)
    BY <1>1, InterpreterAssumption, LoadingAssumption DEF Inv
  <2>3. /\ Len(w) \in Nat \ {0} /\ DecodeModule(w) = Got(module, Len(w))
        /\ \A n \in 0 .. Len(w) - 1 : ~DecodeModule(SubSeq(w, 1, n)).ok
        /\ \A v : ~DecodeModule(Append(w, v)).ok
    BY <2>1, <2>2, DecodesEncoding
  <2> HIDE DEF w
  <2>4. least .. Len(w) - 1 \subseteq 0 .. Len(w) - 1
    BY <2>3
  <2> QED BY <2>3, <2>4
<1> QED BY InvInit, InvNext, <1>1, PTL DEF Spec
=============================================================================
