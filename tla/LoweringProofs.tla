--------------------------- MODULE LoweringProofs ---------------------------
(***************************************************************************)
(* Proofs about lowering, for every function: values stay in their block   *)
(* and have the numbers of their places in the frame, blocks are closed    *)
(* when they are left, and what a function without branches compiles to    *)
(* passes the verifier.                                                    *)
(***************************************************************************)
EXTENDS Lowering, SequenceFacts, FiniteSetTheorems

\* Blocks are sequences of instructions.
BlocksSeq(bs) == IsSeq(bs) /\ \A c \in DOMAIN bs : IsSeq(bs[c])

\* Value v is defined in block c, before its instruction k.
DefinedBefore(bs, c, k, v) ==
  \E j \in DOMAIN bs[c] : j < k /\ Defines(bs[c][j]) /\ bs[c][j].result = v

\* Value v is defined in block c.
Holds(bs, c, v) == \E j \in DOMAIN bs[c] : Defines(bs[c][j]) /\ bs[c][j].result = v

\* The operands of instruction i are defined in block c.
TakesHeld(bs, c, i) == \A x \in DOMAIN i.values : Holds(bs, c, i.values[x])

\* Operands are defined before, values are numbered below n and once each.
ValuesOK(bs, n) ==
  /\ \A c \in DOMAIN bs : \A k \in DOMAIN bs[c] : \A x \in DOMAIN bs[c][k].values :
       DefinedBefore(bs, c, k, bs[c][k].values[x])
  /\ \A c \in DOMAIN bs : \A k \in DOMAIN bs[c] :
       Defines(bs[c][k]) => bs[c][k].result \in Nat /\ bs[c][k].result < n
  /\ \A c, d \in DOMAIN bs : \A k \in DOMAIN bs[c], l \in DOMAIN bs[d] :
       (Defines(bs[c][k]) /\ Defines(bs[d][l]) /\ bs[c][k].result = bs[d][l].result)
         => c = d /\ k = l

\* In the only block, value numbers count the values defined.
PositionsOK(bs, n) ==
  Len(bs) = 1 =>
    /\ \A k \in DOMAIN bs[1] : Defines(bs[1][k]) => bs[1][k].result = DefinedCount(bs[1], k)
    /\ n = DefinedCount(bs[1], Len(bs[1]) + 1)

\* An if being lowered.
IfType ==
  [kind : {"if"}, part : {"then", "else"}, done : BOOLEAN, elseBlock : Nat, mergeBlock : Nat]

OpenSeq(os) ==
  IsSeq(os) /\ \A k \in DOMAIN os : os[k] \in IfType \/ os[k] = [kind |-> "block"]

\* The blocks an if being lowered has yet to come to.
Pending(o) ==
  IF o.kind = "if" THEN {o.mergeBlock} \union (IF o.part = "then" THEN {o.elseBlock} ELSE {}) ELSE {}

\* They exist, none of them is being filled, and no two ifs share one.
PendingApart(bs, cur, os) ==
  /\ \A k \in DOMAIN os : \A b \in Pending(os[k]) : b + 1 \in DOMAIN bs /\ b # cur
  /\ \A j, k \in DOMAIN os : j # k => Pending(os[j]) \cap Pending(os[k]) = {}
  /\ \A k \in DOMAIN os :
       (os[k].kind = "if" /\ os[k].part = "then") => os[k].elseBlock # os[k].mergeBlock

\* Block b is still to be filled.
Awaited(os, b) == \E k \in DOMAIN os : b \in Pending(os[k])

\* Block b ends in a branch or a jump to blocks that exist.
EndsInJump(bs, b) ==
  /\ bs[b] # <<>>
  /\ bs[b][Len(bs[b])].op \in {"Branch", "Jump"}
  /\ \A x \in DOMAIN bs[b][Len(bs[b])].targets : bs[b][Len(bs[b])].targets[x] + 1 \in DOMAIN bs

\* A block other than the current one is still empty or is closed.
ClosedOK(bs, cur, os) ==
  \A b \in DOMAIN bs :
    b - 1 # cur => IF Awaited(os, b - 1) THEN bs[b] = <<>> ELSE EndsInJump(bs, b)

\* An if whose body is complete takes no expression.
NothingLeftOver(os, st) ==
  (os # <<>> /\ os[Len(os)].kind = "if" /\ os[Len(os)].done) => st = <<>>

\* What holds of blocks and values, of the values held, and of what is open.
BlocksInv(bs, cur, n) ==
  /\ BlocksSeq(bs) /\ cur \in Nat /\ cur + 1 \in DOMAIN bs /\ n \in Nat
  /\ ValuesOK(bs, n) /\ PositionsOK(bs, n)

\* The values held are values of the current block.
StackInv(bs, cur, st) ==
  IsSeq(st) /\ \A k \in DOMAIN st : Holds(bs, cur + 1, st[k].value) /\ "value" \in DOMAIN st[k]

OpenInv(bs, cur, os) == OpenSeq(os) /\ PendingApart(bs, cur, os) /\ ClosedOK(bs, cur, os)

\* The inductive invariant.
LowerInv ==
  /\ BlocksInv(blocks, current, nextValue)
  /\ StackInv(blocks, current, stack)
  /\ OpenInv(blocks, current, open)
  /\ NothingLeftOver(open, stack)
-----------------------------------------------------------------------------
(***************************************************************************)
(* Part 1: an instruction emitted.                                         *)
(***************************************************************************)

\* Block c of bs has instruction i more in new.
Grown(bs, new, c, i) ==
  /\ DOMAIN new = DOMAIN bs /\ c \in DOMAIN bs
  /\ \A d \in DOMAIN bs : d # c => new[d] = bs[d]
  /\ Len(bs[c]) \in Nat /\ Len(new[c]) = Len(bs[c]) + 1
  /\ DOMAIN bs[c] = 1..Len(bs[c]) /\ DOMAIN new[c] = 1..(Len(bs[c]) + 1)
  /\ new[c][Len(bs[c]) + 1] = i
  /\ \A k \in DOMAIN bs[c] : new[c][k] = bs[c][k]

\* Emitting puts the instruction at the end of its block and changes no other.
LEMMA EmitGrows ==
  ASSUME NEW bs, BlocksSeq(bs), NEW b \in Nat, b + 1 \in DOMAIN bs, NEW i,
         NEW new, new = Emitted(bs, b, i)
  PROVE  BlocksSeq(new) /\ Len(new) = Len(bs) /\ Grown(bs, new, b + 1, i)
<1> DEFINE c == b + 1
           old == bs[c]
           longer == Append(old, i)
<1>1. IsSeq(bs) /\ IsSeq(old)
  BY DEF BlocksSeq
<1>2. /\ IsSeq(longer) /\ DOMAIN longer = 1..(Len(old) + 1) /\ Len(longer) = Len(old) + 1
      /\ longer[Len(old) + 1] = i
      /\ \A k \in DOMAIN old : longer[k] = old[k]
  BY <1>1, AppendFacts
<1>3. Len(old) \in Nat /\ DOMAIN old = 1..Len(old)
  BY <1>1, SeqFacts
<1> HIDE DEF longer
<1>4. new = [bs EXCEPT ![c] = longer]
  BY DEF Emitted, longer
<1> HIDE DEF c
<1>5. c \in DOMAIN bs
  BY DEF c
<1>6. IsSeq(new) /\ Len(new) = Len(bs)
  <2> DEFINE W == {bs[k] : k \in DOMAIN bs} \union {longer}
  <2>1. DOMAIN bs = 1..Len(bs) /\ Len(bs) \in Nat
    BY <1>1, SeqFacts
  <2>2. new \in [1..Len(bs) -> W]
    BY <2>1, <1>4
  <2> HIDE DEF W
  <2>3. new \in Seq(W) /\ Len(new) = Len(bs)
    BY <2>1, <2>2, FunctionIsSeq
  <2> QED BY <2>3, SeqIsSeq
<1>7. DOMAIN new = DOMAIN bs /\ new[c] = longer /\ \A d \in DOMAIN bs : d # c => new[d] = bs[d]
  BY <1>4, <1>5
<1>8. BlocksSeq(new)
  BY <1>2, <1>6, <1>7 DEF BlocksSeq
<1>9. Grown(bs, new, c, i)
  BY <1>2, <1>3, <1>5, <1>7 DEF Grown
<1> QED BY <1>6, <1>8, <1>9 DEF c

\* Values stay in order when operands are defined in the block and the result,
\* if there is one, is new.
LEMMA EmitValues ==
  ASSUME NEW bs, NEW new, NEW c, NEW i, Grown(bs, new, c, i),
         NEW n \in Nat, ValuesOK(bs, n),
         TakesHeld(bs, c, i),
         Defines(i) => i.result = n,
         NEW m, m = IF Defines(i) THEN n + 1 ELSE n
  PROVE  /\ ValuesOK(new, m)
         /\ Defines(i) => Holds(new, c, n)
         /\ \A d \in DOMAIN bs : \A v : Holds(bs, d, v) => Holds(new, d, v)
<1> DEFINE e == Len(bs[c]) + 1
<1>1. /\ DOMAIN new = DOMAIN bs /\ c \in DOMAIN bs
      /\ \A d \in DOMAIN bs : d # c => new[d] = bs[d]
      /\ e \in Nat /\ e \in DOMAIN new[c] /\ new[c][e] = i
      /\ \A k \in DOMAIN new[c] : k = e \/ k \in DOMAIN bs[c]
      /\ \A k \in DOMAIN bs[c] : k < e /\ k \in DOMAIN new[c] /\ new[c][k] = bs[c][k]
  BY DEF Grown
<1> HIDE DEF e
<1>2. \A d \in DOMAIN bs : \A k \in DOMAIN bs[d] : k \in DOMAIN new[d] /\ new[d][k] = bs[d][k]
  BY <1>1
<1>3. \A d \in DOMAIN new : \A k \in DOMAIN new[d] :
        (d = c /\ k = e /\ new[d][k] = i) \/ (k \in DOMAIN bs[d] /\ new[d][k] = bs[d][k])
  BY <1>1
<1>4. \A d \in DOMAIN bs : \A k, v : DefinedBefore(bs, d, k, v) => DefinedBefore(new, d, k, v)
  BY <1>2 DEF DefinedBefore
<1>5. \A d \in DOMAIN bs : \A v : Holds(bs, d, v) => Holds(new, d, v)
  BY <1>2 DEF Holds
<1>6. \A v : Holds(bs, c, v) => DefinedBefore(new, c, e, v)
  BY <1>1 DEF Holds, DefinedBefore
<1>7. ASSUME NEW d \in DOMAIN new, NEW k \in DOMAIN new[d], NEW x \in DOMAIN new[d][k].values
      PROVE  DefinedBefore(new, d, k, new[d][k].values[x])
  <2>1. CASE d = c /\ k = e /\ new[d][k] = i
    BY <2>1, <1>6 DEF TakesHeld
  <2>2. CASE k \in DOMAIN bs[d] /\ new[d][k] = bs[d][k]
    <3>1. DefinedBefore(bs, d, k, bs[d][k].values[x])
      BY <2>2, <1>1 DEF ValuesOK
    <3> QED BY <2>2, <3>1, <1>1, <1>4
  <2> QED BY <2>1, <2>2, <1>3
<1>8. m \in Nat /\ n <= m /\ (Defines(i) => m = n + 1)
  OBVIOUS
<1>9. \A d \in DOMAIN bs : \A k \in DOMAIN bs[d] :
        Defines(bs[d][k]) => bs[d][k].result \in Nat /\ bs[d][k].result < n
  BY DEF ValuesOK
<1>10. \A d \in DOMAIN new : \A k \in DOMAIN new[d] :
         Defines(new[d][k]) => new[d][k].result \in Nat /\ new[d][k].result < m
  BY <1>1, <1>3, <1>8, <1>9
<1>11. ASSUME NEW d1 \in DOMAIN new, NEW d2 \in DOMAIN new,
              NEW k1 \in DOMAIN new[d1], NEW k2 \in DOMAIN new[d2],
              Defines(new[d1][k1]), Defines(new[d2][k2]),
              new[d1][k1].result = new[d2][k2].result
       PROVE  d1 = d2 /\ k1 = k2
  <2>1. CASE d1 = c /\ k1 = e /\ new[d1][k1] = i
    <3>1. ~(k2 \in DOMAIN bs[d2] /\ new[d2][k2] = bs[d2][k2])
      BY <1>1, <1>9, <1>11, <2>1
    <3> QED BY <1>3, <2>1, <3>1
  <2>2. CASE d2 = c /\ k2 = e /\ new[d2][k2] = i
    <3>1. ~(k1 \in DOMAIN bs[d1] /\ new[d1][k1] = bs[d1][k1])
      BY <1>1, <1>9, <1>11, <2>2
    <3> QED BY <1>3, <2>2, <3>1
  <2>3. CASE /\ k1 \in DOMAIN bs[d1] /\ new[d1][k1] = bs[d1][k1]
             /\ k2 \in DOMAIN bs[d2] /\ new[d2][k2] = bs[d2][k2]
    BY <1>1, <1>11, <2>3 DEF ValuesOK
  <2> QED BY <1>3, <2>1, <2>2, <2>3
<1>12. ValuesOK(new, m)
  BY <1>7, <1>10, <1>11 DEF ValuesOK
<1>13. Defines(i) => Holds(new, c, n)
  BY <1>1 DEF Holds
<1> QED BY <1>5, <1>12, <1>13

\* A prefix counts the same, and one instruction more counts if it defines.
LEMMA CountGrown ==
  ASSUME NEW s, NEW t, NEW i, NEW n \in Nat,
         DOMAIN s = 1..n, \A k \in 1..n : t[k] = s[k], t[n + 1] = i
  PROVE  /\ \A k \in 1..(n + 1) : DefinedCount(t, k) = DefinedCount(s, k)
         /\ DefinedCount(t, n + 2) = IF Defines(i) THEN DefinedCount(s, n + 1) + 1
                                                   ELSE DefinedCount(s, n + 1)
<1>1. ASSUME NEW k \in 1..(n + 1) PROVE DefinedCount(t, k) = DefinedCount(s, k)
  <2>1. \A j \in 1..(k - 1) : t[j] = s[j]
    OBVIOUS
  <2>2. {j \in 1..(k - 1) : Defines(t[j])} = {j \in 1..(k - 1) : Defines(s[j])}
    BY <2>1
  <2> QED BY <2>2 DEF DefinedCount
<1> DEFINE S == {j \in 1..(n + 1 - 1) : Defines(t[j])}
           T == {j \in 1..(n + 2 - 1) : Defines(t[j])}
<1>2. IsFiniteSet(S) /\ n + 1 \notin S
  <2>1. IsFiniteSet(1..n)
    BY FS_Interval
  <2>2. S \subseteq 1..n
    OBVIOUS
  <2> QED BY <2>1, <2>2, FS_Subset
<1>3. T = IF Defines(i) THEN S \union {n + 1} ELSE S
  <2>1. \A j : j \in 1..(n + 2 - 1) <=> (j \in 1..(n + 1 - 1) \/ j = n + 1)
    OBVIOUS
  <2> QED BY <2>1
<1> HIDE DEF S, T
<1>4. Cardinality(T) = IF Defines(i) THEN Cardinality(S) + 1 ELSE Cardinality(S)
  BY <1>2, <1>3, FS_AddElement
<1>5. DefinedCount(t, n + 2) = Cardinality(T) /\ DefinedCount(t, n + 1) = Cardinality(S)
  BY DEF DefinedCount, S, T
<1>6. DefinedCount(t, n + 1) = DefinedCount(s, n + 1)
  BY <1>1
<1> QED BY <1>1, <1>4, <1>5, <1>6

\* In the only block, a new value is numbered as it is counted.
LEMMA EmitPositions ==
  ASSUME NEW bs, NEW new, NEW c, NEW i, IsSeq(bs), Len(new) = Len(bs), Grown(bs, new, c, i),
         NEW n, PositionsOK(bs, n), Defines(i) => i.result = n,
         NEW m, m = IF Defines(i) THEN n + 1 ELSE n
  PROVE  PositionsOK(new, m)
<1> SUFFICES ASSUME Len(new) = 1
             PROVE  /\ \A k \in DOMAIN new[1] :
                         Defines(new[1][k]) => new[1][k].result = DefinedCount(new[1], k)
                    /\ m = DefinedCount(new[1], Len(new[1]) + 1)
  BY DEF PositionsOK
<1>1. c = 1
  BY SeqFacts DEF Grown
<1> DEFINE s == bs[1]
           t == new[1]
           e == Len(s)
<1>2. /\ e \in Nat /\ DOMAIN s = 1..e /\ DOMAIN t = 1..(e + 1) /\ t[e + 1] = i
      /\ \A k \in 1..e : t[k] = s[k]
      /\ Len(t) = e + 1
  BY <1>1 DEF Grown
<1>3. /\ \A k \in 1..e : Defines(s[k]) => s[k].result = DefinedCount(s, k)
      /\ n = DefinedCount(s, e + 1)
  BY <1>2 DEF PositionsOK
<1> HIDE DEF s, t, e
<1>4. /\ \A k \in 1..(e + 1) : DefinedCount(t, k) = DefinedCount(s, k)
      /\ DefinedCount(t, e + 2) = IF Defines(i) THEN DefinedCount(s, e + 1) + 1
                                                ELSE DefinedCount(s, e + 1)
  BY <1>2, CountGrown
<1>5. \A k \in DOMAIN t : Defines(t[k]) => t[k].result = DefinedCount(t, k)
  BY <1>2, <1>3, <1>4
<1>6. m = DefinedCount(t, Len(t) + 1)
  <2>1. Len(t) + 1 = e + 2
    BY <1>2
  <2> QED BY <1>3, <1>4, <2>1
<1> QED BY <1>5, <1>6 DEF t

\* Filling the current block leaves the other blocks as they are.
LEMMA EmitOpen ==
  ASSUME NEW bs, NEW new, NEW cur, NEW i, NEW os,
         Grown(bs, new, cur + 1, i), cur \in Nat, BlocksSeq(bs), OpenInv(bs, cur, os)
  PROVE  OpenInv(new, cur, os)
<1>1. DOMAIN new = DOMAIN bs /\ \A d \in DOMAIN bs : d # cur + 1 => new[d] = bs[d]
  BY DEF Grown
<1>2. \A d \in DOMAIN bs : d \in Nat
  BY SeqFacts DEF BlocksSeq
<1>3. \A d \in DOMAIN bs : d - 1 # cur => new[d] = bs[d]
  BY <1>1, <1>2
<1>4. ASSUME NEW d \in DOMAIN bs, d - 1 # cur, EndsInJump(bs, d) PROVE EndsInJump(new, d)
  BY <1>1, <1>3, <1>4 DEF EndsInJump
<1>5. ClosedOK(new, cur, os)
  BY <1>1, <1>3, <1>4 DEF OpenInv, ClosedOK
<1>6. PendingApart(new, cur, os)
  BY <1>1 DEF OpenInv, PendingApart
<1> QED BY <1>5, <1>6 DEF OpenInv

\* Emitting into the current block keeps everything.
LEMMA EmitKeeps ==
  ASSUME NEW bs, NEW cur, NEW n, NEW st, NEW os, NEW i,
         BlocksInv(bs, cur, n), StackInv(bs, cur, st), OpenInv(bs, cur, os),
         TakesHeld(bs, cur + 1, i),
         Defines(i) => i.result = n,
         NEW new, new = Emitted(bs, cur, i),
         NEW m, Defines(i) => m = n + 1, ~Defines(i) => m = n
  PROVE  /\ BlocksInv(new, cur, m) /\ StackInv(new, cur, st) /\ OpenInv(new, cur, os)
         /\ Defines(i) => Holds(new, cur + 1, n)
         /\ \A v : Holds(bs, cur + 1, v) => Holds(new, cur + 1, v)
<1>1. /\ BlocksSeq(bs) /\ cur \in Nat /\ cur + 1 \in DOMAIN bs /\ n \in Nat
      /\ ValuesOK(bs, n) /\ PositionsOK(bs, n) /\ IsSeq(bs)
      /\ m = IF Defines(i) THEN n + 1 ELSE n
  BY DEF BlocksInv, BlocksSeq
<1>2. BlocksSeq(new) /\ Len(new) = Len(bs) /\ Grown(bs, new, cur + 1, i)
  BY <1>1, EmitGrows
<1>3. /\ ValuesOK(new, m)
      /\ Defines(i) => Holds(new, cur + 1, n)
      /\ \A d \in DOMAIN bs : \A v : Holds(bs, d, v) => Holds(new, d, v)
  BY <1>1, <1>2, EmitValues
<1>4. PositionsOK(new, m)
  BY <1>1, <1>2, EmitPositions
<1>5. OpenInv(new, cur, os)
  BY <1>1, <1>2, EmitOpen
<1>6. m \in Nat /\ cur + 1 \in DOMAIN new
  BY <1>1, <1>2 DEF Grown
<1>7. BlocksInv(new, cur, m)
  BY <1>1, <1>2, <1>3, <1>4, <1>6 DEF BlocksInv
<1>8. StackInv(new, cur, st)
  BY <1>1, <1>3 DEF StackInv
<1> QED BY <1>1, <1>3, <1>5, <1>7, <1>8
-----------------------------------------------------------------------------
(***************************************************************************)
(* Part 2: blocks and ifs opened, closed and completed.                    *)
(***************************************************************************)

\* What is pending of each thing that can be open.
LEMMA PendingOf ==
  /\ \A o \in IfType :
       /\ o.kind = "if" /\ o.part \in {"then", "else"} /\ o.mergeBlock \in Nat /\ o.elseBlock \in Nat
       /\ o.part = "then" => Pending(o) = {o.mergeBlock, o.elseBlock}
       /\ o.part = "else" => Pending(o) = {o.mergeBlock}
  /\ Pending([kind |-> "block"]) = {} /\ [kind |-> "block"].kind = "block"
BY DEF IfType, Pending

\* Completing a statement marks the innermost if and moves no block.
LEMMA CompletedOpen ==
  ASSUME NEW bs, NEW cur, NEW os, OpenInv(bs, cur, os)
  PROVE  OpenInv(bs, cur, Completed(os))
<1> DEFINE new == Completed(os)
           W == IfType \union {[kind |-> "block"]}
<1>1. /\ IsSeq(os) /\ DOMAIN os = 1..Len(os) /\ Len(os) \in Nat
      /\ \A k \in DOMAIN os : os[k] \in IfType \/ os[k] = [kind |-> "block"]
  BY SeqFacts DEF OpenInv, OpenSeq
<1>2. \A o \in IfType : /\ [o EXCEPT !.done = TRUE] \in IfType
                        /\ Pending([o EXCEPT !.done = TRUE]) = Pending(o)
                        /\ [o EXCEPT !.done = TRUE].kind = o.kind
                        /\ [o EXCEPT !.done = TRUE].part = o.part
                        /\ [o EXCEPT !.done = TRUE].elseBlock = o.elseBlock
                        /\ [o EXCEPT !.done = TRUE].mergeBlock = o.mergeBlock
  BY DEF IfType, Pending
<1>3. /\ DOMAIN new = DOMAIN os
      /\ \A k \in DOMAIN os :
           new[k] = os[k] \/ (os[k] \in IfType /\ new[k] = [os[k] EXCEPT !.done = TRUE])
  BY <1>1, PendingOf DEF Completed
<1> HIDE DEF new
<1>4. \A k \in DOMAIN os :
        /\ new[k] \in W /\ Pending(new[k]) = Pending(os[k])
        /\ new[k].kind = os[k].kind
        /\ new[k].kind = "if" => /\ new[k].part = os[k].part
                                 /\ new[k].elseBlock = os[k].elseBlock
                                 /\ new[k].mergeBlock = os[k].mergeBlock
  BY <1>1, <1>2, <1>3
<1>5. new \in [1..Len(os) -> {new[k] : k \in DOMAIN new}]
  <2>1. new = [k \in DOMAIN os |-> new[k]]
    BY DEF new, Completed
  <2> QED BY <1>1, <1>3, <2>1
<1>6. IsSeq(new)
  BY <1>1, <1>5, FunctionIsSeq, SeqIsSeq
<1>7. OpenSeq(new)
  BY <1>3, <1>4, <1>6 DEF OpenSeq
<1>8. PendingApart(bs, cur, new)
  BY <1>3, <1>4 DEF OpenInv, PendingApart
<1>9. ClosedOK(bs, cur, new)
  <2>1. \A b : Awaited(new, b) <=> Awaited(os, b)
    BY <1>3, <1>4 DEF Awaited
  <2> QED BY <2>1 DEF OpenInv, ClosedOK
<1> QED BY <1>7, <1>8, <1>9 DEF OpenInv, new

\* What is open around the innermost, and with one more inside.
Outer(os) == SubSeq(os, 1, Len(os) - 1)
Inner(os, o) == Append(os, o)

\* What is left when the innermost is taken away.
LEMMA OuterOpen ==
  ASSUME NEW os, OpenSeq(os), os # <<>>, NEW new, new = Outer(os)
  PROVE  /\ OpenSeq(new) /\ DOMAIN new = 1..(Len(os) - 1)
         /\ Len(os) \in DOMAIN os /\ Len(os) \in Nat /\ DOMAIN os = 1..Len(os)
         /\ \A k \in DOMAIN new : k \in DOMAIN os /\ k # Len(os) /\ new[k] = os[k]
         /\ \A k \in DOMAIN os : k # Len(os) => k \in DOMAIN new
<1>1. IsSeq(os) /\ DOMAIN os = 1..Len(os) /\ Len(os) \in Nat /\ Len(os) # 0
  BY SeqFacts DEF OpenSeq
<1> DEFINE n == Len(os) - 1
<1>2. n \in Nat /\ n <= Len(os)
  BY <1>1
<1> DEFINE t == SubSeq(os, 1, n)
<1>3. new = t
  BY DEF Outer
<1> HIDE DEF n
<1>4. /\ IsSeq(t) /\ DOMAIN t = 1..n
      /\ \A k \in 1..n : k \in DOMAIN os /\ t[k] = os[k]
  BY <1>1, <1>2, PrefixFacts
<1> HIDE DEF t
<1>5. OpenSeq(new)
  BY <1>3, <1>4 DEF OpenSeq
<1> QED BY <1>1, <1>3, <1>4, <1>5 DEF n

\* A block statement waits for no block.
LEMMA EndBlockOpen ==
  ASSUME NEW bs, NEW cur, NEW os, OpenInv(bs, cur, os), os # <<>>, os[Len(os)].kind = "block",
         NEW new, new = Outer(os)
  PROVE  OpenInv(bs, cur, new)
<1>1. /\ OpenSeq(os) /\ OpenSeq(new)
      /\ Len(os) \in DOMAIN os
      /\ \A k \in DOMAIN new : k \in DOMAIN os /\ new[k] = os[k]
      /\ \A k \in DOMAIN os : k # Len(os) => k \in DOMAIN new
  BY OuterOpen DEF OpenInv
<1>2. Pending(os[Len(os)]) = {}
  BY <1>1, PendingOf DEF OpenSeq
<1>3. \A b : Awaited(new, b) <=> Awaited(os, b)
  BY <1>1, <1>2 DEF Awaited
<1>4. PendingApart(bs, cur, new)
  BY <1>1 DEF OpenInv, PendingApart
<1> QED BY <1>1, <1>3, <1>4 DEF OpenInv, ClosedOK

\* One more is open.
LEMMA AppendOpen ==
  ASSUME NEW os, OpenSeq(os), NEW o, o \in IfType \/ o = [kind |-> "block"],
         NEW new, new = Inner(os, o)
  PROVE  /\ OpenSeq(new) /\ new # <<>> /\ Len(new) \in DOMAIN new /\ new[Len(new)] = o
         /\ Len(new) \notin DOMAIN os
         /\ \A k \in DOMAIN os : k \in DOMAIN new /\ new[k] = os[k]
         /\ \A k \in DOMAIN new : k = Len(new) \/ k \in DOMAIN os
<1>1. IsSeq(os) /\ DOMAIN os = 1..Len(os) /\ Len(os) \in Nat
  BY SeqFacts DEF OpenSeq
<1>2. /\ IsSeq(new) /\ DOMAIN new = 1..(Len(os) + 1) /\ Len(new) = Len(os) + 1
      /\ new[Len(os) + 1] = o
      /\ \A k \in DOMAIN os : new[k] = os[k]
  BY <1>1, AppendFacts DEF Inner
<1>3. new # <<>>
  BY <1>1, <1>2, SeqFacts
<1>4. OpenSeq(new)
  BY <1>1, <1>2 DEF OpenSeq
<1> QED BY <1>1, <1>2, <1>3, <1>4

\* A block statement opened waits for no block either.
LEMMA BlockOpen ==
  ASSUME NEW bs, NEW cur, NEW os, OpenInv(bs, cur, os), NEW new, new = Inner(os, [kind |-> "block"])
  PROVE  OpenInv(bs, cur, new) /\ new # <<>> /\ new[Len(new)].kind = "block"
<1>1. /\ OpenSeq(new) /\ new # <<>> /\ Len(new) \in DOMAIN new
      /\ new[Len(new)] = [kind |-> "block"]
      /\ \A k \in DOMAIN os : k \in DOMAIN new /\ new[k] = os[k]
      /\ \A k \in DOMAIN new : k = Len(new) \/ k \in DOMAIN os
  BY AppendOpen DEF OpenInv
<1>2. Pending(new[Len(new)]) = {} /\ new[Len(new)].kind = "block"
  BY <1>1, PendingOf
<1>3. \A b : Awaited(new, b) <=> Awaited(os, b)
  BY <1>1, <1>2 DEF Awaited
<1>4. PendingApart(bs, cur, new)
  BY <1>1, <1>2 DEF OpenInv, PendingApart
<1> QED BY <1>1, <1>2, <1>3, <1>4 DEF OpenInv, ClosedOK

\* A block that gets a branch or a jump at its end may be left.
LEMMA JumpCloses ==
  ASSUME NEW bs, NEW new, NEW c, NEW i, Grown(bs, new, c, i), BlocksSeq(new),
         i.op \in {"Branch", "Jump"}, \A x \in DOMAIN i.targets : i.targets[x] + 1 \in DOMAIN bs
  PROVE  EndsInJump(new, c)
<1>1. /\ DOMAIN new = DOMAIN bs /\ c \in DOMAIN new
      /\ Len(new[c]) = Len(bs[c]) + 1 /\ new[c][Len(bs[c]) + 1] = i /\ Len(bs[c]) \in Nat
  BY DEF Grown
<1>2. IsSeq(new[c])
  BY <1>1 DEF BlocksSeq
<1>3. new[c] # <<>>
  BY <1>1, <1>2, SeqFacts
<1> QED BY <1>1, <1>3 DEF EndsInJump

\* The alternative of the innermost if is the block to fill once the first is
\* left, and only its continuation is pending then.
LEMMA ElseOpen ==
  ASSUME NEW bs, NEW new, NEW cur, NEW i, NEW os, NEW os2,
         cur \in Nat, BlocksSeq(bs), BlocksSeq(new), Grown(bs, new, cur + 1, i), OpenInv(bs, cur, os),
         os # <<>>, os[Len(os)].kind = "if", os[Len(os)].part = "then",
         i.op = "Jump", i.targets = <<os[Len(os)].mergeBlock>>,
         OpenSeq(os2), DOMAIN os2 = DOMAIN os,
         \A k \in DOMAIN os : k # Len(os) => os2[k] = os[k],
         os2[Len(os)].part = "else", os2[Len(os)].kind = "if",
         os2[Len(os)].mergeBlock = os[Len(os)].mergeBlock
  PROVE  /\ OpenInv(new, os[Len(os)].elseBlock, os2)
         /\ os[Len(os)].elseBlock \in Nat /\ os[Len(os)].elseBlock + 1 \in DOMAIN new
         /\ Len(os) \in DOMAIN os
<1> DEFINE L == Len(os)
           mb == os[L].mergeBlock
           eb == os[L].elseBlock
<1>1. L \in DOMAIN os
  BY OuterOpen DEF OpenInv
<1>2. /\ os[L] \in IfType /\ os2[L] \in IfType
  BY <1>1, PendingOf DEF OpenInv, OpenSeq
<1>3. /\ mb \in Nat /\ eb \in Nat /\ Pending(os[L]) = {mb, eb} /\ Pending(os2[L]) = {mb}
  BY <1>2, PendingOf
<1> HIDE DEF L
<1>4. /\ \A k \in DOMAIN os : k # L => os2[k] = os[k]
      /\ DOMAIN os2 = DOMAIN os /\ L \in DOMAIN os2 /\ os2[L].part = "else"
  BY <1>1 DEF L
<1> HIDE DEF mb, eb
<1>5. /\ \A k \in DOMAIN os : \A b \in Pending(os[k]) : b + 1 \in DOMAIN bs /\ b # cur
      /\ \A j, k \in DOMAIN os : j # k => Pending(os[j]) \cap Pending(os[k]) = {}
      /\ \A k \in DOMAIN os :
           (os[k].kind = "if" /\ os[k].part = "then") => os[k].elseBlock # os[k].mergeBlock
      /\ mb # eb
  BY <1>1 DEF OpenInv, PendingApart, mb, eb, L
<1>6. DOMAIN new = DOMAIN bs /\ \A d \in DOMAIN bs : d # cur + 1 => new[d] = bs[d]
  BY DEF Grown
<1>7. EndsInJump(new, cur + 1)
  <2>1. mb + 1 \in DOMAIN bs
    BY <1>1, <1>3, <1>5
  <2>2. i.targets = <<mb>> /\ i.op \in {"Branch", "Jump"}
    BY DEF mb, L
  <2>3. \A x \in DOMAIN i.targets : i.targets[x] + 1 \in DOMAIN bs
    BY <2>1, <2>2
  <2> QED BY <2>2, <2>3, JumpCloses
<1>8. \A k \in DOMAIN os : Pending(os2[k]) = Pending(os[k]) \/ (k = L /\ Pending(os2[k]) = {mb})
  BY <1>3, <1>4
<1>9. PendingApart(new, eb, os2)
  <2>1. \A k \in DOMAIN os : \A b \in Pending(os2[k]) : b + 1 \in DOMAIN bs /\ b # eb
    <3>1. ASSUME NEW k \in DOMAIN os, NEW b \in Pending(os2[k]) PROVE b + 1 \in DOMAIN bs /\ b # eb
      <4>1. CASE k = L
        BY <1>1, <1>3, <1>5, <4>1
      <4>2. CASE k # L
        <5>1. b \in Pending(os[k])
          BY <1>4, <4>2
        <5> QED BY <1>1, <1>3, <1>5, <4>2, <5>1
      <4> QED BY <4>1, <4>2
    <3> QED BY <3>1
  <2>2. \A k \in DOMAIN os : Pending(os2[k]) \subseteq Pending(os[k])
    BY <1>3, <1>8
  <2>3. \A j, k \in DOMAIN os : j # k => Pending(os2[j]) \cap Pending(os2[k]) = {}
    BY <1>5, <2>2
  <2>4. \A k \in DOMAIN os2 :
          (os2[k].kind = "if" /\ os2[k].part = "then") => os2[k].elseBlock # os2[k].mergeBlock
    BY <1>4, <1>5
  <2> QED BY <1>4, <1>6, <2>1, <2>3, <2>4 DEF PendingApart
<1>10. \A b : Awaited(os, b) <=> Awaited(os2, b) \/ b = eb
  <2>1. \A b : Awaited(os2, b) \/ b = eb => Awaited(os, b)
    BY <1>1, <1>3, <1>4, <1>8 DEF Awaited
  <2>2. \A b : Awaited(os, b) => Awaited(os2, b) \/ b = eb
    BY <1>3, <1>4 DEF Awaited
  <2> QED BY <2>1, <2>2
<1>11. \A d \in DOMAIN bs : d \in Nat
  BY SeqFacts DEF BlocksSeq
<1>12. ClosedOK(new, eb, os2)
  <2>1. ASSUME NEW d \in DOMAIN bs, d - 1 # eb
        PROVE  IF Awaited(os2, d - 1) THEN new[d] = <<>> ELSE EndsInJump(new, d)
    <3>1. CASE d = cur + 1
      <4>1. d - 1 = cur
        BY <3>1
      <4>2. ~Awaited(os2, d - 1)
        BY <1>5, <1>10, <4>1 DEF Awaited
      <4> QED BY <1>7, <3>1, <4>2
    <3>2. CASE d # cur + 1
      <4>1. d - 1 # cur /\ new[d] = bs[d]
        BY <1>6, <1>11, <3>2
      <4>2. IF Awaited(os, d - 1) THEN bs[d] = <<>> ELSE EndsInJump(bs, d)
        BY <4>1 DEF OpenInv, ClosedOK
      <4>3. Awaited(os, d - 1) <=> Awaited(os2, d - 1)
        BY <1>10, <2>1
      <4>4. EndsInJump(bs, d) => EndsInJump(new, d)
        BY <1>6, <4>1 DEF EndsInJump
      <4> QED BY <4>1, <4>2, <4>3, <4>4
    <3> QED BY <3>1, <3>2
  <2> QED BY <1>6, <2>1 DEF ClosedOK
<1>13. eb + 1 \in DOMAIN new
  BY <1>1, <1>3, <1>5, <1>6
<1> QED BY <1>1, <1>3, <1>9, <1>12, <1>13 DEF OpenInv, L, eb

\* The continuation of the innermost if is the block to fill once its last
\* alternative is left, and nothing of it is pending then.
LEMMA EndIfOpen ==
  ASSUME NEW bs, NEW new, NEW cur, NEW i, NEW os, NEW os2,
         cur \in Nat, BlocksSeq(bs), BlocksSeq(new), Grown(bs, new, cur + 1, i), OpenInv(bs, cur, os),
         os # <<>>, os[Len(os)].kind = "if", os[Len(os)].part = "else",
         i.op = "Jump", i.targets = <<os[Len(os)].mergeBlock>>,
         OpenSeq(os2), DOMAIN os2 = 1..(Len(os) - 1),
         \A k \in DOMAIN os2 : os2[k] = os[k]
  PROVE  /\ OpenInv(new, os[Len(os)].mergeBlock, os2)
         /\ os[Len(os)].mergeBlock \in Nat /\ os[Len(os)].mergeBlock + 1 \in DOMAIN new
<1> DEFINE L == Len(os)
           mb == os[L].mergeBlock
<1>1. /\ L \in DOMAIN os /\ L \in Nat /\ DOMAIN os = 1..L
  BY OuterOpen DEF OpenInv
<1>2. os[L] \in IfType
  BY <1>1, PendingOf DEF OpenInv, OpenSeq
<1>3. mb \in Nat /\ Pending(os[L]) = {mb}
  BY <1>2, PendingOf
<1> HIDE DEF L
<1>4. /\ \A k \in DOMAIN os2 : k \in DOMAIN os /\ k # L /\ os2[k] = os[k]
      /\ \A k \in DOMAIN os : k # L => k \in DOMAIN os2
  BY <1>1 DEF L
<1> HIDE DEF mb
<1>5. /\ \A k \in DOMAIN os : \A b \in Pending(os[k]) : b + 1 \in DOMAIN bs /\ b # cur
      /\ \A j, k \in DOMAIN os : j # k => Pending(os[j]) \cap Pending(os[k]) = {}
      /\ \A k \in DOMAIN os :
           (os[k].kind = "if" /\ os[k].part = "then") => os[k].elseBlock # os[k].mergeBlock
  BY DEF OpenInv, PendingApart
<1>6. DOMAIN new = DOMAIN bs /\ \A d \in DOMAIN bs : d # cur + 1 => new[d] = bs[d]
  BY DEF Grown
<1>7. EndsInJump(new, cur + 1)
  <2>1. mb + 1 \in DOMAIN bs
    BY <1>1, <1>3, <1>5
  <2>2. i.targets = <<mb>> /\ i.op \in {"Branch", "Jump"}
    BY DEF mb, L
  <2>3. \A x \in DOMAIN i.targets : i.targets[x] + 1 \in DOMAIN bs
    BY <2>1, <2>2
  <2> QED BY <2>2, <2>3, JumpCloses
<1>8. PendingApart(new, mb, os2)
  <2>1. ASSUME NEW k \in DOMAIN os2, NEW b \in Pending(os2[k]) PROVE b + 1 \in DOMAIN bs /\ b # mb
    <3>1. k \in DOMAIN os /\ k # L /\ b \in Pending(os[k])
      BY <1>4
    <3> QED BY <1>1, <1>3, <1>5, <3>1
  <2>2. \A j, k \in DOMAIN os2 : j # k => Pending(os2[j]) \cap Pending(os2[k]) = {}
    BY <1>4, <1>5
  <2>3. \A k \in DOMAIN os2 :
          (os2[k].kind = "if" /\ os2[k].part = "then") => os2[k].elseBlock # os2[k].mergeBlock
    BY <1>4, <1>5
  <2> QED BY <1>6, <2>1, <2>2, <2>3 DEF PendingApart
<1>9. \A b : Awaited(os, b) <=> Awaited(os2, b) \/ b = mb
  <2>1. \A b : Awaited(os2, b) \/ b = mb => Awaited(os, b)
    BY <1>1, <1>3, <1>4 DEF Awaited
  <2>2. \A b : Awaited(os, b) => Awaited(os2, b) \/ b = mb
    BY <1>3, <1>4 DEF Awaited
  <2> QED BY <2>1, <2>2
<1>10. \A d \in DOMAIN bs : d \in Nat
  BY SeqFacts DEF BlocksSeq
<1>11. ClosedOK(new, mb, os2)
  <2>1. ASSUME NEW d \in DOMAIN bs, d - 1 # mb
        PROVE  IF Awaited(os2, d - 1) THEN new[d] = <<>> ELSE EndsInJump(new, d)
    <3>1. CASE d = cur + 1
      <4>1. d - 1 = cur
        BY <3>1
      <4>2. ~Awaited(os2, d - 1)
        BY <1>5, <1>9, <4>1 DEF Awaited
      <4> QED BY <1>7, <3>1, <4>2
    <3>2. CASE d # cur + 1
      <4>1. d - 1 # cur /\ new[d] = bs[d]
        BY <1>6, <1>10, <3>2
      <4>2. IF Awaited(os, d - 1) THEN bs[d] = <<>> ELSE EndsInJump(bs, d)
        BY <4>1 DEF OpenInv, ClosedOK
      <4>3. Awaited(os, d - 1) <=> Awaited(os2, d - 1)
        BY <1>9, <2>1
      <4>4. EndsInJump(bs, d) => EndsInJump(new, d)
        BY <1>6, <4>1 DEF EndsInJump
      <4> QED BY <4>1, <4>2, <4>3, <4>4
    <3> QED BY <3>1, <3>2
  <2> QED BY <1>6, <2>1 DEF ClosedOK
<1>12. mb + 1 \in DOMAIN new
  BY <1>1, <1>3, <1>5, <1>6
<1> QED BY <1>3, <1>8, <1>11, <1>12 DEF OpenInv, L, mb

\* The three blocks of an if, empty at first.
WithThree(bs) == bs \o <<<<>>, <<>>, <<>>>>

\* An if creates three blocks, and those before them stay as they were.
LEMMA ThreeMore ==
  ASSUME NEW bs, BlocksSeq(bs), NEW more, more = WithThree(bs)
  PROVE  /\ BlocksSeq(more) /\ Len(more) = Len(bs) + 3 /\ DOMAIN more = 1..(Len(bs) + 3)
         /\ DOMAIN bs = 1..Len(bs) /\ Len(bs) \in Nat
         /\ \A d \in DOMAIN bs : d \in DOMAIN more /\ more[d] = bs[d]
         /\ \A d \in DOMAIN more : d \notin DOMAIN bs => more[d] = <<>>
<1> DEFINE three == <<<<>>, <<>>, <<>>>>
<1>1. IsSeq(bs) /\ DOMAIN bs = 1..Len(bs) /\ Len(bs) \in Nat
  BY SeqFacts DEF BlocksSeq
<1>2. /\ three \in Seq({<<>>}) /\ DOMAIN three = 1..3 /\ Len(three) = 3
      /\ \A k \in 1..3 : three[k] = <<>>
  OBVIOUS
<1>3. IsSeq(three) /\ IsSeq(<<>>)
  BY <1>2, SeqIsSeq, EmptySeq
<1> HIDE DEF three
<1>4. /\ IsSeq(bs \o three)
      /\ DOMAIN (bs \o three) = 1..(Len(bs) + Len(three)) /\ Len(bs \o three) = Len(bs) + Len(three)
  BY <1>1, <1>3, ConcatFacts
<1>5. \A k \in DOMAIN bs : (bs \o three)[k] = bs[k]
  BY <1>1, <1>3, ConcatFacts
<1>6. \A k \in DOMAIN three : (bs \o three)[Len(bs) + k] = three[k]
  BY <1>1, <1>3, ConcatBehind
<1>7. more = bs \o three
  BY DEF WithThree, three
<1>8. IsSeq(more) /\ DOMAIN more = 1..(Len(bs) + 3) /\ Len(more) = Len(bs) + 3
  BY <1>2, <1>4, <1>7
<1>9. \A d \in DOMAIN bs : d \in DOMAIN more /\ more[d] = bs[d]
  BY <1>1, <1>5, <1>7, <1>8
<1>10. ASSUME NEW d \in DOMAIN more, d \notin DOMAIN bs PROVE more[d] = <<>>
  <2> DEFINE k == d - Len(bs)
  <2>1. k \in 1..3 /\ Len(bs) + k = d
    BY <1>1, <1>8, <1>10
  <2> HIDE DEF k
  <2> QED BY <1>2, <1>6, <1>7, <2>1
<1>11. \A d \in DOMAIN more : IsSeq(more[d])
  BY <1>3, <1>9, <1>10 DEF BlocksSeq
<1> QED BY <1>1, <1>8, <1>9, <1>10, <1>11 DEF BlocksSeq

\* The branch of an if whose blocks are n and the two after it, and the if.
Forks(i, n) == i.op = "Branch" /\ i.targets = <<n, n + 1>>
NewIf(o, n) == o \in IfType /\ o.part = "then" /\ o.elseBlock = n + 1 /\ o.mergeBlock = n + 2

\* The test of an if: its block ends in the branch, the first alternative is
\* the block to fill, the second and the continuation are pending.
LEMMA IfKeeps ==
  ASSUME NEW bs, NEW cur, NEW n, NEW os, NEW i, NEW new,
         BlocksInv(bs, cur, n), OpenInv(bs, cur, os), TakesHeld(bs, cur + 1, i),
         Forks(i, Len(bs)), new = Emitted(WithThree(bs), cur, i),
         NEW o, NewIf(o, Len(bs)),
         NEW os2, os2 = Inner(os, o)
  PROVE  /\ BlocksInv(new, Len(bs), n) /\ OpenInv(new, Len(bs), os2)
         /\ os2[Len(os2)] = o
<1> DEFINE more == WithThree(bs)
           N == Len(bs)
           c == cur + 1
<1>1. /\ BlocksSeq(bs) /\ cur \in Nat /\ c \in DOMAIN bs /\ n \in Nat /\ ValuesOK(bs, n)
  BY DEF BlocksInv
<1>2. /\ BlocksSeq(more) /\ Len(more) = N + 3 /\ DOMAIN more = 1..(N + 3)
      /\ DOMAIN bs = 1..N /\ N \in Nat
      /\ \A d \in DOMAIN bs : d \in DOMAIN more /\ more[d] = bs[d]
      /\ \A d \in DOMAIN more : d \notin DOMAIN bs => more[d] = <<>>
  BY <1>1, ThreeMore
<1> HIDE DEF more, N
<1>3. DOMAIN (<<>>) = {}
  OBVIOUS
<1>4. ValuesOK(more, n)
  <2>1. \A d \in DOMAIN more : \A k \in DOMAIN more[d] : d \in DOMAIN bs /\ more[d] = bs[d]
    BY <1>2, <1>3
  <2>2. \A d \in DOMAIN bs : \A k, v : DefinedBefore(bs, d, k, v) => DefinedBefore(more, d, k, v)
    BY <1>2 DEF DefinedBefore
  <2>3. \A d \in DOMAIN more : \A k \in DOMAIN more[d] : \A x \in DOMAIN more[d][k].values :
          DefinedBefore(more, d, k, more[d][k].values[x])
    BY <1>1, <2>1, <2>2 DEF ValuesOK
  <2>4. \A d \in DOMAIN more : \A k \in DOMAIN more[d] :
          Defines(more[d][k]) => more[d][k].result \in Nat /\ more[d][k].result < n
    BY <1>1, <2>1 DEF ValuesOK
  <2>5. \A d1, d2 \in DOMAIN more : \A k \in DOMAIN more[d1], l \in DOMAIN more[d2] :
          (Defines(more[d1][k]) /\ Defines(more[d2][l]) /\ more[d1][k].result = more[d2][l].result)
            => d1 = d2 /\ k = l
    BY <1>1, <2>1 DEF ValuesOK
  <2> QED BY <2>3, <2>4, <2>5 DEF ValuesOK
<1>5. TakesHeld(more, c, i)
  BY <1>1, <1>2 DEF TakesHeld, Holds
<1>6. ~Defines(i)
  BY DEF Defines, Forks
<1>7. BlocksSeq(new) /\ Len(new) = Len(more) /\ Grown(more, new, c, i)
  <2>1. cur + 1 \in DOMAIN more /\ new = Emitted(more, cur, i)
    BY <1>1, <1>2 DEF more
  <2> QED BY <1>1, <1>2, <2>1, EmitGrows
<1> HIDE DEF c
<1>8. ValuesOK(new, n)
  BY <1>1, <1>4, <1>5, <1>6, <1>7, EmitValues
<1>9. DOMAIN new = DOMAIN more /\ \A d \in DOMAIN more : d # c => new[d] = more[d]
  BY <1>7 DEF Grown
<1>10. Len(new) # 1 /\ N + 1 \in DOMAIN new
  BY <1>2, <1>7, <1>9
<1>11. BlocksInv(new, N, n)
  BY <1>1, <1>2, <1>7, <1>8, <1>10 DEF BlocksInv, PositionsOK
<1>12. /\ o \in IfType /\ o.kind = "if" /\ Pending(o) = {N + 1, N + 2}
       /\ o.elseBlock = N + 1 /\ o.mergeBlock = N + 2
  BY PendingOf DEF N, NewIf
<1>13. /\ OpenSeq(os2) /\ Len(os2) \in DOMAIN os2 /\ os2[Len(os2)] = o
       /\ Len(os2) \notin DOMAIN os
       /\ \A k \in DOMAIN os : k \in DOMAIN os2 /\ os2[k] = os[k]
       /\ \A k \in DOMAIN os2 : k = Len(os2) \/ k \in DOMAIN os
  <2>1. OpenSeq(os)
    BY DEF OpenInv
  <2>2. o \in IfType
    BY DEF NewIf
  <2> QED BY <2>1, <2>2, AppendOpen
<1> DEFINE L == Len(os2)
<1> HIDE DEF L
<1>14. /\ L \in DOMAIN os2 /\ os2[L] = o /\ L \notin DOMAIN os
       /\ \A k \in DOMAIN os2 : k = L \/ (k \in DOMAIN os /\ os2[k] = os[k])
  BY <1>13 DEF L
<1>15. /\ \A k \in DOMAIN os : \A b \in Pending(os[k]) : b + 1 \in DOMAIN bs /\ b # cur
       /\ \A j, k \in DOMAIN os : j # k => Pending(os[j]) \cap Pending(os[k]) = {}
       /\ \A k \in DOMAIN os :
            (os[k].kind = "if" /\ os[k].part = "then") => os[k].elseBlock # os[k].mergeBlock
  BY DEF OpenInv, PendingApart
<1>16. \A k \in DOMAIN os : \A b \in Pending(os[k]) : b + 1 \in 1..N
  BY <1>2, <1>15
<1>17. ASSUME NEW k \in DOMAIN os, NEW b \in Pending(os[k]) PROVE b # N /\ b # N + 1 /\ b # N + 2
  <2>1. \A k2 \in DOMAIN os : os[k2] \in IfType \/ os[k2] = [kind |-> "block"]
    BY DEF OpenInv, OpenSeq
  <2>2. b \in Nat
    BY <2>1, PendingOf
  <2>3. b + 1 \in 1..N
    BY <1>16
  <2> QED BY <1>2, <2>2, <2>3
<1>18. PendingApart(new, N, os2)
  <2>1. ASSUME NEW k \in DOMAIN os2, NEW b \in Pending(os2[k]) PROVE b + 1 \in DOMAIN new /\ b # N
    <3>1. CASE k = L
      <4>1. b = N + 1 \/ b = N + 2
        BY <1>12, <1>14, <3>1
      <4> QED BY <1>2, <1>9, <4>1
    <3>2. CASE k \in DOMAIN os /\ os2[k] = os[k]
      <4>1. b + 1 \in DOMAIN bs
        BY <1>15, <3>2
      <4> QED BY <1>2, <1>9, <1>17, <3>2, <4>1
    <3> QED BY <1>14, <3>1, <3>2
  <2>2. ASSUME NEW j \in DOMAIN os2, NEW k \in DOMAIN os2, j # k
        PROVE  Pending(os2[j]) \cap Pending(os2[k]) = {}
    <3>1. CASE j = L
      <4>1. k \in DOMAIN os /\ os2[k] = os[k]
        BY <1>14, <2>2, <3>1
      <4> QED BY <1>12, <1>14, <1>17, <3>1, <4>1
    <3>2. CASE k = L
      <4>1. j \in DOMAIN os /\ os2[j] = os[j]
        BY <1>14, <2>2, <3>2
      <4> QED BY <1>12, <1>14, <1>17, <3>2, <4>1
    <3>3. CASE j # L /\ k # L
      BY <1>14, <1>15, <2>2, <3>3
    <3> QED BY <3>1, <3>2, <3>3
  <2>3. o.elseBlock # o.mergeBlock
    BY <1>2, <1>12
  <2>4. \A k \in DOMAIN os2 :
          (os2[k].kind = "if" /\ os2[k].part = "then") => os2[k].elseBlock # os2[k].mergeBlock
    BY <2>3, <1>14, <1>15
  <2> QED BY <2>1, <2>2, <2>4 DEF PendingApart
<1>19. \A b : Awaited(os2, b) <=> Awaited(os, b) \/ b = N + 1 \/ b = N + 2
  <2>1. ASSUME NEW b, Awaited(os2, b) PROVE Awaited(os, b) \/ b = N + 1 \/ b = N + 2
    <3>1. PICK k \in DOMAIN os2 : b \in Pending(os2[k])
      BY <2>1 DEF Awaited
    <3>2. CASE k = L
      BY <1>12, <1>14, <3>1, <3>2
    <3>3. CASE k \in DOMAIN os /\ os2[k] = os[k]
      BY <3>1, <3>3 DEF Awaited
    <3> QED BY <1>14, <3>2, <3>3
  <2>2. \A b : Awaited(os, b) => Awaited(os2, b)
    BY <1>13 DEF Awaited
  <2>3. Awaited(os2, N + 1) /\ Awaited(os2, N + 2)
    BY <1>12, <1>14 DEF Awaited
  <2> QED BY <2>1, <2>2, <2>3
<1>20. EndsInJump(new, c)
  <2>1. \A x \in DOMAIN i.targets : i.targets[x] + 1 \in DOMAIN more
    BY <1>2 DEF N, Forks
  <2> QED BY <1>7, <2>1, JumpCloses DEF Forks
<1>21. ClosedOK(new, N, os2)
  <2>1. ASSUME NEW d \in DOMAIN new, d - 1 # N
        PROVE  IF Awaited(os2, d - 1) THEN new[d] = <<>> ELSE EndsInJump(new, d)
    <3>1. d \in 1..(N + 3)
      BY <1>2, <1>9
    <3>2. CASE d \notin DOMAIN bs
      <4>1. d - 1 = N + 1 \/ d - 1 = N + 2
        BY <1>2, <2>1, <3>1, <3>2
      <4>2. Awaited(os2, d - 1)
        BY <1>19, <4>1
      <4>3. d # c
        BY <1>1, <3>2 DEF c
      <4> QED BY <1>2, <1>9, <3>2, <4>2, <4>3
    <3>3. CASE d = c
      <4>1. d - 1 = cur
        BY <1>1, <3>3 DEF c
      <4>2. ~Awaited(os, d - 1)
        BY <1>15, <4>1 DEF Awaited
      <4>3. d - 1 # N + 1 /\ d - 1 # N + 2
        BY <1>1, <1>2, <3>3
      <4>4. ~Awaited(os2, d - 1)
        BY <1>19, <4>2, <4>3
      <4> QED BY <1>20, <3>3, <4>4
    <3>4. CASE d \in DOMAIN bs /\ d # c
      <4>1. d - 1 # cur /\ d - 1 # N + 1 /\ d - 1 # N + 2
        BY <1>1, <1>2, <3>4 DEF c
      <4>2. IF Awaited(os, d - 1) THEN bs[d] = <<>> ELSE EndsInJump(bs, d)
        BY <3>4, <4>1 DEF OpenInv, ClosedOK
      <4>3. Awaited(os, d - 1) <=> Awaited(os2, d - 1)
        BY <1>19, <4>1
      <4>4. new[d] = bs[d]
        BY <1>2, <1>9, <3>4
      <4>5. EndsInJump(bs, d) => EndsInJump(new, d)
        BY <1>2, <1>9, <4>4 DEF EndsInJump
      <4> QED BY <4>2, <4>3, <4>4, <4>5
    <3> QED BY <3>2, <3>3, <3>4
  <2> QED BY <2>1 DEF ClosedOK
<1>22. OpenInv(new, N, os2)
  BY <1>13, <1>18, <1>21 DEF OpenInv
<1> QED BY <1>11, <1>13, <1>22 DEF N
-----------------------------------------------------------------------------
(***************************************************************************)
(* Part 3: the steps of the lowerer.                                       *)
(***************************************************************************)

\* The stack before a step and what operands are taken from it.
LEMMA OperandsHeld ==
  ASSUME LowerInv, NEW n \in Nat, Len(stack) >= n
  PROVE  /\ DOMAIN Values(n) = 1..n
         /\ \A k \in 1..n : Holds(blocks, current + 1, Values(n)[k])
         /\ StackInv(blocks, current, Below(n))
<1>1. /\ IsSeq(stack) /\ DOMAIN stack = 1..Len(stack) /\ Len(stack) \in Nat
      /\ \A k \in DOMAIN stack :
           Holds(blocks, current + 1, stack[k].value) /\ "value" \in DOMAIN stack[k]
  BY SeqFacts DEF LowerInv, StackInv
<1>2. \A k \in 1..n : Len(stack) - n + k \in DOMAIN stack
  BY <1>1
<1>3. DOMAIN Values(n) = 1..n /\ \A k \in 1..n : Values(n)[k] = stack[Len(stack) - n + k].value
  BY DEF Values
<1> DEFINE m == Len(stack) - n
           t == SubSeq(stack, 1, m)
<1>4. m \in Nat /\ m <= Len(stack)
  BY <1>1
<1> HIDE DEF m
<1>5. IsSeq(t) /\ DOMAIN t = 1..m /\ \A k \in 1..m : k \in DOMAIN stack /\ t[k] = stack[k]
  BY <1>1, <1>4, PrefixFacts
<1> HIDE DEF t
<1>6. StackInv(blocks, current, t)
  BY <1>1, <1>5 DEF StackInv
<1> QED BY <1>1, <1>2, <1>3, <1>6 DEF t, m, Below

\* A value put on the stack.
LEMMA PushHeld ==
  ASSUME NEW bs, NEW cur, NEW st, StackInv(bs, cur, st),
         NEW v, Holds(bs, cur + 1, v.value), "value" \in DOMAIN v
  PROVE  StackInv(bs, cur, Append(st, v))
<1> DEFINE t == Append(st, v)
<1>1. IsSeq(st) /\ DOMAIN st = 1..Len(st) /\ Len(st) \in Nat
  BY SeqFacts DEF StackInv
<1>2. /\ IsSeq(t) /\ DOMAIN t = 1..(Len(st) + 1) /\ t[Len(st) + 1] = v
      /\ \A k \in DOMAIN st : t[k] = st[k]
  BY <1>1, AppendFacts
<1> HIDE DEF t
<1>3. StackInv(bs, cur, t)
  BY <1>1, <1>2 DEF StackInv
<1> QED BY <1>3 DEF t

\* An empty stack holds nothing, in whatever block.
LEMMA EmptyHeld == \A bs, cur : StackInv(bs, cur, <<>>)
<1>1. IsSeq(<<>>) /\ DOMAIN (<<>>) = {}
  BY EmptySeq DEF IsSeq
<1> QED BY <1>1 DEF StackInv

\* Nothing is left over while a statement may go on, and nothing after one.
LEMMA NothingOver ==
  /\ Open => \A st : NothingLeftOver(open, st)
  /\ \A os : NothingLeftOver(os, <<>>)
BY DEF Open, InIf, NothingLeftOver

\* An expression takes values defined in its block and leaves a new one there.
LEMMA ProduceKeeps ==
  ASSUME LowerInv, NEW i, NEW n \in Nat, NEW isKnown, Produce(i, n, isKnown),
         TakesHeld(blocks, current + 1, i), Defines(i), i.result = nextValue
  PROVE  LowerInv'
<1> DEFINE v == [value |-> nextValue, known |-> isKnown,
                 bound |-> IF i.op = "LoadLocal" THEN i.visible ELSE i.op = "Call" \/ AllBound(n)]
<1>1. /\ Len(stack) >= n /\ Open /\ blocks' = Emitted(blocks, current, i)
      /\ nextValue' = nextValue + 1 /\ stack' = Append(Below(n), v)
      /\ current' = current /\ open' = open
  BY DEF Produce
<1>2. v.value = nextValue /\ "value" \in DOMAIN v
  OBVIOUS
<1> HIDE DEF v
<1>3. StackInv(blocks, current, Below(n))
  BY <1>1, OperandsHeld
<1>4. /\ BlocksInv(blocks', current, nextValue + 1) /\ StackInv(blocks', current, Below(n))
      /\ OpenInv(blocks', current, open) /\ Holds(blocks', current + 1, nextValue)
  <2> DEFINE m == nextValue + 1
  <2>1. (Defines(i) => m = nextValue + 1) /\ (~Defines(i) => m = nextValue)
    OBVIOUS
  <2>2. BlocksInv(blocks, current, nextValue) /\ OpenInv(blocks, current, open)
    BY DEF LowerInv
  <2> HIDE DEF m
  <2>3. /\ BlocksInv(blocks', current, m) /\ StackInv(blocks', current, Below(n))
        /\ OpenInv(blocks', current, open) /\ Holds(blocks', current + 1, nextValue)
    BY <1>1, <1>3, <2>1, <2>2, EmitKeeps
  <2> QED BY <2>3 DEF m
<1>5. StackInv(blocks', current, Append(Below(n), v))
  BY <1>2, <1>4, PushHeld
<1>6. NothingLeftOver(open, stack')
  BY <1>1, NothingOver
<1> QED BY <1>1, <1>4, <1>5, <1>6 DEF LowerInv

\* The instructions of expressions define the next value.
LEMMA Expressions ==
  ASSUME LowerInv
  PROVE  /\ \A name : Identifier(name) => LowerInv'
         /\ Literal => LowerInv'
         /\ \A n \in Nat : ObjectLiteral(n) \/ ArrayLiteral(n) \/ CallExpression(n) => LowerInv'
         /\ \A isKnown : Member(isKnown) \/ BinaryExpression(isKnown) => LowerInv'
<1>1. \A i : i.values = <<>> => TakesHeld(blocks, current + 1, i)
  <2>1. DOMAIN (<<>>) = {}
    OBVIOUS
  <2> QED BY <2>1 DEF TakesHeld
<1>2. ASSUME NEW i, NEW n \in Nat, i.values = Values(n), Len(stack) >= n
      PROVE  TakesHeld(blocks, current + 1, i)
  BY <1>2, OperandsHeld DEF TakesHeld
<1>3. ASSUME NEW name, Identifier(name) PROVE LowerInv'
  <2> DEFINE i == Ir("LoadLocal", name, <<>>, <<>>, <<>>, name \in known)
  <2>1. i.values = <<>> /\ Defines(i) /\ i.result = nextValue
    BY DEF Ir, Defines
  <2>2. Produce(i, 0, name \in known)
    BY <1>3 DEF Identifier
  <2> HIDE DEF i
  <2> QED BY <1>1, <2>1, <2>2, ProduceKeeps
<1>4. ASSUME Literal PROVE LowerInv'
  <2> DEFINE i == Define("LoadConst", <<"literal">>, <<>>, TRUE)
  <2>1. i.values = <<>> /\ Defines(i) /\ i.result = nextValue
    BY DEF Define, Ir, Defines
  <2>2. Produce(i, 0, TRUE)
    BY <1>4 DEF Literal
  <2> HIDE DEF i
  <2> QED BY <1>1, <2>1, <2>2, ProduceKeeps
<1>5. ASSUME NEW n \in Nat, NEW op, op \in {"BuildObject", "BuildArray", "LoadMember", "Binary", "Call"},
             NEW consts, NEW typed, NEW isKnown, Produce(Define(op, consts, Values(n), typed), n, isKnown)
      PROVE  LowerInv'
  <2> DEFINE i == Define(op, consts, Values(n), typed)
  <2>1. i.values = Values(n) /\ Defines(i) /\ i.result = nextValue
    BY <1>5 DEF Define, Ir, Defines
  <2>2. Produce(i, n, isKnown) /\ Len(stack) >= n
    BY <1>5 DEF Produce
  <2> HIDE DEF i
  <2> QED BY <1>2, <2>1, <2>2, ProduceKeeps
<1>6. \A n \in Nat : ObjectLiteral(n) \/ ArrayLiteral(n) \/ CallExpression(n) => LowerInv'
  BY <1>5 DEF ObjectLiteral, ArrayLiteral, CallExpression
<1>7. \A isKnown : Member(isKnown) \/ BinaryExpression(isKnown) => LowerInv'
  BY <1>5 DEF Member, BinaryExpression
<1> QED BY <1>3, <1>4, <1>6, <1>7

\* An instruction that defines nothing.
LEMMA EmitPlain ==
  ASSUME LowerInv, NEW i, TakesHeld(blocks, current + 1, i), ~Defines(i),
         NEW new, new = Emitted(blocks, current, i)
  PROVE  /\ BlocksInv(new, current, nextValue) /\ OpenInv(new, current, open)
         /\ \A st : StackInv(blocks, current, st) => StackInv(new, current, st)
<1>1. BlocksInv(blocks, current, nextValue) /\ OpenInv(blocks, current, open)
  BY DEF LowerInv
<1>2. ASSUME NEW st, StackInv(blocks, current, st)
      PROVE  /\ BlocksInv(new, current, nextValue) /\ OpenInv(new, current, open)
             /\ StackInv(new, current, st)
  BY <1>1, <1>2, EmitKeeps
<1> QED BY <1>2, EmptyHeld

\* What is on top of a stack that holds n values at least.
LEMMA TopHeld ==
  ASSUME LowerInv, NEW n \in Nat \ {0}, Len(stack) >= n
  PROVE  Holds(blocks, current + 1, Top.value) /\ "value" \in DOMAIN Top
<1>1. /\ IsSeq(stack) /\ DOMAIN stack = 1..Len(stack) /\ Len(stack) \in Nat
      /\ \A k \in DOMAIN stack :
           Holds(blocks, current + 1, stack[k].value) /\ "value" \in DOMAIN stack[k]
  BY SeqFacts DEF LowerInv, StackInv
<1>2. Len(stack) \in DOMAIN stack
  BY <1>1
<1> QED BY <1>1, <1>2 DEF Top

\* An assignment leaves the value it stored.
LEMMA Assigned ==
  ASSUME LowerInv, NEW i, NEW n \in {1, 2}, Len(stack) >= n, NEW isBound,
         TakesHeld(blocks, current + 1, i), ~Defines(i), Open,
         blocks' = Emitted(blocks, current, i),
         stack' = Append(Below(n), [Top EXCEPT !.bound = isBound]),
         UNCHANGED <<current, nextValue, open>>
  PROVE  LowerInv'
<1> DEFINE v == [Top EXCEPT !.bound = isBound]
<1>1. /\ BlocksInv(blocks', current, nextValue) /\ OpenInv(blocks', current, open)
      /\ \A st : StackInv(blocks, current, st) => StackInv(blocks', current, st)
  BY EmitPlain
<1>2. StackInv(blocks, current, Below(n))
  BY OperandsHeld
<1>3. Holds(blocks, current + 1, Top.value) /\ "value" \in DOMAIN Top
  BY TopHeld
<1>4. v.value = Top.value /\ "value" \in DOMAIN v
  BY <1>3
<1>5. stack' = Append(Below(n), v)
  OBVIOUS
<1> HIDE DEF v
<1>6. StackInv(blocks, current, Append(Below(n), v))
  BY <1>2, <1>3, <1>4, PushHeld
<1> QED BY <1>1, <1>5, <1>6, NothingOver DEF LowerInv

\* Assignments to names and to members.
LEMMA Assignments ==
  ASSUME LowerInv
  PROVE  /\ \A name : AssignIdentifier(name) => LowerInv'
         /\ AssignMember => LowerInv'
<1>1. ASSUME NEW name, AssignIdentifier(name) PROVE LowerInv'
  <2> DEFINE i == Store(name, Top.value)
             isBound == Top.bound /\ name \in Visible
  <2>1. i.values = <<Top.value>> /\ ~Defines(i)
    BY DEF Store, Ir, Defines
  <2>2. /\ stack # <<>> /\ Open /\ blocks' = Emitted(blocks, current, i)
        /\ stack' = Append(Below(1), [Top EXCEPT !.bound = isBound])
        /\ UNCHANGED <<current, nextValue, open>>
    BY <1>1 DEF AssignIdentifier
  <2>3. Len(stack) \in Nat /\ Len(stack) >= 1
    BY <2>2, SeqFacts DEF LowerInv, StackInv
  <2>4. Holds(blocks, current + 1, Top.value)
    BY <2>3, TopHeld
  <2>5. TakesHeld(blocks, current + 1, i)
    BY <2>1, <2>4 DEF TakesHeld
  <2> HIDE DEF i, isBound
  <2> QED BY <2>1, <2>2, <2>3, <2>5, Assigned
<1>2. ASSUME AssignMember PROVE LowerInv'
  <2> DEFINE i == Define("StoreMember", <<"property">>, Values(2), TRUE)
             isBound == AllBound(2)
  <2>1. i.values = Values(2) /\ ~Defines(i)
    BY DEF Define, Ir, Defines
  <2>2. /\ Len(stack) >= 2 /\ Open /\ blocks' = Emitted(blocks, current, i)
        /\ stack' = Append(Below(2), [Top EXCEPT !.bound = isBound])
        /\ UNCHANGED <<current, nextValue, open>>
    BY <1>2 DEF AssignMember
  <2>3. TakesHeld(blocks, current + 1, i)
    BY <2>1, <2>2, OperandsHeld DEF TakesHeld
  <2> HIDE DEF i, isBound
  <2> QED BY <2>1, <2>2, <2>3, Assigned
<1> QED BY <1>1, <1>2

\* No operands.
LEMMA NoneHeld == \A bs, c, i : i.values = <<>> => TakesHeld(bs, c, i)
<1>1. DOMAIN (<<>>) = {}
  OBVIOUS
<1> QED BY <1>1 DEF TakesHeld

\* Operands given one by one.
LEMMA PairHeld ==
  ASSUME NEW bs, NEW c, NEW i, NEW v, NEW w, Holds(bs, c, v), Holds(bs, c, w),
         i.values = <<v>> \/ i.values = <<v, w>>
  PROVE  TakesHeld(bs, c, i)
BY DEF TakesHeld

\* Reading a member, combining and writing it back defines two values.
LEMMA CompoundAssignment ==
  ASSUME LowerInv, CompoundAssignMember
  PROVE  LowerInv'
<1> DEFINE object == Values(2)[1]
           top == Top.value
           read == Define("LoadMember", <<"property">>, <<object>>, Top.known)
           combine == [Define("Binary", <<>>, <<nextValue, top>>, Top.known)
                         EXCEPT !.result = nextValue + 1]
           write == Define("StoreMember", <<"property">>, <<object, nextValue + 1>>, TRUE)
           step1 == Emitted(blocks, current, read)
           step2 == Emitted(step1, current, combine)
           step3 == Emitted(step2, current, write)
           v == [value |-> nextValue + 1, known |-> Top.known, bound |-> AllBound(2)]
           n1 == nextValue + 1
           n2 == nextValue + 2
           c == current + 1
           below == Below(2)
<1>1. /\ Open /\ Len(stack) >= 2 /\ blocks' = step3 /\ nextValue' = n2
      /\ stack' = Append(below, v) /\ current' = current /\ open' = open
  BY DEF CompoundAssignMember
<1>2. /\ read.values = <<object>> /\ Defines(read) /\ read.result = nextValue
      /\ combine.values = <<nextValue, top>> /\ Defines(combine) /\ combine.result = n1
      /\ write.values = <<object, n1>> /\ ~Defines(write)
  BY DEF Define, Ir, Defines
<1>3. v.value = n1 /\ "value" \in DOMAIN v
  OBVIOUS
<1>4. /\ BlocksInv(blocks, current, nextValue) /\ OpenInv(blocks, current, open)
      /\ StackInv(blocks, current, below)
      /\ Holds(blocks, c, object) /\ Holds(blocks, c, top)
  <2>1. StackInv(blocks, current, Below(2)) /\ \A k \in 1..2 : Holds(blocks, current + 1, Values(2)[k])
    BY <1>1, OperandsHeld
  <2>2. Holds(blocks, current + 1, Top.value)
    BY <1>1, TopHeld
  <2> QED BY <2>1, <2>2 DEF LowerInv
<1>5. nextValue \in Nat
  BY <1>4 DEF BlocksInv
<1>6. n1 = nextValue + 1 /\ n2 = n1 + 1
  BY <1>5
<1> HIDE DEF read, combine, write, v, object, top, n1, n2, below
<1>7. TakesHeld(blocks, c, read)
  BY <1>2, <1>4, PairHeld
<1> DEFINE s1 == step1
<1>8. /\ BlocksInv(s1, current, n1) /\ OpenInv(s1, current, open) /\ StackInv(s1, current, below)
      /\ Holds(s1, c, nextValue)
      /\ \A x : Holds(blocks, c, x) => Holds(s1, c, x)
  BY <1>2, <1>4, <1>6, <1>7, EmitKeeps
<1> HIDE DEF s1, step1
<1>9. Holds(s1, c, object) /\ Holds(s1, c, top)
  BY <1>4, <1>8
<1>10. TakesHeld(s1, c, combine)
  BY <1>2, <1>8, <1>9, PairHeld
<1> DEFINE s2 == Emitted(s1, current, combine)
<1>11. /\ BlocksInv(s2, current, n2) /\ OpenInv(s2, current, open) /\ StackInv(s2, current, below)
       /\ Holds(s2, c, n1)
       /\ \A x : Holds(s1, c, x) => Holds(s2, c, x)
  BY <1>2, <1>6, <1>8, <1>10, EmitKeeps
<1>12. step2 = s2
  BY DEF s1
<1> HIDE DEF s2, step2
<1>13. TakesHeld(s2, c, write)
  BY <1>2, <1>9, <1>11, PairHeld
<1> DEFINE s3 == Emitted(s2, current, write)
<1>14. /\ BlocksInv(s3, current, n2) /\ OpenInv(s3, current, open) /\ StackInv(s3, current, below)
       /\ \A x : Holds(s2, c, x) => Holds(s3, c, x)
  BY <1>2, <1>11, <1>13, EmitKeeps
<1>15. blocks' = s3
  BY <1>1, <1>12
<1> HIDE DEF s3
<1>16. StackInv(s3, current, Append(below, v))
  BY <1>3, <1>11, <1>14, PushHeld
<1> QED BY <1>1, <1>14, <1>15, <1>16, NothingOver DEF LowerInv

\* A statement done leaves no value and completes what it is the body of.
LEMMA StatementDone ==
  ASSUME BlocksInv(blocks', current, nextValue'), OpenInv(blocks', current, open),
         current' = current, stack' = <<>>, open' = Completed(open)
  PROVE  LowerInv'
<1>1. OpenInv(blocks', current, Completed(open))
  BY CompletedOpen
<1> QED BY <1>1, EmptyHeld, NothingOver DEF LowerInv

\* Statements that stay in their block.
LEMMA PlainStatements ==
  ASSUME LowerInv
  PROVE  /\ \A name, declared : Variable(name, declared) => LowerInv'
         /\ ExpressionStatement => LowerInv'
         /\ ReturnStatement => LowerInv'
         /\ Skipped => LowerInv'
<1>1. ASSUME NEW name, NEW declared, Variable(name, declared) PROVE LowerInv'
  <2> DEFINE i == Store(name, Top.value)
  <2>1. /\ Len(stack) = 1 /\ blocks' = Emitted(blocks, current, i)
        /\ stack' = <<>> /\ open' = Completed(open) /\ UNCHANGED <<current, nextValue>>
    BY <1>1 DEF Variable
  <2>2. i.values = <<Top.value>> /\ ~Defines(i)
    BY DEF Store, Ir, Defines
  <2>3. Holds(blocks, current + 1, Top.value)
    <3>1. 1 \in Nat \ {0} /\ Len(stack) >= 1
      BY <2>1
    <3> QED BY <3>1, TopHeld
  <2>4. TakesHeld(blocks, current + 1, i)
    BY <2>2, <2>3, PairHeld
  <2> HIDE DEF i
  <2>5. BlocksInv(blocks', current, nextValue) /\ OpenInv(blocks', current, open)
    BY <2>1, <2>2, <2>4, EmitPlain
  <2> QED BY <2>1, <2>5, StatementDone
<1>2. ASSUME ExpressionStatement PROVE LowerInv'
  <2>1. UNCHANGED <<blocks, current, nextValue>> /\ stack' = <<>> /\ open' = Completed(open)
    BY <1>2 DEF ExpressionStatement, code
  <2> QED BY <2>1, StatementDone DEF LowerInv
<1>3. ASSUME ReturnStatement PROVE LowerInv'
  <2> DEFINE i == Ir("Return", NoLocal, <<>>, Values(Len(stack)), <<>>, TRUE)
  <2>1. /\ blocks' = Emitted(blocks, current, i)
        /\ stack' = <<>> /\ open' = Completed(open) /\ UNCHANGED <<current, nextValue>>
    BY <1>3 DEF ReturnStatement
  <2>2. i.values = Values(Len(stack)) /\ ~Defines(i)
    BY DEF Ir, Defines
  <2>3. Len(stack) \in Nat /\ Len(stack) >= Len(stack)
    BY SeqFacts DEF LowerInv, StackInv
  <2>4. TakesHeld(blocks, current + 1, i)
    BY <2>2, <2>3, OperandsHeld DEF TakesHeld
  <2> HIDE DEF i
  <2>5. BlocksInv(blocks', current, nextValue) /\ OpenInv(blocks', current, open)
    BY <2>1, <2>2, <2>4, EmitPlain
  <2> QED BY <2>1, <2>5, StatementDone
<1>4. ASSUME Skipped PROVE LowerInv'
  <2>1. UNCHANGED <<blocks, current, nextValue>> /\ stack' = <<>> /\ open' = Completed(open)
    BY <1>4 DEF Skipped, code
  <2> QED BY <2>1, StatementDone DEF LowerInv
<1> QED BY <1>1, <1>2, <1>3, <1>4

\* A declaration without an initializer loads undefined and stores it.
LEMMA UndefinedDeclared ==
  ASSUME LowerInv, NEW name, VariableUndefined(name)
  PROVE  LowerInv'
<1> DEFINE load == Define("LoadConst", <<"undefined">>, <<>>, TRUE)
           store == Store(name, nextValue)
           s1 == Emitted(blocks, current, load)
           s2 == Emitted(s1, current, store)
           n1 == nextValue + 1
           none == <<>>
<1>1. /\ blocks' = s2 /\ nextValue' = n1 /\ stack' = <<>> /\ open' = Completed(open)
      /\ current' = current
  BY DEF VariableUndefined
<1>2. Defines(load) /\ load.result = nextValue /\ load.values = <<>>
  BY DEF Define, Ir, Defines
<1>9. store.values = <<nextValue>> /\ ~Defines(store)
  BY DEF Store, Ir, Defines
<1>10. Defines(load) /\ load.result = nextValue
  BY <1>2
<1>3. BlocksInv(blocks, current, nextValue) /\ OpenInv(blocks, current, open)
      /\ StackInv(blocks, current, none)
  BY EmptyHeld DEF LowerInv
<1>4. TakesHeld(blocks, current + 1, load)
  BY <1>2, NoneHeld
<1>5. n1 = nextValue + 1
  OBVIOUS
<1>11. s1 = Emitted(blocks, current, load)
  OBVIOUS
<1> HIDE DEF load, store, n1, none, s1
<1>6. /\ BlocksInv(s1, current, n1) /\ OpenInv(s1, current, open) /\ StackInv(s1, current, none)
      /\ Holds(s1, current + 1, nextValue)
  <2>1. nextValue \in Nat /\ current \in Nat
    BY <1>3 DEF BlocksInv
  <2>2. (Defines(load) => n1 = nextValue + 1) /\ (~Defines(load) => n1 = nextValue)
    BY <1>5, <1>10
  <2> QED BY <1>3, <1>4, <1>10, <1>11, <2>1, <2>2, EmitKeeps
<1>7. TakesHeld(s1, current + 1, store)
  BY <1>9, <1>6, PairHeld
<1>8. BlocksInv(s2, current, n1) /\ OpenInv(s2, current, open)
  BY <1>9, <1>6, <1>7, EmitKeeps
<1> HIDE DEF s2
<1> QED BY <1>1, <1>8, StatementDone

\* Blocks of the source open and close no block of the function.
LEMMA BlockStatements ==
  ASSUME LowerInv
  PROVE  /\ Block => LowerInv'
         /\ EndBlock => LowerInv'
         /\ Finish => LowerInv'
<1>1. ASSUME Block PROVE LowerInv'
  <2>1. /\ UNCHANGED <<blocks, current, nextValue, stack>>
        /\ open' = Inner(open, [kind |-> "block"])
    BY <1>1 DEF Block, code, Inner
  <2>2. OpenInv(blocks, current, open') /\ open'[Len(open')].kind = "block"
    BY <2>1, BlockOpen DEF LowerInv
  <2> QED BY <2>1, <2>2 DEF LowerInv, NothingLeftOver
<1>2. ASSUME EndBlock PROVE LowerInv'
  <2> DEFINE os == Outer(open)
  <2>1. /\ UNCHANGED <<blocks, current, nextValue, stack>> /\ stack = <<>>
        /\ open # <<>> /\ open[Len(open)].kind = "block"
        /\ open' = Completed(os)
    BY <1>2 DEF EndBlock, code, Outer
  <2>2. OpenInv(blocks, current, os)
    BY <2>1, EndBlockOpen DEF LowerInv
  <2> HIDE DEF os
  <2>3. OpenInv(blocks, current, Completed(os))
    BY <2>2, CompletedOpen
  <2> QED BY <2>1, <2>3, NothingOver DEF LowerInv
<1>3. ASSUME Finish PROVE LowerInv'
  <2> DEFINE i == Ir("Return", NoLocal, <<>>, <<>>, <<>>, TRUE)
  <2>1. /\ blocks' = Emitted(blocks, current, i) \/ blocks' = blocks
        /\ UNCHANGED <<current, nextValue, stack, open>>
    BY <1>3 DEF Finish
  <2>2. i.values = <<>> /\ ~Defines(i)
    BY DEF Ir, Defines
  <2>3. TakesHeld(blocks, current + 1, i)
    BY <2>2, NoneHeld
  <2> HIDE DEF i
  <2>4. CASE blocks' = Emitted(blocks, current, i)
    <3>1. /\ BlocksInv(blocks', current, nextValue) /\ OpenInv(blocks', current, open)
          /\ \A st : StackInv(blocks, current, st) => StackInv(blocks', current, st)
      BY <2>2, <2>3, <2>4, EmitPlain
    <3> QED BY <2>1, <3>1 DEF LowerInv
  <2>5. CASE blocks' = blocks
    BY <2>1, <2>5 DEF LowerInv
  <2> QED BY <2>1, <2>4, <2>5
<1> QED BY <1>1, <1>2, <1>3

\* A jump takes no values and goes where it says.
LEMMA Jumps ==
  \A b : /\ ~Defines(JumpTo(b)) /\ JumpTo(b).values = <<>>
         /\ JumpTo(b).op = "Jump" /\ JumpTo(b).targets = <<b>>
BY DEF JumpTo, Ir, Defines

\* The innermost if on its second alternative.
IntoElse(os, d) == [os EXCEPT ![Len(os)] = [@ EXCEPT !.part = "else", !.done = d]]

\* What turning to the else alternative changes in what is open.
LEMMA InElse ==
  ASSUME NEW os, OpenSeq(os), os # <<>>, os[Len(os)].kind = "if", NEW d \in BOOLEAN, NEW os2,
         os2 = IntoElse(os, d)
  PROVE  /\ OpenSeq(os2) /\ DOMAIN os2 = DOMAIN os /\ Len(os2) = Len(os)
         /\ \A k \in DOMAIN os : k # Len(os) => os2[k] = os[k]
         /\ os2[Len(os)].part = "else" /\ os2[Len(os)].kind = "if"
         /\ os2[Len(os)].mergeBlock = os[Len(os)].mergeBlock
         /\ os2[Len(os)].done = d
<1> DEFINE L == Len(os)
           o == [os[L] EXCEPT !.part = "else", !.done = d]
           W == IfType \union {[kind |-> "block"]}
<1>1. /\ IsSeq(os) /\ DOMAIN os = 1..L /\ L \in Nat /\ L # 0
      /\ \A k \in DOMAIN os : os[k] \in IfType \/ os[k] = [kind |-> "block"]
  BY SeqFacts DEF OpenSeq
<1>2. os[L] \in IfType
  BY <1>1, PendingOf
<1>3. /\ o \in IfType /\ o.part = "else" /\ o.kind = "if" /\ o.mergeBlock = os[L].mergeBlock
      /\ o.done = d
  BY <1>2 DEF IfType
<1>4. os2 = [os EXCEPT ![L] = o]
  BY DEF IntoElse
<1> HIDE DEF o, L
<1>5. /\ DOMAIN os2 = DOMAIN os /\ os2[L] = o
      /\ \A k \in DOMAIN os : k # L => os2[k] = os[k]
  <2>1. L \in DOMAIN os
    BY <1>1
  <2> QED BY <2>1, <1>4
<1>6. os2 \in [1..L -> W]
  BY <1>1, <1>3, <1>4
<1> HIDE DEF W
<1>7. os2 \in Seq(W) /\ Len(os2) = L
  BY <1>1, <1>6, FunctionIsSeq
<1>8. OpenSeq(os2)
  BY <1>1, <1>3, <1>5, <1>7, SeqIsSeq DEF OpenSeq
<1> QED BY <1>3, <1>5, <1>7, <1>8 DEF L

\* The jump at the end of the first alternative, and on into the second.
LEMMA ElseMoves ==
  ASSUME NEW bs, NEW cur, NEW n, NEW os, NEW os2, NEW new,
         BlocksInv(bs, cur, n), OpenInv(bs, cur, os),
         os # <<>>, os[Len(os)].kind = "if", os[Len(os)].part = "then",
         NEW d \in BOOLEAN,
         os2 = IntoElse(os, d),
         new = Emitted(bs, cur, JumpTo(os[Len(os)].mergeBlock))
  PROVE  BlocksInv(new, os[Len(os)].elseBlock, n) /\ OpenInv(new, os[Len(os)].elseBlock, os2)
<1> DEFINE i == JumpTo(os[Len(os)].mergeBlock)
           eb == os[Len(os)].elseBlock
<1>1. /\ ~Defines(i) /\ i.values = <<>> /\ i.op = "Jump" /\ i.targets = <<os[Len(os)].mergeBlock>>
  BY Jumps
<1> HIDE DEF i
<1>2. TakesHeld(bs, cur + 1, i)
  BY <1>1, NoneHeld
<1>3. /\ BlocksSeq(bs) /\ cur \in Nat /\ cur + 1 \in DOMAIN bs /\ n \in Nat
  BY DEF BlocksInv
<1>4. new = Emitted(bs, cur, i)
  BY DEF i
<1>5. BlocksSeq(new) /\ Grown(bs, new, cur + 1, i)
  BY <1>3, <1>4, EmitGrows
<1>6. BlocksInv(new, cur, n)
  <2>1. StackInv(bs, cur, <<>>)
    BY EmptyHeld
  <2> QED BY <1>1, <1>2, <1>4, <2>1, EmitKeeps
<1>7. /\ OpenSeq(os2) /\ DOMAIN os2 = DOMAIN os
      /\ \A k \in DOMAIN os : k # Len(os) => os2[k] = os[k]
      /\ os2[Len(os)].part = "else" /\ os2[Len(os)].kind = "if"
      /\ os2[Len(os)].mergeBlock = os[Len(os)].mergeBlock
  BY InElse DEF OpenInv
<1>8. OpenInv(new, eb, os2) /\ eb \in Nat /\ eb + 1 \in DOMAIN new
  BY <1>1, <1>3, <1>5, <1>7, ElseOpen
<1>9. BlocksInv(new, eb, n)
  BY <1>6, <1>8 DEF BlocksInv
<1> QED BY <1>8, <1>9

\* The jump at the end of the last alternative, and on into the continuation.
LEMMA EndIfMoves ==
  ASSUME NEW bs, NEW cur, NEW n, NEW os, NEW os2, NEW new,
         BlocksInv(bs, cur, n), OpenInv(bs, cur, os),
         os # <<>>, os[Len(os)].kind = "if", os[Len(os)].part = "else",
         OpenSeq(os2), DOMAIN os2 = 1..(Len(os) - 1), \A k \in DOMAIN os2 : os2[k] = os[k],
         new = Emitted(bs, cur, JumpTo(os[Len(os)].mergeBlock))
  PROVE  /\ BlocksInv(new, os[Len(os)].mergeBlock, n)
         /\ OpenInv(new, os[Len(os)].mergeBlock, Completed(os2))
<1> DEFINE i == JumpTo(os[Len(os)].mergeBlock)
           mb == os[Len(os)].mergeBlock
<1>1. /\ ~Defines(i) /\ i.values = <<>> /\ i.op = "Jump" /\ i.targets = <<os[Len(os)].mergeBlock>>
  BY Jumps
<1> HIDE DEF i
<1>2. TakesHeld(bs, cur + 1, i)
  BY <1>1, NoneHeld
<1>3. /\ BlocksSeq(bs) /\ cur \in Nat /\ cur + 1 \in DOMAIN bs /\ n \in Nat
  BY DEF BlocksInv
<1>4. new = Emitted(bs, cur, i)
  BY DEF i
<1>5. BlocksSeq(new) /\ Grown(bs, new, cur + 1, i)
  BY <1>3, <1>4, EmitGrows
<1>6. BlocksInv(new, cur, n)
  <2>1. StackInv(bs, cur, <<>>)
    BY EmptyHeld
  <2> QED BY <1>1, <1>2, <1>4, <2>1, EmitKeeps
<1>7. OpenInv(new, mb, os2) /\ mb \in Nat /\ mb + 1 \in DOMAIN new
  BY <1>1, <1>3, <1>5, EndIfOpen
<1>8. BlocksInv(new, mb, n)
  BY <1>6, <1>7 DEF BlocksInv
<1>9. OpenInv(new, mb, Completed(os2))
  BY <1>7, CompletedOpen
<1> QED BY <1>8, <1>9

\* The steps of an if.
LEMMA IfStatements ==
  ASSUME LowerInv
  PROVE  /\ If => LowerInv'
         /\ Else => LowerInv'
         /\ EndIf => LowerInv'
         /\ EndIfWithoutElse => LowerInv'
<1>1. BlocksInv(blocks, current, nextValue) /\ OpenInv(blocks, current, open) /\ OpenSeq(open)
  BY DEF LowerInv, OpenInv
<1>2. ASSUME If PROVE LowerInv'
  <2> DEFINE N == Len(blocks)
             i == Ir("Branch", NoLocal, <<>>, <<Top.value>>, <<N, N + 1>>, TRUE)
             o == [kind |-> "if", part |-> "then", done |-> FALSE,
                   elseBlock |-> N + 1, mergeBlock |-> N + 2]
  <2>1. /\ Len(stack) = 1 /\ blocks' = Emitted(WithThree(blocks), current, i)
        /\ current' = N /\ stack' = <<>> /\ open' = Inner(open, o) /\ nextValue' = nextValue
    BY <1>2 DEF If, WithThree, Inner
  <2>2. /\ i.values = <<Top.value>> /\ i.op = "Branch" /\ i.targets = <<N, N + 1>>
    BY DEF Ir
  <2>3. N \in Nat
    BY <1>1, SeqFacts DEF BlocksInv, BlocksSeq
  <2>4. o \in IfType /\ o.part = "then" /\ o.elseBlock = N + 1 /\ o.mergeBlock = N + 2
    BY <2>3 DEF IfType
  <2>5. Holds(blocks, current + 1, Top.value)
    <3>1. 1 \in Nat \ {0} /\ Len(stack) >= 1
      BY <2>1
    <3> QED BY <3>1, TopHeld
  <2>6. TakesHeld(blocks, current + 1, i)
    BY <2>2, <2>5, PairHeld
  <2> HIDE DEF i, o
  <2> DEFINE bs == Emitted(WithThree(blocks), current, i)
             os == Inner(open, o)
  <2>7. BlocksInv(bs, N, nextValue) /\ OpenInv(bs, N, os)
    <3>1. Forks(i, Len(blocks)) /\ NewIf(o, Len(blocks))
      BY <2>2, <2>4 DEF Forks, NewIf
    <3> HIDE DEF bs, os
    <3>2. bs = Emitted(WithThree(blocks), current, i) /\ os = Inner(open, o)
      BY DEF bs, os
    <3> QED BY <1>1, <2>6, <3>1, <3>2, IfKeeps
  <2> QED BY <2>1, <2>7, EmptyHeld, NothingOver DEF LowerInv
<1>3. ASSUME open # <<>>, open[Len(open)].kind = "if", open[Len(open)].done
      PROVE  stack = <<>>
  BY <1>3 DEF LowerInv, NothingLeftOver
<1>4. ASSUME Else PROVE LowerInv'
  <2> DEFINE this == open[Len(open)]
             eb == this.elseBlock
  <2>1. /\ open # <<>> /\ this.kind = "if" /\ this.part = "then" /\ this.done
        /\ blocks' = Emitted(blocks, current, JumpTo(this.mergeBlock))
        /\ current' = eb /\ open' = IntoElse(open, FALSE)
        /\ UNCHANGED <<nextValue, stack>>
    BY <1>4 DEF Else, BodyDone, InIf, IntoElse
  <2>2. FALSE \in BOOLEAN
    OBVIOUS
  <2>3. BlocksInv(blocks', eb, nextValue) /\ OpenInv(blocks', eb, open')
    BY <1>1, <2>1, <2>2, ElseMoves
  <2>4. stack' = <<>>
    BY <1>3, <2>1
  <2> QED BY <2>1, <2>3, <2>4, EmptyHeld, NothingOver DEF LowerInv
<1>5. ASSUME EndIf PROVE LowerInv'
  <2> DEFINE this == open[Len(open)]
             mb == this.mergeBlock
             os == Outer(open)
  <2>1. /\ open # <<>> /\ this.kind = "if" /\ this.part = "else" /\ this.done
        /\ blocks' = Emitted(blocks, current, JumpTo(mb))
        /\ current' = mb /\ open' = Completed(os)
        /\ UNCHANGED <<nextValue, stack>>
    BY <1>5 DEF EndIf, BodyDone, InIf, Outer
  <2>2. /\ OpenSeq(os) /\ DOMAIN os = 1..(Len(open) - 1)
        /\ \A k \in DOMAIN os : os[k] = open[k]
    BY <1>1, <2>1, OuterOpen
  <2> HIDE DEF os
  <2>3. BlocksInv(blocks', mb, nextValue) /\ OpenInv(blocks', mb, Completed(os))
    BY <1>1, <2>1, <2>2, EndIfMoves
  <2>4. stack' = <<>>
    BY <1>3, <2>1
  <2> QED BY <2>1, <2>3, <2>4, EmptyHeld, NothingOver DEF LowerInv
<1>6. ASSUME EndIfWithoutElse PROVE LowerInv'
  <2> DEFINE this == open[Len(open)]
             mb == this.mergeBlock
             eb == this.elseBlock
             os == Outer(open)
             os1 == IntoElse(open, FALSE)
             s1 == Emitted(blocks, current, JumpTo(mb))
             s2 == Emitted(s1, eb, JumpTo(mb))
  <2>1. /\ open # <<>> /\ this.kind = "if" /\ this.part = "then" /\ this.done
        /\ blocks' = s2
        /\ current' = mb /\ open' = Completed(os)
        /\ UNCHANGED <<nextValue, stack>>
    BY <1>6 DEF EndIfWithoutElse, BodyDone, InIf, Outer
  <2>2. /\ OpenSeq(os) /\ DOMAIN os = 1..(Len(open) - 1) /\ Len(open) \in Nat
        /\ DOMAIN open = 1..Len(open)
        /\ \A k \in DOMAIN os : k \in DOMAIN open /\ k # Len(open) /\ os[k] = open[k]
    BY <1>1, <2>1, OuterOpen
  <2> FALSE \in BOOLEAN
    OBVIOUS
  <2>3. /\ OpenSeq(os1) /\ Len(os1) = Len(open)
        /\ \A k \in DOMAIN open : k # Len(open) => os1[k] = open[k]
        /\ os1[Len(open)].part = "else" /\ os1[Len(open)].kind = "if"
        /\ os1[Len(open)].mergeBlock = mb
    BY <1>1, <2>1, InElse
  <2>4. BlocksInv(s1, eb, nextValue) /\ OpenInv(s1, eb, os1)
    BY <1>1, <2>1, ElseMoves
  <2>5. os1 # <<>>
    BY <1>1, <2>1, <2>3, SeqFacts DEF OpenSeq
  <2> HIDE DEF os, os1, s1
  <2>6. /\ os1[Len(os1)].kind = "if" /\ os1[Len(os1)].part = "else"
        /\ os1[Len(os1)].mergeBlock = mb /\ DOMAIN os = 1..(Len(os1) - 1)
        /\ \A k \in DOMAIN os : os[k] = os1[k]
    BY <2>2, <2>3
  <2>7. blocks' = Emitted(s1, eb, JumpTo(os1[Len(os1)].mergeBlock))
    BY <2>1, <2>6
  <2>8. /\ BlocksInv(blocks', os1[Len(os1)].mergeBlock, nextValue)
        /\ OpenInv(blocks', os1[Len(os1)].mergeBlock, Completed(os))
    BY <2>2, <2>4, <2>5, <2>6, <2>7, EndIfMoves
  <2>9. stack' = <<>>
    BY <1>3, <2>1
  <2> QED BY <2>1, <2>6, <2>8, <2>9, EmptyHeld, NothingOver DEF LowerInv
<1> QED BY <1>2, <1>4, <1>5, <1>6

\* A function starts with one empty block.
LEMMA LowerInit == Init => LowerInv
<1> SUFFICES ASSUME Init PROVE LowerInv
  OBVIOUS
<1> DEFINE none == <<>>
           one == <<none>>
<1>1. blocks = one /\ current = 0 /\ nextValue = 0 /\ stack = none /\ open = none
  BY DEF Init
<1>2. /\ one \in Seq({none}) /\ DOMAIN one = 1..1 /\ Len(one) = 1 /\ one[1] = none
  OBVIOUS
<1>3. IsSeq(none) /\ DOMAIN none = {} /\ Len(none) = 0
  BY EmptySeq DEF IsSeq
<1>4. none = <<>>
  OBVIOUS
<1> HIDE DEF none, one
<1>5. IsSeq(one)
  BY <1>2, SeqIsSeq
<1>6. BlocksSeq(one) /\ 0 + 1 \in DOMAIN one
  BY <1>2, <1>3, <1>5 DEF BlocksSeq
<1>7. \A d \in DOMAIN one : DOMAIN one[d] = {}
  BY <1>2, <1>3
<1>8. ValuesOK(one, 0)
  BY <1>7 DEF ValuesOK
<1>9. DefinedCount(none, Len(none) + 1) = 0
  <2>1. {j \in 1..(0 + 1 - 1) : Defines(none[j])} = {}
    OBVIOUS
  <2> QED BY <1>3, <2>1, FS_EmptySet DEF DefinedCount
<1>10. PositionsOK(one, 0)
  BY <1>2, <1>3, <1>9 DEF PositionsOK
<1>11. BlocksInv(blocks, current, nextValue)
  BY <1>1, <1>6, <1>8, <1>10 DEF BlocksInv
<1>12. StackInv(blocks, current, stack) /\ NothingLeftOver(open, stack)
  BY <1>1, <1>4, EmptyHeld, NothingOver
<1>13. OpenInv(blocks, current, open)
  <2>1. OpenSeq(none) /\ PendingApart(one, 0, none)
    BY <1>3 DEF OpenSeq, PendingApart
  <2>2. ClosedOK(one, 0, none)
    BY <1>2 DEF ClosedOK
  <2> QED BY <1>1, <2>1, <2>2 DEF OpenInv
<1> QED BY <1>11, <1>12, <1>13 DEF LowerInv

\* Every step keeps the invariant.
LEMMA LowerNext == LowerInv /\ [Next]_vars => LowerInv'
<1> SUFFICES ASSUME LowerInv, [Next]_vars PROVE LowerInv'
  OBVIOUS
<1>1. 0..MaxArity \subseteq Nat
  BY LoweringAssumption
<1>2. CASE Expression
  BY <1>1, <1>2, Expressions, Assignments, CompoundAssignment DEF Expression
<1>3. CASE Statement
  BY <1>3, PlainStatements, UndefinedDeclared, BlockStatements, IfStatements DEF Statement
<1>4. CASE UNCHANGED vars
  BY <1>4 DEF vars, code, LowerInv
<1> QED BY <1>2, <1>3, <1>4 DEF Next

\* So the invariant holds in every state.
LEMMA LowerInvariant == Spec => []LowerInv
<1> QED BY LowerInit, LowerNext, PTL DEF Spec
-----------------------------------------------------------------------------
(***************************************************************************)
(* Part 4: what the invariant says of the properties.                      *)
(***************************************************************************)

\* A place is a block and a position in it.
LEMMA PlaceOf ==
  /\ \A p \in Places : /\ p[1] \in DOMAIN blocks /\ p[2] \in DOMAIN blocks[p[1]]
                       /\ p = <<p[1], p[2]>>
  /\ \A c \in DOMAIN blocks : \A k \in DOMAIN blocks[c] : <<c, k>> \in Places
<1>1. ASSUME NEW p \in Places
      PROVE  p[1] \in DOMAIN blocks /\ p[2] \in DOMAIN blocks[p[1]] /\ p = <<p[1], p[2]>>
  <2>1. PICK b \in DOMAIN blocks : p \in {b} \X DOMAIN blocks[b]
    BY DEF Places
  <2> QED BY <2>1
<1>2. ASSUME NEW c \in DOMAIN blocks, NEW k \in DOMAIN blocks[c] PROVE <<c, k>> \in Places
  <2>1. <<c, k>> \in {c} \X DOMAIN blocks[c]
    OBVIOUS
  <2> QED BY <2>1 DEF Places
<1> QED BY <1>1, <1>2

\* The first half of what is known of values is ValuesStayInBlock,
LEMMA InvStay == LowerInv => ValuesStayInBlock
<1> SUFFICES ASSUME LowerInv PROVE ValuesStayInBlock
  OBVIOUS
<1>1. ValuesOK(blocks, nextValue)
  BY DEF LowerInv, BlocksInv
<1>2. ASSUME NEW p \in Places, NEW k \in DOMAIN Instruction(p).values
      PROVE  \E q \in Places : /\ q[1] = p[1] /\ Before(q, p)
                               /\ Defines(Instruction(q))
                               /\ Instruction(q).result = Instruction(p).values[k]
  <2> DEFINE c == p[1]
  <2>1. c \in DOMAIN blocks /\ p[2] \in DOMAIN blocks[c]
    BY PlaceOf
  <2>2. PICK j \in DOMAIN blocks[c] : /\ j < p[2] /\ Defines(blocks[c][j])
                                      /\ blocks[c][j].result = blocks[c][p[2]].values[k]
    BY <1>1, <1>2, <2>1 DEF ValuesOK, DefinedBefore, Instruction
  <2> DEFINE q == <<c, j>>
  <2>3. q \in Places /\ q[1] = c /\ q[2] = j
    BY <2>1, PlaceOf
  <2> HIDE DEF q, c
  <2>4. q[1] = p[1] /\ Before(q, p)
    BY <2>2, <2>3 DEF c, Before
  <2>5. Instruction(q) = blocks[c][j] /\ Instruction(p) = blocks[c][p[2]]
    BY <2>3 DEF Instruction, c
  <2> QED BY <2>2, <2>3, <2>4, <2>5
<1>3. ASSUME NEW p \in Places, NEW q \in Places,
             Defines(Instruction(p)), Defines(Instruction(q)),
             Instruction(p).result = Instruction(q).result
      PROVE  p = q
  <2>1. /\ p[1] \in DOMAIN blocks /\ p[2] \in DOMAIN blocks[p[1]] /\ p = <<p[1], p[2]>>
        /\ q[1] \in DOMAIN blocks /\ q[2] \in DOMAIN blocks[q[1]] /\ q = <<q[1], q[2]>>
    BY PlaceOf
  <2>2. p[1] = q[1] /\ p[2] = q[2]
    BY <1>1, <1>3, <2>1 DEF ValuesOK, Instruction
  <2> QED BY <2>1, <2>2
<1> QED BY <1>2, <1>3 DEF ValuesStayInBlock

\* the second ValuesAreFramePositions,
LEMMA InvPositions == LowerInv => ValuesAreFramePositions
<1> SUFFICES ASSUME LowerInv, Len(blocks) = 1, NEW p \in Places, Defines(Instruction(p))
             PROVE  Instruction(p).result = DefinedCount(blocks[1], p[2])
  BY DEF ValuesAreFramePositions
<1>1. IsSeq(blocks) /\ PositionsOK(blocks, nextValue)
  BY DEF LowerInv, BlocksInv, BlocksSeq
<1>2. p[1] = 1
  <2>1. DOMAIN blocks = 1..1
    BY <1>1, SeqFacts
  <2> QED BY <2>1, PlaceOf
<1>3. p[2] \in DOMAIN blocks[1] /\ Instruction(p) = blocks[1][p[2]]
  BY <1>2, PlaceOf DEF Instruction
<1> QED BY <1>1, <1>3 DEF PositionsOK

\* and what is known of blocks is BlocksAreClosed.
LEMMA InvClosed == LowerInv => BlocksAreClosed
<1> SUFFICES ASSUME LowerInv PROVE BlocksAreClosed
  OBVIOUS
<1>1. OpenSeq(open) /\ ClosedOK(blocks, current, open)
  BY DEF LowerInv, OpenInv
<1>2. \A k \in DOMAIN open : open[k] \in IfType \/ open[k] = [kind |-> "block"]
  BY <1>1 DEF OpenSeq
<1>3. ASSUME NEW b PROVE b \in Waiting <=> b = current \/ Awaited(open, b)
  <2>1. \A k \in DOMAIN open :
          b \in Pending(open[k]) <=> /\ open[k].kind = "if"
                                     /\ \/ b = open[k].mergeBlock
                                        \/ open[k].part = "then" /\ b = open[k].elseBlock
    BY DEF Pending
  <2> QED BY <2>1 DEF Waiting, Awaited
<1>4. ASSUME NEW b \in DOMAIN blocks
      PROVE  IF b - 1 \in Waiting THEN b - 1 # current => blocks[b] = <<>> ELSE EndsInJump(blocks, b)
  BY <1>1, <1>3 DEF ClosedOK
<1> QED BY <1>4 DEF BlocksAreClosed, EndsInJump

\* Values never straddle a branch: every operand is a value its own block
\* defines further up, and every value has one definition (emit of the
\* FunctionLowerer, and lower_if, which starts blocks between expressions only).
THEOREM ValuesStay == Spec => []ValuesStayInBlock
BY LowerInvariant, InvStay, PTL

\* In a function without branches the numbers the lowerer hands out are the
\* places the interpreter's frame has for the values (allocate_value against
\* the pushes of Interpreter::call_function).
THEOREM ValuesInPlace == Spec => []ValuesAreFramePositions
BY LowerInvariant, InvPositions, PTL

\* lower_if leaves no block without a branch or a jump, and never returns to one
\* it has left.
THEOREM BlocksClosed == Spec => []BlocksAreClosed
BY LowerInvariant, InvClosed, PTL
-----------------------------------------------------------------------------
(***************************************************************************)
(* Part 5: a function without branches, as the compiler will find it.      *)
(***************************************************************************)

\* What the constants of an instruction stand for.
ConstNames == {"literal", "undefined", "property", "callee"}

\* An instruction as the lowerer makes it, with the operands of its opcode.
Shaped(i) ==
  /\ i.op \in Opcodes \ {"Branch", "Jump"}
  /\ IsSeq(i.values) /\ i.targets = <<>>
  /\ \A x \in DOMAIN i.consts : i.consts[x] \in ConstNames
  /\ i.op \in {"LoadConst", "LoadMember", "StoreMember", "Call"} => 1 \in DOMAIN i.consts
  /\ i.op = "BuildObject" => DOMAIN i.consts = DOMAIN i.values
  /\ i.op \in {"StoreLocal", "LoadMember"} => Len(i.values) = 1
  /\ i.op \in {"StoreMember", "Binary"} => Len(i.values) = 2
  /\ i.op = "Return" => Len(i.values) <= 1
  /\ i.op \in {"LoadLocal", "StoreLocal"} <=> i.local # NoLocal

\* The name has a local before instruction k: a parameter's or one stored to.
Known(code1, k, pars, x) ==
  \/ \E j \in DOMAIN pars : pars[j] = x
  \/ \E j \in DOMAIN code1 : j < k /\ code1[j].op = "StoreLocal" /\ code1[j].local = x

\* Variables in scope have locals, and those read had them when they were.
Straight(code1, pars, scs) ==
  /\ \A k \in DOMAIN code1 : Shaped(code1[k])
  /\ \A k \in DOMAIN code1 :
       (code1[k].op = "LoadLocal" /\ code1[k].visible /\ code1[k].local \in Variables)
         => Known(code1, k, pars, code1[k].local)
  /\ \A c \in DOMAIN scs : \A x \in scs[c] : Known(code1, Len(code1) + 1, pars, x)

\* A function with branches is left alone: its names may have locals in one block
\* and not in another.
StraightBlocks(bs, pars, scs) == Len(bs) = 1 => Straight(bs[1], pars, scs)

\* The inductive invariant of functions without branches, given LowerInv.
StraightInv ==
  IsSeq(params) /\ IsSeq(scopes) /\ StraightBlocks(blocks, params, scopes)

\* A visible variable is in some scope.
LoadScoped(i, scs) ==
  (i.op = "LoadLocal" /\ i.visible /\ i.local \in Variables)
    => \E c \in DOMAIN scs : i.local \in scs[c]

\* Emitting a shaped instruction that loads what is in scope.
LEMMA EmitStraight ==
  ASSUME NEW bs, NEW cur \in Nat, BlocksSeq(bs), cur + 1 \in DOMAIN bs,
         NEW pars, NEW scs, StraightBlocks(bs, pars, scs),
         NEW i, Shaped(i), LoadScoped(i, scs), NEW new, new = Emitted(bs, cur, i)
  PROVE  /\ BlocksSeq(new) /\ cur + 1 \in DOMAIN new /\ Len(new) = Len(bs)
         /\ StraightBlocks(new, pars, scs)
         /\ (Len(new) = 1 /\ i.op = "StoreLocal")
              => Known(new[1], Len(new[1]) + 1, pars, i.local)
<1> DEFINE c == cur + 1
<1>1. BlocksSeq(new) /\ Len(new) = Len(bs) /\ Grown(bs, new, c, i)
  BY EmitGrows
<1>2. c \in DOMAIN new
  BY <1>1 DEF Grown
<1>3. ASSUME Len(new) = 1
      PROVE  /\ Straight(new[1], pars, scs)
             /\ i.op = "StoreLocal" => Known(new[1], Len(new[1]) + 1, pars, i.local)
  <2>1. c = 1 /\ Len(bs) = 1
    <3>1. Len(bs) = 1 /\ IsSeq(bs)
      BY <1>1, <1>3 DEF BlocksSeq
    <3>2. DOMAIN bs = 1..1
      BY <3>1, SeqFacts
    <3> QED BY <3>1, <3>2
  <2> DEFINE s == bs[1]
             t == new[1]
             e == Len(s) + 1
  <2>2. /\ e \in Nat /\ e \in DOMAIN t /\ t[e] = i /\ Len(t) = e
        /\ \A k \in DOMAIN t : k = e \/ (k \in DOMAIN s /\ t[k] = s[k])
        /\ \A k \in DOMAIN s : k \in Nat /\ k < e /\ k \in DOMAIN t /\ t[k] = s[k]
    BY <1>1, <2>1 DEF Grown
  <2>3. Straight(s, pars, scs)
    BY <2>1 DEF StraightBlocks
  <2>4. /\ \A k \in DOMAIN s : Shaped(s[k])
        /\ \A k \in DOMAIN s :
             (s[k].op = "LoadLocal" /\ s[k].visible /\ s[k].local \in Variables)
               => Known(s, k, pars, s[k].local)
        /\ \A d \in DOMAIN scs : \A x \in scs[d] : Known(s, e, pars, x)
    BY <2>3 DEF Straight
  <2> HIDE DEF s, t, e
  <2>5. \A k, x : Known(s, k, pars, x) => Known(t, k, pars, x)
    BY <2>2 DEF Known
  <2>6. \A x : Known(s, e, pars, x) => Known(t, e + 1, pars, x)
    <3>1. \A k \in DOMAIN s : k < e + 1
      BY <2>2
    <3> QED BY <2>2, <3>1 DEF Known
  <2>7. \A k \in DOMAIN t : Shaped(t[k])
    BY <2>2, <2>4
  <2>8. ASSUME NEW k \in DOMAIN t, t[k].op = "LoadLocal", t[k].visible, t[k].local \in Variables
        PROVE  Known(t, k, pars, t[k].local)
    <3>1. CASE k = e
      <4>1. \E d \in DOMAIN scs : i.local \in scs[d]
        BY <2>2, <2>8, <3>1 DEF LoadScoped
      <4> QED BY <2>2, <2>4, <2>5, <3>1, <4>1
    <3>2. CASE k \in DOMAIN s /\ t[k] = s[k]
      BY <2>4, <2>5, <2>8, <3>2
    <3> QED BY <2>2, <3>1, <3>2
  <2>9. Straight(t, pars, scs)
    BY <2>2, <2>4, <2>6, <2>7, <2>8 DEF Straight
  <2>10. i.op = "StoreLocal" => Known(t, Len(t) + 1, pars, i.local)
    <3>1. e < Len(t) + 1
      BY <2>2
    <3> QED BY <2>2, <3>1 DEF Known
  <2> QED BY <2>9, <2>10 DEF t
<1> QED BY <1>1, <1>2, <1>3 DEF StraightBlocks

\* The innermost scope with one name more.
WithName(scs, name) == [scs EXCEPT ![Len(scs)] = @ \union {name}]

\* A declaration after the store: the name has a local.
LEMMA DeclareStraight ==
  ASSUME NEW bs, NEW pars, NEW scs, NEW scs2, NEW name, StraightBlocks(bs, pars, scs),
         Len(bs) = 1 => Known(bs[1], Len(bs[1]) + 1, pars, name), IsSeq(scs),
         scs2 = WithName(scs, name)
  PROVE  StraightBlocks(bs, pars, scs2) /\ IsSeq(scs2)
<1>1. DOMAIN scs = 1..Len(scs) /\ Len(scs) \in Nat
  BY SeqFacts
<1>2. /\ DOMAIN scs2 = DOMAIN scs
      /\ \A d \in DOMAIN scs : scs2[d] = scs[d] \/ scs2[d] = scs[d] \union {name}
  BY DEF WithName
<1>3. StraightBlocks(bs, pars, scs2)
  <2>1. \A d \in DOMAIN scs2 : \A x \in scs2[d] : x \in scs[d] \/ x = name
    BY <1>2
  <2> QED BY <1>2, <2>1 DEF StraightBlocks, Straight
<1> DEFINE W == {scs2[d] : d \in DOMAIN scs2}
<1>4. scs2 \in [1..Len(scs) -> W]
  BY <1>1 DEF WithName
<1> HIDE DEF W
<1>5. IsSeq(scs2)
  <2>1. scs2 \in Seq(W)
    BY <1>1, <1>4, FunctionIsSeq
  <2> QED BY <2>1, SeqIsSeq
<1> QED BY <1>3, <1>5

\* A scope opened, and a scope closed.
LEMMA ScopesStraight ==
  ASSUME NEW bs, NEW pars, NEW scs, StraightBlocks(bs, pars, scs), IsSeq(scs)
  PROVE  /\ StraightBlocks(bs, pars, Append(scs, {})) /\ IsSeq(Append(scs, {}))
         /\ StraightBlocks(bs, pars, SubSeq(scs, 1, Len(scs) - 1))
         /\ IsSeq(SubSeq(scs, 1, Len(scs) - 1))
<1>1. ASSUME NEW t, IsSeq(t),
             \A d \in DOMAIN t : \A x \in t[d] : \E b \in DOMAIN scs : x \in scs[b]
      PROVE  StraightBlocks(bs, pars, t)
  BY <1>1 DEF StraightBlocks, Straight
<1>2. DOMAIN scs = 1..Len(scs) /\ Len(scs) \in Nat
  BY SeqFacts
<1>3. StraightBlocks(bs, pars, Append(scs, {})) /\ IsSeq(Append(scs, {}))
  <2> DEFINE t == Append(scs, {})
  <2>1. /\ IsSeq(t) /\ DOMAIN t = 1..(Len(scs) + 1) /\ t[Len(scs) + 1] = {}
        /\ \A k \in DOMAIN scs : t[k] = scs[k]
    BY AppendFacts
  <2> HIDE DEF t
  <2>2. \A d \in DOMAIN t : \A x \in t[d] : d \in DOMAIN scs /\ x \in scs[d]
    BY <1>2, <2>1
  <2>3. StraightBlocks(bs, pars, t)
    BY <1>1, <2>1, <2>2
  <2> QED BY <2>1, <2>3 DEF t
<1>4. /\ StraightBlocks(bs, pars, SubSeq(scs, 1, Len(scs) - 1))
      /\ IsSeq(SubSeq(scs, 1, Len(scs) - 1))
  <2> DEFINE m == Len(scs) - 1
             t == SubSeq(scs, 1, m)
  <2>1. CASE Len(scs) = 0
    <3>1. m \in Int /\ m < 1
      BY <2>1
    <3> HIDE DEF m
    <3>2. t = <<>>
      BY <3>1, SubSeqEmpty
    <3>3. IsSeq(<<>>) /\ DOMAIN (<<>>) = {}
      BY EmptySeq DEF IsSeq
    <3> HIDE DEF t
    <3>4. IsSeq(t) /\ DOMAIN t = {}
      BY <3>2, <3>3
    <3>5. StraightBlocks(bs, pars, t)
      BY <1>1, <3>4
    <3> QED BY <3>4, <3>5 DEF t, m
  <2>2. CASE Len(scs) # 0
    <3>1. m \in Nat /\ m <= Len(scs)
      BY <1>2, <2>2
    <3> HIDE DEF m
    <3>2. IsSeq(t) /\ DOMAIN t = 1..m /\ \A k \in 1..m : k \in DOMAIN scs /\ t[k] = scs[k]
      BY <3>1, PrefixFacts
    <3> HIDE DEF t
    <3>3. \A d \in DOMAIN t : \A x \in t[d] : d \in DOMAIN scs /\ x \in scs[d]
      BY <3>2
    <3>4. StraightBlocks(bs, pars, t)
      BY <1>1, <3>2, <3>3
    <3> QED BY <3>2, <3>4 DEF t, m
  <2> QED BY <2>1, <2>2
<1> QED BY <1>3, <1>4

\* Operands taken from the stack are a sequence.
LEMMA ValuesSeq == ASSUME NEW n \in Nat PROVE IsSeq(Values(n)) /\ Len(Values(n)) = n
<1> DEFINE t == Values(n)
           W == {t[k] : k \in DOMAIN t}
<1>1. t \in [1..n -> W]
  BY DEF Values
<1> HIDE DEF t, W
<1>2. t \in Seq(W) /\ Len(t) = n
  BY <1>1, FunctionIsSeq
<1>3. IsSeq(t)
  BY <1>2, SeqIsSeq
<1> QED BY <1>2, <1>3 DEF t

\* The operands of instructions that take one or two given values, or none.
LEMMA FixedSeqs ==
  /\ IsSeq(<<>>) /\ Len(<<>>) = 0 /\ DOMAIN (<<>>) = {}
  /\ \A a : IsSeq(<<a>>) /\ Len(<<a>>) = 1 /\ DOMAIN (<<a>>) = {1} /\ <<a>>[1] = a
  /\ \A a, b : IsSeq(<<a, b>>) /\ Len(<<a, b>>) = 2
<1>1. IsSeq(<<>>)
  BY EmptySeq DEF IsSeq
<1>2. ASSUME NEW a PROVE IsSeq(<<a>>)
  <2>1. <<a>> \in Seq({a})
    OBVIOUS
  <2> QED BY <2>1, SeqIsSeq
<1>3. ASSUME NEW a, NEW b PROVE IsSeq(<<a, b>>)
  <2>1. <<a, b>> \in Seq({a, b})
    OBVIOUS
  <2> QED BY <2>1, SeqIsSeq
<1> QED BY <1>1, <1>2, <1>3

\* Instructions without a local.
LEMMA DefineShaped ==
  ASSUME NEW op, NEW consts, NEW values, NEW typed, IsSeq(values),
         op \in {"LoadConst", "BuildObject", "BuildArray", "LoadMember", "StoreMember", "Binary", "Call"},
         \A x \in DOMAIN consts : consts[x] \in ConstNames,
         op \in {"LoadConst", "LoadMember", "StoreMember", "Call"} => 1 \in DOMAIN consts,
         op = "BuildObject" => DOMAIN consts = DOMAIN values,
         op = "LoadMember" => Len(values) = 1,
         op \in {"StoreMember", "Binary"} => Len(values) = 2
  PROVE  \A i : (/\ i.op = op /\ i.values = values /\ i.consts = consts /\ i.targets = <<>>
                 /\ i.local = NoLocal)
                  => Shaped(i) /\ \A scs : LoadScoped(i, scs)
BY DEF Shaped, LoadScoped, Opcodes

\* Stores, loads and returns.
LEMMA LocalShaped ==
  ASSUME NEW name \in Variables \union Globals
  PROVE  /\ \A v : Shaped(Store(name, v)) /\ \A scs : LoadScoped(Store(name, v), scs)
         /\ \A typed : /\ Shaped(Ir("LoadLocal", name, <<>>, <<>>, <<>>, typed))
                       /\ LoadScoped(Ir("LoadLocal", name, <<>>, <<>>, <<>>, typed), scopes)
<1>1. name # NoLocal
  BY LoweringAssumption
<1>2. ASSUME NEW v PROVE Shaped(Store(name, v)) /\ \A scs : LoadScoped(Store(name, v), scs)
  BY <1>1, FixedSeqs DEF Shaped, LoadScoped, Opcodes, Store, Ir
<1>3. ASSUME NEW typed
      PROVE  /\ Shaped(Ir("LoadLocal", name, <<>>, <<>>, <<>>, typed))
             /\ LoadScoped(Ir("LoadLocal", name, <<>>, <<>>, <<>>, typed), scopes)
  <2> DEFINE i == Ir("LoadLocal", name, <<>>, <<>>, <<>>, typed)
  <2>1. Shaped(i)
    BY <1>1, FixedSeqs DEF Shaped, Opcodes, Ir
  <2>2. i.visible = (name \in Visible) /\ i.local = name
    BY DEF Ir
  <2> HIDE DEF i
  <2>3. LoadScoped(i, scopes)
    BY <2>2, LoweringAssumption DEF LoadScoped, Visible
  <2> QED BY <2>1, <2>3 DEF i
<1> QED BY <1>2, <1>3

\* Returns with and without a value.
LEMMA ReturnShaped ==
  ASSUME NEW values, IsSeq(values), Len(values) <= 1
  PROVE  /\ Shaped(Ir("Return", NoLocal, <<>>, values, <<>>, TRUE))
         /\ \A scs : LoadScoped(Ir("Return", NoLocal, <<>>, values, <<>>, TRUE), scs)
BY FixedSeqs DEF Shaped, LoadScoped, Opcodes, Ir

\* One instruction emitted and no scope changed.
LEMMA StraightEmit ==
  ASSUME LowerInv, StraightInv, NEW i, Shaped(i), LoadScoped(i, scopes),
         NEW new, new = Emitted(blocks, current, i)
  PROVE  /\ BlocksSeq(new) /\ current + 1 \in DOMAIN new
         /\ StraightBlocks(new, params, scopes)
         /\ (Len(new) = 1 /\ i.op = "StoreLocal")
              => Known(new[1], Len(new[1]) + 1, params, i.local)
<1>1. /\ current \in Nat /\ BlocksSeq(blocks) /\ current + 1 \in DOMAIN blocks
      /\ StraightBlocks(blocks, params, scopes)
  BY DEF LowerInv, BlocksInv, StraightInv
<1> QED BY <1>1, EmitStraight

\* A step that only emits one instruction.
LEMMA StraightKept ==
  ASSUME LowerInv, StraightInv, NEW i, Shaped(i), LoadScoped(i, scopes),
         blocks' = Emitted(blocks, current, i), UNCHANGED <<params, scopes>>
  PROVE  StraightInv'
<1>1. StraightBlocks(blocks', params, scopes)
  BY StraightEmit
<1> QED BY <1>1 DEF StraightInv

\* The constants of an object literal are as many as its values.
LEMMA PropertyNames ==
  ASSUME NEW n \in Nat
  PROVE  /\ DOMAIN [k \in 1..n |-> "property"] = DOMAIN Values(n)
         /\ \A x \in DOMAIN [k \in 1..n |-> "property"] :
              [k \in 1..n |-> "property"][x] \in ConstNames
BY DEF Values, ConstNames

\* Expressions read names that are in scope, or are marked as not visible.
LEMMA StraightExpressions ==
  ASSUME LowerInv, StraightInv
  PROVE  /\ \A name \in Variables \union Globals : Identifier(name) => StraightInv'
         /\ Literal => StraightInv'
         /\ \A n \in Nat : ObjectLiteral(n) \/ ArrayLiteral(n) \/ CallExpression(n) => StraightInv'
         /\ \A isKnown : Member(isKnown) \/ BinaryExpression(isKnown) => StraightInv'
<1>1. ASSUME NEW i, NEW n, NEW isKnown, Produce(i, n, isKnown), Shaped(i), LoadScoped(i, scopes)
      PROVE  StraightInv'
  <2>1. blocks' = Emitted(blocks, current, i) /\ UNCHANGED <<params, scopes>>
    BY <1>1 DEF Produce
  <2> QED BY <1>1, <2>1, StraightKept
<1>2. ASSUME NEW name \in Variables \union Globals, Identifier(name) PROVE StraightInv'
  <2> DEFINE i == Ir("LoadLocal", name, <<>>, <<>>, <<>>, name \in known)
  <2>1. Shaped(i) /\ LoadScoped(i, scopes)
    BY LocalShaped
  <2>2. Produce(i, 0, name \in known)
    BY <1>2 DEF Identifier
  <2> HIDE DEF i
  <2> QED BY <1>1, <2>1, <2>2
<1>3. ASSUME NEW op, NEW consts, NEW values, NEW typed, NEW n, NEW isKnown,
             Produce(Define(op, consts, values, typed), n, isKnown), IsSeq(values),
             op \in {"LoadConst", "BuildObject", "BuildArray", "LoadMember", "Binary", "Call"},
             \A x \in DOMAIN consts : consts[x] \in ConstNames,
             op \in {"LoadConst", "LoadMember", "StoreMember", "Call"} => 1 \in DOMAIN consts,
             op = "BuildObject" => DOMAIN consts = DOMAIN values,
             op = "LoadMember" => Len(values) = 1,
             op \in {"StoreMember", "Binary"} => Len(values) = 2
      PROVE  StraightInv'
  <2> DEFINE i == Define(op, consts, values, typed)
  <2>1. /\ i.op = op /\ i.values = values /\ i.consts = consts /\ i.targets = <<>>
        /\ i.local = NoLocal
    BY DEF Define, Ir
  <2> HIDE DEF i
  <2>2. Shaped(i) /\ LoadScoped(i, scopes)
    BY <1>3, <2>1, DefineShaped
  <2> QED BY <1>1, <1>3, <2>2 DEF i
<1>4. /\ \A c \in ConstNames : /\ \A x \in DOMAIN (<<c>>) : <<c>>[x] \in ConstNames
                               /\ 1 \in DOMAIN (<<c>>)
      /\ \A x \in DOMAIN (<<>>) : <<>>[x] \in ConstNames
      /\ {"literal", "property", "callee"} \subseteq ConstNames
  BY FixedSeqs DEF ConstNames
<1>5. ASSUME Literal PROVE StraightInv'
  BY <1>3, <1>4, <1>5, FixedSeqs DEF Literal
<1>6. ASSUME NEW n \in Nat, ObjectLiteral(n) PROVE StraightInv'
  <2> DEFINE names == [k \in 1..n |-> "property"]
  <2>1. DOMAIN names = DOMAIN Values(n) /\ \A x \in DOMAIN names : names[x] \in ConstNames
    BY PropertyNames
  <2>2. Produce(Define("BuildObject", names, Values(n), TRUE), n, TRUE)
    BY <1>6 DEF ObjectLiteral
  <2> HIDE DEF names
  <2> QED BY <1>3, <2>1, <2>2, ValuesSeq
<1>7. ASSUME NEW n \in Nat, ArrayLiteral(n) PROVE StraightInv'
  BY <1>3, <1>4, <1>7, ValuesSeq DEF ArrayLiteral
<1>8. ASSUME NEW n \in Nat, CallExpression(n) PROVE StraightInv'
  BY <1>3, <1>4, <1>8, ValuesSeq DEF CallExpression
<1>9. ASSUME NEW isKnown, Member(isKnown) PROVE StraightInv'
  BY <1>3, <1>4, <1>9, ValuesSeq DEF Member
<1>10. ASSUME NEW isKnown, BinaryExpression(isKnown) PROVE StraightInv'
  BY <1>3, <1>4, <1>10, ValuesSeq DEF BinaryExpression
<1> QED BY <1>2, <1>5, <1>6, <1>7, <1>8, <1>9, <1>10

\* Assignments store to their name, or to a member of a value.
LEMMA StraightAssignments ==
  ASSUME LowerInv, StraightInv
  PROVE  /\ \A name \in Variables \union Globals : AssignIdentifier(name) => StraightInv'
         /\ AssignMember => StraightInv'
         /\ CompoundAssignMember => StraightInv'
<1>1. ASSUME NEW name \in Variables \union Globals, AssignIdentifier(name) PROVE StraightInv'
  <2>1. blocks' = Emitted(blocks, current, Store(name, Top.value)) /\ UNCHANGED <<params, scopes>>
    BY <1>1 DEF AssignIdentifier
  <2> QED BY <2>1, LocalShaped, StraightKept
<1>2. ASSUME NEW op, op \in {"LoadMember", "Binary", "StoreMember"}, NEW consts,
             consts = IF op = "Binary" THEN <<>> ELSE <<"property">>,
             NEW values, IsSeq(values), Len(values) = (IF op = "LoadMember" THEN 1 ELSE 2),
             NEW i, i.op = op, i.values = values, i.consts = consts, i.targets = <<>>,
             i.local = NoLocal
      PROVE  Shaped(i) /\ \A scs : LoadScoped(i, scs)
  <2>1. /\ \A x \in DOMAIN consts : consts[x] \in ConstNames
        /\ op \in {"LoadMember", "StoreMember"} => 1 \in DOMAIN consts
    BY <1>2, FixedSeqs DEF ConstNames
  <2> QED BY <1>2, <2>1, DefineShaped
<1>3. ASSUME AssignMember PROVE StraightInv'
  <2> DEFINE i == Define("StoreMember", <<"property">>, Values(2), TRUE)
  <2>1. blocks' = Emitted(blocks, current, i) /\ UNCHANGED <<params, scopes>>
    BY <1>3 DEF AssignMember
  <2>2. /\ i.op = "StoreMember" /\ i.values = Values(2) /\ i.consts = <<"property">>
        /\ i.targets = <<>> /\ i.local = NoLocal
    BY DEF Define, Ir
  <2>3. IsSeq(Values(2)) /\ Len(Values(2)) = 2
    BY ValuesSeq
  <2> HIDE DEF i
  <2>4. Shaped(i) /\ LoadScoped(i, scopes)
    BY <1>2, <2>2, <2>3
  <2> QED BY <2>1, <2>4, StraightKept
<1>4. ASSUME CompoundAssignMember PROVE StraightInv'
  <2> DEFINE object == Values(2)[1]
             top == Top.value
             n1 == nextValue + 1
             read == Define("LoadMember", <<"property">>, <<object>>, Top.known)
             combine == [Define("Binary", <<>>, <<nextValue, top>>, Top.known) EXCEPT !.result = n1]
             write == Define("StoreMember", <<"property">>, <<object, n1>>, TRUE)
             s1 == Emitted(blocks, current, read)
             s2 == Emitted(s1, current, combine)
             s3 == Emitted(s2, current, write)
  <2>1. blocks' = s3 /\ UNCHANGED <<params, scopes>>
    BY <1>4 DEF CompoundAssignMember
  <2>2. /\ read.op = "LoadMember" /\ read.values = <<object>> /\ read.consts = <<"property">>
        /\ read.targets = <<>> /\ read.local = NoLocal
    BY DEF Define, Ir
  <2>3. /\ combine.op = "Binary" /\ combine.values = <<nextValue, top>> /\ combine.consts = <<>>
        /\ combine.targets = <<>> /\ combine.local = NoLocal
    BY DEF Define, Ir
  <2>4. /\ write.op = "StoreMember" /\ write.values = <<object, n1>> /\ write.consts = <<"property">>
        /\ write.targets = <<>> /\ write.local = NoLocal
    BY DEF Define, Ir
  <2> HIDE DEF read, combine, write, object, top, n1
  <2>5. Shaped(read) /\ LoadScoped(read, scopes)
    BY <1>2, <2>2, FixedSeqs
  <2>6. Shaped(combine) /\ LoadScoped(combine, scopes)
    BY <1>2, <2>3, FixedSeqs
  <2>7. Shaped(write) /\ LoadScoped(write, scopes)
    BY <1>2, <2>4, FixedSeqs
  <2>8. current \in Nat
    BY DEF LowerInv, BlocksInv
  <2>9. s1 = Emitted(blocks, current, read)
    OBVIOUS
  <2> HIDE DEF s1
  <2>10. /\ BlocksSeq(s1) /\ current + 1 \in DOMAIN s1 /\ StraightBlocks(s1, params, scopes)
    BY <2>5, <2>9, StraightEmit
  <2>11. s2 = Emitted(s1, current, combine)
    OBVIOUS
  <2> HIDE DEF s2
  <2>12. /\ BlocksSeq(s2) /\ current + 1 \in DOMAIN s2 /\ StraightBlocks(s2, params, scopes)
    BY <2>6, <2>8, <2>10, <2>11, EmitStraight
  <2>13. s3 = Emitted(s2, current, write)
    OBVIOUS
  <2> HIDE DEF s3
  <2>14. StraightBlocks(s3, params, scopes)
    BY <2>7, <2>8, <2>12, <2>13, EmitStraight
  <2> QED BY <2>1, <2>14 DEF StraightInv
<1> QED BY <1>1, <1>3, <1>4

\* A declaration stores before its name comes into scope.
LEMMA StraightDeclarations ==
  ASSUME LowerInv, StraightInv, NEW name \in Variables
  PROVE  /\ \A declared : Variable(name, declared) => StraightInv'
         /\ VariableUndefined(name) => StraightInv'
<1>1. ASSUME NEW bs, StraightBlocks(bs, params, scopes),
             Len(bs) = 1 => Known(bs[1], Len(bs[1]) + 1, params, name),
             blocks' = bs, params' = params,
             scopes' = WithName(scopes, name)
      PROVE  StraightInv'
  <2>1. IsSeq(scopes) /\ IsSeq(params)
    BY DEF StraightInv
  <2> DEFINE scs == scopes'
  <2>2. scs = WithName(scopes, name)
    BY <1>1
  <2> HIDE DEF scs
  <2>3. StraightBlocks(bs, params, scs) /\ IsSeq(scs)
    BY <1>1, <2>1, <2>2, DeclareStraight
  <2> QED BY <1>1, <2>1, <2>3 DEF StraightInv, scs
<1>2. ASSUME NEW v
      PROVE  /\ Shaped(Store(name, v)) /\ \A scs : LoadScoped(Store(name, v), scs)
             /\ Store(name, v).op = "StoreLocal" /\ Store(name, v).local = name
  BY LocalShaped DEF Store, Ir
<1>3. ASSUME NEW declared, Variable(name, declared) PROVE StraightInv'
  <2> DEFINE i == Store(name, Top.value)
             bs == Emitted(blocks, current, i)
  <2>1. /\ blocks' = bs /\ params' = params
        /\ scopes' = WithName(scopes, name)
    BY <1>3 DEF Variable, Declared, WithName
  <2>2. Shaped(i) /\ LoadScoped(i, scopes) /\ i.op = "StoreLocal" /\ i.local = name
    BY <1>2
  <2>3. bs = Emitted(blocks, current, i)
    OBVIOUS
  <2> HIDE DEF i, bs
  <2>4. /\ StraightBlocks(bs, params, scopes)
        /\ Len(bs) = 1 => Known(bs[1], Len(bs[1]) + 1, params, name)
    BY <2>2, <2>3, StraightEmit
  <2> QED BY <1>1, <2>1, <2>4
<1>4. ASSUME VariableUndefined(name) PROVE StraightInv'
  <2> DEFINE load == Define("LoadConst", <<"undefined">>, <<>>, TRUE)
             i == Store(name, nextValue)
             s1 == Emitted(blocks, current, load)
             bs == Emitted(s1, current, i)
  <2>1. /\ blocks' = bs /\ params' = params
        /\ scopes' = WithName(scopes, name)
    BY <1>4 DEF VariableUndefined, Declared, WithName
  <2>2. Shaped(i) /\ LoadScoped(i, scopes) /\ i.op = "StoreLocal" /\ i.local = name
    BY <1>2
  <2>3. Shaped(load) /\ LoadScoped(load, scopes)
    <3>1. \A x \in DOMAIN (<<"undefined">>) : <<"undefined">>[x] \in ConstNames
      BY FixedSeqs DEF ConstNames
    <3>2. /\ load.op = "LoadConst" /\ load.values = <<>> /\ load.consts = <<"undefined">>
          /\ load.targets = <<>> /\ load.local = NoLocal
      BY DEF Define, Ir
    <3> HIDE DEF load
    <3> QED BY <3>1, <3>2, FixedSeqs, DefineShaped
  <2>4. s1 = Emitted(blocks, current, load) /\ bs = Emitted(s1, current, i)
    OBVIOUS
  <2> HIDE DEF load, i, s1, bs
  <2>5. /\ BlocksSeq(s1) /\ current + 1 \in DOMAIN s1 /\ StraightBlocks(s1, params, scopes)
    BY <2>3, <2>4, StraightEmit
  <2>6. current \in Nat
    BY DEF LowerInv, BlocksInv
  <2>7. /\ StraightBlocks(bs, params, scopes)
        /\ Len(bs) = 1 => Known(bs[1], Len(bs[1]) + 1, params, name)
    BY <2>2, <2>4, <2>5, <2>6, EmitStraight
  <2> QED BY <1>1, <2>1, <2>7
<1> QED BY <1>3, <1>4

\* The statements that leave the function one block.
LEMMA StraightStatements ==
  ASSUME LowerInv, StraightInv
  PROVE  /\ ExpressionStatement \/ Skipped => StraightInv'
         /\ ReturnStatement => StraightInv'
         /\ Block => StraightInv'
         /\ EndBlock => StraightInv'
         /\ Finish => StraightInv'
<1>1. IsSeq(scopes) /\ IsSeq(params) /\ StraightBlocks(blocks, params, scopes)
  BY DEF StraightInv
<1>2. ASSUME ExpressionStatement \/ Skipped PROVE StraightInv'
  BY <1>2 DEF ExpressionStatement, Skipped, code, StraightInv
<1>3. ASSUME ReturnStatement PROVE StraightInv'
  <2> DEFINE n == Len(stack)
             i == Ir("Return", NoLocal, <<>>, Values(n), <<>>, TRUE)
  <2>1. blocks' = Emitted(blocks, current, i) /\ n <= 1 /\ UNCHANGED <<params, scopes>>
    BY <1>3 DEF ReturnStatement
  <2>2. n \in Nat
    BY SeqFacts DEF LowerInv, StackInv
  <2> HIDE DEF n
  <2>3. IsSeq(Values(n)) /\ Len(Values(n)) <= 1
    BY <2>1, <2>2, ValuesSeq
  <2>4. Shaped(i) /\ LoadScoped(i, scopes)
    BY <2>3, ReturnShaped
  <2> HIDE DEF i
  <2> QED BY <2>1, <2>4, StraightKept
<1>4. ASSUME Block PROVE StraightInv'
  <2>1. scopes' = Append(scopes, {}) /\ UNCHANGED <<blocks, params>>
    BY <1>4 DEF Block, code
  <2> QED BY <1>1, <2>1, ScopesStraight DEF StraightInv
<1>5. ASSUME EndBlock PROVE StraightInv'
  <2>1. scopes' = SubSeq(scopes, 1, Len(scopes) - 1) /\ UNCHANGED <<blocks, params>>
    BY <1>5 DEF EndBlock, code
  <2> QED BY <1>1, <2>1, ScopesStraight DEF StraightInv
<1>6. ASSUME Finish PROVE StraightInv'
  <2> DEFINE none == <<>>
             i == Ir("Return", NoLocal, <<>>, none, <<>>, TRUE)
  <2>1. /\ blocks' = Emitted(blocks, current, i) \/ blocks' = blocks
        /\ UNCHANGED <<params, scopes>>
    BY <1>6 DEF Finish
  <2>2. IsSeq(none) /\ Len(none) <= 1
    BY FixedSeqs
  <2> HIDE DEF none
  <2>3. Shaped(i) /\ LoadScoped(i, scopes)
    BY <2>2, ReturnShaped
  <2> HIDE DEF i
  <2>4. CASE blocks' = Emitted(blocks, current, i)
    BY <2>1, <2>3, <2>4, StraightKept
  <2>5. CASE blocks' = blocks
    BY <1>1, <2>1, <2>5 DEF StraightInv
  <2> QED BY <2>1, <2>4, <2>5
<1> QED BY <1>2, <1>3, <1>4, <1>5, <1>6

\* With an if there is more than one block.
LEMMA StraightIfs ==
  ASSUME LowerInv, LowerInv', StraightInv
  PROVE  If \/ Else \/ EndIf \/ EndIfWithoutElse => StraightInv'
<1> SUFFICES ASSUME If \/ Else \/ EndIf \/ EndIfWithoutElse PROVE StraightInv'
  OBVIOUS
<1>1. /\ BlocksSeq(blocks) /\ DOMAIN blocks = 1..Len(blocks) /\ Len(blocks) \in Nat
      /\ BlocksSeq(blocks') /\ DOMAIN blocks' = 1..Len(blocks') /\ Len(blocks') \in Nat
  BY SeqFacts DEF LowerInv, BlocksInv, BlocksSeq
<1>2. UNCHANGED <<params, scopes>>
  BY DEF If, Else, EndIf, EndIfWithoutElse
<1>3. Len(blocks') # 1
  <2>1. CASE If
    <3>1. DOMAIN blocks' = DOMAIN WithThree(blocks)
      BY <2>1 DEF If, Emitted, WithThree
    <3> DEFINE m == Len(blocks) + 3
    <3>2. DOMAIN WithThree(blocks) = 1..m
      BY <1>1, ThreeMore
    <3>3. m \in Nat /\ m # 1
      BY <1>1
    <3> HIDE DEF m
    <3>4. 1..Len(blocks') = 1..m
      BY <1>1, <3>1, <3>2
    <3>5. Len(blocks') = m
      BY <1>1, <3>3, <3>4, IntervalEnd
    <3> QED BY <3>3, <3>5
  <2>2. CASE Else \/ EndIf \/ EndIfWithoutElse
    <3>1. /\ open # <<>> /\ open[Len(open)].kind = "if"
          /\ DOMAIN blocks' = DOMAIN blocks
      BY <2>2 DEF Else, EndIf, EndIfWithoutElse, BodyDone, InIf, Emitted
    <3>2. /\ Len(open) \in DOMAIN open /\ OpenSeq(open) /\ PendingApart(blocks, current, open)
          /\ current \in Nat /\ current + 1 \in DOMAIN blocks
      BY <3>1, OuterOpen DEF LowerInv, OpenInv, BlocksInv
    <3> DEFINE mb == open[Len(open)].mergeBlock
    <3>3. mb \in Nat /\ mb \in Pending(open[Len(open)])
      BY <3>1, <3>2, PendingOf DEF OpenSeq
    <3>4. mb + 1 \in DOMAIN blocks /\ mb # current
      BY <3>2, <3>3 DEF PendingApart
    <3> HIDE DEF mb
    <3>5. Len(blocks) # 1
      BY <1>1, <3>2, <3>3, <3>4
    <3>6. Len(blocks') = Len(blocks)
      BY <1>1, <3>1, IntervalEnd
    <3> QED BY <3>5, <3>6
  <2> QED BY <2>1, <2>2
<1> QED BY <1>2, <1>3 DEF StraightInv, StraightBlocks

\* Before the first instruction only parameters are in scope.
LEMMA StraightInit == Init => StraightInv
<1> SUFFICES ASSUME Init PROVE StraightInv
  OBVIOUS
<1> DEFINE names == {params[k] : k \in DOMAIN params}
           none == <<>>
           one == <<none>>
<1>1. blocks = one /\ scopes = <<names>>
  BY DEF Init
<1>2. IsSeq(params)
  <2>1. PICK n \in 0..MaxParams : params \in [1..n -> Variables]
    BY DEF Init
  <2>2. n \in Nat
    BY LoweringAssumption
  <2>3. params \in Seq(Variables)
    BY <2>1, <2>2, FunctionIsSeq
  <2> QED BY <2>3, SeqIsSeq
<1> HIDE DEF names
<1>3. IsSeq(scopes) /\ DOMAIN scopes = {1} /\ scopes[1] = names
  BY <1>1, FixedSeqs
<1>4. one[1] = none /\ DOMAIN none = {}
  BY FixedSeqs
<1> HIDE DEF one, none
<1>5. Straight(none, params, scopes)
  BY <1>3, <1>4 DEF Straight, Known, names
<1> QED BY <1>1, <1>2, <1>3, <1>4, <1>5 DEF StraightInv, StraightBlocks

\* Every step keeps the shape.
LEMMA StraightNext == LowerInv /\ StraightInv /\ LowerInv' /\ [Next]_vars => StraightInv'
<1> SUFFICES ASSUME LowerInv, StraightInv, LowerInv', [Next]_vars PROVE StraightInv'
  OBVIOUS
<1>1. 0..MaxArity \subseteq Nat
  BY LoweringAssumption
<1>2. CASE Expression
  BY <1>1, <1>2, StraightExpressions, StraightAssignments DEF Expression
<1>3. CASE Statement
  BY <1>3, StraightDeclarations, StraightStatements, StraightIfs DEF Statement
<1>4. CASE UNCHANGED vars
  BY <1>4 DEF vars, code, StraightInv
<1> QED BY <1>2, <1>3, <1>4 DEF Next

\* So it holds in every state.
LEMMA StraightInvariant == Spec => []StraightInv
<1> QED BY LowerInvariant, StraightInit, StraightNext, PTL DEF Spec
-----------------------------------------------------------------------------
(***************************************************************************)
(* Part 6: the verifier on what a function without branches compiles to.   *)
(***************************************************************************)

\* The only block there is.
body == blocks[1]

\* A function of one block in the invariants.
StraightBody ==
  LowerInv /\ StraightInv /\ Len(blocks) = 1

\* With one block, places are positions in the body.
LEMMA BodyPlaces ==
  ASSUME StraightBody
  PROVE  /\ DOMAIN blocks = {1} /\ IsSeq(body) /\ DOMAIN body = 1..Len(body) /\ Len(body) \in Nat
         /\ \A p \in Places : p[1] = 1 /\ p[2] \in DOMAIN body /\ p = <<1, p[2]>>
         /\ \A p \in Places : Instruction(p) = body[p[2]]
         /\ \A k \in DOMAIN body : <<1, k>> \in Places /\ Instruction(<<1, k>>) = body[k]
<1>1. BlocksSeq(blocks) /\ Len(blocks) = 1
  BY DEF StraightBody, LowerInv, BlocksInv
<1>2. DOMAIN blocks = 1..1
  BY <1>1, SeqFacts DEF BlocksSeq
<1>3. DOMAIN blocks = {1}
  BY <1>2
<1>4. IsSeq(body) /\ DOMAIN body = 1..Len(body) /\ Len(body) \in Nat
  BY <1>1, <1>3, SeqFacts DEF BlocksSeq, body
<1>5. \A p \in Places : p[1] = 1 /\ p[2] \in DOMAIN body /\ p = <<1, p[2]>>
  BY <1>3, PlaceOf DEF body
<1>6. \A p \in Places : Instruction(p) = body[p[2]]
  BY <1>5 DEF Instruction, body
<1>7. \A k \in DOMAIN body : <<1, k>> \in Places /\ Instruction(<<1, k>>) = body[k]
  BY <1>3, PlaceOf DEF Instruction, body
<1> QED BY <1>3, <1>4, <1>5, <1>6, <1>7

\* What the invariant says of the instructions of the body.
LEMMA BodyShaped ==
  ASSUME StraightBody
  PROVE  /\ \A k \in DOMAIN body : Shaped(body[k])
         /\ \A k \in DOMAIN body :
              (body[k].op = "LoadLocal" /\ body[k].visible /\ body[k].local \in Variables)
                => Known(body, k, params, body[k].local)
BY DEF StraightBody, StraightInv, StraightBlocks, Straight, body

\* Constants: every one used is in the pool, at an index below its size.
LEMMA PoolBound ==
  ASSUME StraightBody
  PROVE  /\ Cardinality(Pool) \in Nat
         /\ \A c \in Pool : ConstantId(c) \in Nat /\ ConstantId(c) < Cardinality(Pool)
         /\ \A k \in DOMAIN body : \A x \in DOMAIN body[k].consts : body[k].consts[x] \in Pool
<1>1. \A k \in DOMAIN body : \A x \in DOMAIN body[k].consts : body[k].consts[x] \in ConstNames
  BY BodyShaped DEF Shaped
<1>2. Pool \subseteq ConstNames
  <2>1. ASSUME NEW c \in Pool PROVE c \in ConstNames
    <3>1. PICK p \in Places : \E x \in DOMAIN Instruction(p).consts : c = Instruction(p).consts[x]
      BY DEF Pool
    <3>2. p[2] \in DOMAIN body /\ Instruction(p) = body[p[2]]
      BY BodyPlaces
    <3> QED BY <1>1, <3>1, <3>2
  <2> QED BY <2>1
<1>3. IsFiniteSet(ConstNames)
  <2> DEFINE A == {"literal"} \union {"undefined"}
             B == {"property"} \union {"callee"}
  <2>1. IsFiniteSet(A) /\ IsFiniteSet(B)
    BY FS_Singleton, FS_AddElement
  <2>2. ConstNames = A \union B
    BY DEF ConstNames
  <2> HIDE DEF A, B
  <2> QED BY <2>1, <2>2, FS_Union
<1>4. IsFiniteSet(Pool) /\ Cardinality(Pool) \in Nat
  BY <1>2, <1>3, FS_Subset, FS_CardinalityType
<1>5. ASSUME NEW c \in Pool PROVE ConstantId(c) \in Nat /\ ConstantId(c) < Cardinality(Pool)
  <2> DEFINE E == Earlier(Pool, ConstantUses, c)
             R == Pool \ {c}
  <2>1. E \subseteq R
    BY DEF Earlier
  <2>2. IsFiniteSet(R) /\ Cardinality(R) = Cardinality(Pool) - 1
    BY <1>4, <1>5, FS_RemoveElement
  <2> HIDE DEF E, R
  <2>3. IsFiniteSet(E) /\ Cardinality(E) <= Cardinality(R)
    BY <2>1, <2>2, FS_Subset
  <2>4. Cardinality(E) \in Nat
    BY <2>3, FS_CardinalityType
  <2>5. ConstantId(c) = Cardinality(E)
    BY DEF ConstantId, E
  <2> QED BY <1>4, <2>2, <2>3, <2>4, <2>5
<1>6. ASSUME NEW k \in DOMAIN body, NEW x \in DOMAIN body[k].consts
      PROVE  body[k].consts[x] \in Pool
  <2> DEFINE p == <<1, k>>
  <2>1. p \in Places /\ Instruction(p) = body[k]
    BY BodyPlaces
  <2> HIDE DEF p
  <2>2. body[k].consts[x] \in {Instruction(p).consts[y] : y \in DOMAIN Instruction(p).consts}
    BY <1>6, <2>1
  <2> QED BY <2>1, <2>2 DEF Pool
<1> QED BY <1>4, <1>5, <1>6

\* An instruction that defines counts for all that come after it.
LEMMA CountStrict ==
  ASSUME NEW s, NEW j \in Nat, NEW k \in Nat, 0 < j, j < k, Defines(s[j])
  PROVE  DefinedCount(s, j) < DefinedCount(s, k)
<1> DEFINE A == {x \in 1..(j - 1) : Defines(s[x])}
           B == {x \in 1..(k - 1) : Defines(s[x])}
           C == A \union {j}
<1>1. IsFiniteSet(A) /\ IsFiniteSet(B)
  <2>1. IsFiniteSet(1..(j - 1)) /\ IsFiniteSet(1..(k - 1))
    BY FS_Interval
  <2> QED BY <2>1, FS_Subset
<1>2. j \notin A
  OBVIOUS
<1>3. C \subseteq B
  OBVIOUS
<1> HIDE DEF A, B
<1>4. Cardinality(C) = Cardinality(A) + 1
  BY <1>1, <1>2, FS_AddElement
<1>5. Cardinality(C) <= Cardinality(B)
  <2> HIDE DEF C
  <2> QED BY <1>1, <1>3, FS_Subset
<1>6. Cardinality(A) \in Nat /\ Cardinality(B) \in Nat
  BY <1>1, FS_CardinalityType
<1>7. Cardinality(A) < Cardinality(B)
  BY <1>4, <1>5, <1>6
<1> QED BY <1>7 DEF A, B, DefinedCount

\* Operands are values counted by then.
LEMMA OperandBound ==
  ASSUME StraightBody, NEW k \in DOMAIN body, NEW x \in DOMAIN body[k].values
  PROVE  body[k].values[x] < DefinedCount(body, k)
<1>1. ValuesOK(blocks, nextValue) /\ PositionsOK(blocks, nextValue) /\ Len(blocks) = 1
  BY DEF StraightBody, LowerInv, BlocksInv
<1>2. 1 \in DOMAIN blocks /\ DOMAIN body = 1..Len(body) /\ Len(body) \in Nat
  BY BodyPlaces
<1>3. PICK j \in DOMAIN body : j < k /\ Defines(body[j]) /\ body[j].result = body[k].values[x]
  BY <1>1, <1>2 DEF ValuesOK, DefinedBefore, body
<1>4. body[j].result = DefinedCount(body, j)
  BY <1>1, <1>3 DEF PositionsOK, body
<1>5. j \in Nat /\ k \in Nat /\ 0 < j /\ j < k
  BY <1>2, <1>3
<1>6. DefinedCount(body, j) < DefinedCount(body, k)
  BY <1>3, <1>5, CountStrict
<1> QED BY <1>3, <1>4, <1>6

\* Names that are no parameters, and those of them that get a local before x.
Others == (Variables \union Globals) \ {params[k] : k \in DOMAIN params}
PriorLocals(x) == Earlier(Others, LocalUses, x)

\* j is where the function first uses its name.
FirstUse(j) == \A k \in DOMAIN body : body[k].local = body[j].local => j <= k

\* A name gets its local before x when it is used before x ever is.
LEMMA PriorMember ==
  ASSUME StraightBody, NEW x, NEW y
  PROVE  y \in PriorLocals(x) <=>
           /\ y \in Others /\ y # x
           /\ \E j \in DOMAIN body :
                body[j].local = y /\ \A k \in DOMAIN body : body[k].local = x => j <= k
<1>1. y \in PriorLocals(x) <=>
        /\ y \in Others \ {x}
        /\ \E p \in Places : /\ Instruction(p).local = y
                             /\ \A q \in Places : Instruction(q).local = x => ~Before(q, p)
  BY DEF PriorLocals, Earlier, LocalUses
<1>2. \A p, q \in Places : Before(q, p) <=> q[2] < p[2]
  BY BodyPlaces DEF Before
<1>3. DOMAIN body \subseteq Nat
  BY BodyPlaces
<1>4. ASSUME NEW p \in Places, Instruction(p).local = y,
             \A q \in Places : Instruction(q).local = x => ~Before(q, p)
      PROVE  p[2] \in DOMAIN body /\ body[p[2]].local = y
             /\ \A k \in DOMAIN body : body[k].local = x => p[2] <= k
  <2>1. p[2] \in DOMAIN body /\ body[p[2]].local = y
    BY <1>4, BodyPlaces
  <2>2. ASSUME NEW k \in DOMAIN body, body[k].local = x PROVE p[2] <= k
    <3> DEFINE q == <<1, k>>
    <3>1. q \in Places /\ Instruction(q).local = x /\ q[2] = k
      BY <2>2, BodyPlaces
    <3> HIDE DEF q
    <3>2. ~(k < p[2])
      BY <1>2, <1>4, <3>1
    <3> QED BY <1>3, <2>1, <3>2
  <2> QED BY <2>1, <2>2
<1>5. ASSUME NEW j \in DOMAIN body, body[j].local = y,
             \A k \in DOMAIN body : body[k].local = x => j <= k
      PROVE  \E p \in Places : /\ Instruction(p).local = y
                               /\ \A q \in Places : Instruction(q).local = x => ~Before(q, p)
  <2> DEFINE p == <<1, j>>
  <2>1. p \in Places /\ Instruction(p).local = y /\ p[2] = j
    BY <1>5, BodyPlaces
  <2> HIDE DEF p
  <2>2. ASSUME NEW q \in Places, Instruction(q).local = x PROVE ~Before(q, p)
    <3>1. q[2] \in DOMAIN body /\ body[q[2]].local = x
      BY <2>2, BodyPlaces
    <3>2. j <= q[2]
      BY <1>5, <3>1
    <3>3. ~(q[2] < j)
      BY <1>3, <3>1, <3>2
    <3> QED BY <1>2, <2>1, <3>3
  <2> QED BY <2>1, <2>2
<1> QED BY <1>1, <1>4, <1>5

\* They are among the names used, so finitely many.
LEMMA PriorFinite ==
  ASSUME StraightBody, NEW x
  PROVE  IsFiniteSet(PriorLocals(x)) /\ Cardinality(PriorLocals(x)) \in Nat
<1> DEFINE Used == {body[j].local : j \in DOMAIN body}
           f == [j \in DOMAIN body |-> body[j].local]
<1>1. IsFiniteSet(DOMAIN body)
  BY BodyPlaces, FS_Interval
<1>2. f \in Surjection(DOMAIN body, Used)
  BY DEF Surjection
<1>3. IsFiniteSet(Used)
  <2> HIDE DEF f, Used
  <2> QED BY <1>1, <1>2, FS_Surjection
<1>4. PriorLocals(x) \subseteq Used
  BY PriorMember
<1> HIDE DEF Used
<1> QED BY <1>3, <1>4, FS_Subset, FS_CardinalityType

\* Parameters have the first locals, other names those after them.
LEMMA LocalIdOf ==
  ASSUME StraightBody, NEW x
  PROVE  /\ LocalId(x) \in Nat /\ Len(params) \in Nat
         /\ (\E k \in DOMAIN params : params[k] = x) => LocalId(x) < Len(params)
         /\ ~(\E k \in DOMAIN params : params[k] = x)
              => LocalId(x) = Len(params) + Cardinality(PriorLocals(x))
<1>1. DOMAIN params = 1..Len(params) /\ Len(params) \in Nat
  BY SeqFacts DEF StraightBody, StraightInv
<1>2. CASE \E k \in DOMAIN params : params[k] = x
  <2> DEFINE c == CHOOSE k \in DOMAIN params : params[k] = x
  <2>1. c \in DOMAIN params
    BY <1>2
  <2>2. LocalId(x) = c - 1
    BY <1>2 DEF LocalId
  <2> QED BY <1>1, <1>2, <2>1, <2>2
<1>3. CASE ~(\E k \in DOMAIN params : params[k] = x)
  <2>1. LocalId(x) = Len(params) + Cardinality(PriorLocals(x))
    BY <1>3 DEF LocalId, PriorLocals, Others
  <2>2. Cardinality(PriorLocals(x)) \in Nat
    BY PriorFinite
  <2> QED BY <1>1, <1>3, <2>1, <2>2
<1> QED BY <1>2, <1>3

\* A name that is no parameter is stored to before it is read.
LEMMA FirstIsStore ==
  ASSUME StraightBody, ReadsVariables, NEW j \in DOMAIN body, body[j].local \in Others
  PROVE  \E f \in DOMAIN body : /\ f <= j /\ body[f].op = "StoreLocal"
                                /\ body[f].local = body[j].local /\ FirstUse(f)
<1> DEFINE x == body[j].local
           S == {k \in DOMAIN body : body[k].local = x}
<1>1. DOMAIN body \subseteq Nat
  BY BodyPlaces
<1>2. S \in SUBSET Nat /\ j \in S
  BY <1>1
<1>3. PICK f \in S : \A k \in S : ~(k < f)
  <2> HIDE DEF S
  <2> QED BY <1>2, LeastOf
<1>4. f \in DOMAIN body /\ body[f].local = x /\ f <= j /\ FirstUse(f)
  BY <1>1, <1>2, <1>3 DEF FirstUse
<1>5. x # NoLocal
  BY LoweringAssumption DEF Others
<1>6. body[f].op \in {"LoadLocal", "StoreLocal"}
  BY <1>4, <1>5, BodyShaped DEF Shaped
<1>7. body[f].op # "LoadLocal"
  <2>1. SUFFICES ASSUME body[f].op = "LoadLocal" PROVE FALSE
    OBVIOUS
  <2>2. body[f].visible /\ body[f].local \in Variables \union {NoLocal}
    BY <1>4, <2>1, BodyPlaces DEF ReadsVariables
  <2>3. body[f].local \in Variables
    BY <1>4, <1>5, <2>2
  <2>4. Known(body, f, params, x)
    BY <1>4, <2>1, <2>2, <2>3, BodyShaped
  <2>5. \E k \in DOMAIN body : k < f /\ body[k].local = x
    BY <2>4 DEF Known, Others
  <2> QED BY <1>3, <2>5
<1> QED BY <1>4, <1>6, <1>7

\* The name has a local no larger than bound before instruction k.
ReachedBefore(k, bound) ==
  \/ bound < Len(params)
  \/ \E j \in DOMAIN body :
       j < k /\ body[j].op = "StoreLocal" /\ bound <= LocalId(body[j].local)

\* A store adds at most one local to those there are.
LEMMA StoreFits ==
  ASSUME StraightBody, ReadsVariables, NEW k \in DOMAIN body, body[k].op = "StoreLocal"
  PROVE  LocalId(body[k].local) = 0 \/ ReachedBefore(k, LocalId(body[k].local) - 1)
<1> DEFINE x == body[k].local
           P == PriorLocals(x)
<1>1. /\ DOMAIN body = 1..Len(body) /\ Len(body) \in Nat
      /\ LocalId(x) \in Nat /\ Len(params) \in Nat
  BY BodyPlaces, LocalIdOf
<1>2. CASE \E j \in DOMAIN params : params[j] = x
  <2>1. LocalId(x) - 1 < Len(params)
    BY <1>1, <1>2, LocalIdOf
  <2> QED BY <2>1 DEF ReachedBefore
<1>3. CASE ~(\E j \in DOMAIN params : params[j] = x) /\ P = {}
  <2>1. LocalId(x) = Len(params)
    <3>1. Cardinality(P) = 0
      BY <1>3, FS_EmptySet
    <3>2. LocalId(x) = Len(params) + Cardinality(P)
      BY <1>3, LocalIdOf
    <3> HIDE DEF P, x
    <3> QED BY <1>1, <3>1, <3>2
  <2> QED BY <1>1, <2>1 DEF ReachedBefore
<1>4. CASE ~(\E j \in DOMAIN params : params[j] = x) /\ P # {}
  <2> DEFINE S == {f \in DOMAIN body : /\ body[f].local \in P /\ body[f].op = "StoreLocal"
                                       /\ FirstUse(f)}
  <2>1. ASSUME NEW y \in P
        PROVE  \E f \in S : body[f].local = y /\ f < k
    <3>1. PICK j \in DOMAIN body :
            body[j].local = y /\ \A l \in DOMAIN body : body[l].local = x => j <= l
      BY PriorMember
    <3>2. y \in Others /\ y # x
      BY PriorMember
    <3>3. PICK f \in DOMAIN body : /\ f <= j /\ body[f].op = "StoreLocal"
                                   /\ body[f].local = body[j].local /\ FirstUse(f)
      BY <3>1, <3>2, FirstIsStore
    <3>4. f <= k /\ f # k
      BY <1>1, <3>1, <3>2, <3>3
    <3> QED BY <1>1, <3>1, <3>3, <3>4
  <2>2. S \in SUBSET (1..Len(body)) /\ S # {}
    BY <1>1, <1>4, <2>1
  <2>3. PICK g \in S : \A f \in S : f <= g
    <3> HIDE DEF S
    <3> QED BY <1>1, <2>2, GreatestOf
  <2> DEFINE y == body[g].local
             Q == PriorLocals(y)
  <2>4. y \in P /\ FirstUse(g) /\ body[g].op = "StoreLocal" /\ g \in DOMAIN body
    BY <2>3
  <2>5. g < k
    <3>1. PICK f \in S : body[f].local = y /\ f < k
      BY <2>1, <2>4
    <3>2. g <= f
      BY <2>4, <3>1 DEF FirstUse
    <3> QED BY <1>1, <2>4, <3>1, <3>2
  <2>6. P \subseteq Q \union {y}
    <3>1. ASSUME NEW z \in P, z # y PROVE z \in Q
      <4>1. PICK f \in S : body[f].local = z
        BY <2>1
      <4>2. f <= g
        BY <2>3
      <4>3. \A l \in DOMAIN body : body[l].local = y => f <= l
        BY <1>1, <2>4, <4>2 DEF FirstUse
      <4>4. z \in Others
        BY PriorMember
      <4> QED BY <3>1, <4>1, <4>3, <4>4, PriorMember
    <3> QED BY <3>1
  <2>7. Cardinality(P) <= Cardinality(Q) + 1
    <3> DEFINE R == Q \union {y}
    <3>1. IsFiniteSet(Q) /\ Cardinality(Q) \in Nat /\ IsFiniteSet(P) /\ Cardinality(P) \in Nat
      BY PriorFinite
    <3> HIDE DEF P, Q, y
    <3>2. y \notin Q => Cardinality(R) = Cardinality(Q) + 1
      BY <3>1, FS_AddElement
    <3>3. y \in Q => R = Q
      OBVIOUS
    <3>4. IsFiniteSet(R)
      BY <3>1, FS_AddElement
    <3> HIDE DEF R
    <3>5. Cardinality(P) <= Cardinality(R)
      <4>1. P \subseteq R
        BY <2>6 DEF R
      <4> QED BY <3>4, <4>1, FS_Subset
    <3> QED BY <3>1, <3>2, <3>3, <3>5
  <2>8. LocalId(x) - 1 <= LocalId(y)
    <3>1. y \in Others
      BY <2>4, PriorMember
    <3>2. ~(\E j \in DOMAIN params : params[j] = y)
      BY <3>1 DEF Others
    <3>3. LocalId(y) = Len(params) + Cardinality(Q) /\ LocalId(x) = Len(params) + Cardinality(P)
      BY <1>4, <3>2, LocalIdOf
    <3>4. Cardinality(P) \in Nat /\ Cardinality(Q) \in Nat
      BY PriorFinite
    <3> HIDE DEF P, Q
    <3> QED BY <1>1, <2>7, <3>3, <3>4
  <2> QED BY <2>4, <2>5, <2>8 DEF ReachedBefore
<1> QED BY <1>2, <1>3, <1>4

\* A load reads a local there is.
LEMMA LoadFits ==
  ASSUME StraightBody, ReadsVariables, NEW k \in DOMAIN body, body[k].op = "LoadLocal"
  PROVE  ReachedBefore(k, LocalId(body[k].local))
<1> DEFINE x == body[k].local
<1>1. LocalId(x) \in Nat
  BY LocalIdOf
<1>2. x \in Variables \union {NoLocal} /\ body[k].visible
  BY BodyPlaces DEF ReadsVariables
<1>3. x # NoLocal
  BY BodyShaped DEF Shaped
<1>4. Known(body, k, params, x)
  BY <1>2, <1>3, BodyShaped
<1>5. CASE \E j \in DOMAIN params : params[j] = x
  BY <1>5, LocalIdOf DEF ReachedBefore
<1>6. CASE \E j \in DOMAIN body : j < k /\ body[j].op = "StoreLocal" /\ body[j].local = x
  <2>1. LocalId(x) <= LocalId(x)
    BY <1>1
  <2> QED BY <1>6, <2>1 DEF ReachedBefore
<1> QED BY <1>4, <1>5, <1>6 DEF Known

\* The operands in the encoding are as many as the verifier expects, and where it
\* looks for a constant, a value or a local there is one of the instruction's own.
Encodes(i, c) ==
  /\ OperandCounts(c)
  /\ \A p \in ConstantOperands(c) : \E x \in DOMAIN i.consts : c.args[p] = ConstantId(i.consts[x])
  /\ \A p \in ValueOperands(c) : \E x \in DOMAIN i.values : c.args[p] = i.values[x]
  /\ i.op \in {"LoadLocal", "StoreLocal"} => c.args[1] = LocalId(i.local)
  /\ i.op = "StoreLocal" => Len(c.args) = 2

\* An instruction keeps all but its operands.
LEMMA CompiledKeeps ==
  \A i : /\ Compiled(i).op = i.op /\ Compiled(i).args = Operands(i)
         /\ Compiled(i).typed = i.typed /\ Compiled(i).source = 0
BY DEF Compiled

\* What comes before the values in the encoding shifts them.
LEMMA Shifted ==
  ASSUME NEW s, NEW t, IsSeq(s), IsSeq(t)
  PROVE  /\ Len(s \o t) = Len(s) + Len(t)
         /\ \A k \in 1..Len(s) : (s \o t)[k] = s[k]
         /\ \A k \in (Len(s) + 1)..(Len(s) + Len(t)) :
              k - Len(s) \in DOMAIN t /\ (s \o t)[k] = t[k - Len(s)]
<1>1. DOMAIN s = 1..Len(s) /\ Len(s) \in Nat /\ DOMAIN t = 1..Len(t) /\ Len(t) \in Nat
  BY SeqFacts
<1>2. Len(s \o t) = Len(s) + Len(t)
  BY ConcatFacts
<1>3. \A k \in DOMAIN s : (s \o t)[k] = s[k]
  BY ConcatFacts
<1>4. \A k \in DOMAIN t : (s \o t)[Len(s) + k] = t[k]
  BY ConcatBehind
<1>5. ASSUME NEW k \in (Len(s) + 1)..(Len(s) + Len(t))
      PROVE  k - Len(s) \in DOMAIN t /\ (s \o t)[k] = t[k - Len(s)]
  <2> DEFINE j == k - Len(s)
  <2>1. j \in DOMAIN t /\ k = Len(s) + j
    BY <1>1
  <2> HIDE DEF j
  <2>2. (s \o t)[Len(s) + j] = t[j]
    BY <1>4, <2>1
  <2> QED BY <2>1, <2>2 DEF j
<1> QED BY <1>1, <1>2, <1>3, <1>5

\* Instructions with a fixed number of operands.
LEMMA FixedEncodes ==
  ASSUME NEW i, Shaped(i), i.op \in {"LoadConst", "LoadLocal", "LoadMember", "StoreMember"},
         NEW c, c.op = i.op, c.args = Operands(i)
  PROVE  Encodes(i, c)
<1>1. c.op = i.op /\ c.args = Operands(i)
  OBVIOUS
<1>2. CASE i.op = "LoadConst"
  <2>1. Operands(i) = <<ConstantId(i.consts[1])>>
    BY <1>2 DEF Operands
  <2>2. 1 \in DOMAIN i.consts
    BY <1>2 DEF Shaped
  <2>3. Len(c.args) = 1 /\ c.args[1] = ConstantId(i.consts[1])
    BY <1>1, <2>1
  <2> QED BY <1>1, <1>2, <2>2, <2>3
          DEF Encodes, OperandCounts, ConstantOperands, ValueOperands
<1>3. CASE i.op = "LoadLocal"
  <2>1. Operands(i) = <<LocalId(i.local)>>
    BY <1>3 DEF Operands
  <2>3. Len(c.args) = 1 /\ c.args[1] = LocalId(i.local)
    BY <1>1, <2>1
  <2> QED BY <1>1, <1>3, <2>3
          DEF Encodes, OperandCounts, ConstantOperands, ValueOperands
<1>4. CASE i.op = "LoadMember"
  <2>1. Operands(i) = <<i.values[1], ConstantId(i.consts[1])>>
    BY <1>4 DEF Operands
  <2>2. 1 \in DOMAIN i.consts /\ 1 \in DOMAIN i.values
    BY <1>4, SeqFacts DEF Shaped
  <2>3. Len(c.args) = 2 /\ c.args[1] = i.values[1] /\ c.args[2] = ConstantId(i.consts[1])
    BY <1>1, <2>1
  <2> QED BY <1>1, <1>4, <2>2, <2>3
          DEF Encodes, OperandCounts, ConstantOperands, ValueOperands
<1>5. CASE i.op = "StoreMember"
  <2>1. Operands(i) = <<i.values[1], ConstantId(i.consts[1]), i.values[2]>>
    BY <1>5 DEF Operands
  <2>2. 1 \in DOMAIN i.consts /\ 1 \in DOMAIN i.values /\ 2 \in DOMAIN i.values
    BY <1>5, SeqFacts DEF Shaped
  <2>3. /\ Len(c.args) = 3 /\ c.args[1] = i.values[1] /\ c.args[2] = ConstantId(i.consts[1])
        /\ c.args[3] = i.values[2]
    BY <1>1, <2>1
  <2> QED BY <1>1, <1>5, <2>2, <2>3
          DEF Encodes, OperandCounts, ConstantOperands, ValueOperands
<1> QED BY <1>2, <1>3, <1>4, <1>5

\* Instructions whose operands end with their values.
LEMMA TrailingEncodes ==
  ASSUME NEW i, Shaped(i), i.op \in {"StoreLocal", "Binary", "BuildArray", "Call", "Return"},
         NEW c, c.op = i.op, c.args = Operands(i)
  PROVE  Encodes(i, c)
<1> DEFINE n == Len(i.values)
           v == i.values
<1>1. c.op = i.op /\ c.args = Operands(i)
  OBVIOUS
<1>2. IsSeq(v) /\ DOMAIN v = 1..n /\ n \in Nat
  BY SeqFacts DEF Shaped
<1>3. CASE i.op \in {"StoreLocal", "Binary", "BuildArray"}
  <2> DEFINE h == IF i.op = "StoreLocal" THEN LocalId(i.local)
                  ELSE IF i.op = "Binary" THEN 0 ELSE n
  <2>1. Operands(i) = <<h>> \o v
    BY <1>3 DEF Operands
  <2>2. i.op = "StoreLocal" => h = LocalId(i.local) /\ n = 1
    BY DEF Shaped
  <2>3. i.op = "Binary" => n = 2
    BY DEF Shaped
  <2>4. i.op = "BuildArray" => h = n
    OBVIOUS
  <2> HIDE DEF n, v, h
  <2>5. IsSeq(<<h>>) /\ Len(<<h>>) = 1 /\ <<h>>[1] = h
    BY FixedSeqs
  <2>6. /\ Len(c.args) = 1 + n /\ c.args[1] = h
        /\ \A k \in 2..(1 + n) : k - 1 \in DOMAIN v /\ c.args[k] = v[k - 1]
    <3>1. Len(<<h>> \o v) = 1 + n
      BY <1>2, <2>5, Shifted DEF n
    <3>2. (<<h>> \o v)[1] = h
      BY <1>2, <2>5, Shifted
    <3>3. \A k \in 2..(1 + n) : k - 1 \in DOMAIN v /\ (<<h>> \o v)[k] = v[k - 1]
      BY <1>2, <2>5, Shifted DEF n
    <3> QED BY <1>1, <2>1, <3>1, <3>2, <3>3
  <2>7. CASE i.op = "StoreLocal"
    <3>1. /\ Len(c.args) = 2 /\ c.args[1] = LocalId(i.local)
          /\ 1 \in DOMAIN i.values /\ c.args[2] = i.values[1]
      BY <2>2, <2>6, <2>7 DEF v
    <3> QED BY <1>1, <2>7, <3>1 DEF Encodes, OperandCounts, ConstantOperands, ValueOperands
  <2>8. CASE i.op = "Binary"
    <3>1. /\ Len(c.args) = 3 /\ 1 \in DOMAIN i.values /\ c.args[2] = i.values[1]
          /\ 2 \in DOMAIN i.values /\ c.args[3] = i.values[2]
      BY <2>3, <2>6, <2>8 DEF v
    <3> QED BY <1>1, <2>8, <3>1 DEF Encodes, OperandCounts, ConstantOperands, ValueOperands
  <2>9. CASE i.op = "BuildArray"
    <3>1. Len(c.args) = 1 + c.args[1] /\ Len(c.args) > 0
      BY <1>2, <2>4, <2>6, <2>9
    <3>2. \A k \in 2..Len(c.args) : k - 1 \in DOMAIN i.values /\ c.args[k] = i.values[k - 1]
      BY <2>6 DEF v
    <3> QED BY <1>1, <2>9, <3>1, <3>2
            DEF Encodes, OperandCounts, ConstantOperands, ValueOperands
  <2> QED BY <1>3, <2>7, <2>8, <2>9
<1>4. CASE i.op = "Call"
  <2> DEFINE h == ConstantId(i.consts[1])
  <2>1. Operands(i) = <<h, n>> \o v
    BY <1>4 DEF Operands
  <2>2. 1 \in DOMAIN i.consts
    BY <1>4 DEF Shaped
  <2> HIDE DEF n, v, h
  <2>3. IsSeq(<<h, n>>) /\ Len(<<h, n>>) = 2 /\ <<h, n>>[1] = h /\ <<h, n>>[2] = n
    BY FixedSeqs
  <2>4. /\ Len(c.args) = 2 + n /\ c.args[1] = h /\ c.args[2] = n
        /\ \A k \in 3..(2 + n) : k - 2 \in DOMAIN v /\ c.args[k] = v[k - 2]
    <3>1. Len(<<h, n>> \o v) = 2 + n
      BY <1>2, <2>3, Shifted DEF n
    <3>2. (<<h, n>> \o v)[1] = h /\ (<<h, n>> \o v)[2] = n
      BY <1>2, <2>3, Shifted
    <3>3. \A k \in 3..(2 + n) : k - 2 \in DOMAIN v /\ (<<h, n>> \o v)[k] = v[k - 2]
      BY <1>2, <2>3, Shifted DEF n
    <3> QED BY <1>1, <2>1, <3>1, <3>2, <3>3
  <2>5. Len(c.args) = 2 + c.args[2] /\ Len(c.args) > 1
    BY <1>2, <2>4
  <2>6. \A k \in 3..Len(c.args) : k - 2 \in DOMAIN i.values /\ c.args[k] = i.values[k - 2]
    BY <2>4 DEF v
  <2>7. c.args[1] = ConstantId(i.consts[1])
    BY <2>4 DEF h
  <2> QED BY <1>1, <1>4, <2>2, <2>5, <2>6, <2>7
          DEF Encodes, OperandCounts, ConstantOperands, ValueOperands
<1>5. CASE i.op = "Return"
  <2>1. Operands(i) = v \o <<>>
    BY <1>5 DEF Operands, Shaped
  <2>2. n <= 1
    BY <1>5 DEF Shaped
  <2> HIDE DEF n, v
  <2>3. Len(c.args) = n /\ \A k \in 1..n : c.args[k] = v[k]
    <3>1. Len(v \o <<>>) = n
      BY <1>2, FixedSeqs, Shifted DEF n
    <3>2. \A k \in 1..n : (v \o <<>>)[k] = v[k]
      BY <1>2, FixedSeqs, Shifted DEF n
    <3> QED BY <1>1, <2>1, <3>1, <3>2
  <2>4. \A k \in 1..Len(c.args) : k \in DOMAIN i.values /\ c.args[k] = i.values[k]
    BY <1>2, <2>3 DEF v
  <2> QED BY <1>1, <1>2, <1>5, <2>2, <2>3, <2>4
          DEF Encodes, OperandCounts, ConstantOperands, ValueOperands
<1> QED BY <1>3, <1>4, <1>5

\* Halves, for the operands of object literals, which come in pairs.
LEMMA Halves ==
  ASSUME NEW p \in Nat
  PROVE  /\ (2 * p) % 2 = 0 /\ (2 * p) \div 2 = p
         /\ (2 * p + 1) % 2 = 1 /\ (2 * p + 1) \div 2 = p
OBVIOUS

\* Object literals: a count, then constants and values by turns.
LEMMA ObjectEncodes ==
  ASSUME NEW i, Shaped(i), i.op = "BuildObject", NEW c, c.op = i.op, c.args = Operands(i)
  PROVE  Encodes(i, c)
<1> DEFINE n == Len(i.values)
           a == [k \in 1..(1 + 2 * n) |->
                   CASE k = 1 -> n
                     [] k > 1 /\ k % 2 = 0 -> ConstantId(i.consts[k \div 2])
                     [] OTHER -> i.values[k \div 2]]
<1>1. DOMAIN i.values = 1..n /\ n \in Nat /\ DOMAIN i.consts = 1..n
  BY SeqFacts DEF Shaped
<1>2. c.args = a
  BY DEF Operands
<1>3. Len(a) = 1 + 2 * n
  <2> DEFINE W == {a[k] : k \in 1..(1 + 2 * n)}
             m == 1 + 2 * n
  <2>1. a \in [1..m -> W] /\ m \in Nat
    BY <1>1
  <2> HIDE DEF a, W, m
  <2>2. Len(a) = m
    BY <2>1, FunctionIsSeq
  <2> QED BY <2>2 DEF m
<1>4. a[1] = n
  BY <1>1
<1>5. ASSUME NEW p \in 1..n
      PROVE  /\ p \in DOMAIN i.consts /\ a[2 * p] = ConstantId(i.consts[p])
             /\ p \in DOMAIN i.values /\ a[2 * p + 1] = i.values[p]
  <2>1. p \in Nat /\ p \in DOMAIN i.consts /\ p \in DOMAIN i.values
    BY <1>1
  <2>2. a[2 * p] = ConstantId(i.consts[p])
    <3> DEFINE k == 2 * p
    <3>1. k \in 1..(1 + 2 * n) /\ k > 1 /\ k # 1
      BY <1>1
    <3>2. k % 2 = 0 /\ k \div 2 = p
      BY <2>1, Halves
    <3> HIDE DEF k, n
    <3>3. a[k] = ConstantId(i.consts[k \div 2])
      BY <3>1, <3>2
    <3> HIDE DEF a
    <3> QED BY <3>2, <3>3 DEF k
  <2>3. a[2 * p + 1] = i.values[p]
    <3> DEFINE k == 2 * p + 1
    <3>1. k \in 1..(1 + 2 * n) /\ k # 1
      BY <1>1
    <3>2. k % 2 = 1 /\ k \div 2 = p
      BY <2>1, Halves
    <3> HIDE DEF k, n
    <3>3. a[k] = i.values[k \div 2]
      BY <3>1, <3>2
    <3> HIDE DEF a
    <3> QED BY <3>2, <3>3 DEF k
  <2> QED BY <2>1, <2>2, <2>3
<1> HIDE DEF a, n
<1>6. OperandCounts(c)
  BY <1>1, <1>2, <1>3, <1>4 DEF OperandCounts
<1>7. ASSUME NEW q \in ConstantOperands(c)
      PROVE  \E x \in DOMAIN i.consts : c.args[q] = ConstantId(i.consts[x])
  <2>1. PICK p \in 1..n : q = 2 * p
    BY <1>2, <1>4 DEF ConstantOperands
  <2> QED BY <1>2, <1>5, <2>1
<1>8. ASSUME NEW q \in ValueOperands(c)
      PROVE  \E x \in DOMAIN i.values : c.args[q] = i.values[x]
  <2>1. PICK p \in 1..n : q = 2 * p + 1
    BY <1>2, <1>4 DEF ValueOperands
  <2> QED BY <1>2, <1>5, <2>1
<1> QED BY <1>6, <1>7, <1>8 DEF Encodes

\* Every instruction of the body is encoded as the verifier reads it.
LEMMA AllEncode ==
  ASSUME NEW i, Shaped(i), NEW c, c.op = i.op, c.args = Operands(i)
  PROVE  Encodes(i, c)
<1>1. i.op \in {"LoadConst", "LoadLocal", "LoadMember", "StoreMember"} => Encodes(i, c)
  BY FixedEncodes
<1>2. i.op \in {"StoreLocal", "Binary", "BuildArray", "Call", "Return"} => Encodes(i, c)
  BY TrailingEncodes
<1>3. i.op = "BuildObject" => Encodes(i, c)
  BY ObjectEncodes
<1> QED BY <1>1, <1>2, <1>3 DEF Shaped, Opcodes

\* The code of the only block.
compiledBody == [k \in DOMAIN body |-> Compiled(body[k])]

\* Compiling moves no value.
LEMMA CompiledCount ==
  ASSUME StraightBody, NEW k \in DOMAIN body
  PROVE  /\ compiledBody[k].op = body[k].op /\ compiledBody[k].args = Operands(body[k])
         /\ compiledBody[k].typed = body[k].typed /\ compiledBody[k].source = 0
         /\ DefinedCount(compiledBody, k) = DefinedCount(body, k)
<1>1. DOMAIN body = 1..Len(body) /\ Len(body) \in Nat
  BY BodyPlaces
<1>2. \A j \in DOMAIN body : compiledBody[j] = Compiled(body[j])
  BY DEF compiledBody
<1>3. \A j \in 1..(k - 1) : j \in DOMAIN body /\ (Defines(compiledBody[j]) <=> Defines(body[j]))
  BY <1>1, <1>2, CompiledKeeps DEF Defines
<1>4. {j \in 1..(k - 1) : Defines(compiledBody[j])} = {j \in 1..(k - 1) : Defines(body[j])}
  BY <1>3
<1>5. DefinedCount(compiledBody, k) = DefinedCount(body, k)
  BY <1>4 DEF DefinedCount
<1> QED BY <1>2, <1>5, CompiledKeeps

\* The verifier finds the locals the compiler numbered.
LEMMA LocalFound ==
  ASSUME StraightBody, NEW k \in DOMAIN body, NEW bound \in Nat, ReachedBefore(k, bound)
  PROVE  LocalKnown(Len(params), compiledBody, k, bound)
<1>1. DOMAIN body = 1..Len(body) /\ Len(body) \in Nat
  BY BodyPlaces
<1>2. CASE bound < Len(params)
  BY <1>2 DEF LocalKnown
<1>3. CASE \E j \in DOMAIN body :
             j < k /\ body[j].op = "StoreLocal" /\ bound <= LocalId(body[j].local)
  <2>1. PICK j \in DOMAIN body :
          j < k /\ body[j].op = "StoreLocal" /\ bound <= LocalId(body[j].local)
    BY <1>3
  <2>2. compiledBody[j].op = body[j].op /\ compiledBody[j].args = Operands(body[j])
    BY CompiledCount
  <2>3. Encodes(body[j], compiledBody[j])
    BY <2>2, BodyShaped, AllEncode
  <2>4. Len(compiledBody[j].args) = 2 /\ compiledBody[j].args[1] = LocalId(body[j].local)
    BY <2>1, <2>3 DEF Encodes
  <2>5. j \in 1..(k - 1)
    BY <1>1, <2>1
  <2> QED BY <2>1, <2>2, <2>4, <2>5 DEF LocalKnown
<1> QED BY <1>2, <1>3 DEF ReachedBefore

\* The verifier accepts every instruction.
LEMMA InstructionVerifies ==
  ASSUME StraightBody, ReadsVariables, OperatorsTyped, NEW k \in DOMAIN body,
         NEW m, NEW f, m.sources = 1, Len(m.constants) = Cardinality(Pool), f.params = Len(params)
  PROVE  VerifyInstruction(m, f, compiledBody, k)
<1> DEFINE i == body[k]
           c == compiledBody[k]
<1>1. /\ c.op = i.op /\ c.args = Operands(i) /\ c.typed = i.typed /\ c.source = 0
      /\ DefinedCount(compiledBody, k) = DefinedCount(body, k)
  BY CompiledCount
<1>2. Shaped(i)
  BY BodyShaped
<1>3. i.op = "Binary" => i.typed
  BY BodyPlaces DEF OperatorsTyped
<1>4. \A x \in DOMAIN i.consts : ConstantId(i.consts[x]) < Cardinality(Pool)
  BY PoolBound
<1>5. \A x \in DOMAIN i.values : i.values[x] < DefinedCount(body, k)
  BY OperandBound
<1>6. i.op = "LoadLocal" => ReachedBefore(k, LocalId(i.local))
  BY LoadFits
<1>7. i.op = "StoreLocal" => LocalId(i.local) = 0 \/ ReachedBefore(k, LocalId(i.local) - 1)
  BY StoreFits
<1>8. LocalId(i.local) \in Nat
  BY LocalIdOf
<1> HIDE DEF i, c
<1>9. Encodes(i, c)
  BY <1>1, <1>2, AllEncode
<1>10. OperandCounts(c)
  BY <1>9 DEF Encodes
<1>11. \A p \in ConstantOperands(c) : CheckConstant(m, c.args[p])
  BY <1>4, <1>9 DEF Encodes, CheckConstant
<1>12. \A p \in ValueOperands(c) : CheckValue(compiledBody, k, c.args[p])
  BY <1>1, <1>5, <1>9 DEF Encodes, CheckValue
<1>13. BlockOperands(c) = {}
  BY <1>1, <1>2 DEF Shaped, BlockOperands
<1>14. c.op = "LoadLocal" => CheckLocal(f.params, compiledBody, k, c.args[1])
  <2>1. SUFFICES ASSUME c.op = "LoadLocal"
                 PROVE  CheckLocal(f.params, compiledBody, k, c.args[1])
    OBVIOUS
  <2>2. c.args[1] = LocalId(i.local) /\ ReachedBefore(k, LocalId(i.local))
    BY <1>1, <1>6, <1>9, <2>1 DEF Encodes
  <2>3. LocalKnown(Len(params), compiledBody, k, LocalId(i.local))
    BY <1>8, <2>2, LocalFound
  <2> QED BY <2>2, <2>3 DEF CheckLocal
<1>15. c.op = "StoreLocal" =>
         c.args[1] = 0 \/ LocalKnown(f.params, compiledBody, k, c.args[1] - 1)
  <2>1. SUFFICES ASSUME c.op = "StoreLocal", LocalId(i.local) # 0
                 PROVE  LocalKnown(f.params, compiledBody, k, c.args[1] - 1)
    BY <1>1, <1>9 DEF Encodes
  <2>2. c.args[1] = LocalId(i.local)
    BY <1>1, <1>9, <2>1 DEF Encodes
  <2> DEFINE l == LocalId(i.local) - 1
  <2>3. ReachedBefore(k, l) /\ l \in Nat
    BY <1>1, <1>7, <1>8, <2>1
  <2> HIDE DEF l
  <2>4. LocalKnown(Len(params), compiledBody, k, l)
    BY <2>3, LocalFound
  <2> QED BY <2>2, <2>4 DEF l
<1>16. c.op = "Binary" => c.typed
  BY <1>1, <1>3
<1>17. c.source < m.sources
  BY <1>1
<1> QED BY <1>10, <1>11, <1>12, <1>13, <1>14, <1>15, <1>16, <1>17 DEF VerifyInstruction, c

\* So it accepts the module.
LEMMA BodyVerifies ==
  ASSUME StraightBody, Returns, ReadsVariables, OperatorsTyped
  PROVE  VerifyModule(CompiledModule)
<1> DEFINE m == CompiledModule
           f == CompiledFunction
<1>1. /\ m.header /\ m.functions = <<f>> /\ m.sources = 1
      /\ m.constants = [k \in 1..Cardinality(Pool) |-> CHOOSE c \in Pool : ConstantId(c) = k - 1]
  BY DEF CompiledModule
<1>2. Len(m.constants) = Cardinality(Pool)
  <2> DEFINE n == Cardinality(Pool)
             g == m.constants
             W == {g[k] : k \in 1..n}
  <2>1. n \in Nat
    BY PoolBound
  <2>2. g \in [1..n -> W]
    BY <1>1
  <2> HIDE DEF n, g, W
  <2>3. Len(g) = n
    BY <2>1, <2>2, FunctionIsSeq
  <2> QED BY <2>3 DEF n, g
<1>3. f.params = Len(params) /\ f.exceptions = <<>>
  BY DEF CompiledFunction
<1>4. /\ DOMAIN f.blocks = {1} /\ f.blocks[1].code = compiledBody
  <2>1. f.blocks = [b \in DOMAIN blocks |->
                      [id |-> b - 1, code |-> [k \in DOMAIN blocks[b] |-> Compiled(blocks[b][k])]]]
    BY DEF CompiledFunction
  <2>2. DOMAIN blocks = {1}
    BY BodyPlaces
  <2> HIDE DEF f
  <2> QED BY <2>1, <2>2 DEF compiledBody, body
<1>5. DOMAIN compiledBody = DOMAIN body
  BY DEF compiledBody
<1> HIDE DEF m, f
<1>6. \A k \in DOMAIN body : VerifyInstruction(m, f, compiledBody, k)
  BY <1>1, <1>2, <1>3, InstructionVerifies
<1>7. \E k \in DOMAIN body : Terminates(compiledBody[k])
  <2>1. PICK p \in Places : Instruction(p).op = "Return"
    BY DEF Returns
  <2>2. p[2] \in DOMAIN body /\ body[p[2]].op = "Return"
    BY <2>1, BodyPlaces
  <2> QED BY <2>2, CompiledCount DEF Terminates
<1>8. VerifyFunction(m, f)
  <2>1. DOMAIN f.exceptions = {}
    BY <1>3, FixedSeqs
  <2>2. \A b \in DOMAIN f.blocks : \A k \in DOMAIN f.blocks[b].code :
          VerifyInstruction(m, f, f.blocks[b].code, k)
    BY <1>4, <1>5, <1>6
  <2>3. \E b \in DOMAIN f.blocks : \E k \in DOMAIN f.blocks[b].code :
          Terminates(f.blocks[b].code[k])
    BY <1>4, <1>5, <1>7
  <2> QED BY <2>1, <2>2, <2>3 DEF VerifyFunction
<1>9. DOMAIN m.functions = {1} /\ m.functions[1] = f /\ m.functions # <<>>
  BY <1>1, FixedSeqs
<1>10. VerifyModule(m)
  BY <1>1, <1>8, <1>9 DEF VerifyModule
<1> QED BY <1>10 DEF m

\* A function without an if that returns, uses variables in scope only and has typed
\* operators compiles to a module the verifier accepts, however long it is: what
\* FunctionLowerer numbers, what the Compiler numbers and what verify_instruction
\* counts are the same.
THEOREM StraightVerifies == Spec => []StraightLineVerifies
<1>1. LowerInv /\ StraightInv => StraightLineVerifies
  BY BodyVerifies DEF StraightLineVerifies, StraightBody
<1> QED BY <1>1, LowerInvariant, StraightInvariant, PTL
=============================================================================
