---------------------------- MODULE SequenceFacts ----------------------------
(***************************************************************************)
(* Facts about sequences and about least elements that the proofs of       *)
(* several components share.                                               *)
(***************************************************************************)
EXTENDS Integers, Sequences, SequencesExt, SequenceTheorems, WellFoundedInduction, TLAPS

\* A sequence, over whatever it holds.
IsSeq(s) == s \in Seq({s[k] : k \in DOMAIN s})

\* A set of natural numbers that is not empty has a least element.
LEMMA LeastOf ==
  ASSUME NEW S \in SUBSET Nat, S # {}
  PROVE  \E x \in S : \A y \in S : ~(y < x)
<1>1. IsWellFoundedOn(OpToRel(<, Nat), Nat)
  BY NatLessThanWellFounded, Zenon
<1>2. PICK x \in S : \A y \in S : ~(<<y, x>> \in OpToRel(<, Nat))
  BY <1>1, WFMin, Zenon
<1>3. \A y \in S : ~(y < x)
  BY <1>2, Zenon DEF OpToRel
<1> QED BY <1>3, Zenon

\* A non-empty set of numbers up to n has a greatest element.
LEMMA GreatestOf ==
  ASSUME NEW n \in Nat, NEW S \in SUBSET (1..n), S # {}
  PROVE  \E x \in S : \A y \in S : y <= x
<1> DEFINE T == {n - x : x \in S}
<1>1. T \in SUBSET Nat /\ T # {}
  <2>1. \A x \in S : n - x \in Nat
    OBVIOUS
  <2>2. PICK x \in S : TRUE
    OBVIOUS
  <2>3. n - x \in T
    BY <2>2
  <2> QED BY <2>1, <2>3
<1>2. PICK t \in T : \A u \in T : ~(u < t)
  BY <1>1, LeastOf
<1>3. PICK x \in S : t = n - x
  OBVIOUS
<1>4. ASSUME NEW y \in S PROVE y <= x
  <2>1. n - y \in T
    OBVIOUS
  <2>2. ~(n - y < n - x)
    BY <1>2, <1>3, <2>1
  <2> QED BY <2>2
<1> QED BY <1>4

\* Intervals from 1 that are equal have equal ends.
LEMMA IntervalEnd ==
  ASSUME NEW k \in Nat, NEW n \in Nat, 1..k = 1..n
  PROVE  k = n
<1>1. CASE k < n
  <2>1. n \in 1..n /\ n \notin 1..k
    BY <1>1
  <2> QED BY <2>1
<1>2. CASE n < k
  <2>1. k \in 1..k /\ k \notin 1..n
    BY <1>2
  <2> QED BY <2>1
<1> QED BY <1>1, <1>2

\* A function on 1 .. n is a sequence of length n.
LEMMA FunctionIsSeq ==
  ASSUME NEW S, NEW n \in Nat, NEW f \in [1..n -> S]
  PROVE  f \in Seq(S) /\ Len(f) = n
<1>1. f \in Seq(S)
  BY SeqDef
<1>2. DOMAIN f = 1..Len(f) /\ Len(f) \in Nat /\ DOMAIN f = 1..n
  BY <1>1, LenProperties
<1> QED BY <1>1, <1>2, IntervalEnd

\* Sequences over any set are sequences over what they hold.
LEMMA SeqIsSeq ==
  ASSUME NEW S, NEW s \in Seq(S)
  PROVE  IsSeq(s)
<1>1. DOMAIN s = 1..Len(s) /\ Len(s) \in Nat
  BY LenProperties
<1>2. s \in [1..Len(s) -> {s[k] : k \in DOMAIN s}]
  BY <1>1, LenProperties
<1> QED BY <1>1, <1>2, FunctionIsSeq DEF IsSeq

\* A sequence is a function on the numbers up to its length.
LEMMA SeqFacts ==
  ASSUME NEW s, IsSeq(s)
  PROVE  /\ DOMAIN s = 1..Len(s) /\ Len(s) \in Nat
         /\ s = <<>> <=> Len(s) = 0
BY LenProperties, EmptySeq DEF IsSeq

\* Append adds one element at the end.
LEMMA AppendFacts ==
  ASSUME NEW s, IsSeq(s), NEW v
  PROVE  LET t == Append(s, v)
         IN  /\ IsSeq(t) /\ DOMAIN t = 1..(Len(s) + 1) /\ Len(t) = Len(s) + 1
             /\ t[Len(s) + 1] = v
             /\ \A k \in DOMAIN s : t[k] = s[k]
<1> DEFINE W == {s[k] : k \in DOMAIN s} \union {v}
           t == Append(s, v)
<1>1. s \in Seq(W) /\ v \in W
  BY SeqMonotonic DEF IsSeq
<1> HIDE DEF W
<1>2. /\ t \in Seq(W) /\ Len(t) = Len(s) + 1 /\ t[Len(s) + 1] = v
      /\ \A k \in 1..Len(s) : t[k] = s[k]
  BY <1>1, AppendProperties
<1>3. DOMAIN s = 1..Len(s) /\ DOMAIN t = 1..Len(t)
  BY <1>1, <1>2, LenProperties
<1>4. IsSeq(t)
  BY <1>2, SeqIsSeq
<1> QED BY <1>2, <1>3, <1>4

\* A beginning of a sequence.
LEMMA PrefixFacts ==
  ASSUME NEW s, IsSeq(s), NEW n \in Nat, n <= Len(s)
  PROVE  LET t == SubSeq(s, 1, n)
         IN  /\ IsSeq(t) /\ DOMAIN t = 1..n /\ Len(t) = n
             /\ \A k \in 1..n : k \in DOMAIN s /\ t[k] = s[k]
<1> DEFINE V == {s[k] : k \in DOMAIN s}
           t == SubSeq(s, 1, n)
<1>1. s \in Seq(V)
  BY DEF IsSeq
<1>2. DOMAIN s = 1..Len(s) /\ Len(s) \in Nat /\ \A k \in 1..Len(s) : s[k] \in V
  BY SeqFacts
<1> HIDE DEF V
<1>3. \A k \in 1..n : k \in DOMAIN s /\ s[k] \in V
  BY <1>2
<1>4. /\ t \in Seq(V) /\ Len(t) = IF 1 <= n THEN n - 1 + 1 ELSE 0
      /\ \A k \in 1..(n - 1 + 1) : t[k] = s[1 + k - 1]
  BY <1>3, SubSeqProperties
<1>5. DOMAIN t = 1..Len(t) /\ IsSeq(t)
  BY <1>4, LenProperties, SeqIsSeq
<1> HIDE DEF t
<1>6. Len(t) = n /\ \A k \in 1..n : t[k] = s[k]
  BY <1>4
<1> QED BY <1>3, <1>5, <1>6 DEF t

\* One sequence after another.
LEMMA ConcatFacts ==
  ASSUME NEW s, NEW t, IsSeq(s), IsSeq(t)
  PROVE  /\ IsSeq(s \o t)
         /\ DOMAIN (s \o t) = 1..(Len(s) + Len(t)) /\ Len(s \o t) = Len(s) + Len(t)
         /\ \A k \in DOMAIN s : (s \o t)[k] = s[k]
         /\ \A k \in DOMAIN t : (s \o t)[Len(s) + k] = t[k]
         /\ \A k \in DOMAIN (s \o t) : \/ \E j \in DOMAIN s : (s \o t)[k] = s[j]
                                      \/ \E j \in DOMAIN t : (s \o t)[k] = t[j]
<1> DEFINE W == {s[k] : k \in DOMAIN s} \union {t[k] : k \in DOMAIN t}
           u == s \o t
<1>1. s \in Seq(W) /\ t \in Seq(W)
  BY SeqMonotonic DEF IsSeq
<1> HIDE DEF W
<1>2. /\ u \in Seq(W) /\ Len(u) = Len(s) + Len(t)
      /\ \A k \in 1..Len(s) : u[k] = s[k]
      /\ \A k \in 1..Len(t) : u[Len(s) + k] = t[k]
  BY <1>1, ConcatProperties
<1>3. /\ DOMAIN u = 1..Len(u) /\ DOMAIN s = 1..Len(s) /\ DOMAIN t = 1..Len(t)
      /\ Len(s) \in Nat /\ Len(t) \in Nat
  BY <1>1, <1>2, LenProperties
<1>4. IsSeq(u)
  BY <1>2, SeqIsSeq
<1>5. \A k \in DOMAIN u : u[k] \in W
  BY <1>2, <1>3, ElementOfSeq
<1> QED BY <1>2, <1>3, <1>4, <1>5 DEF W

\* The same by parts: s \o t holds what its two parts hold,
LEMMA ConcatHolds ==
  ASSUME NEW s, NEW t, IsSeq(s), IsSeq(t)
  PROVE  \A k \in DOMAIN (s \o t) : \/ \E j \in DOMAIN s : (s \o t)[k] = s[j]
                                    \/ \E j \in DOMAIN t : (s \o t)[k] = t[j]
<1> DEFINE W == {s[k] : k \in DOMAIN s} \union {t[k] : k \in DOMAIN t}
           u == s \o t
<1>1. s \in Seq(W) /\ t \in Seq(W)
  BY SeqMonotonic DEF IsSeq
<1> HIDE DEF W
<1>2. u \in Seq(W)
  BY <1>1, ConcatProperties
<1>3. \A k \in DOMAIN u : u[k] \in W
  BY <1>2, LenProperties, ElementOfSeq
<1> HIDE DEF u
<1>4. \A k \in DOMAIN u : (\E j \in DOMAIN s : u[k] = s[j]) \/ (\E j \in DOMAIN t : u[k] = t[j])
  BY <1>3 DEF W
<1> QED BY <1>4, Zenon DEF u

\* and those of t behind those of s.
LEMMA ConcatBehind ==
  ASSUME NEW s, NEW t, IsSeq(s), IsSeq(t)
  PROVE  \A k \in DOMAIN t : (s \o t)[Len(s) + k] = t[k]
<1> DEFINE W == {s[k] : k \in DOMAIN s} \union {t[k] : k \in DOMAIN t}
<1>1. s \in Seq(W) /\ t \in Seq(W)
  BY SeqMonotonic DEF IsSeq
<1>2. DOMAIN t = 1..Len(t)
  BY SeqFacts
<1> HIDE DEF W
<1> QED BY <1>1, <1>2, ConcatProperties

\* Concatenation may be read from either side.
LEMMA ConcatAssoc ==
  ASSUME NEW s, NEW t, NEW u, IsSeq(s), IsSeq(t), IsSeq(u)
  PROVE  (s \o t) \o u = s \o (t \o u)
<1> DEFINE W == {s[k] : k \in DOMAIN s} \union {t[k] : k \in DOMAIN t} \union {u[k] : k \in DOMAIN u}
<1>1. s \in Seq(W) /\ t \in Seq(W) /\ u \in Seq(W)
  BY SeqMonotonic DEF IsSeq
<1> HIDE DEF W
<1> QED BY <1>1, ConcatAssociative

\* The same as a predicate, to be stated of long concatenations.
Regroups(s, t, u) == (s \o t) \o u = s \o (t \o u)

LEMMA Regroup == \A s, t, u : IsSeq(s) /\ IsSeq(t) /\ IsSeq(u) => Regroups(s, t, u)
<1> SUFFICES ASSUME NEW s, NEW t, NEW u, IsSeq(s), IsSeq(t), IsSeq(u) PROVE Regroups(s, t, u)
  OBVIOUS
<1> QED BY ConcatAssoc DEF Regroups

LEMMA Joined == \A s, t : IsSeq(s) /\ IsSeq(t) => IsSeq(s \o t)
<1> SUFFICES ASSUME NEW s, NEW t, IsSeq(s), IsSeq(t) PROVE IsSeq(s \o t)
  OBVIOUS
<1> QED BY ConcatFacts, Zenon

\* The sequences so far, one after the other.
FlattenedTo(seqs, m, f) ==
  f = [i \in 1..m |-> IF i = 1 THEN seqs[i] ELSE f[i - 1] \o seqs[i]]

\* They are there, for any number.
LEMMA FlattenedExists ==
  ASSUME NEW seqs
  PROVE  \A m \in Nat : \E f : FlattenedTo(seqs, m, f)
<1> DEFINE Bad == {m \in Nat : ~ \E f : FlattenedTo(seqs, m, f)}
<1> SUFFICES ASSUME Bad # {} PROVE FALSE
  OBVIOUS
<1>1. PICK m \in Bad : \A k \in Bad : ~(k < m)
  BY LeastOf
<1>2. CASE m = 0
  <2> DEFINE f == [i \in 1..0 |-> seqs]
  <2>1. FlattenedTo(seqs, 0, f)
    BY DEF FlattenedTo
  <2> QED BY <1>2, <2>1
<1>3. CASE m # 0
  <2>1. m \in Nat /\ m - 1 \in Nat /\ m - 1 < m
    BY <1>3
  <2>2. PICK g : FlattenedTo(seqs, m - 1, g)
    BY <1>1, <2>1
  <2>3. \A i \in 1..(m - 1) : g[i] = IF i = 1 THEN seqs[i] ELSE g[i - 1] \o seqs[i]
    BY <2>2 DEF FlattenedTo
  <2> DEFINE last == IF m = 1 THEN seqs[m] ELSE g[m - 1] \o seqs[m]
             f == [i \in 1..m |-> IF i < m THEN g[i] ELSE last]
  <2>4. \A i \in 1..(m - 1) : i \in 1..m /\ i < m /\ f[i] = g[i]
    BY <2>1
  <2>5. m \in 1..m /\ ~(m < m) /\ f[m] = last
    BY <2>1
  <2>6. f = [i \in 1..m |-> f[i]]
    OBVIOUS
  <2> HIDE DEF f
  <2>7. ASSUME NEW i \in 1..m PROVE f[i] = IF i = 1 THEN seqs[i] ELSE f[i - 1] \o seqs[i]
    <3>1. CASE i < m
      <4>1. i \in 1..(m - 1) /\ (i # 1 => i - 1 \in 1..(m - 1))
        BY <2>1, <3>1
      <4> QED BY <2>3, <2>4, <4>1
    <3>2. CASE ~(i < m)
      <4>1. i = m /\ (i # 1 => i - 1 \in 1..(m - 1))
        BY <2>1, <3>2
      <4> QED BY <2>4, <2>5, <4>1
    <3> QED BY <3>1, <3>2
  <2>8. FlattenedTo(seqs, m, f)
    BY <2>6, <2>7, Zenon DEF FlattenedTo
  <2> QED BY <1>1, <2>8
<1> QED BY <1>2, <1>3

\* FlattenSeq as the last of its partial results.
Partials(seqs, p) ==
  /\ p[0] = <<>> /\ p[Len(seqs)] = FlattenSeq(seqs)
  /\ \A i \in 1 .. Len(seqs) : p[i] = p[i - 1] \o seqs[i]
  /\ \A i \in 0 .. Len(seqs) : IsSeq(p[i])

LEMMA PartialsExist ==
  ASSUME NEW seqs, IsSeq(seqs), \A c \in DOMAIN seqs : IsSeq(seqs[c])
  PROVE  \E p : Partials(seqs, p)
<1> DEFINE N == Len(seqs)
           f == CHOOSE g : FlattenedTo(seqs, N, g)
           p == [i \in 0..N |-> IF i = 0 THEN <<>> ELSE f[i]]
<1>1. N \in Nat /\ DOMAIN seqs = 1..N /\ (seqs = <<>> <=> N = 0)
  BY SeqFacts
<1>2. FlattenedTo(seqs, N, f)
  BY <1>1, FlattenedExists
<1>3. FlattenSeq(seqs) = IF N = 0 THEN <<>> ELSE f[N]
  BY <1>1 DEF FlattenSeq, FlattenedTo
<1> HIDE DEF f
<1>4. \A i \in 1..N : f[i] = IF i = 1 THEN seqs[i] ELSE f[i - 1] \o seqs[i]
  BY <1>2 DEF FlattenedTo
<1>5. IsSeq(<<>>)
  <2>1. <<>> \in Seq({1})
    OBVIOUS
  <2> QED BY <2>1, SeqIsSeq, Zenon
<1>6. ASSUME NEW s, IsSeq(s) PROVE <<>> \o s = s
  BY <1>6, ConcatEmptySeq DEF IsSeq
<1>7. p[0] = <<>> /\ \A i \in 1..N : p[i] = f[i]
  BY <1>1
<1>8. p[N] = FlattenSeq(seqs)
  BY <1>1, <1>3, <1>7
<1> HIDE DEF p
<1>9. ASSUME NEW i \in 1..N PROVE p[i] = p[i - 1] \o seqs[i]
  <2>1. CASE i = 1
    <3>1. p[i] = seqs[i]
      BY <1>4, <1>7, <2>1
    <3>2. IsSeq(seqs[i])
      BY <1>1
    <3>3. p[i - 1] = <<>>
      BY <1>7, <2>1
    <3> QED BY <1>6, <3>1, <3>2, <3>3
  <2>2. CASE i # 1
    <3>1. i - 1 \in 1..N
      BY <1>1, <2>2
    <3> QED BY <1>4, <1>7, <2>2, <3>1
  <2> QED BY <2>1, <2>2
<1>10. \A i \in 0..N : IsSeq(p[i])
  <2> DEFINE Bad == {i \in 0..N : ~IsSeq(p[i])}
  <2> SUFFICES ASSUME Bad # {} PROVE FALSE
    OBVIOUS
  <2> Bad \in SUBSET Nat
    BY <1>1
  <2>1. PICK i \in Bad : \A j \in Bad : ~(j < i)
    BY LeastOf
  <2>2. i # 0
    BY <1>5, <1>7, <2>1
  <2>3. i - 1 \in 0..N /\ i \in 1..N /\ i - 1 < i
    BY <1>1, <2>1, <2>2
  <2>4. IsSeq(p[i - 1]) /\ IsSeq(seqs[i])
    BY <1>1, <2>1, <2>3
  <2>5. p[i] = p[i - 1] \o seqs[i]
    BY <1>9, <2>3
  <2>6. IsSeq(p[i])
    BY <2>4, <2>5, ConcatFacts
  <2> QED BY <2>1, <2>6
<1> QED BY <1>7, <1>8, <1>9, <1>10 DEF Partials

\* Sequences of one length that hold the same are equal.
LEMMA SameSeq ==
  ASSUME NEW s, NEW t, IsSeq(s), IsSeq(t), Len(s) = Len(t),
         \A k \in 1..Len(s) : s[k] = t[k]
  PROVE  s = t
<1> DEFINE U == {s[k] : k \in DOMAIN s} \union {t[k] : k \in DOMAIN t}
<1>1. s \in Seq(U) /\ t \in Seq(U)
  BY SeqMonotonic DEF IsSeq
<1> HIDE DEF U
<1> QED BY <1>1, SeqEqual

\* A sequence grows from nothing, one element at a time.
LEMMA PrefixGrows ==
  ASSUME NEW s, IsSeq(s)
  PROVE  /\ SubSeq(s, 1, 0) = <<>> /\ SubSeq(s, 1, Len(s)) = s
         /\ \A k \in 1..Len(s) : SubSeq(s, 1, k) = Append(SubSeq(s, 1, k - 1), s[k])
<1>1. Len(s) \in Nat /\ DOMAIN s = 1..Len(s)
  BY SeqFacts
<1>2. SubSeq(s, 1, 0) = <<>>
  <2>1. IsSeq(SubSeq(s, 1, 0)) /\ Len(SubSeq(s, 1, 0)) = 0
    BY <1>1, PrefixFacts
  <2> QED BY <2>1, SeqFacts
<1>3. SubSeq(s, 1, Len(s)) = s
  <2> DEFINE t == SubSeq(s, 1, Len(s))
  <2>1. IsSeq(t) /\ Len(t) = Len(s) /\ \A k \in 1..Len(s) : t[k] = s[k]
    BY <1>1, PrefixFacts
  <2> HIDE DEF t
  <2>2. t = s
    BY <2>1, SameSeq
  <2> QED BY <2>2 DEF t
<1>4. ASSUME NEW k \in 1..Len(s) PROVE SubSeq(s, 1, k) = Append(SubSeq(s, 1, k - 1), s[k])
  <2> DEFINE t == SubSeq(s, 1, k)
             u == SubSeq(s, 1, k - 1)
             v == s[k]
  <2>1. k \in Nat /\ k <= Len(s) /\ k - 1 \in Nat /\ k - 1 <= Len(s)
    BY <1>1
  <2>2. IsSeq(t) /\ Len(t) = k /\ \A j \in 1..k : t[j] = s[j]
    BY <2>1, PrefixFacts
  <2>3. IsSeq(u) /\ Len(u) = k - 1 /\ DOMAIN u = 1..(k - 1) /\ \A j \in 1..(k - 1) : u[j] = s[j]
    BY <2>1, PrefixFacts
  <2> HIDE DEF t, u, v
  <2> DEFINE a == Append(u, v)
  <2>4. /\ IsSeq(a) /\ Len(a) = Len(u) + 1 /\ a[Len(u) + 1] = v
        /\ \A j \in DOMAIN u : a[j] = u[j]
    BY <2>3, AppendFacts
  <2> HIDE DEF a
  <2>5. Len(a) = Len(t)
    BY <2>1, <2>2, <2>3, <2>4
  <2>6. ASSUME NEW j \in 1..k PROVE t[j] = a[j]
    <3>1. CASE j = k
      <4>1. a[k] = v /\ v = s[k] /\ t[k] = s[k]
        BY <2>1, <2>2, <2>3, <2>4 DEF v
      <4> QED BY <3>1, <4>1
    <3>2. CASE j # k
      <4>1. j \in 1..(k - 1)
        BY <2>1, <3>2
      <4> QED BY <2>2, <2>3, <2>4, <4>1
    <3> QED BY <3>1, <3>2
  <2>7. t = a
    BY <2>2, <2>4, <2>5, <2>6, SameSeq
  <2> QED BY <2>7 DEF t, u, v, a
<1> QED BY <1>2, <1>3, <1>4

\* What FlattenSeq gives is a sequence.
LEMMA FlattenIsSeq ==
  ASSUME NEW seqs, IsSeq(seqs), \A c \in 1..Len(seqs) : IsSeq(seqs[c])
  PROVE  IsSeq(FlattenSeq(seqs))
<1>1. DOMAIN seqs = 1..Len(seqs) /\ Len(seqs) \in Nat
  BY SeqFacts
<1>2. PICK p : Partials(seqs, p)
  BY <1>1, PartialsExist
<1> QED BY <1>1, <1>2 DEF Partials

\* A sequence made of another, element by element.
LEMMA MappedSeq ==
  ASSUME NEW s, IsSeq(s), NEW t, t = [k \in DOMAIN s |-> t[k]]
  PROVE  IsSeq(t) /\ Len(t) = Len(s) /\ DOMAIN t = DOMAIN s /\ DOMAIN t = 1..Len(t)
<1> DEFINE V == {t[k] : k \in DOMAIN s}
<1>1. DOMAIN s = 1..Len(s) /\ Len(s) \in Nat
  BY SeqFacts
<1>2. t \in [1..Len(s) -> V]
  BY <1>1
<1> HIDE DEF V
<1>3. t \in Seq(V) /\ Len(t) = Len(s)
  BY <1>1, <1>2, FunctionIsSeq
<1>4. IsSeq(t)
  BY <1>3, SeqIsSeq
<1> QED BY <1>1, <1>2, <1>3, <1>4

\* Longer concatenations, from the right.
LEMMA ConcatAssoc4 ==
  ASSUME NEW a, NEW b, NEW c, NEW d, IsSeq(a), IsSeq(b), IsSeq(c), IsSeq(d)
  PROVE  /\ ((a \o b) \o c) \o d = a \o (b \o (c \o d))
         /\ IsSeq(a \o b) /\ IsSeq(c \o d) /\ IsSeq(b \o (c \o d)) /\ IsSeq(a \o (b \o (c \o d)))
<1>1. IsSeq(a \o b) /\ IsSeq(c \o d)
  BY Joined, Zenon
<1>2. IsSeq(b \o (c \o d))
  BY <1>1, Joined, Zenon
<1>3. IsSeq(a \o (b \o (c \o d)))
  BY <1>2, Joined, Zenon
<1>4. Regroups(a \o b, c, d) /\ Regroups(a, b, c \o d)
  BY <1>1, Regroup, Zenon
<1>5. ((a \o b) \o c) \o d = a \o (b \o (c \o d))
  BY <1>4, Zenon DEF Regroups
<1> QED BY <1>1, <1>2, <1>3, <1>5, Zenon

LEMMA ConcatAssoc5 ==
  ASSUME NEW a, NEW b, NEW c, NEW d, NEW e,
         IsSeq(a), IsSeq(b), IsSeq(c), IsSeq(d), IsSeq(e)
  PROVE  /\ (((a \o b) \o c) \o d) \o e = a \o (b \o (c \o (d \o e)))
         /\ IsSeq(d \o e) /\ IsSeq(c \o (d \o e)) /\ IsSeq(b \o (c \o (d \o e)))
         /\ IsSeq(a \o (b \o (c \o (d \o e))))
<1>1. IsSeq(a \o b) /\ IsSeq(d \o e)
  BY Joined, Zenon
<1>2. IsSeq((a \o b) \o c) /\ IsSeq(c \o (d \o e))
  BY <1>1, Joined, Zenon
<1>3. IsSeq(b \o (c \o (d \o e)))
  BY <1>2, Joined, Zenon
<1>4. IsSeq(a \o (b \o (c \o (d \o e))))
  BY <1>3, Joined, Zenon
<1>5. /\ Regroups((a \o b) \o c, d, e) /\ Regroups(a \o b, c, d \o e)
      /\ Regroups(a, b, c \o (d \o e))
  BY <1>1, <1>2, Regroup, Zenon
<1>6. (((a \o b) \o c) \o d) \o e = a \o (b \o (c \o (d \o e)))
  BY <1>5, Zenon DEF Regroups
<1> QED BY <1>1, <1>2, <1>3, <1>4, <1>6, Zenon

\* FlattenSeq of three.
Three(a, b, c) == (a \o b) \o c

LEMMA FlattenThree ==
  ASSUME NEW s, IsSeq(s), Len(s) = 3, NEW a, NEW b, NEW c, s[1] = a, s[2] = b, s[3] = c,
         IsSeq(a), IsSeq(b), IsSeq(c)
  PROVE  FlattenSeq(s) = Three(a, b, c)
<1>1. Len(s) = 3 /\ s[1] = a /\ s[2] = b /\ s[3] = c
  OBVIOUS
<1>2. IsSeq(s) /\ DOMAIN s = 1..3
  BY <1>1, SeqFacts
<1>3. \A k \in DOMAIN s : IsSeq(s[k])
  <2>1. \A k \in 1..3 : k = 1 \/ k = 2 \/ k = 3
    OBVIOUS
  <2> QED BY <1>1, <1>2, <2>1
<1>4. PICK p : Partials(s, p)
  BY <1>2, <1>3, PartialsExist
<1>5. /\ p[0] = <<>> /\ p[3] = FlattenSeq(s)
      /\ p[1] = p[0] \o s[1] /\ p[2] = p[1] \o s[2] /\ p[3] = p[2] \o s[3]
  <2> DEFINE q(i) == p[i - 1] \o s[i]
  <2>1. \A i \in 1..3 : p[i] = q(i)
    BY <1>1, <1>4 DEF Partials
  <2>2. p[0] = <<>> /\ p[3] = FlattenSeq(s)
    BY <1>1, <1>4 DEF Partials
  <2>3. q(1) = p[0] \o s[1] /\ q(2) = p[1] \o s[2] /\ q(3) = p[2] \o s[3]
    OBVIOUS
  <2> HIDE DEF q
  <2>4. p[1] = q(1) /\ p[2] = q(2) /\ p[3] = q(3)
    BY <2>1
  <2> QED BY <2>2, <2>3, <2>4, Zenon
<1>6. <<>> \o a = a
  BY ConcatEmptySeq DEF IsSeq
<1>7. p[1] = a /\ p[2] = a \o b /\ p[3] = (a \o b) \o c
  BY <1>1, <1>5, <1>6
<1> QED BY <1>5, <1>7 DEF Three

\* Concatenations by pairs.
AllSeqs(S) == \A s \in S : IsSeq(s)

Eight(n, p, q, r, b, c, x, y) == ((((((n \o p) \o q) \o r) \o b) \o c) \o x) \o y
EightByPairs(n, p, q, r, b, c, x, y) == (((n \o (p \o q)) \o r) \o (b \o c)) \o (x \o y)

LEMMA ConcatPairs ==
  ASSUME NEW n, NEW p, NEW q, NEW r, NEW b, NEW c, NEW x, NEW y,
         AllSeqs({n, p, q, r, b, c, x, y})
  PROVE  Eight(n, p, q, r, b, c, x, y) = EightByPairs(n, p, q, r, b, c, x, y)
<1> DEFINE k == (n \o p) \o q
           l == k \o r
           m == (l \o b) \o c
<1>1. IsSeq(n) /\ IsSeq(p) /\ IsSeq(q) /\ IsSeq(r)
  BY DEF AllSeqs
<1>2. IsSeq(b) /\ IsSeq(c) /\ IsSeq(x) /\ IsSeq(y)
  BY DEF AllSeqs
<1>3. IsSeq(k)
  BY <1>1, Joined, Zenon
<1>4. IsSeq(l)
  BY <1>1, <1>3, Joined, Zenon
<1>5. IsSeq(m)
  BY <1>2, <1>4, Joined, Zenon
<1>6. Regroups(n, p, q)
  BY <1>1, Regroup, Zenon
<1>7. Regroups(l, b, c)
  BY <1>2, <1>4, Regroup, Zenon
<1>8. Regroups(m, x, y)
  BY <1>2, <1>5, Regroup, Zenon
<1> QED BY <1>6, <1>7, <1>8, Zenon DEF Regroups, Eight, EightByPairs

\* The same for seven, of which the second to the fourth belong together.
Seven(h, a, b, c, x, y, z) == (((((h \o a) \o b) \o c) \o x) \o y) \o z
SevenByParts(h, a, b, c, x, y, z) == h \o (((a \o b) \o c) \o (x \o (y \o z)))

LEMMA ConcatParts ==
  ASSUME NEW h, NEW a, NEW b, NEW c, NEW x, NEW y, NEW z, AllSeqs({h, a, b, c, x, y, z})
  PROVE  Seven(h, a, b, c, x, y, z) = SevenByParts(h, a, b, c, x, y, z)
<1> DEFINE t == (a \o b) \o c
           u == h \o t
<1>1. IsSeq(h) /\ IsSeq(a) /\ IsSeq(b) /\ IsSeq(c)
  BY DEF AllSeqs
<1>2. IsSeq(x) /\ IsSeq(y) /\ IsSeq(z)
  BY DEF AllSeqs
<1>3. IsSeq(a \o b) /\ IsSeq(y \o z)
  BY <1>1, <1>2, Joined, Zenon
<1>4. IsSeq(t) /\ IsSeq(x \o (y \o z))
  BY <1>1, <1>2, <1>3, Joined, Zenon
<1>5. IsSeq(u)
  BY <1>1, <1>4, Joined, Zenon
<1>6. IsSeq(u \o x)
  BY <1>2, <1>5, Joined, Zenon
<1>7. Regroups(h, a, b) /\ Regroups(h, a \o b, c)
  BY <1>1, <1>3, Regroup, Zenon
<1>8. Regroups(u \o x, y, z) /\ Regroups(u, x, y \o z)
  BY <1>2, <1>3, <1>5, <1>6, Regroup, Zenon
<1>9. Regroups(h, t, x \o (y \o z))
  BY <1>1, <1>4, Regroup, Zenon
<1>10. ((h \o a) \o b) \o c = u
  BY <1>7, Zenon DEF Regroups
<1>11. ((u \o x) \o y) \o z = h \o (t \o (x \o (y \o z)))
  BY <1>8, <1>9, Zenon DEF Regroups
<1> HIDE DEF u
<1> QED BY <1>10, <1>11, Zenon DEF Seven, SevenByParts
=============================================================================
