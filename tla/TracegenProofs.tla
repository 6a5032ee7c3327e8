--------------------------- MODULE TracegenProofs ---------------------------
(***************************************************************************)
(* Theorems about Tracegen: a reported success is a complete trace, the       *)
(* trace is the accesses of the kernel it stands for, the chase is one cycle   *)
(* and the matrix kernel multiplies, for every command line, all parameters,   *)
(* any draws and any size of the buffer, and whichever writes fail.          *)
(*                                                                         *)
(* What a recursive function computes for every argument is proved without an *)
(* induction theorem: the least counterexample, which there is because < on    *)
(* the naturals is well-founded, would be one step after a place that is no    *)
(* counterexample.                                                         *)
(***************************************************************************)
EXTENDS Tracegen, WellFoundedInduction, FiniteSetTheorems, SequenceTheorems, TLAPS

-----------------------------------------------------------------------------
(* Induction: over a set of numbers, and over a set of subsets.               *)

\* The order of the naturals, as a relation.
Less == {p \in Nat \X Nat : p[1] < p[2]}

\* The pairs of naturals in increasing order form a well-founded relation.
LEMMA LessIsWellFounded == IsWellFoundedOn(Less, Nat)
<1>1. Less = OpToRel(<, Nat)
  BY Zenon DEF Less, OpToRel
<1> QED
  BY <1>1, NatLessThanWellFounded, Zenon

\* A nonempty set of naturals has a least element.
LEMMA LeastExists ==
  ASSUME NEW T \in SUBSET Nat, T # {}
  PROVE  \E x \in T : \A y \in T : x <= y
<1>1. PICK x \in T : \A y \in T : <<y, x>> \notin Less
  BY LessIsWellFounded, WFMin
<1>2. ASSUME NEW y \in T PROVE x <= y
  <2>1. <<y, x>> \in Nat \X Nat /\ <<y, x>> \notin Less
    BY <1>1
  <2>2. ~(<<y, x>>[1] < <<y, x>>[2])
    BY <2>1, Zenon DEF Less
  <2> QED
    BY <2>2
<1> QED
  BY <1>2

\* What holds of 0 and is handed from one number to the next holds of every number.
LEMMA InductionOnNat ==
  ASSUME NEW T, 0 \in T, \A k \in Nat \ {0} : k - 1 \in T => k \in T
  PROVE  \A k \in Nat : k \in T
<1> DEFINE Bad == {k \in Nat : k \notin T}
<1> SUFFICES ASSUME Bad # {} PROVE FALSE
  OBVIOUS
<1>1. PICK k \in Bad : \A y \in Bad : k <= y
  <2> HIDE DEF Bad
  <2>1. Bad \in SUBSET Nat
    BY DEF Bad
  <2> QED
    BY <2>1, LeastExists
<1>2. k \in Nat \ {0}
  OBVIOUS
<1>3. k - 1 \in Nat /\ ~(k <= k - 1)
  BY <1>2
<1>4. k - 1 \in T
  BY <1>1, <1>3
<1> QED
  BY <1>2, <1>4

\* What holds of 0 and is handed from one number to the next holds up to n.
LEMMA InductionUpTo ==
  ASSUME NEW n \in Nat, NEW T, 0 \in T, \A k \in 1 .. n : k - 1 \in T => k \in T
  PROVE  \A k \in 0 .. n : k \in T
<1> DEFINE Good == {k \in Nat : k <= n => k \in T}
<1>1. 0 \in Good
  OBVIOUS
<1>2. ASSUME NEW k \in Nat \ {0}, k - 1 \in Good PROVE k \in Good
  <2> SUFFICES ASSUME k <= n PROVE k \in T
    OBVIOUS
  <2>1. k \in 1 .. n /\ k - 1 <= n
    OBVIOUS
  <2> QED
    BY <2>1, <1>2
<1> HIDE DEF Good
<1>3. \A k \in Nat : k \in Good
  BY <1>1, <1>2, InductionOnNat
<1> QED
  BY <1>3 DEF Good

\* What holds of the empty set and is handed from a set to one with an element more
\* holds of a finite set.
LEMMA InductionOnSubsets ==
  ASSUME NEW S, IsFiniteSet(S), NEW T, {} \in T,
         \A U \in SUBSET S : \A x \in S \ U : U \in T => U \cup {x} \in T
  PROVE  S \in T
<1> DEFINE Good == {k \in Nat : \A U \in SUBSET S : Cardinality(U) = k => U \in T}
<1>1. 0 \in Good
  <2>1. ASSUME NEW U \in SUBSET S, Cardinality(U) = 0 PROVE U = {}
    BY <2>1, FS_Subset, FS_EmptySet
  <2> QED
    BY <2>1
<1>2. ASSUME NEW k \in Nat \ {0}, k - 1 \in Good PROVE k \in Good
  <2> SUFFICES ASSUME NEW U \in SUBSET S, Cardinality(U) = k PROVE U \in T
    OBVIOUS
  <2>1. IsFiniteSet(U)
    BY FS_Subset
  <2>2. PICK x \in U : TRUE
    BY FS_EmptySet
  <2>3. Cardinality(U \ {x}) = k - 1
    BY <2>1, FS_RemoveElement
  <2>4. U \ {x} \in SUBSET S /\ x \in S \ (U \ {x}) /\ U = (U \ {x}) \cup {x}
    BY <2>2
  <2>5. U \ {x} \in T
    BY <2>3, <2>4, <1>2
  <2> QED
    BY <2>4, <2>5
<1> HIDE DEF Good
<1>3. Cardinality(S) \in Good
  BY <1>1, <1>2, InductionOnNat, FS_CardinalityType
<1> QED
  BY <1>3 DEF Good

\* The largest of some numbers up to n.
LEMMA MaxUpTo ==
  ASSUME NEW n \in Nat, NEW T \in SUBSET (1 .. n), T # {}
  PROVE  Max(T) \in T /\ \A y \in T : y <= Max(T)
<1> DEFINE D == {n - x : x \in T}
<1>1. D \in SUBSET Nat /\ D # {}
  <2>1. PICK x : x \in T
    OBVIOUS
  <2>2. n - x \in D
    BY <2>1
  <2>3. \A y \in T : n - y \in Nat
    OBVIOUS
  <2> QED
    BY <2>2, <2>3
<1> HIDE DEF D
<1>2. PICK d \in D : \A y \in D : d <= y
  BY <1>1, LeastExists
<1>3. PICK x \in T : d = n - x
  BY DEF D
<1>4. ASSUME NEW y \in T PROVE y <= x
  <2>1. n - y \in D
    BY DEF D
  <2>2. n - x <= n - y
    BY <2>1, <1>2, <1>3
  <2> QED
    BY <2>2
<1> QED
  BY <1>4 DEF Max

-----------------------------------------------------------------------------
(* Recursive functions exist.                                                *)

\* This function of 0 .. n begins with base and takes step from each argument to the
\* next.
StepsFrom(f, n, base, step) ==
  f[0] = base /\ \A k \in 1 .. n : f[k] = step[<<k, f[k - 1]>>]

\* There is such a function.
LEMMA RecursionExists ==
  ASSUME NEW S, NEW base \in S, NEW n \in Nat, NEW step \in [(1 .. n) \X S -> S]
  PROVE  \E f \in [0 .. n -> S] : StepsFrom(f, n, base, step)
<1> DEFINE Upto(m, f) == f[0] = base /\ \A k \in 1 .. m : f[k] = step[<<k, f[k - 1]>>]
           T == {m \in Nat : \E f \in [0 .. m -> S] : Upto(m, f)}
<1>1. 0 \in T
  <2>1. [k \in 0 .. 0 |-> base] \in [0 .. 0 -> S]
    OBVIOUS
  <2>2. Upto(0, [k \in 0 .. 0 |-> base])
    OBVIOUS
  <2> QED
    BY <2>1, <2>2
<1>2. ASSUME NEW m \in 1 .. n, m - 1 \in T PROVE m \in T
  <2>1. PICK f \in [0 .. m - 1 -> S] : Upto(m - 1, f)
    BY <1>2
  <2> DEFINE g == [k \in 0 .. m |-> IF k = m THEN step[<<m, f[m - 1]>>] ELSE f[k]]
  <2>2. f[m - 1] \in S /\ <<m, f[m - 1]>> \in (1 .. n) \X S
    OBVIOUS
  <2>3. g \in [0 .. m -> S]
    BY <2>2
  <2>4. ASSUME NEW k \in 1 .. m PROVE g[k] = step[<<k, g[k - 1]>>]
    <3>1. CASE k = m
      <4>1. k \in 0 .. m /\ k - 1 \in 0 .. m /\ k - 1 # m
        OBVIOUS
      <4>2. g[k] = step[<<m, f[m - 1]>>] /\ g[k - 1] = f[k - 1]
        BY <4>1, <3>1
      <4> QED
        BY <4>2, <3>1
    <3>2. CASE k # m
      <4>1. k \in 1 .. m - 1 /\ k \in 0 .. m /\ k - 1 \in 0 .. m /\ k - 1 # m
        BY <3>2
      <4>2. g[k] = f[k] /\ g[k - 1] = f[k - 1]
        BY <4>1, <3>2
      <4> QED
        BY <4>1, <4>2, <2>1
    <3> QED
      BY <3>1, <3>2
  <2>5. g[0] = base
    BY <2>1
  <2> HIDE DEF g
  <2>6. Upto(m, g)
    BY <2>4, <2>5
  <2> QED
    BY <2>3, <2>6
<1> HIDE DEF T
<1>3. \A k \in 0 .. n : k \in T
  BY <1>1, <1>2, InductionUpTo
<1>4. n \in T
  BY <1>3
<1> QED
  BY <1>4 DEF T, StepsFrom

-----------------------------------------------------------------------------
(* FlattenSeq.                                                              *)

\* Concatenation, by a name: the provers take it for what they know of sequences
\* otherwise, and lose the equations.
Cat(s, t) == s \o t

\* Its type, its neutral element and that it is associative.
LEMMA CatProperties ==
  ASSUME NEW S
  PROVE  /\ \A a, b \in Seq(S) : Cat(a, b) \in Seq(S)
         /\ \A a \in Seq(S) : \A e : e = <<>> => Cat(a, e) = a /\ Cat(e, a) = a
         /\ \A a, b, c \in Seq(S) : Cat(Cat(a, b), c) = Cat(a, Cat(b, c))
<1>1. \A a, b \in Seq(S) : a \o b \in Seq(S)
  BY ConcatProperties
<1>2. \A a \in Seq(S) : a \o <<>> = a /\ <<>> \o a = a
  BY ConcatEmptySeq
<1>3. \A a, b, c \in Seq(S) : (a \o b) \o c = a \o (b \o c)
  BY ConcatAssociative
<1> QED
  BY <1>1, <1>2, <1>3, Zenon DEF Cat

\* This function appends the sequences one after the other.
Appends(f, ss) ==
  f[0] = <<>> /\ \A k \in 1 .. Len(ss) : f[k] = Cat(f[k - 1], ss[k])

\* What is appended is a sequence.
LEMMA AppendsType ==
  ASSUME NEW S, NEW ss \in Seq(Seq(S)), NEW f, Appends(f, ss)
  PROVE  \A k \in 0 .. Len(ss) : f[k] \in Seq(S)
<1> DEFINE T == {k \in Nat : f[k] \in Seq(S)}
<1>1. 0 \in T
  <2>1. f[0] = <<>>
    BY Zenon DEF Appends
  <2>2. <<>> \in Seq(S)
    OBVIOUS
  <2>3. f[0] \in Seq(S)
    BY <2>1, <2>2, Zenon
  <2> QED
    BY <2>3
<1>2. ASSUME NEW k \in 1 .. Len(ss), k - 1 \in T PROVE k \in T
  <2>1. k \in Nat /\ ss[k] \in Seq(S) /\ f[k - 1] \in Seq(S)
    BY <1>2
  <2>2. f[k] = Cat(f[k - 1], ss[k])
    BY Zenon DEF Appends
  <2>3. Cat(f[k - 1], ss[k]) \in Seq(S)
    BY <2>1, CatProperties, Zenon
  <2>4. f[k] \in Seq(S)
    BY <2>2, <2>3, Zenon
  <2> QED
    BY <2>1, <2>4
<1> HIDE DEF T
<1>3. Len(ss) \in Nat
  OBVIOUS
<1>4. \A k \in 0 .. Len(ss) : k \in T
  BY <1>3, <1>1, <1>2, InductionUpTo
<1> QED
  BY <1>4 DEF T

\* Two such functions agree, as far as the sequences do.
LEMMA AppendsUnique ==
  ASSUME NEW n \in Nat, NEW ss, NEW tt, NEW f, NEW g, Appends(f, ss), Appends(g, tt),
         n <= Len(ss), n <= Len(tt), Len(ss) \in Nat, Len(tt) \in Nat,
         \A k \in 1 .. n : ss[k] = tt[k]
  PROVE  \A k \in 0 .. n : f[k] = g[k]
<1> DEFINE T == {k \in Nat : f[k] = g[k]}
<1>1. 0 \in T
  BY DEF Appends
<1>2. ASSUME NEW k \in 1 .. n, k - 1 \in T PROVE k \in T
  <2>1. k \in Nat /\ k \in 1 .. Len(ss) /\ k \in 1 .. Len(tt) /\ k - 1 \in Nat
    OBVIOUS
  <2>2. f[k - 1] = g[k - 1]
    BY <1>2, <2>1
  <2>3. f[k] = Cat(f[k - 1], ss[k]) /\ g[k] = Cat(g[k - 1], tt[k])
    BY <2>1, Zenon DEF Appends
  <2>4. f[k] = g[k]
    BY <2>2, <2>3, Zenon
  <2> QED
    BY <2>1, <2>4
<1> HIDE DEF T
<1>3. \A k \in 0 .. n : k \in T
  BY <1>1, <1>2, InductionUpTo
<1> QED
  BY <1>3 DEF T

\* There is such a function.
LEMMA AppendsExists ==
  ASSUME NEW S, NEW ss \in Seq(Seq(S))
  PROVE  \E f \in [0 .. Len(ss) -> Seq(S)] : Appends(f, ss)
<1> DEFINE n == Len(ss)
           step == [p \in (1 .. n) \X Seq(S) |-> Cat(p[2], ss[p[1]])]
<1>1. n \in Nat /\ <<>> \in Seq(S)
  OBVIOUS
<1>2. \A k \in 1 .. n : ss[k] \in Seq(S)
  OBVIOUS
<1>3. step \in [(1 .. n) \X Seq(S) -> Seq(S)]
  <2>1. ASSUME NEW p \in (1 .. n) \X Seq(S) PROVE Cat(p[2], ss[p[1]]) \in Seq(S)
    BY <1>2, CatProperties
  <2> QED
    BY <2>1
<1>4. ASSUME NEW k \in 1 .. n, NEW s \in Seq(S)
      PROVE  step[<<k, s>>] = Cat(s, ss[k])
  OBVIOUS
<1>5. PICK f \in [0 .. n -> Seq(S)] : StepsFrom(f, n, <<>>, step)
  <2> HIDE DEF n, step
  <2> QED
    BY <1>1, <1>3, RecursionExists
<1> HIDE DEF step
<1>6. ASSUME NEW k \in 1 .. n PROVE f[k] = Cat(f[k - 1], ss[k])
  <2>1. f[k - 1] \in Seq(S)
    <3>1. k - 1 \in 0 .. n
      BY <1>1
    <3> HIDE DEF n
    <3> QED
      BY <3>1, Zenon
  <2>2. f[k] = step[<<k, f[k - 1]>>]
    BY <1>5, Zenon DEF StepsFrom
  <2> QED
    BY <2>1, <2>2, <1>4, Zenon
<1>7. Appends(f, ss)
  BY <1>5, <1>6, Zenon DEF StepsFrom, Appends
<1> QED
  BY <1>7

\* FlattenSeq is the last value of such a function.
LEMMA FlattenSeqValue ==
  ASSUME NEW S, NEW ss \in Seq(Seq(S)), NEW f, Appends(f, ss)
  PROVE  FlattenSeq(ss) = f[Len(ss)]
<1> DEFINE n == Len(ss)
<1>1. n \in Nat
  OBVIOUS
<1>2. CASE n = 0
  <2>1. ss = <<>>
    BY <1>2, EmptySeq
  <2>2. FlattenSeq(ss) = <<>>
    BY <2>1, <1>2 DEF FlattenSeq
  <2> QED
    BY <2>2, <1>2 DEF Appends
<1>3. CASE n # 0
  <2> DEFINE Body(g) == [i \in 1 .. n |-> IF i = 1 THEN ss[i] ELSE Cat(g[i - 1], ss[i])]
             h == [i \in 1 .. n |-> f[i]]
             c == CHOOSE g : g = Body(g)
  <2>1. 1 \in 1 .. n /\ n \in 1 .. n
    BY <1>1, <1>3
  <2>2. f[1] = ss[1]
    <3>1. f[1] = Cat(f[1 - 1], ss[1]) /\ f[0] = <<>>
      BY <2>1, Zenon DEF Appends
    <3>2. 1 - 1 = 0
      OBVIOUS
    <3>3. f[1] = Cat(f[0], ss[1])
      BY <3>1, <3>2, Zenon
    <3>4. ss[1] \in Seq(S)
      BY <2>1
    <3> QED
      BY <3>1, <3>3, <3>4, CatProperties, Zenon
  <2>3. h = Body(h)
    <3>1. ASSUME NEW i \in 1 .. n, i # 1 PROVE f[i] = Cat(h[i - 1], ss[i])
      <4>1. i - 1 \in 1 .. n
        BY <3>1, <1>1
      <4>2. h[i - 1] = f[i - 1]
        BY <4>1
      <4>3. f[i] = Cat(f[i - 1], ss[i])
        BY Zenon DEF Appends
      <4> QED
        BY <4>2, <4>3, Zenon
    <3>2. \A i \in 1 .. n : f[i] = IF i = 1 THEN ss[i] ELSE Cat(h[i - 1], ss[i])
      BY <3>1, <2>2
    <3> QED
      BY <3>2
  <2>4. c = Body(c)
    <3> HIDE DEF h, Body
    <3> QED
      BY <2>3
  <2>5. FlattenSeq(ss) = c[n]
    BY <1>3 DEF FlattenSeq, Cat
  <2> HIDE DEF c
  <2> DEFINE T == {k \in Nat : k \in 1 .. n => c[k] = f[k]}
  <2>6. 0 \in T
    OBVIOUS
  <2>7. ASSUME NEW k \in 1 .. n, k - 1 \in T PROVE k \in T
    <3>1. CASE k = 1
      BY <3>1, <2>2, <2>4
    <3>2. CASE k # 1
      <4>1. k - 1 \in 1 .. n /\ k \in Nat
        BY <3>2, <1>1
      <4>2. c[k - 1] = f[k - 1]
        BY <4>1, <2>7
      <4>3. c[k] = Cat(c[k - 1], ss[k])
        BY <2>4, <3>2
      <4>4. f[k] = Cat(f[k - 1], ss[k])
        BY Zenon DEF Appends
      <4>5. c[k] = f[k]
        BY <4>2, <4>3, <4>4, Zenon
      <4> QED
        BY <4>1, <4>5
    <3> QED
      BY <3>1, <3>2
  <2> HIDE DEF T
  <2>8. \A k \in 0 .. n : k \in T
    BY <1>1, <2>6, <2>7, InductionUpTo
  <2>9. n \in T
    BY <2>8, <1>1
  <2>10. c[n] = f[n]
    BY <2>9, <2>1 DEF T
  <2> QED
    BY <2>5, <2>10
<1> QED
  BY <1>2, <1>3

\* The type of FlattenSeq.
LEMMA FlattenSeqType ==
  ASSUME NEW S, NEW ss \in Seq(Seq(S))
  PROVE  FlattenSeq(ss) \in Seq(S)
<1>1. PICK f \in [0 .. Len(ss) -> Seq(S)] : Appends(f, ss)
  BY AppendsExists
<1>2. FlattenSeq(ss) = f[Len(ss)]
  BY <1>1, FlattenSeqValue
<1> QED
  BY <1>2

\* FlattenSeq of a sequence of sequences and of another one.
LEMMA FlattenSeqConcat ==
  ASSUME NEW S, NEW ss \in Seq(Seq(S)), NEW tt \in Seq(Seq(S))
  PROVE  FlattenSeq(ss \o tt) = FlattenSeq(ss) \o FlattenSeq(tt)
<1> DEFINE m == Len(ss)  n == Len(tt)  both == ss \o tt
<1>1. m \in Nat /\ n \in Nat
  OBVIOUS
<1>2. /\ both \in Seq(Seq(S)) /\ Len(both) = m + n
      /\ \A k \in 1 .. m + n : both[k] = IF k <= m THEN ss[k] ELSE tt[k - m]
  BY ConcatProperties
<1> HIDE DEF both
<1>3. PICK f : Appends(f, both)
  BY <1>2, AppendsExists
<1>4. PICK g : Appends(g, ss)
  BY AppendsExists
<1>5. PICK h : Appends(h, tt)
  BY AppendsExists
<1>6. FlattenSeq(both) = f[m + n] /\ FlattenSeq(ss) = g[m] /\ FlattenSeq(tt) = h[n]
  <2>1. FlattenSeq(both) = f[Len(both)]
    BY <1>2, <1>3, FlattenSeqValue
  <2>2. FlattenSeq(ss) = g[Len(ss)]
    BY <1>4, FlattenSeqValue
  <2>3. FlattenSeq(tt) = h[Len(tt)]
    BY <1>5, FlattenSeqValue
  <2> QED
    BY <2>1, <2>2, <2>3, <1>2, Zenon
<1>7. /\ \A k \in 0 .. m + n : f[k] \in Seq(S)
      /\ \A k \in 0 .. n : h[k] \in Seq(S)
  <2>1. \A k \in 0 .. Len(both) : f[k] \in Seq(S)
    BY <1>2, <1>3, AppendsType
  <2>2. \A k \in 0 .. Len(tt) : h[k] \in Seq(S)
    BY <1>5, AppendsType
  <2> QED
    BY <2>1, <2>2, <1>2, Zenon
<1>8. f[m] = g[m]
  <2>1. \A k \in 1 .. m : both[k] = ss[k]
    BY <1>1, <1>2
  <2>2. m <= Len(both) /\ m <= Len(ss) /\ Len(both) \in Nat /\ Len(ss) \in Nat
    BY <1>1, <1>2
  <2>3. \A k \in 0 .. m : f[k] = g[k]
    <3> HIDE DEF m
    <3> QED
      BY <1>1, <2>1, <2>2, <1>3, <1>4, AppendsUnique
  <2>4. m \in 0 .. m
    BY <1>1
  <2> QED
    BY <2>3, <2>4, Zenon
<1> DEFINE T == {k \in Nat : k <= n => f[m + k] = Cat(f[m], h[k])}
<1>9. 0 \in T
  <2>1. f[m] \in Seq(S)
    BY <1>1, <1>7
  <2>2. h[0] = <<>>
    BY <1>5, Zenon DEF Appends
  <2>3. f[m] = Cat(f[m], h[0])
    BY <2>1, <2>2, CatProperties, Zenon
  <2>4. m + 0 = m
    BY <1>1
  <2>5. f[m + 0] = Cat(f[m], h[0])
    BY <2>3, <2>4, Zenon
  <2> QED
    BY <2>5
<1>10. ASSUME NEW k \in 1 .. n, k - 1 \in T PROVE k \in T
  <2>1. /\ m + k \in 1 .. m + n /\ ~(m + k <= m) /\ m + k - m = k /\ m + k - 1 = m + (k - 1)
        /\ k - 1 \in Nat /\ k - 1 <= n /\ k \in Nat /\ k - 1 \in 0 .. n /\ m \in 0 .. m + n
    BY <1>1
  <2>2. both[m + k] = tt[k]
    BY <1>2, <2>1, SMTT(30)
  <2>3. f[m + k] = Cat(f[m + k - 1], both[m + k])
    <3>1. m + k \in 1 .. Len(both)
      BY <2>1, <1>2
    <3>2. PICK j : j = m + k
      OBVIOUS
    <3>3. j \in 1 .. Len(both)
      BY <3>1, <3>2, Zenon
    <3>4. f[j] = Cat(f[j - 1], both[j])
      BY <3>3, <1>3, Zenon DEF Appends
    <3> QED
      BY <3>2, <3>4
  <2>4. f[m + (k - 1)] = Cat(f[m], h[k - 1])
    BY <1>10, <2>1
  <2>5. f[m] \in Seq(S) /\ h[k - 1] \in Seq(S) /\ tt[k] \in Seq(S)
    <3>1. tt[k] \in Seq(S)
      OBVIOUS
    <3> QED
      BY <3>1, <1>7, <2>1, Zenon
  <2>6. Cat(Cat(f[m], h[k - 1]), tt[k]) = Cat(f[m], Cat(h[k - 1], tt[k]))
    <3>1. \A a, b, c \in Seq(S) : Cat(Cat(a, b), c) = Cat(a, Cat(b, c))
      BY CatProperties
    <3> QED
      BY <2>5, <3>1, Zenon
  <2>7. h[k] = Cat(h[k - 1], tt[k])
    BY <1>5, Zenon DEF Appends
  <2>8. f[m + k] = Cat(f[m], h[k])
    BY <2>1, <2>2, <2>3, <2>4, <2>6, <2>7, Zenon
  <2> QED
    BY <2>8, <2>1
<1> HIDE DEF T
<1>11. \A k \in 0 .. n : k \in T
  BY <1>1, <1>9, <1>10, InductionUpTo
<1>12. n \in T
  BY <1>1, <1>11
<1>13. f[m + n] = Cat(f[m], h[n])
  <2> HIDE DEF m, n
  <2>1. n <= n
    BY <1>1
  <2> QED
    BY <2>1, <1>12 DEF T
<1> QED
  BY <1>6, <1>8, <1>13, Zenon DEF both, Cat

\* FlattenSeq of one sequence.
LEMMA FlattenSeqSingleton ==
  ASSUME NEW S, NEW s \in Seq(S)
  PROVE  FlattenSeq(<<s>>) = s
<1>1. <<s>> \in Seq(Seq(S)) /\ Len(<<s>>) = 1 /\ <<s>>[1] = s
  OBVIOUS
<1>2. PICK f : Appends(f, <<s>>)
  BY <1>1, AppendsExists
<1>3. FlattenSeq(<<s>>) = f[1]
  <2>1. FlattenSeq(<<s>>) = f[Len(<<s>>)]
    BY <1>1, <1>2, FlattenSeqValue
  <2> QED
    BY <2>1, <1>1, Zenon
<1>4. f[0] = <<>> /\ f[1] = Cat(f[0], s)
  <2>1. 1 \in 1 .. Len(<<s>>) /\ 1 - 1 = 0
    BY <1>1
  <2>2. f[1] = Cat(f[1 - 1], <<s>>[1]) /\ f[0] = <<>>
    BY <2>1, <1>2, Zenon DEF Appends
  <2> QED
    BY <2>1, <2>2, <1>1, Zenon
<1> QED
  BY <1>3, <1>4, CatProperties, Zenon

-----------------------------------------------------------------------------
(* The accesses of a trace.                                                 *)

\* What a trace consists of.
Records == [type : {"R", "W", "L", "N", "#"}, value : Int]

\* The records that are loads or stores.
IsAccess(r) == r.type \in {"R", "W", "L"}

\* Each record that is an access, as a sequence of one, and nothing for the others.
Picked(trace) ==
  [p \in DOMAIN trace |-> IF trace[p].type \in {"R", "W", "L"} THEN <<trace[p]>> ELSE <<>>]

\* Its type, and what it consists of.
LEMMA PickedType ==
  ASSUME NEW s \in Seq(Records)
  PROVE  /\ Picked(s) \in Seq(Seq(Records))
         /\ Len(Picked(s)) = Len(s)
         /\ \A p \in 1 .. Len(s) : Picked(s)[p] = IF IsAccess(s[p]) THEN <<s[p]>> ELSE <<>>
<1>1. Len(s) \in Nat /\ DOMAIN s = 1 .. Len(s) /\ \A p \in 1 .. Len(s) : s[p] \in Records
  OBVIOUS
<1> DEFINE n == Len(s)
<1> HIDE DEF n
<1>2. \A p \in 1 .. n : (IF s[p].type \in {"R", "W", "L"} THEN <<s[p]>> ELSE <<>>) \in Seq(Records)
  BY <1>1 DEF n
<1>3. Picked(s) = [p \in 1 .. n |-> IF s[p].type \in {"R", "W", "L"} THEN <<s[p]>> ELSE <<>>]
  BY <1>1 DEF Picked, n
<1>4. Picked(s) \in [1 .. n -> Seq(Records)] /\ n \in Nat
  <2>1. n \in Nat
    BY <1>1 DEF n
  <2> QED
    BY <2>1, <1>2, <1>3
<1>5. Picked(s) \in Seq(Seq(Records)) /\ Len(Picked(s)) = n
  BY <1>4
<1> QED
  BY <1>1, <1>3, <1>5 DEF n, IsAccess

\* The accesses of two traces, one after the other.
LEMMA AccessesConcat ==
  ASSUME NEW s \in Seq(Records), NEW t \in Seq(Records)
  PROVE  AccessesIn(s \o t) = AccessesIn(s) \o AccessesIn(t)
<1> DEFINE m == Len(s)  n == Len(t)  both == s \o t  joined == Picked(s) \o Picked(t)
<1>1. m \in Nat /\ n \in Nat
  OBVIOUS
<1>2. /\ both \in Seq(Records) /\ Len(both) = m + n
      /\ \A p \in 1 .. m + n : both[p] = IF p <= m THEN s[p] ELSE t[p - m]
  BY ConcatProperties
<1>3. /\ Picked(s) \in Seq(Seq(Records)) /\ Len(Picked(s)) = m
      /\ Picked(t) \in Seq(Seq(Records)) /\ Len(Picked(t)) = n
  BY PickedType
<1>4. /\ joined \in Seq(Seq(Records)) /\ Len(joined) = m + n
      /\ \A p \in 1 .. m + n : joined[p] = IF p <= m THEN Picked(s)[p] ELSE Picked(t)[p - m]
  <2> DEFINE a == Picked(s)  b == Picked(t)
  <2>1. /\ a \o b \in Seq(Seq(Records)) /\ Len(a \o b) = Len(a) + Len(b)
        /\ \A p \in 1 .. Len(a) + Len(b) : (a \o b)[p] = IF p <= Len(a) THEN a[p] ELSE b[p - Len(a)]
    <3> HIDE DEF a, b
    <3>1. a \in Seq(Seq(Records)) /\ b \in Seq(Seq(Records))
      BY <1>3 DEF a, b
    <3> QED
      BY <3>1, ConcatProperties
  <2> QED
    BY <2>1, <1>3, Zenon
<1> HIDE DEF both, joined
<1>5. /\ Picked(both) \in Seq(Seq(Records)) /\ Len(Picked(both)) = m + n
      /\ \A p \in 1 .. m + n : Picked(both)[p] = IF IsAccess(both[p]) THEN <<both[p]>> ELSE <<>>
  BY <1>2, PickedType
<1>6. ASSUME NEW p \in 1 .. m + n PROVE Picked(both)[p] = joined[p]
  <2>1. CASE p <= m
    <3>1. p \in 1 .. Len(s) /\ both[p] = s[p] /\ joined[p] = Picked(s)[p]
      BY <2>1, <1>2, <1>4, <1>1
    <3>2. Picked(s)[p] = IF IsAccess(s[p]) THEN <<s[p]>> ELSE <<>>
      BY <3>1, PickedType
    <3> QED
      BY <3>1, <3>2, <1>5, Zenon
  <2>2. CASE ~(p <= m)
    <3>1. p - m \in 1 .. Len(t) /\ both[p] = t[p - m] /\ joined[p] = Picked(t)[p - m]
      BY <2>2, <1>2, <1>4, <1>1
    <3>2. PICK q : q = p - m
      OBVIOUS
    <3>3. Picked(t)[q] = IF IsAccess(t[q]) THEN <<t[q]>> ELSE <<>>
      BY <3>1, <3>2, PickedType
    <3> QED
      BY <3>1, <3>2, <3>3, <1>5, Zenon
  <2> QED
    BY <2>1, <2>2
<1>7. Picked(both) = joined
  <2> DEFINE a == Picked(both)
  <2> HIDE DEF a, m, n
  <2>1. a \in Seq(Seq(Records)) /\ Len(a) = m + n /\ \A p \in 1 .. m + n : a[p] = joined[p]
    BY <1>5, <1>6 DEF a
  <2>2. a = joined
    BY <2>1, <1>4, SeqEqual
  <2> QED
    BY <2>2 DEF a
<1>8. FlattenSeq(joined) = FlattenSeq(Picked(s)) \o FlattenSeq(Picked(t))
  BY <1>3, FlattenSeqConcat DEF joined
<1> QED
  BY <1>7, <1>8, Zenon DEF AccessesIn, Picked, both

\* The accesses of a trace of one record.
LEMMA AccessesOfOne ==
  ASSUME NEW r \in Records
  PROVE  AccessesIn(<<r>>) = IF IsAccess(r) THEN <<r>> ELSE <<>>
<1> DEFINE s == IF IsAccess(r) THEN <<r>> ELSE <<>>
<1>1. <<r>> \in Seq(Records) /\ Len(<<r>>) = 1 /\ <<r>>[1] = r
  OBVIOUS
<1>2. Picked(<<r>>) \in Seq(Seq(Records)) /\ Len(Picked(<<r>>)) = 1 /\ Picked(<<r>>)[1] = s
  <2> DEFINE a == <<r>>
  <2>1. a \in Seq(Records) /\ Len(a) = 1 /\ a[1] = r
    BY <1>1
  <2> HIDE DEF a
  <2>2. /\ Picked(a) \in Seq(Seq(Records)) /\ Len(Picked(a)) = Len(a)
        /\ \A p \in 1 .. Len(a) : Picked(a)[p] = IF IsAccess(a[p]) THEN <<a[p]>> ELSE <<>>
    BY <2>1, PickedType
  <2>3. 1 \in 1 .. Len(a)
    BY <2>1
  <2> QED
    BY <2>1, <2>2, <2>3, Zenon DEF a, s
<1>3. s \in Seq(Records)
  OBVIOUS
<1> HIDE DEF s
<1>4. Picked(<<r>>) = <<s>>
  <2> DEFINE a == Picked(<<r>>)
  <2> HIDE DEF a
  <2>1. a \in Seq(Seq(Records)) /\ Len(a) = 1 /\ a[1] = s
    BY <1>2 DEF a
  <2>2. a = <<s>>
    BY <2>1, <1>3
  <2> QED
    BY <2>2 DEF a
<1>5. FlattenSeq(<<s>>) = s
  BY <1>3, FlattenSeqSingleton
<1> QED
  BY <1>4, <1>5, Zenon DEF AccessesIn, Picked, s

\* The accesses of a trace are records of the trace.
LEMMA AccessesType ==
  ASSUME NEW s \in Seq(Records)
  PROVE  AccessesIn(s) \in Seq(Records)
<1>1. FlattenSeq(Picked(s)) \in Seq(Records)
  BY PickedType, FlattenSeqType
<1> QED
  BY <1>1, Zenon DEF AccessesIn, Picked

\* The type of a function, by a name: the provers would take it apart.
Maps(g, A, T) == g \in [A -> T]

\* A function of sequences that respects concatenation.
Homomorphism(H, S) ==
  H[<<>>] = <<>> /\ \A s, t \in Seq(S) : H[Cat(s, t)] = Cat(H[s], H[t])

\* The sequences of tt are the images of those of ss.
Images(tt, H, ss) == Len(tt) = Len(ss) /\ \A k \in 1 .. Len(ss) : tt[k] = H[ss[k]]

\* What respects the concatenation of two sequences respects FlattenSeq.
LEMMA HomomorphismFlattens ==
  ASSUME NEW S, NEW T, NEW H, Homomorphism(H, S),
         NEW ss \in Seq(Seq(S)), NEW tt \in Seq(Seq(T)),
         Images(tt, H, ss)
  PROVE  H[FlattenSeq(ss)] = FlattenSeq(tt)
<1> DEFINE n == Len(ss)
<1>1. n \in Nat /\ \A k \in 1 .. n : ss[k] \in Seq(S)
  OBVIOUS
<1>2. PICK f : Appends(f, ss)
  BY AppendsExists
<1>3. PICK g : Appends(g, tt)
  BY AppendsExists
<1>4. \A k \in 0 .. n : f[k] \in Seq(S)
  BY <1>2, AppendsType
<1>5. FlattenSeq(ss) = f[n]
  BY <1>2, FlattenSeqValue
<1>6. FlattenSeq(tt) = g[n]
  <2>1. FlattenSeq(tt) = g[Len(tt)]
    BY <1>3, FlattenSeqValue
  <2> QED
    BY <2>1, Zenon DEF Images
<1>7. \A k \in 1 .. n : g[k] = Cat(g[k - 1], tt[k])
  BY <1>3, Zenon DEF Appends, Images
<1>8. \A k \in 1 .. n : f[k] = Cat(f[k - 1], ss[k])
  BY <1>2, Zenon DEF Appends
<1> DEFINE G == {k \in Nat : H[f[k]] = g[k]}
<1>9. 0 \in G
  <2>1. f[0] = <<>> /\ g[0] = <<>>
    BY <1>2, <1>3, Zenon DEF Appends
  <2>2. H[f[0]] = g[0]
    BY <2>1, Zenon DEF Homomorphism
  <2> QED
    BY <2>2
<1> HIDE DEF n
<1>10. ASSUME NEW k \in 1 .. n, k - 1 \in G PROVE k \in G
  <2>1. k \in Nat /\ k - 1 \in 0 .. n
    BY <1>1
  <2>2. f[k - 1] \in Seq(S) /\ ss[k] \in Seq(S)
    BY <2>1, <1>1, <1>4, Zenon
  <2>3. H[f[k]] = H[Cat(f[k - 1], ss[k])]
    BY <1>8, Zenon
  <2>4. H[Cat(f[k - 1], ss[k])] = Cat(H[f[k - 1]], H[ss[k]])
    BY <2>2, Zenon DEF Homomorphism
  <2>5. H[f[k - 1]] = g[k - 1]
    BY <1>10
  <2>6. H[ss[k]] = tt[k]
    BY Zenon DEF n, Images
  <2>7. g[k] = Cat(g[k - 1], tt[k])
    BY <1>7, Zenon
  <2>8. H[f[k]] = g[k]
    BY <2>3, <2>4, <2>5, <2>6, <2>7, Zenon
  <2> QED
    BY <2>1, <2>8
<1> HIDE DEF G
<1>11. \A k \in 0 .. n : k \in G
  BY <1>1, <1>9, <1>10, InductionUpTo
<1>12. n \in G
  BY <1>1, <1>11
<1>13. H[f[n]] = g[n]
  BY <1>12 DEF G
<1> QED
  BY <1>5, <1>6, <1>13, Zenon

-----------------------------------------------------------------------------
(* A function applied to every element of a sequence.                        *)

\* The sequence of its values.
Mapped(g, s) == [p \in DOMAIN s |-> g[s[p]]]

\* Its type and its elements.
LEMMA MappedType ==
  ASSUME NEW A, NEW T, NEW g, Maps(g, A, T), NEW s \in Seq(A)
  PROVE  /\ Mapped(g, s) \in Seq(T) /\ Len(Mapped(g, s)) = Len(s)
         /\ \A p \in 1 .. Len(s) : Mapped(g, s)[p] = g[s[p]]
<1> DEFINE n == Len(s)
<1>1. n \in Nat /\ DOMAIN s = 1 .. n /\ \A p \in 1 .. n : s[p] \in A
  OBVIOUS
<1> HIDE DEF n
<1>2. Mapped(g, s) = [p \in 1 .. n |-> g[s[p]]]
  BY <1>1 DEF Mapped
<1>3. Mapped(g, s) \in [1 .. n -> T]
  BY <1>1, <1>2 DEF Maps
<1>4. Mapped(g, s) \in Seq(T) /\ Len(Mapped(g, s)) = n
  BY <1>1, <1>3
<1> QED
  BY <1>2, <1>4 DEF n

\* The elements of a concatenation are those of its two parts.
LEMMA MappedConcat ==
  ASSUME NEW A, NEW T, NEW g, Maps(g, A, T), NEW s \in Seq(A), NEW t \in Seq(A)
  PROVE  Mapped(g, Cat(s, t)) = Cat(Mapped(g, s), Mapped(g, t))
<1> DEFINE m == Len(s)  n == Len(t)  both == Cat(s, t)
           a == Mapped(g, s)  b == Mapped(g, t)  c == Mapped(g, both)
<1>1. m \in Nat /\ n \in Nat
  OBVIOUS
<1>2. /\ both \in Seq(A) /\ Len(both) = m + n
      /\ \A p \in 1 .. m + n : both[p] = IF p <= m THEN s[p] ELSE t[p - m]
  BY ConcatProperties DEF Cat
<1>3. /\ a \in Seq(T) /\ Len(a) = m /\ \A p \in 1 .. m : a[p] = g[s[p]]
      /\ b \in Seq(T) /\ Len(b) = n /\ \A p \in 1 .. n : b[p] = g[t[p]]
  <2>1. a \in Seq(T) /\ Len(a) = m /\ \A p \in 1 .. m : a[p] = g[s[p]]
    BY MappedType
  <2>2. b \in Seq(T) /\ Len(b) = n /\ \A p \in 1 .. n : b[p] = g[t[p]]
    BY MappedType
  <2> QED
    BY <2>1, <2>2, Zenon
<1> HIDE DEF m, n, both, a, b
<1>4. c \in Seq(T) /\ Len(c) = m + n /\ \A p \in 1 .. m + n : c[p] = g[both[p]]
  <2>1. c \in Seq(T) /\ Len(c) = Len(both) /\ \A p \in 1 .. Len(both) : c[p] = g[both[p]]
    <3>1. both \in Seq(A)
      BY <1>2
    <3> QED
      BY <3>1, MappedType
  <2> QED
    BY <2>1, <1>2, Zenon
<1> HIDE DEF c
<1>5. /\ a \o b \in Seq(T) /\ Len(a \o b) = m + n
      /\ \A p \in 1 .. m + n : (a \o b)[p] = IF p <= m THEN a[p] ELSE b[p - m]
  <2>1. /\ a \o b \in Seq(T) /\ Len(a \o b) = Len(a) + Len(b)
        /\ \A p \in 1 .. Len(a) + Len(b) : (a \o b)[p] = IF p <= Len(a) THEN a[p] ELSE b[p - Len(a)]
    BY <1>3, ConcatProperties
  <2> QED
    BY <2>1, <1>3, Zenon
<1> DEFINE d == a \o b
<1> HIDE DEF d
<1>6. ASSUME NEW p \in 1 .. m + n PROVE c[p] = d[p]
  <2>1. CASE p <= m
    <3>1. p \in 1 .. m
      BY <2>1, <1>1
    <3>2. both[p] = s[p] /\ d[p] = a[p] /\ a[p] = g[s[p]] /\ c[p] = g[both[p]]
      BY <2>1, <3>1, <1>2, <1>3, <1>4, <1>5 DEF d
    <3> QED
      BY <3>2, Zenon
  <2>2. CASE ~(p <= m)
    <3>1. PICK q : q = p - m
      OBVIOUS
    <3>2. q \in 1 .. n
      BY <3>1, <2>2, <1>1
    <3>3. both[p] = t[q] /\ d[p] = b[q] /\ b[q] = g[t[q]] /\ c[p] = g[both[p]]
      BY <2>2, <3>1, <3>2, <1>2, <1>3, <1>4, <1>5, Zenon DEF d
    <3> QED
      BY <3>3, Zenon
  <2> QED
    BY <2>1, <2>2
<1>7. c = d
  <2>1. d \in Seq(T) /\ Len(d) = m + n
    BY <1>5 DEF d
  <2> QED
    BY <2>1, <1>4, <1>6, SeqEqual
<1> QED
  BY <1>7, Zenon DEF Cat, a, b, c, d, both

\* Applying a function to every element respects concatenation, and so does leaving out
\* what is not an access.
LEMMA MappedHomomorphism ==
  ASSUME NEW A, NEW T, NEW g, Maps(g, A, T), NEW H, H = [s \in Seq(A) |-> Mapped(g, s)]
  PROVE  Maps(H, Seq(A), Seq(T)) /\ Homomorphism(H, A)
<1>1. \A s \in Seq(A) : Mapped(g, s) \in Seq(T)
  BY MappedType
<1>2. H \in [Seq(A) -> Seq(T)]
  BY <1>1
<1>3. H[<<>>] = <<>>
  <2>1. H[<<>>] = Mapped(g, <<>>)
    OBVIOUS
  <2> QED
    BY <2>1 DEF Mapped
<1>4. \A s, t \in Seq(A) : H[Cat(s, t)] = Cat(H[s], H[t])
  <2> TAKE s, t \in Seq(A)
  <2>1. Cat(s, t) \in Seq(A)
    BY CatProperties
  <2>2. H[Cat(s, t)] = Mapped(g, Cat(s, t)) /\ H[s] = Mapped(g, s) /\ H[t] = Mapped(g, t)
    BY <2>1
  <2>3. Mapped(g, Cat(s, t)) = Cat(Mapped(g, s), Mapped(g, t))
    BY MappedConcat
  <2> QED
    BY <2>2, <2>3, Zenon
<1> QED
  BY <1>2, <1>3, <1>4, Zenon DEF Homomorphism, Maps

\* To take the accesses respects concatenation.
LEMMA AccessesHomomorphism ==
  ASSUME NEW H, H = [s \in Seq(Records) |-> AccessesIn(s)]
  PROVE  Maps(H, Seq(Records), Seq(Records)) /\ Homomorphism(H, Records)
<1>1. \A s \in Seq(Records) : AccessesIn(s) \in Seq(Records)
  BY AccessesType
<1>2. H \in [Seq(Records) -> Seq(Records)]
  BY <1>1
<1>3. H[<<>>] = <<>>
  <2>1. H[<<>>] = AccessesIn(<<>>)
    OBVIOUS
  <2>2. <<>> \in Seq(Records)
    OBVIOUS
  <2>3. Picked(<<>>) = <<>>
    <3> DEFINE e == <<>>
    <3>1. e \in Seq(Records) /\ Len(e) = 0
      OBVIOUS
    <3> HIDE DEF e
    <3>2. Picked(e) \in Seq(Seq(Records)) /\ Len(Picked(e)) = 0
      BY <3>1, PickedType
    <3>3. Picked(e) = <<>>
      BY <3>2, EmptySeq
    <3> QED
      BY <3>3 DEF e
  <2>4. FlattenSeq(<<>>) = <<>>
    BY DEF FlattenSeq
  <2> QED
    BY <2>1, <2>3, <2>4, Zenon DEF AccessesIn, Picked
<1>4. \A s, t \in Seq(Records) : H[Cat(s, t)] = Cat(H[s], H[t])
  <2> TAKE s, t \in Seq(Records)
  <2>1. Cat(s, t) \in Seq(Records)
    BY CatProperties
  <2>2. H[Cat(s, t)] = AccessesIn(Cat(s, t)) /\ H[s] = AccessesIn(s) /\ H[t] = AccessesIn(t)
    BY <2>1
  <2>3. AccessesIn(Cat(s, t)) = Cat(AccessesIn(s), AccessesIn(t))
    BY AccessesConcat, Zenon DEF Cat
  <2> QED
    BY <2>2, <2>3, Zenon
<1> QED
  BY <1>2, <1>3, <1>4, Zenon DEF Homomorphism, Maps

\* FlattenSeq of sequences of one element.
LEMMA FlattenSeqSingles ==
  ASSUME NEW S, NEW s \in Seq(S), NEW ss \in Seq(Seq(S)),
         Len(ss) = Len(s), \A k \in 1 .. Len(s) : ss[k] = <<s[k]>>
  PROVE  FlattenSeq(ss) = s
<1> DEFINE n == Len(s)
           f == [k \in 0 .. n |-> SubSeq(s, 1, k)]
<1>1. n \in Nat /\ \A k \in 1 .. n : s[k] \in S
  OBVIOUS
<1>2. f[0] = <<>>
  OBVIOUS
<1>3. ASSUME NEW k \in 1 .. n PROVE f[k] = Cat(f[k - 1], ss[k])
  <2> DEFINE a == SubSeq(s, 1, k)  b == SubSeq(s, 1, k - 1)  c == b \o <<s[k]>>
  <2>1. f[k] = a /\ f[k - 1] = b
    BY <1>1, SMTT(30)
  <2>2. a \in Seq(S) /\ Len(a) = k /\ \A i \in 1 .. k : a[i] = s[i]
    BY <1>1, SubSeqProperties
  <2>3. b \in Seq(S) /\ Len(b) = k - 1 /\ \A i \in 1 .. k - 1 : b[i] = s[i]
    BY <1>1, SubSeqProperties
  <2> HIDE DEF a, b, f, n
  <2>4. PICK e : e = s[k]
    OBVIOUS
  <2>5. e \in S
    BY <1>1, <2>4
  <2>6. <<e>> \in Seq(S) /\ Len(<<e>>) = 1 /\ <<e>>[1] = e
    BY <2>5
  <2>7. /\ b \o <<e>> \in Seq(S) /\ Len(b \o <<e>>) = k
        /\ \A i \in 1 .. k : (b \o <<e>>)[i] = IF i <= k - 1 THEN b[i] ELSE e
    BY <2>3, <2>5, <1>1
  <2>8. c \in Seq(S) /\ Len(c) = k /\ \A i \in 1 .. k : c[i] = IF i <= k - 1 THEN b[i] ELSE e
    BY <2>4, <2>7, Zenon
  <2> HIDE DEF c
  <2>9. \A i \in 1 .. k : a[i] = c[i]
    <3> TAKE i \in 1 .. k
    <3>1. CASE i <= k - 1
      <4>1. i \in 1 .. k - 1
        BY <3>1
      <4> QED
        BY <4>1, <3>1, <2>2, <2>3, <2>8, Zenon
    <3>2. CASE ~(i <= k - 1)
      <4>1. i = k
        BY <3>2, <1>1
      <4> QED
        BY <4>1, <3>2, <2>2, <2>4, <2>8, Zenon
    <3> QED
      BY <3>1, <3>2
  <2>10. a = c
    BY <2>2, <2>8, <2>9, SeqEqual
  <2>11. ss[k] = <<s[k]>>
    BY DEF n
  <2> QED
    BY <2>1, <2>10, <2>11, Zenon DEF Cat, c
<1>4. Appends(f, ss)
  <2> HIDE DEF f
  <2> QED
    BY <1>2, <1>3, Zenon DEF Appends
<1>5. FlattenSeq(ss) = f[n]
  <2>1. FlattenSeq(ss) = f[Len(ss)]
    <3> HIDE DEF f, n
    <3> QED
      BY <1>4, FlattenSeqValue
  <2> QED
    BY <2>1, Zenon
<1>6. f[n] = s
  BY <1>1, SubSeqFull
<1> QED
  BY <1>5, <1>6, Zenon

\* Two sequences of one element.
LEMMA PairIsConcat ==
  ASSUME NEW S, NEW r \in S, NEW q \in S
  PROVE  <<r>> \o <<q>> = <<r, q>>
<1> DEFINE a == <<r>>  b == <<q>>  c == <<r, q>>
<1>1. a \in Seq(S) /\ Len(a) = 1 /\ a[1] = r
  OBVIOUS
<1>2. b \in Seq(S) /\ Len(b) = 1 /\ b[1] = q
  OBVIOUS
<1>3. c \in Seq(S) /\ Len(c) = 2 /\ c[1] = r /\ c[2] = q
  OBVIOUS
<1> HIDE DEF a, b, c
<1>4. /\ a \o b \in Seq(S) /\ Len(a \o b) = 1 + 1
      /\ \A i \in 1 .. 1 + 1 : (a \o b)[i] = IF i <= 1 THEN a[i] ELSE b[i - 1]
  <2>1. /\ a \o b \in Seq(S) /\ Len(a \o b) = Len(a) + Len(b)
        /\ \A i \in 1 .. Len(a) + Len(b) : (a \o b)[i] = IF i <= Len(a) THEN a[i] ELSE b[i - Len(a)]
    BY <1>1, <1>2, ConcatProperties
  <2> QED
    BY <2>1, <1>1, <1>2, Zenon
<1>5. \A i \in 1 .. 2 : (a \o b)[i] = c[i]
  BY <1>1, <1>2, <1>3, <1>4
<1>6. a \o b = c
  BY <1>3, <1>4, <1>5, SeqEqual
<1> QED
  BY <1>6 DEF a, b, c

\* The accesses of a few records.
LEMMA AccessesOfTwo ==
  ASSUME NEW r \in Records, NEW q \in Records, IsAccess(r), ~IsAccess(q)
  PROVE  <<r, q>> \in Seq(Records) /\ AccessesIn(<<r, q>>) = <<r>>
<1>1. <<r>> \in Seq(Records) /\ <<q>> \in Seq(Records) /\ <<r, q>> \in Seq(Records)
  OBVIOUS
<1>2. <<r, q>> = <<r>> \o <<q>>
  BY PairIsConcat
<1>3. AccessesIn(<<r>> \o <<q>>) = AccessesIn(<<r>>) \o AccessesIn(<<q>>)
  BY <1>1, AccessesConcat
<1>4. AccessesIn(<<r>>) = <<r>> /\ AccessesIn(<<q>>) = <<>>
  BY AccessesOfOne, Zenon
<1>5. AccessesIn(<<r, q>>) = <<r>> \o <<>>
  BY <1>2, <1>3, <1>4, Zenon
<1>6. <<r>> \o <<>> = <<r>>
  BY <1>1, ConcatEmptySeq
<1> QED
  BY <1>1, <1>5, <1>6, Zenon

\* The accesses of two loads and the arithmetic that follows them, as the matrix kernel
\* emits them for each product.
LEMMA AccessesOfThree ==
  ASSUME NEW p \in Records, NEW r \in Records, NEW q \in Records,
         IsAccess(p), IsAccess(r), ~IsAccess(q)
  PROVE  <<p, r, q>> \in Seq(Records) /\ AccessesIn(<<p, r, q>>) = <<p, r>>
<1>1. <<p>> \in Seq(Records) /\ <<r, q>> \in Seq(Records) /\ <<p, r, q>> \in Seq(Records)
  OBVIOUS
<1>2. <<p, r, q>> = <<p>> \o <<r, q>>
  OBVIOUS
<1>3. AccessesIn(<<p>> \o <<r, q>>) = AccessesIn(<<p>>) \o AccessesIn(<<r, q>>)
  BY <1>1, AccessesConcat
<1>4. AccessesIn(<<p>>) = <<p>> /\ AccessesIn(<<r, q>>) = <<r>>
  BY AccessesOfOne, AccessesOfTwo, Zenon
<1>5. AccessesIn(<<p, r, q>>) = <<p>> \o <<r>>
  BY <1>2, <1>3, <1>4, Zenon
<1>6. <<p>> \o <<r>> = <<p, r>>
  BY PairIsConcat
<1> QED
  BY <1>1, <1>5, <1>6, Zenon

-----------------------------------------------------------------------------
(* The workloads that go through one array.                                 *)

\* What Scan emits, and its accesses.
LEMMA ScanTrace ==
  ASSUME NEW n \in Nat, NEW addresses \in [1 .. n -> Int], NEW compute \in Int,
         NEW type \in {"R", "L"}
  PROVE  /\ Scan(type, addresses, compute) \in Seq(Records)
         /\ AccessesIn(Scan(type, addresses, compute))
              = [h \in 1 .. n |-> Record(type, addresses[h])]
<1> DEFINE loads == [h \in 1 .. n |-> Record(type, addresses[h])]
           ss == [h \in 1 .. n |-> <<Record(type, addresses[h]), Record("N", compute)>>]
           tt == [h \in 1 .. n |-> <<Record(type, addresses[h])>>]
           H  == [s \in Seq(Records) |-> AccessesIn(s)]
<1>1. Scan(type, addresses, compute) = FlattenSeq(ss)
  BY DEF Scan
<1>2. ASSUME NEW h \in 1 .. n
      PROVE  /\ Record(type, addresses[h]) \in Records /\ IsAccess(Record(type, addresses[h]))
             /\ Record("N", compute) \in Records /\ ~IsAccess(Record("N", compute))
  <2>1. Record(type, addresses[h]) \in Records /\ Record("N", compute) \in Records
    <3>1. addresses[h] \in Int /\ type \in {"R", "L"}
      OBVIOUS
    <3> QED
      BY <3>1 DEF Record, Records
  <2>2. Record(type, addresses[h]).type = type /\ Record("N", compute).type = "N"
    BY DEF Record
  <2>3. IsAccess(Record(type, addresses[h])) /\ ~IsAccess(Record("N", compute))
    BY <2>2 DEF IsAccess
  <2> QED
    BY <2>1, <2>3
<1>3. ASSUME NEW h \in 1 .. n
      PROVE  ss[h] \in Seq(Records) /\ AccessesIn(ss[h]) = <<Record(type, addresses[h])>>
  <2> DEFINE r == Record(type, addresses[h])  q == Record("N", compute)
  <2>1. ss[h] = <<r, q>>
    OBVIOUS
  <2>2. r \in Records /\ q \in Records /\ IsAccess(r) /\ ~IsAccess(q)
    BY <1>2
  <2> HIDE DEF r, q, ss
  <2>3. <<r, q>> \in Seq(Records) /\ AccessesIn(<<r, q>>) = <<r>>
    BY <2>2, AccessesOfTwo
  <2> QED
    BY <2>1, <2>3, Zenon DEF r
<1>4. /\ loads \in Seq(Records) /\ Len(loads) = n
      /\ \A h \in 1 .. n : loads[h] = Record(type, addresses[h])
  BY <1>2
<1>5. ss \in Seq(Seq(Records)) /\ Len(ss) = n
  <2>1. \A h \in 1 .. n : <<Record(type, addresses[h]), Record("N", compute)>> \in Seq(Records)
    BY <1>2
  <2> QED
    BY <2>1
<1>6. /\ tt \in Seq(Seq(Records)) /\ Len(tt) = n
      /\ \A h \in 1 .. n : tt[h] = <<Record(type, addresses[h])>>
  <2>1. \A h \in 1 .. n : <<Record(type, addresses[h])>> \in Seq(Records)
    BY <1>2
  <2> QED
    BY <2>1
<1>7. \A h \in 1 .. n : tt[h] = H[ss[h]]
  <2> TAKE h \in 1 .. n
  <2>1. H[ss[h]] = AccessesIn(ss[h])
    <3> HIDE DEF ss
    <3> QED
      BY <1>3
  <2> QED
    BY <2>1, <1>3, <1>6, Zenon
<1> HIDE DEF loads, ss, tt
<1>8. Maps(H, Seq(Records), Seq(Records)) /\ Homomorphism(H, Records)
  BY AccessesHomomorphism, Zenon
<1>9. H[FlattenSeq(ss)] = AccessesIn(FlattenSeq(ss)) /\ FlattenSeq(ss) \in Seq(Records)
  <2>1. FlattenSeq(ss) \in Seq(Records)
    BY <1>5, FlattenSeqType
  <2> QED
    BY <2>1
<1> HIDE DEF H
<1>10. H[FlattenSeq(ss)] = FlattenSeq(tt)
  <2>1. Images(tt, H, ss)
    BY <1>5, <1>6, <1>7, Zenon DEF Images
  <2>2. ss \in Seq(Seq(Records)) /\ tt \in Seq(Seq(Records))
    BY <1>5, <1>6
  <2> QED
    BY <2>1, <2>2, <1>8, HomomorphismFlattens
<1>11. FlattenSeq(tt) = loads
  <2>1. \A h \in 1 .. Len(loads) : tt[h] = <<loads[h]>>
    BY <1>4, <1>6, Zenon
  <2> QED
    BY <2>1, <1>4, <1>6, FlattenSeqSingles
<1> QED
  BY <1>1, <1>9, <1>10, <1>11, Zenon DEF loads

-----------------------------------------------------------------------------
(* The shuffle makes one cycle.                                             *)

\* The nodes of a chain.
Nodes(n) == 0 .. n - 1

\* A permutation of the nodes and its inverse.
Inverses(next, last, n) ==
  /\ next \in [Nodes(n) -> Nodes(n)] /\ last \in [Nodes(n) -> Nodes(n)]
  /\ \A y \in Nodes(n) : last[next[y]] = y /\ next[last[y]] = y

\* Each cycle has one node that is still to be swapped, 0 .. m, its owner, and the others
\* in the order in which they are reached from it.
Rooted(next, owner, place, n, m) ==
  /\ owner \in [Nodes(n) -> 0 .. m] /\ place \in [Nodes(n) -> Nat]
  /\ \A x \in 0 .. m : owner[x] = x /\ place[x] = 0
  /\ \A y \in Nodes(n) :
       IF next[y] \in 0 .. m THEN next[y] = owner[y]
       ELSE owner[next[y]] = owner[y] /\ place[next[y]] = place[y] + 1

\* What holds after the swaps that leave 0 .. m.
OneEach(next, n, m) ==
  /\ \E last : Inverses(next, last, n)
  /\ \E owner, place : Rooted(next, owner, place, n, m)

\* One swap of the shuffle.
Swap(next, i, k) == [next EXCEPT ![i] = next[k], ![k] = next[i]]

\* What Swap does.
LEMMA SwapValues ==
  ASSUME NEW n \in Nat, NEW next \in [Nodes(n) -> Nodes(n)],
         NEW i \in Nodes(n), NEW k \in Nodes(n), i # k
  PROVE  /\ Swap(next, i, k) \in [Nodes(n) -> Nodes(n)]
         /\ Swap(next, i, k)[i] = next[k] /\ Swap(next, i, k)[k] = next[i]
         /\ \A y \in Nodes(n) \ {i, k} : Swap(next, i, k)[y] = next[y]
BY DEF Swap

\* A swap leaves a permutation.
LEMMA SwapPermutes ==
  ASSUME NEW n \in Nat, NEW next, NEW last, Inverses(next, last, n),
         NEW i \in Nodes(n), NEW k \in Nodes(n), i # k
  PROVE  \E last2 : Inverses(Swap(next, i, k), last2, n)
<1> DEFINE after == Swap(next, i, k)
           last2 == [y \in Nodes(n) |-> IF y = next[k] THEN i
                                        ELSE IF y = next[i] THEN k ELSE last[y]]
<1>1. /\ next \in [Nodes(n) -> Nodes(n)] /\ last \in [Nodes(n) -> Nodes(n)]
      /\ \A y \in Nodes(n) : last[next[y]] = y /\ next[last[y]] = y
  BY DEF Inverses
<1>2. /\ after \in [Nodes(n) -> Nodes(n)] /\ after[i] = next[k] /\ after[k] = next[i]
      /\ \A y \in Nodes(n) \ {i, k} : after[y] = next[y]
  BY <1>1, SwapValues
<1>3. last2 \in [Nodes(n) -> Nodes(n)]
  BY <1>1
<1>4. next[i] # next[k]
  BY <1>1
<1> HIDE DEF after
<1>5. ASSUME NEW y \in Nodes(n) PROVE last2[after[y]] = y
  <2>1. CASE y = i
    BY <2>1, <1>1, <1>2
  <2>2. CASE y = k
    BY <2>2, <1>1, <1>2, <1>4
  <2>3. CASE y # i /\ y # k
    <3>1. after[y] = next[y] /\ next[y] # next[k] /\ next[y] # next[i]
      BY <2>3, <1>1, <1>2
    <3> QED
      BY <3>1, <1>1
  <2> QED
    BY <2>1, <2>2, <2>3
<1>6. ASSUME NEW y \in Nodes(n) PROVE after[last2[y]] = y
  <2>1. CASE y = next[k]
    BY <2>1, <1>2
  <2>2. CASE y = next[i] /\ y # next[k]
    BY <2>2, <1>2
  <2>3. CASE y # next[i] /\ y # next[k]
    <3>1. last2[y] = last[y] /\ last[y] # i /\ last[y] # k
      BY <2>3, <1>1
    <3> QED
      BY <3>1, <1>1, <1>2
  <2> QED
    BY <2>1, <2>2, <2>3
<1> HIDE DEF last2
<1>7. Inverses(after, last2, n)
  BY <1>2, <1>3, <1>5, <1>6 DEF Inverses
<1> QED
  BY <1>7 DEF after

\* A swap of the last node to be swapped with an earlier one joins their two cycles.
LEMMA SwapJoins ==
  ASSUME NEW n \in Nat, NEW m \in 1 .. n - 1, NEW k \in 0 .. m - 1,
         NEW next, NEW last, Inverses(next, last, n),
         NEW owner, NEW place, Rooted(next, owner, place, n, m)
  PROVE  \E owner2, place2 : Rooted(Swap(next, m, k), owner2, place2, n, m - 1)
<1> DEFINE after == Swap(next, m, k)
           length == place[last[m]] + 1
           owner2 == [y \in Nodes(n) |-> IF owner[y] = m THEN k ELSE owner[y]]
           place2 == [y \in Nodes(n) |->
                        IF y = m THEN length
                        ELSE IF owner[y] = k /\ y # k THEN place[y] + length ELSE place[y]]
<1>1. /\ next \in [Nodes(n) -> Nodes(n)] /\ last \in [Nodes(n) -> Nodes(n)]
      /\ \A y \in Nodes(n) : last[next[y]] = y /\ next[last[y]] = y
  BY DEF Inverses
<1>2. /\ owner \in [Nodes(n) -> 0 .. m] /\ place \in [Nodes(n) -> Nat]
      /\ \A x \in 0 .. m : owner[x] = x /\ place[x] = 0
  BY DEF Rooted
<1>3. \A y \in Nodes(n) :
        /\ next[y] \in 0 .. m => next[y] = owner[y]
        /\ next[y] \notin 0 .. m => owner[next[y]] = owner[y] /\ place[next[y]] = place[y] + 1
  BY DEF Rooted
<1>4. m \in Nodes(n) /\ k \in Nodes(n) /\ m # k /\ m \in 0 .. m /\ k \in 0 .. m
  BY DEF Nodes
<1>5. /\ after \in [Nodes(n) -> Nodes(n)] /\ after[m] = next[k] /\ after[k] = next[m]
      /\ \A y \in Nodes(n) \ {m, k} : after[y] = next[y]
  BY <1>1, <1>4, SwapValues
<1>6. \A x : x \in 0 .. m - 1 <=> x \in 0 .. m /\ x # m
  OBVIOUS
<1>7. length \in Nat /\ owner[last[m]] = m
  <2>1. last[m] \in Nodes(n) /\ next[last[m]] = m
    BY <1>1, <1>4
  <2>2. place[last[m]] \in Nat
    BY <2>1, <1>2
  <2>3. next[last[m]] \in 0 .. m => next[last[m]] = owner[last[m]]
    BY <2>1, <1>3
  <2>4. m = owner[last[m]]
    BY <2>1, <2>3, <1>4, Zenon
  <2>5. length \in Nat
    BY <2>2
  <2> QED
    BY <2>4, <2>5
<1>8. owner2 \in [Nodes(n) -> 0 .. m - 1]
  BY <1>2, <1>6
<1>9. place2 \in [Nodes(n) -> Nat]
  BY <1>2, <1>7
<1>10. \A x \in 0 .. m - 1 : owner2[x] = x /\ place2[x] = 0
  <2> TAKE x \in 0 .. m - 1
  <2>1. x \in 0 .. m /\ x # m /\ x \in Nodes(n)
    BY DEF Nodes
  <2> QED
    BY <2>1, <1>2
<1> HIDE DEF after
<1>11. ASSUME NEW y \in Nodes(n)
       PROVE  IF after[y] \in 0 .. m - 1 THEN after[y] = owner2[y]
              ELSE owner2[after[y]] = owner2[y] /\ place2[after[y]] = place2[y] + 1
  <2>1. CASE y = m
    <3>1. after[y] = next[k] /\ owner2[y] = k /\ place2[y] = length
      BY <2>1, <1>2, <1>4, <1>5
    <3>2. CASE next[k] \in 0 .. m
      <4>1. next[k] = k
        BY <3>2, <1>2, <1>3, <1>4
      <4> QED
        BY <3>1, <4>1
    <3>3. CASE next[k] \notin 0 .. m
      <4>1. owner[next[k]] = k /\ place[next[k]] = 1
        BY <3>3, <1>2, <1>3, <1>4
      <4>2. next[k] \in Nodes(n) /\ next[k] # m /\ next[k] # k
        BY <3>3, <1>1, <1>4
      <4>3. owner2[next[k]] = k
        BY <4>1, <4>2, <1>4
      <4>4. place2[next[k]] = 1 + length
        BY <4>1, <4>2
      <4>5. next[k] \notin 0 .. m - 1
        BY <3>3, <1>6
      <4> QED
        BY <3>1, <4>3, <4>4, <4>5, <1>7
    <3> QED
      BY <3>2, <3>3
  <2>2. CASE y = k
    <3>1. after[y] = next[m] /\ owner2[y] = k /\ place2[y] = 0
      BY <2>2, <1>2, <1>4, <1>5
    <3>2. CASE next[m] \in 0 .. m
      <4>1. next[m] = m
        BY <3>2, <1>2, <1>3, <1>4
      <4>2. last[m] = m
        BY <4>1, <1>1, <1>4
      <4>3. length = 1
        BY <4>2, <1>2, <1>4
      <4>4. owner2[m] = k /\ place2[m] = length
        BY <1>2, <1>4
      <4>5. m \notin 0 .. m - 1
        OBVIOUS
      <4> QED
        BY <3>1, <4>1, <4>3, <4>4, <4>5
    <3>3. CASE next[m] \notin 0 .. m
      <4>1. owner[next[m]] = m /\ place[next[m]] = 1
        BY <3>3, <1>2, <1>3, <1>4
      <4>2. next[m] \in Nodes(n) /\ next[m] # m
        BY <3>3, <1>1, <1>4
      <4>3. owner2[next[m]] = k /\ place2[next[m]] = 1
        BY <4>1, <4>2, <1>4
      <4>4. next[m] \notin 0 .. m - 1
        BY <3>3, <1>6
      <4> QED
        BY <3>1, <4>3, <4>4
    <3> QED
      BY <3>2, <3>3
  <2>3. CASE y # m /\ y # k
    <3>1. after[y] = next[y] /\ next[y] \in Nodes(n)
      BY <2>3, <1>1, <1>5
    <3>2. CASE next[y] \in 0 .. m - 1
      <4>1. next[y] = owner[y] /\ owner[y] # m
        BY <3>2, <1>3, <1>6
      <4>2. owner2[y] = owner[y]
        BY <4>1
      <4> QED
        BY <3>1, <3>2, <4>1, <4>2
    <3>3. CASE next[y] = m
      <4>1. y = last[m]
        BY <3>3, <1>1
      <4>2. owner[y] = m
        BY <4>1, <1>7
      <4>3. owner2[y] = k /\ place2[y] = place[y]
        BY <4>2, <2>3, <1>4
      <4>4. owner2[m] = k /\ place2[m] = place[y] + 1
        BY <4>1, <1>2, <1>4
      <4>5. m \notin 0 .. m - 1
        OBVIOUS
      <4> QED
        BY <3>1, <3>3, <4>3, <4>4, <4>5
    <3>4. CASE next[y] \notin 0 .. m
      <4>1. owner[next[y]] = owner[y] /\ place[next[y]] = place[y] + 1
        BY <3>4, <1>3
      <4>2. next[y] # m /\ next[y] # k /\ next[y] \notin 0 .. m - 1
        BY <3>4, <1>4, <1>6
      <4>3. owner2[next[y]] = owner2[y]
        BY <4>1, <3>1
      <4>4. place2[next[y]] = place2[y] + 1
        <5>1. place[y] \in Nat
          BY <1>2
        <5>2. CASE owner[y] = k
          <6>1. place2[y] = place[y] + length /\ place2[next[y]] = place[next[y]] + length
            BY <5>2, <4>1, <4>2, <3>1, <2>3
          <6> QED
            BY <6>1, <4>1, <5>1, <1>7
        <5>3. CASE owner[y] # k
          <6>1. place2[y] = place[y] /\ place2[next[y]] = place[next[y]]
            BY <5>3, <4>1, <4>2, <3>1, <2>3
          <6> QED
            BY <6>1, <4>1
        <5> QED
          BY <5>2, <5>3
      <4> QED
        BY <3>1, <4>2, <4>3, <4>4
    <3> QED
      BY <3>2, <3>3, <3>4, <1>6
  <2> QED
    BY <2>1, <2>2, <2>3
<1> HIDE DEF owner2, place2
<1>12. Rooted(after, owner2, place2, n, m - 1)
  BY <1>8, <1>9, <1>10, <1>11 DEF Rooted
<1> QED
  BY <1>12 DEF after

\* Division with remainder.
LEMMA Division ==
  ASSUME NEW a \in Nat, NEW n \in Nat, n # 0
  PROVE  /\ a \div n \in Nat /\ a % n \in 0 .. n - 1
         /\ a = n * (a \div n) + (a % n)
<1>1. a % n \in 0 .. n - 1
  BY Z3
<1>2. a = n * (a \div n) + (a % n)
  BY Z3
<1>3. a \div n \in Int
  BY Z3
<1>4. a \div n >= 0
  BY Z3
<1> QED
  BY <1>1, <1>2, <1>3, <1>4

\* The remainder and the quotient are the only ones there are.
LEMMA Remainder ==
  ASSUME NEW n \in Nat, n # 0, NEW q \in Nat, NEW r \in 0 .. n - 1
  PROVE  (n * q + r) % n = r /\ (n * q + r) \div n = q
BY Z3

\* The remainder of the next number is the next one, or it begins anew.
LEMMA NextRemainder ==
  ASSUME NEW a \in Nat, NEW n \in Nat, n # 0
  PROVE  (a + 1) % n = IF a % n = n - 1 THEN 0 ELSE (a % n) + 1
<1> DEFINE q == a \div n  r == a % n
<1>1. q \in Nat /\ r \in 0 .. n - 1 /\ a = n * q + r
  BY Division
<1> HIDE DEF q, r
<1>2. CASE r = n - 1
  <2>1. n * (q + 1) = n * q + n
    BY <1>1, Z3
  <2>2. a + 1 = n * (q + 1) + 0
    BY <1>1, <1>2, <2>1
  <2>3. q + 1 \in Nat /\ 0 \in 0 .. n - 1
    BY <1>1
  <2>4. (n * (q + 1) + 0) % n = 0
    BY <2>3, Remainder
  <2> QED
    BY <1>2, <2>2, <2>4 DEF r
<1>3. CASE r # n - 1
  <2>1. r + 1 \in 0 .. n - 1
    BY <1>1, <1>3
  <2>2. (n * q + (r + 1)) % n = r + 1
    BY <1>1, <2>1, Remainder
  <2>3. n * q \in Nat
    BY <1>1, Z3
  <2>4. a + 1 = n * q + (r + 1)
    BY <1>1, <2>3
  <2> QED
    BY <1>3, <2>2, <2>4, Zenon DEF r
<1> QED
  BY <1>2, <1>3

\* Swap by swap, build_chase_permutation joins the cycles of the identity.
LEMMA ShuffleJoinsAll ==
  ASSUME NEW w, w.n \in Nat \ {0}, \A h \in 1 .. w.n - 1 : w.draws[h] \in Nat
  PROVE  OneEach(ChasePermutation(w), w.n, 0)
<1> DEFINE n == w.n
           draws == w.draws
           id == [node \in 0 .. n - 1 |-> node]
           Body(f) == [k \in 0 .. n - 1 |->
                         IF k = 0 THEN id ELSE Swap(f[k - 1], n - k, draws[k] % (n - k))]
           c == CHOOSE f : f = Body(f)
<1>1. n \in Nat \ {0} /\ \A k \in 1 .. n - 1 : draws[k] \in Nat
  OBVIOUS
<1>2. ChasePermutation(w) = c[n - 1]
  BY DEF ChasePermutation, Swap
<1> HIDE DEF n, draws
<1>3. id \in [Nodes(n) -> Nodes(n)]
  BY DEF Nodes
<1>4. ASSUME NEW k \in 1 .. n - 1
      PROVE  /\ n - k \in 1 .. n - 1 /\ draws[k] % (n - k) \in 0 .. (n - k) - 1
             /\ n - k \in Nodes(n) /\ draws[k] % (n - k) \in Nodes(n)
             /\ n - k # draws[k] % (n - k)
  <2>1. n - k \in 1 .. n - 1 /\ n - k \in Nat /\ n - k # 0
    BY <1>1
  <2>2. draws[k] \in Nat
    BY <1>1
  <2>3. draws[k] % (n - k) \in 0 .. (n - k) - 1
    BY <2>1, <2>2, Division
  <2> QED
    BY <2>1, <2>3, <1>1 DEF Nodes
<1>5. c = Body(c)
  <2> DEFINE S == [Nodes(n) -> Nodes(n)]
             step == [p \in (1 .. n - 1) \X S |-> Swap(p[2], n - p[1], draws[p[1]] % (n - p[1]))]
  <2>1. \A p \in (1 .. n - 1) \X S : Swap(p[2], n - p[1], draws[p[1]] % (n - p[1])) \in S
    <3> TAKE p \in (1 .. n - 1) \X S
    <3>1. PICK k, g : k = p[1] /\ g = p[2]
      OBVIOUS
    <3>2. k \in 1 .. n - 1 /\ g \in S
      BY <3>1
    <3>3. PICK i, j : i = n - k /\ j = draws[k] % (n - k)
      OBVIOUS
    <3>4. i \in Nodes(n) /\ j \in Nodes(n)
      BY <3>2, <3>3, <1>4
    <3>5. Swap(g, i, j) \in S
      BY <3>2, <3>4 DEF Swap
    <3> QED
      BY <3>1, <3>3, <3>5, Zenon
  <2>2. step \in [(1 .. n - 1) \X S -> S]
    BY <2>1
  <2>3. \A k \in 1 .. n - 1 : \A g \in S : step[<<k, g>>] = Swap(g, n - k, draws[k] % (n - k))
    OBVIOUS
  <2>4. id \in S /\ n - 1 \in Nat
    BY <1>1, <1>3
  <2> HIDE DEF S, step, id
  <2>5. PICK f \in [0 .. n - 1 -> S] : StepsFrom(f, n - 1, id, step)
    <3>1. PICK q : q = n - 1
      OBVIOUS
    <3>2. \E f \in [0 .. q -> S] : StepsFrom(f, q, id, step)
      BY <2>2, <2>4, <3>1, RecursionExists
    <3> QED
      BY <3>1, <3>2
  <2>6. ASSUME NEW k \in 0 .. n - 1
        PROVE  f[k] = IF k = 0 THEN id ELSE Swap(f[k - 1], n - k, draws[k] % (n - k))
    <3>1. CASE k = 0
      BY <3>1, <2>5 DEF StepsFrom
    <3>2. CASE k # 0
      <4>1. k \in 1 .. n - 1 /\ k - 1 \in 0 .. n - 1
        BY <3>2, <1>1
      <4>2. f[k - 1] \in S
        BY <4>1
      <4>3. f[k] = step[<<k, f[k - 1]>>]
        BY <4>1, <2>5, Zenon DEF StepsFrom
      <4>4. step[<<k, f[k - 1]>>] = Swap(f[k - 1], n - k, draws[k] % (n - k))
        BY <4>1, <4>2, <2>3, Zenon
      <4> QED
        BY <3>2, <4>3, <4>4
    <3> QED
      BY <3>1, <3>2
  <2>7. f = Body(f)
    BY <2>6
  <2> HIDE DEF Body
  <2> QED
    BY <2>7
<1>6. \A k \in 1 .. n - 1 : c[k] = Swap(c[k - 1], n - k, draws[k] % (n - k))
  <2> TAKE k \in 1 .. n - 1
  <2>1. k \in 0 .. n - 1 /\ k # 0
    OBVIOUS
  <2> HIDE DEF c
  <2> QED
    BY <2>1, <1>5
<1>7. c[0] = id
  <2>1. 0 \in 0 .. n - 1
    BY <1>1
  <2> HIDE DEF c
  <2> QED
    BY <2>1, <1>5
<1> HIDE DEF c, Body
<1> DEFINE T == {k \in Nat : OneEach(c[k], n, n - 1 - k)}
<1>8. 0 \in T
  <2>1. Inverses(id, id, n)
    BY <1>3 DEF Inverses, Nodes
  <2>2. Rooted(id, id, [y \in Nodes(n) |-> 0], n, n - 1)
    BY <1>1 DEF Rooted, Nodes
  <2>3. n - 1 - 0 = n - 1
    BY <1>1
  <2> HIDE DEF id
  <2>4. OneEach(c[0], n, n - 1 - 0)
    BY <1>7, <2>1, <2>2, <2>3, Zenon DEF OneEach
  <2> QED
    BY <2>4
<1>9. ASSUME NEW k \in 1 .. n - 1, k - 1 \in T PROVE k \in T
  <2>1. PICK m : m = n - k
    OBVIOUS
  <2>2. PICK j : j = draws[k] % (n - k)
    OBVIOUS
  <2>3. PICK g : g = c[k - 1]
    OBVIOUS
  <2>4. n - 1 - (k - 1) = m /\ n - 1 - k = m - 1
    BY <1>1, <2>1
  <2>5. OneEach(c[k - 1], n, n - 1 - (k - 1))
    BY <1>9
  <2>6. OneEach(g, n, m)
    BY <2>3, <2>4, <2>5, Zenon
  <2>7. m \in 1 .. n - 1 /\ j \in 0 .. m - 1 /\ m \in Nodes(n) /\ j \in Nodes(n) /\ m # j
    BY <1>4, <2>1, <2>2
  <2>8. PICK last : Inverses(g, last, n)
    BY <2>6, Zenon DEF OneEach
  <2>9. PICK owner, place : Rooted(g, owner, place, n, m)
    BY <2>6, Zenon DEF OneEach
  <2>10. \E last2 : Inverses(Swap(g, m, j), last2, n)
    BY <2>7, <2>8, <1>1, SwapPermutes
  <2>11. \E owner2, place2 : Rooted(Swap(g, m, j), owner2, place2, n, m - 1)
    BY <2>7, <2>8, <2>9, <1>1, SwapJoins
  <2>12. OneEach(Swap(g, m, j), n, m - 1)
    BY <2>10, <2>11, Zenon DEF OneEach
  <2>13. c[k] = Swap(g, m, j)
    BY <1>6, <2>1, <2>2, <2>3, Zenon
  <2>14. OneEach(c[k], n, n - 1 - k)
    BY <2>4, <2>12, <2>13, Zenon
  <2> QED
    BY <2>14
<1> HIDE DEF T
<1>10. n - 1 \in T
  <2>1. PICK q : q = n - 1
    OBVIOUS
  <2>2. q \in Nat /\ \A k \in 1 .. q : k - 1 \in T => k \in T
    BY <2>1, <1>1, <1>9
  <2>3. \A k \in 0 .. q : k \in T
    BY <2>2, <1>8, InductionUpTo
  <2> QED
    BY <2>1, <2>2, <2>3
<1>11. OneEach(c[n - 1], n, n - 1 - (n - 1)) /\ n - 1 - (n - 1) = 0
  BY <1>1, <1>10 DEF T
<1> QED
  BY <1>2, <1>11, Zenon DEF n

\* The nodes in the order in which next goes through them, from node 0 on.
OneCycle(next, place, n) ==
  /\ next \in [Nodes(n) -> Nodes(n)] /\ place \in [Nodes(n) -> Nodes(n)]
  /\ place[0] = 0
  /\ \A x, y \in Nodes(n) : place[x] = place[y] => x = y
  /\ \A y \in Nodes(n) : place[next[y]] = IF place[y] = n - 1 THEN 0 ELSE place[y] + 1

\* When only node 0 has a cycle of its own left, there is one cycle.
LEMMA OneLeftIsOneCycle ==
  ASSUME NEW n \in Nat \ {0}, NEW next, OneEach(next, n, 0)
  PROVE  \E place : OneCycle(next, place, n)
<1>1. PICK last : Inverses(next, last, n)
  BY Zenon DEF OneEach
<1>2. PICK owner, place : Rooted(next, owner, place, n, 0)
  BY Zenon DEF OneEach
<1>3. /\ next \in [Nodes(n) -> Nodes(n)] /\ last \in [Nodes(n) -> Nodes(n)]
      /\ \A y \in Nodes(n) : last[next[y]] = y /\ next[last[y]] = y
  BY <1>1 DEF Inverses
<1>4. /\ place \in [Nodes(n) -> Nat] /\ place[0] = 0
      /\ \A y \in Nodes(n) : next[y] # 0 => place[next[y]] = place[y] + 1
  BY <1>2 DEF Rooted
<1>5. 0 \in Nodes(n)
  BY DEF Nodes
<1>6. ASSUME NEW x \in Nodes(n), x # 0
      PROVE  /\ last[x] \in Nodes(n) /\ next[last[x]] = x
             /\ place[last[x]] \in Nat /\ place[x] = place[last[x]] + 1
  <2>1. last[x] \in Nodes(n) /\ next[last[x]] = x
    BY <1>3
  <2> QED
    BY <2>1, <1>4, <1>6
\* No two nodes have one place, and no place before one that is taken is free.
<1> DEFINE Apart == {p \in Nat : \A x, y \in Nodes(n) : place[x] = p /\ place[y] = p => x = y}
           Down  == {p \in Nat : \A x \in Nodes(n) : place[x] = p =>
                                   \A q \in 0 .. p : \E y \in Nodes(n) : place[y] = q}
<1>7. 0 \in Apart
  <2> SUFFICES ASSUME NEW x \in Nodes(n), place[x] = 0 PROVE x = 0
    OBVIOUS
  <2> QED
    BY <1>6
<1>8. ASSUME NEW p \in Nat \ {0}, p - 1 \in Apart PROVE p \in Apart
  <2> SUFFICES ASSUME NEW x \in Nodes(n), NEW y \in Nodes(n), place[x] = p, place[y] = p
               PROVE  x = y
    OBVIOUS
  <2>1. x # 0 /\ y # 0
    BY <1>4
  <2>2. place[last[x]] = p - 1 /\ place[last[y]] = p - 1
    BY <2>1, <1>6
  <2>3. last[x] = last[y]
    BY <2>1, <2>2, <1>6, <1>8
  <2> QED
    BY <2>1, <2>3, <1>6, Zenon
<1>9. 0 \in Down
  BY <1>4, <1>5
<1>10. ASSUME NEW p \in Nat \ {0}, p - 1 \in Down PROVE p \in Down
  <2> SUFFICES ASSUME NEW x \in Nodes(n), place[x] = p, NEW q \in 0 .. p
               PROVE  \E y \in Nodes(n) : place[y] = q
    OBVIOUS
  <2>1. x # 0
    BY <1>4
  <2>2. last[x] \in Nodes(n) /\ place[last[x]] = p - 1
    BY <2>1, <1>6
  <2>3. CASE q = p
    BY <2>3
  <2>4. CASE q # p
    <3>1. q \in 0 .. p - 1
      BY <2>4
    <3> QED
      BY <3>1, <2>2, <1>10
  <2> QED
    BY <2>3, <2>4
<1> HIDE DEF Apart, Down
<1>11. \A p \in Nat : p \in Apart /\ p \in Down
  <2>1. \A p \in Nat : p \in Apart
    BY <1>7, <1>8, InductionOnNat
  <2>2. \A p \in Nat : p \in Down
    BY <1>9, <1>10, InductionOnNat
  <2> QED
    BY <2>1, <2>2
<1>12. \A x, y \in Nodes(n) : place[x] = place[y] => x = y
  <2> TAKE x, y \in Nodes(n)
  <2>1. PICK p : p = place[x]
    OBVIOUS
  <2>2. p \in Nat
    BY <2>1, <1>4
  <2>3. p \in Apart
    BY <2>2, <1>11
  <2> QED
    BY <2>1, <2>3 DEF Apart
<1>13. \A x \in Nodes(n) : \A q \in 0 .. place[x] : \E y \in Nodes(n) : place[y] = q
  <2> TAKE x \in Nodes(n)
  <2>1. PICK p : p = place[x]
    OBVIOUS
  <2>2. p \in Nat
    BY <2>1, <1>4
  <2>3. p \in Down
    BY <2>2, <1>11
  <2> QED
    BY <2>1, <2>3 DEF Down
<1>14. IsFiniteSet(Nodes(n)) /\ Cardinality(Nodes(n)) = n
  <2>1. PICK q : q = n - 1
    OBVIOUS
  <2>2. q \in Int /\ 0 \in Int /\ q - 0 + 1 = n /\ ~(0 > q)
    BY <2>1
  <2>3. IsFiniteSet(0 .. q) /\ Cardinality(0 .. q) = q - 0 + 1
    BY <2>2, FS_Interval
  <2> QED
    BY <2>1, <2>2, <2>3 DEF Nodes
\* All places are below n: there are only n nodes to take the places up to it.
<1>15. ASSUME NEW x \in Nodes(n) PROVE place[x] \in Nodes(n)
  <2> SUFFICES ASSUME n <= place[x] PROVE FALSE
    BY <1>4 DEF Nodes
  <2> DEFINE at == [q \in 0 .. n |-> CHOOSE y \in Nodes(n) : place[y] = q]
  <2>1. place[x] \in Nat
    BY <1>4
  <2>2. \A q \in 0 .. n : q \in 0 .. place[x]
    BY <2>1
  <2>3. \A q \in 0 .. n : \E y \in Nodes(n) : place[y] = q
    BY <2>2, <1>13
  <2>4. \A q \in 0 .. n : at[q] \in Nodes(n) /\ place[at[q]] = q
    BY <2>3
  <2>5. at \in [0 .. n -> Nodes(n)]
    BY <2>4
  <2>6. IsFiniteSet(0 .. n) /\ Cardinality(0 .. n) = n + 1
    <3>1. n \in Int /\ 0 \in Int /\ ~(0 > n) /\ n - 0 + 1 = n + 1
      OBVIOUS
    <3>2. IsFiniteSet(0 .. n) /\ Cardinality(0 .. n) = n - 0 + 1
      BY <3>1, FS_Interval
    <3> QED
      BY <3>1, <3>2
  <2> HIDE DEF at
  <2>7. Cardinality(Nodes(n)) < Cardinality(0 .. n)
    BY <2>6, <1>14
  <2>8. PICK p, q \in 0 .. n : p # q /\ at[p] = at[q]
    BY <2>5, <2>6, <2>7, <1>14, FS_PigeonHole
  <2> QED
    BY <2>4, <2>8, Zenon
\* And all places below n are taken: there are n nodes.
<1>16. ASSUME NEW p \in Nodes(n) PROVE \E y \in Nodes(n) : place[y] = p
  <2> SUFFICES ASSUME \A y \in Nodes(n) : place[y] # p PROVE FALSE
    OBVIOUS
  <2>1. place \in [Nodes(n) -> Nodes(n) \ {p}]
    BY <1>4, <1>15
  <2>2. IsFiniteSet(Nodes(n) \ {p}) /\ Cardinality(Nodes(n) \ {p}) = n - 1
    BY <1>14, FS_RemoveElement
  <2>3. Cardinality(Nodes(n) \ {p}) < Cardinality(Nodes(n))
    BY <2>2, <1>14
  <2>4. \E x, y \in Nodes(n) : x # y /\ place[x] = place[y]
    BY <2>1, <2>2, <2>3, <1>14, FS_PigeonHole
  <2> QED
    BY <2>4, <1>12
<1>17. ASSUME NEW y \in Nodes(n)
       PROVE  place[next[y]] = IF place[y] = n - 1 THEN 0 ELSE place[y] + 1
  <2>1. next[y] \in Nodes(n) /\ place[next[y]] \in Nodes(n) /\ place[y] \in Nodes(n)
    BY <1>3, <1>15
  <2>2. CASE place[y] = n - 1
    <3>1. next[y] = 0
      <4>1. ~(place[y] + 1 \in Nodes(n))
        BY <2>2 DEF Nodes
      <4> QED
        BY <4>1, <2>1, <1>4
    <3> QED
      BY <2>2, <3>1, <1>4
  <2>3. CASE place[y] # n - 1
    <3>1. PICK x \in Nodes(n) : place[x] = n - 1
      <4>1. n - 1 \in Nodes(n)
        BY DEF Nodes
      <4> QED
        BY <4>1, <1>16
    <3>2. next[x] = 0
      <4>1. next[x] \in Nodes(n) /\ place[next[x]] \in Nodes(n)
        BY <1>3, <1>15
      <4>2. ~(place[x] + 1 \in Nodes(n))
        BY <3>1 DEF Nodes
      <4> QED
        BY <4>1, <4>2, <1>4
    <3>3. next[y] # 0
      <4>1. y # x
        BY <3>1, <2>3
      <4> QED
        BY <4>1, <3>2, <1>3
    <3> QED
      BY <3>3, <2>3, <1>4
  <2> QED
    BY <2>2, <2>3
<1>18. OneCycle(next, place, n)
  <2>1. place \in [Nodes(n) -> Nodes(n)]
    BY <1>4, <1>15
  <2> QED
    BY <2>1, <1>3, <1>4, <1>12, <1>17 DEF OneCycle
<1> QED
  BY <1>18

-----------------------------------------------------------------------------
(* Jobs.                                                                    *)

\* What main hands to a workload.
IsJob(w) ==
  /\ w.workload \in Workload
  /\ w.n \in Nat \ {0} /\ w.iterations \in Nat \ {0} /\ w.block \in Nat
  /\ w.stride \in Nat \ {0} /\ w.stride % ElementSize = 0
  /\ \A h \in 1 .. Draws(w) : w.draws[h] \in Nat

\* The number of iterations of a loop over the array.
LEMMA TotalType ==
  ASSUME NEW w, IsJob(w)
  PROVE  Total(w) \in Nat \ {0} /\ Total(w) = w.n * w.iterations
<1>1. w.n \in Nat \ {0} /\ w.iterations \in Nat \ {0}
  BY DEF IsJob
<1>2. \A x, y \in Nat \ {0} : x * y \in Nat \ {0}
  <2> TAKE x, y \in Nat \ {0}
  <2>1. x * y \in Nat
    OBVIOUS
  <2>2. x * y # 0
    BY Z3
  <2> QED
    BY <2>1, <2>2
<1> QED
  BY <1>1, <1>2 DEF Total

\* Elements have addresses.
LEMMA ElementType ==
  ASSUME NEW x \in Int
  PROVE  Element(x) \in Int /\ x * ElementSize \in Int
BY LayoutAssumption DEF Element

-----------------------------------------------------------------------------
(* The walk along the chain.                                                *)

\* The nodes the chase visits, one after the other.
IsWalk(w, node, place) ==
  /\ node \in [1 .. Total(w) -> Nodes(w.n)]
  /\ PointerChase(w) = Scan("L", [h \in 1 .. Total(w) |-> Element(node[h])], 2)
  /\ NativePointerChase(w).accesses
       = [h \in 1 .. Total(w) |-> Access("load", "next", node[h])]
  /\ OneCycle(ChasePermutation(w), place, w.n)
  /\ \A h \in 1 .. Total(w) : place[node[h]] = (h - 1) % w.n

\* The h-th visit is that of the node at place h - 1 of the cycle, as often as the cycle
\* is gone round.
LEMMA ChaseWalks ==
  ASSUME NEW w, IsJob(w), w.workload = "pointer_chase"
  PROVE  \E node, place : IsWalk(w, node, place)
<1> DEFINE n == w.n
           total == Total(w)
           next == ChasePermutation(w)
           Body(f) == [h \in 1 .. total |-> IF h = 1 THEN 0 ELSE next[f[h - 1]]]
           c == CHOOSE f : f = Body(f)
<1>1. n \in Nat \ {0} /\ total \in Nat \ {0}
  BY TotalType DEF IsJob
<1>2. \A h \in 1 .. n - 1 : w.draws[h] \in Nat
  <2>1. Draws(w) = n - 1
    BY Zenon DEF Draws
  <2> QED
    BY <2>1 DEF IsJob
<1>3. OneEach(next, n, 0)
  BY <1>1, <1>2, ShuffleJoinsAll
<1>4. /\ PointerChase(w) = Scan("L", [h \in 1 .. total |-> Element(c[h])], 2)
      /\ NativePointerChase(w).accesses = [h \in 1 .. total |-> Access("load", "next", c[h])]
  BY DEF PointerChase, NativePointerChase
<1> HIDE DEF n, next, total
<1>5. PICK place : OneCycle(next, place, n)
  BY <1>1, <1>3, OneLeftIsOneCycle
<1>6. /\ next \in [Nodes(n) -> Nodes(n)] /\ place[0] = 0 /\ 0 \in Nodes(n)
      /\ \A y \in Nodes(n) : place[next[y]] = IF place[y] = n - 1 THEN 0 ELSE place[y] + 1
  <2>1. 0 \in Nodes(n)
    BY <1>1 DEF Nodes
  <2> QED
    BY <2>1, <1>5 DEF OneCycle
<1>7. c = Body(c)
  <2> DEFINE step == [p \in (1 .. total - 1) \X Nodes(n) |-> next[p[2]]]
  <2>1. step \in [(1 .. total - 1) \X Nodes(n) -> Nodes(n)]
    BY <1>6
  <2>2. \A k \in 1 .. total - 1 : \A y \in Nodes(n) : step[<<k, y>>] = next[y]
    OBVIOUS
  <2> HIDE DEF step
  <2>3. PICK q : q = total - 1
    OBVIOUS
  <2>4. q \in Nat
    BY <1>1, <2>3
  <2>5. PICK g \in [0 .. q -> Nodes(n)] : StepsFrom(g, q, 0, step)
    BY <2>1, <2>3, <2>4, <1>6, RecursionExists
  <2> DEFINE f == [h \in 1 .. total |-> g[h - 1]]
  <2>6. ASSUME NEW h \in 1 .. total PROVE f[h] = IF h = 1 THEN 0 ELSE next[f[h - 1]]
    <3>1. f[h] = g[h - 1]
      OBVIOUS
    <3>2. CASE h = 1
      BY <3>1, <3>2, <2>5 DEF StepsFrom
    <3>3. CASE h # 1
      <4>1. PICK k : k = h - 1
        OBVIOUS
      <4>2. k \in 1 .. q /\ k - 1 \in 0 .. q /\ k \in 1 .. total /\ k \in 1 .. total - 1
        BY <4>1, <3>3, <2>3, <1>1
      <4>3. f[k] = g[k - 1]
        BY <4>2
      <4>4. g[k - 1] \in Nodes(n)
        BY <4>2
      <4>5. g[k] = step[<<k, g[k - 1]>>]
        BY <4>2, <2>5, Zenon DEF StepsFrom
      <4>6. g[k] = next[g[k - 1]]
        BY <4>2, <4>4, <4>5, <2>2, Zenon
      <4> QED
        BY <3>1, <3>3, <4>1, <4>3, <4>6
    <3> QED
      BY <3>2, <3>3
  <2>7. f = Body(f)
    BY <2>6
  <2> HIDE DEF Body, f
  <2> QED
    BY <2>7
<1> HIDE DEF c
<1>8. \A h \in 1 .. total : c[h] = IF h = 1 THEN 0 ELSE next[c[h - 1]]
  BY <1>7
<1> HIDE DEF Body
<1> DEFINE T == {k \in Nat : k < total => /\ c[k + 1] \in Nodes(n)
                                           /\ place[c[k + 1]] = k % n}
<1>9. 0 \in T
  <2>1. c[0 + 1] = 0
    BY <1>1, <1>8
  <2>2. 0 % n = 0
    BY <1>1
  <2> QED
    BY <2>1, <2>2, <1>6
<1>10. ASSUME NEW k \in Nat \ {0}, k - 1 \in T PROVE k \in T
  <2> SUFFICES ASSUME k < total PROVE c[k + 1] \in Nodes(n) /\ place[c[k + 1]] = k % n
    OBVIOUS
  <2>1. PICK j : j = k - 1
    OBVIOUS
  <2>2. j \in Nat /\ j < total /\ j + 1 = k
    BY <2>1, <1>1
  <2>3. c[k] \in Nodes(n) /\ place[c[k]] = j % n
    <3>1. j \in T
      BY <2>1, <1>10
    <3> QED
      BY <3>1, <2>2
  <2>4. c[k + 1] = next[c[k]]
    <3>1. k + 1 \in 1 .. total /\ k + 1 # 1 /\ (k + 1) - 1 = k
      BY <1>1
    <3>2. c[k + 1] = next[c[(k + 1) - 1]]
      BY <3>1, <1>8
    <3> QED
      BY <3>1, <3>2, Zenon
  <2>5. next[c[k]] \in Nodes(n)
    BY <2>3, <1>6
  <2>6. (j + 1) % n = IF j % n = n - 1 THEN 0 ELSE (j % n) + 1
    BY <2>2, <1>1, NextRemainder
  <2>7. place[next[c[k]]] = IF place[c[k]] = n - 1 THEN 0 ELSE place[c[k]] + 1
    BY <2>3, <1>6
  <2>8. place[next[c[k]]] = (j + 1) % n
    BY <2>3, <2>6, <2>7
  <2> QED
    BY <2>2, <2>4, <2>5, <2>8, Zenon
<1> HIDE DEF T
<1>11. \A k \in Nat : k \in T
  BY <1>9, <1>10, InductionOnNat
<1>12. \A h \in 1 .. total : c[h] \in Nodes(n) /\ place[c[h]] = (h - 1) % n
  <2> TAKE h \in 1 .. total
  <2>1. PICK k : k = h - 1
    OBVIOUS
  <2>2. k \in Nat /\ k < total /\ k + 1 = h
    BY <1>1, <2>1
  <2>3. k \in T
    BY <2>2, <1>11
  <2>4. c[k + 1] \in Nodes(n) /\ place[c[k + 1]] = k % n
    BY <2>2, <2>3 DEF T
  <2> QED
    BY <2>1, <2>2, <2>4, Zenon
\* c is a function because it equals Body(c).
<1>13. c \in [1 .. total -> Nodes(n)]
  <2>1. c = [h \in 1 .. total |-> IF h = 1 THEN 0 ELSE next[c[h - 1]]]
    BY <1>7 DEF Body
  <2>2. \A h \in 1 .. total : (IF h = 1 THEN 0 ELSE next[c[h - 1]]) \in Nodes(n)
    BY <1>8, <1>12
  <2> QED
    BY <2>1, <2>2
<1>14. IsWalk(w, c, place)
  BY <1>4, <1>5, <1>12, <1>13, Zenon DEF IsWalk, n, total, next
<1> QED
  BY <1>14

-----------------------------------------------------------------------------
(* Traces of kernels.                                                       *)

\* What TraceIsKernel says of the accesses of a trace and those of a kernel.
IsTraceOf(trace, kernel) ==
  LET page(p) == trace[p].value \div PageSize
  IN  /\ Len(trace) = Len(kernel)
      /\ \A p \in DOMAIN trace : (trace[p].type = "W") <=> (kernel[p].kind = "store")
      /\ \A p, q \in DOMAIN trace :
           IF kernel[p].array = kernel[q].array
           THEN trace[p].value - trace[q].value
                  = (kernel[p].index - kernel[q].index) * ElementSize
           ELSE page(p) # page(q)

\* The addresses of elements and the loads of the same elements.
Addresses(index, n) == [h \in 1 .. n |-> Element(index[h])]

\* Loads of these elements of an array.
Loads(array, index, n) == [h \in 1 .. n |-> Access("load", array, index[h])]

\* A scan whose addresses are those of the elements the kernel loads is its trace.
LEMMA ScanIsTrace ==
  ASSUME NEW n \in Nat, NEW index, Maps(index, 1 .. n, Int), NEW compute \in Int,
         NEW type \in {"R", "L"}, NEW array
  PROVE  /\ Scan(type, Addresses(index, n), compute) \in Seq(Records)
         /\ IsTraceOf(AccessesIn(Scan(type, Addresses(index, n), compute)),
                      Loads(array, index, n))
<1> DEFINE addresses == Addresses(index, n)
           kernel == Loads(array, index, n)
           trace == [h \in 1 .. n |-> Record(type, addresses[h])]
<1>1. \A h \in 1 .. n : index[h] \in Int /\ addresses[h] = Element(index[h]) /\ addresses[h] \in Int
  BY ElementType DEF Maps, Addresses
<1>2. addresses \in [1 .. n -> Int]
  BY <1>1 DEF Addresses
<1>3. /\ Scan(type, addresses, compute) \in Seq(Records)
      /\ AccessesIn(Scan(type, addresses, compute)) = trace
  BY <1>2, ScanTrace
<1>4. DOMAIN trace = 1 .. n /\ Len(trace) = n /\ DOMAIN kernel = 1 .. n /\ Len(kernel) = n
  BY DEF Loads
<1>5. \A h \in 1 .. n :
        /\ trace[h].type = type /\ trace[h].value = Element(index[h])
        /\ kernel[h].kind = "load" /\ kernel[h].array = array /\ kernel[h].index = index[h]
  BY <1>1 DEF Record, Access, Loads
<1>6. \A x, y \in Int : Element(x) - Element(y) = (x - y) * ElementSize
  <2> TAKE x, y \in Int
  <2>1. x * ElementSize - y * ElementSize = (x - y) * ElementSize
    BY LayoutAssumption, Z3
  <2>2. x * ElementSize \in Int /\ y * ElementSize \in Int
    BY ElementType
  <2> QED
    BY <2>1, <2>2, LayoutAssumption DEF Element
<1> HIDE DEF trace, kernel, addresses
<1>7. IsTraceOf(trace, kernel)
  <2>1. \A p \in 1 .. n : (trace[p].type = "W") <=> (kernel[p].kind = "store")
    BY <1>5
  <2>2. \A p, q \in 1 .. n :
          /\ kernel[p].array = kernel[q].array
          /\ trace[p].value - trace[q].value = (kernel[p].index - kernel[q].index) * ElementSize
    <3> TAKE p, q \in 1 .. n
    <3>1. index[p] \in Int /\ index[q] \in Int
      BY <1>1
    <3>2. Element(index[p]) - Element(index[q]) = (index[p] - index[q]) * ElementSize
      BY <3>1, <1>6, Zenon
    <3> QED
      BY <3>2, <1>5, Zenon
  <2>3. \A p, q \in DOMAIN trace :
          IF kernel[p].array = kernel[q].array
          THEN trace[p].value - trace[q].value
                 = (kernel[p].index - kernel[q].index) * ElementSize
          ELSE trace[p].value \div PageSize # trace[q].value \div PageSize
    BY <2>2, <1>4, Zenon
  <2> QED
    BY <2>1, <2>3, <1>4, Zenon DEF IsTraceOf
<1> QED
  BY <1>3, <1>7, Zenon DEF addresses, kernel

-----------------------------------------------------------------------------
(* The four workloads of one array.                                         *)

\* A remainder is in range.
LEMMA DrawInRange ==
  ASSUME NEW w, IsJob(w), NEW d \in Nat
  PROVE  d % w.n \in Nat
<1>1. w.n \in Nat /\ w.n # 0
  BY DEF IsJob
<1>2. d % w.n \in 0 .. w.n - 1
  BY <1>1, Division
<1> QED
  BY <1>2

\* What TraceIsKernel asks of a workload.
Faithful(w) ==
  Emission(w) \in Seq(Records) /\ IsTraceOf(AccessesIn(Emission(w)), Native(w).accesses)

\* Element after element, round the array.
LEMMA SequentialFaithful ==
  ASSUME NEW w, IsJob(w), w.workload = "sequential"
  PROVE  Faithful(w)
<1> DEFINE n == Total(w)
           index == [h \in 1 .. n |-> (h - 1) % w.n]
           addresses == [h \in 1 .. n |-> Element((h - 1) % w.n)]
           kernel == [h \in 1 .. n |-> Access("load", "array", (h - 1) % w.n)]
<1>1. n \in Nat
  BY TotalType
<1>2. Emission(w) = Scan("R", addresses, 3)
  BY DEF Emission, Sequential
<1>3. Native(w).accesses = kernel
  <2>1. Native(w) = NativeSequential(w)
    BY DEF Native
  <2>2. NativeSequential(w).accesses = [h \in DOMAIN index |-> Access("load", "array", index[h])]
    BY DEF NativeSequential, NativeScan
  <2> QED
    BY <2>1, <2>2
<1> HIDE DEF n
<1>4. Maps(index, 1 .. n, Int)
  <2>1. \A h \in 1 .. n : (h - 1) % w.n \in Int
    <3> TAKE h \in 1 .. n
    <3>1. h - 1 \in Nat
      BY <1>1
    <3>2. (h - 1) % w.n \in Nat
      BY <3>1, DrawInRange
    <3> QED
      BY <3>2
  <2> QED
    BY <2>1 DEF Maps
<1>5. addresses = Addresses(index, n)
  BY DEF Addresses
<1>6. kernel = Loads("array", index, n)
  BY DEF Loads
<1> HIDE DEF index, addresses, kernel
<1>7. /\ Scan("R", addresses, 3) \in Seq(Records)
      /\ IsTraceOf(AccessesIn(Scan("R", addresses, 3)), kernel)
  BY <1>1, <1>4, <1>5, <1>6, ScanIsTrace
<1> QED
  BY <1>2, <1>3, <1>7, Zenon DEF Faithful

\* An element drawn at random.
LEMMA RandomAccessFaithful ==
  ASSUME NEW w, IsJob(w), w.workload = "random_access"
  PROVE  Faithful(w)
<1> DEFINE n == Total(w)
           index == [h \in 1 .. n |-> w.draws[h] % w.n]
           addresses == [h \in 1 .. n |-> Element(w.draws[h] % w.n)]
           kernel == [h \in 1 .. n |-> Access("load", "array", w.draws[h] % w.n)]
<1>1. n \in Nat
  BY TotalType
<1>2. Emission(w) = Scan("R", addresses, 9)
  BY DEF Emission, RandomAccess
<1>3. Native(w).accesses = kernel
  <2>1. Native(w) = NativeRandomAccess(w)
    BY DEF Native
  <2>2. NativeRandomAccess(w).accesses = [h \in DOMAIN index |-> Access("load", "array", index[h])]
    BY DEF NativeRandomAccess, NativeScan
  <2> QED
    BY <2>1, <2>2
<1>4. \A h \in 1 .. n : w.draws[h] \in Nat
  <2>1. Draws(w) = n
    BY DEF Draws
  <2> QED
    BY <2>1 DEF IsJob
<1> HIDE DEF n
<1>5. Maps(index, 1 .. n, Int)
  <2>1. \A h \in 1 .. n : w.draws[h] % w.n \in Int
    <3> TAKE h \in 1 .. n
    <3>1. w.draws[h] % w.n \in Nat
      BY <1>4, DrawInRange
    <3> QED
      BY <3>1
  <2> QED
    BY <2>1 DEF Maps
<1>6. addresses = Addresses(index, n)
  BY DEF Addresses
<1>7. kernel = Loads("array", index, n)
  BY DEF Loads
<1> HIDE DEF index, addresses, kernel
<1>8. /\ Scan("R", addresses, 9) \in Seq(Records)
      /\ IsTraceOf(AccessesIn(Scan("R", addresses, 9)), kernel)
  BY <1>1, <1>5, <1>6, <1>7, ScanIsTrace
<1> QED
  BY <1>2, <1>3, <1>8, Zenon DEF Faithful

\* A multiple of the stride, which is one of the size of an element.
LEMMA StridedFaithful ==
  ASSUME NEW w, IsJob(w), w.workload = "strided"
  PROVE  Faithful(w)
<1> DEFINE n == Total(w)
           step == w.stride \div ElementSize
           index == [h \in 1 .. n |-> (w.draws[h] % w.n) * step]
           addresses == [h \in 1 .. n |-> ArrayBase + (w.draws[h] % w.n) * w.stride]
           kernel == [h \in 1 .. n |-> Access("load", "array", (w.draws[h] % w.n) * step)]
<1>1. n \in Nat
  BY TotalType
<1>2. Emission(w) = Scan("R", addresses, 6)
  BY DEF Emission, Strided
<1>3. Native(w).accesses = kernel
  <2>1. Native(w) = NativeStrided(w)
    BY DEF Native
  <2>2. NativeStrided(w).accesses = [h \in DOMAIN index |-> Access("load", "array", index[h])]
    BY DEF NativeStrided, NativeScan
  <2> QED
    BY <2>1, <2>2
<1>4. \A h \in 1 .. n : w.draws[h] \in Nat
  <2>1. Draws(w) = n
    BY DEF Draws
  <2> QED
    BY <2>1 DEF IsJob
<1>5. step \in Nat /\ w.stride = ElementSize * step
  <2>1. w.stride \in Nat /\ w.stride % ElementSize = 0
    BY DEF IsJob
  <2>2. /\ w.stride \div ElementSize \in Nat
        /\ w.stride = ElementSize * (w.stride \div ElementSize) + (w.stride % ElementSize)
    BY <2>1, LayoutAssumption, Division
  <2>3. ElementSize * step \in Nat
    BY <2>2, LayoutAssumption
  <2> QED
    BY <2>1, <2>2, <2>3
<1> HIDE DEF n, step
<1>6. ASSUME NEW h \in 1 .. n
      PROVE  /\ (w.draws[h] % w.n) * step \in Int
             /\ ArrayBase + (w.draws[h] % w.n) * w.stride = Element((w.draws[h] % w.n) * step)
  <2>1. PICK d : d = w.draws[h] % w.n
    OBVIOUS
  <2>2. d \in Nat
    BY <2>1, <1>4, DrawInRange
  <2>3. d * step \in Int
    BY <2>2, <1>5
  <2>4. d * (ElementSize * step) = (d * step) * ElementSize
    BY <2>2, <1>5, LayoutAssumption, Z3
  <2> QED
    BY <2>1, <2>3, <2>4, <1>5, Zenon DEF Element
<1>7. Maps(index, 1 .. n, Int)
  BY <1>6 DEF Maps
<1>8. addresses = Addresses(index, n)
  BY <1>6 DEF Addresses
<1>9. kernel = Loads("array", index, n)
  BY DEF Loads
<1> HIDE DEF index, addresses, kernel
<1>10. /\ Scan("R", addresses, 6) \in Seq(Records)
       /\ IsTraceOf(AccessesIn(Scan("R", addresses, 6)), kernel)
  BY <1>1, <1>7, <1>8, <1>9, ScanIsTrace
<1> QED
  BY <1>2, <1>3, <1>10, Zenon DEF Faithful

\* The nodes of the chain, as the same walk visits them.
LEMMA PointerChaseFaithful ==
  ASSUME NEW w, IsJob(w), w.workload = "pointer_chase"
  PROVE  Faithful(w)
<1>1. PICK node, place : IsWalk(w, node, place)
  BY ChaseWalks
<1> DEFINE n == Total(w)
           addresses == [h \in 1 .. n |-> Element(node[h])]
           kernel == [h \in 1 .. n |-> Access("load", "next", node[h])]
<1>2. n \in Nat
  BY TotalType
<1>3. Emission(w) = Scan("L", addresses, 2)
  BY <1>1 DEF Emission, IsWalk
<1>4. Native(w).accesses = kernel
  BY <1>1 DEF Native, IsWalk
<1>5. Maps(node, 1 .. n, Int)
  <2>1. node \in [1 .. n -> Nodes(w.n)]
    BY <1>1 DEF IsWalk
  <2>2. \A y \in Nodes(w.n) : y \in Int
    BY DEF Nodes
  <2> HIDE DEF n
  <2> QED
    BY <2>1, <2>2 DEF Maps
<1>6. addresses = Addresses(node, n)
  BY DEF Addresses
<1>7. kernel = Loads("next", node, n)
  BY DEF Loads
<1> HIDE DEF n, addresses, kernel
<1>8. /\ Scan("L", addresses, 2) \in Seq(Records)
      /\ IsTraceOf(AccessesIn(Scan("L", addresses, 2)), kernel)
  BY <1>2, <1>5, <1>6, <1>7, ScanIsTrace
<1> QED
  BY <1>3, <1>4, <1>8, Zenon DEF Faithful

-----------------------------------------------------------------------------
(* The order of the iterations of the matrix kernel.                        *)

\* Any two elements are in order one way, and not round a circle.
Orders(R, V) ==
  /\ \A u \in V : <<u, u>> \notin R
  /\ \A u, v \in V : u # v => <<u, v>> \in R \/ <<v, u>> \in R
  /\ \A u, v, x \in V : <<u, v>> \in R /\ <<v, x>> \in R => <<u, x>> \in R

\* In a finite set in order no two elements have as many others before them, and none has
\* as many as there are.
LEMMA RanksDiffer ==
  ASSUME NEW V, IsFiniteSet(V), NEW R, Orders(R, V)
  PROVE  /\ \A v \in V : Cardinality({u \in V : <<u, v>> \in R}) \in 0 .. Cardinality(V) - 1
         /\ \A u, v \in V :
              Cardinality({x \in V : <<x, u>> \in R}) = Cardinality({x \in V : <<x, v>> \in R})
                => u = v
<1> DEFINE N == Cardinality(V)
           below(v) == {u \in V : <<u, v>> \in R}
<1>1. N \in Nat
  BY FS_CardinalityType
<1>2. ASSUME NEW v \in V
      PROVE  IsFiniteSet(below(v)) /\ Cardinality(below(v)) \in 0 .. N - 1
  <2>1. below(v) \in SUBSET (V \ {v})
    BY DEF Orders
  <2>2. IsFiniteSet(V \ {v}) /\ Cardinality(V \ {v}) = N - 1
    BY FS_RemoveElement
  <2> HIDE DEF below
  <2>3. IsFiniteSet(below(v)) /\ Cardinality(below(v)) <= Cardinality(V \ {v})
    BY <2>1, <2>2, FS_Subset
  <2>4. Cardinality(below(v)) \in Nat
    BY <2>3, FS_CardinalityType
  <2> QED
    BY <2>2, <2>3, <2>4, <1>1
<1>3. ASSUME NEW u \in V, NEW v \in V, <<u, v>> \in R
      PROVE  Cardinality(below(u)) < Cardinality(below(v))
  <2>1. below(u) \in SUBSET below(v) /\ below(u) # below(v)
    BY <1>3 DEF Orders
  <2> HIDE DEF below
  <2>2. IsFiniteSet(below(v))
    BY <1>2
  <2> QED
    BY <2>1, <2>2, FS_Subset, <1>2
<1>4. ASSUME NEW u \in V, NEW v \in V, Cardinality(below(u)) = Cardinality(below(v)), u # v
      PROVE  FALSE
  <2>1. <<u, v>> \in R \/ <<v, u>> \in R
    BY <1>4 DEF Orders
  <2>2. Cardinality(below(u)) \in 0 .. N - 1
    BY <1>2
  <2> HIDE DEF below
  <2> QED
    BY <2>1, <2>2, <1>3, <1>4
<1> QED
  BY <1>2, <1>4

\* There is an element that any number of others, less than there are, come before.
LEMMA RanksExist ==
  ASSUME NEW V, IsFiniteSet(V), NEW R, Orders(R, V)
  PROVE  \A r \in 1 .. Cardinality(V) :
           \E v \in V : Cardinality({u \in V : <<u, v>> \in R}) = r - 1
<1> DEFINE N == Cardinality(V)
           below(v) == {u \in V : <<u, v>> \in R}
           rank == [v \in V |-> Cardinality(below(v))]
<1>1. N \in Nat
  BY FS_CardinalityType
<1>2. ASSUME NEW v \in V PROVE Cardinality(below(v)) \in 0 .. N - 1
  BY RanksDiffer
<1>4. \A u, v \in V : rank[u] = rank[v] => u = v
  BY RanksDiffer
<1> SUFFICES ASSUME NEW r \in 1 .. N, \A v \in V : rank[v] # r - 1 PROVE FALSE
  OBVIOUS
<1> DEFINE T == (0 .. N - 1) \ {r - 1}
<1>5. rank \in [V -> T]
  <2>1. \A v \in V : Cardinality(below(v)) \in 0 .. N - 1
    BY <1>2
  <2>2. \A v \in V : rank[v] = Cardinality(below(v))
    OBVIOUS
  <2> HIDE DEF below
  <2> QED
    BY <2>1, <2>2
<1>6. IsFiniteSet(T) /\ Cardinality(T) < Cardinality(V)
  <2>1. PICK q : q = N - 1
    OBVIOUS
  <2>2. q \in Int /\ 0 \in Int /\ ~(0 > q) /\ q - 0 + 1 = N /\ r - 1 \in 0 .. q
    BY <2>1, <1>1
  <2>3. IsFiniteSet(0 .. q) /\ Cardinality(0 .. q) = q - 0 + 1
    BY <2>2, FS_Interval
  <2>4. IsFiniteSet((0 .. q) \ {r - 1}) /\ Cardinality((0 .. q) \ {r - 1}) = q - 0 + 1 - 1
    <3>1. PICK S, x : S = 0 .. q /\ x = r - 1
      OBVIOUS
    <3>2. IsFiniteSet(S) /\ x \in S /\ Cardinality(S) = q - 0 + 1
      BY <3>1, <2>2, <2>3
    <3>3. IsFiniteSet(S \ {x}) /\ Cardinality(S \ {x}) = Cardinality(S) - 1
      BY <3>2, FS_RemoveElement
    <3>4. (0 .. q) \ {r - 1} = S \ {x}
      BY <3>1
    <3>5. Cardinality(S \ {x}) = q - 0 + 1 - 1
      BY <3>2, <3>3, <2>2
    <3> HIDE DEF T
    <3> QED
      BY <3>3, <3>4, <3>5
  <2> QED
    BY <2>1, <2>2, <2>4, <1>1
<1> HIDE DEF rank, T
<1>7. \E u, v \in V : u # v /\ rank[u] = rank[v]
  BY <1>5, <1>6, FS_PigeonHole
<1> QED
  BY <1>4, <1>7

\* The loops are ordered as their nest says.
LEMMA NestIsOrdered ==
  ASSUME NEW V, \A v \in V : \E A, B, C, D, E, F : v \in A \X B \X C \X D \X E \X F,
         \A v \in V : \A d \in 1 .. 6 : v[d] \in Int,
         NEW R, R = {p \in V \X V : Before(p[1], p[2])}
  PROVE  Orders(R, V)
<1>1. \A u, v \in V : <<u, v>> \in R <=> Before(u, v)
  OBVIOUS
<1>2. \A u \in V : ~Before(u, u)
  BY DEF Before
<1>3. ASSUME NEW u \in V, NEW v \in V, u # v PROVE Before(u, v) \/ Before(v, u)
  <2> DEFINE T == {d \in 1 .. 6 : u[d] # v[d]}
  <2>1. T # {}
    <3> SUFFICES ASSUME \A d \in 1 .. 6 : u[d] = v[d] PROVE u = v
      BY <1>3
    <3>1. /\ u[1] = v[1] /\ u[2] = v[2] /\ u[3] = v[3]
          /\ u[4] = v[4] /\ u[5] = v[5] /\ u[6] = v[6]
      OBVIOUS
    <3>2. u = <<u[1], u[2], u[3], u[4], u[5], u[6]>>
      OBVIOUS
    <3>3. v = <<v[1], v[2], v[3], v[4], v[5], v[6]>>
      OBVIOUS
    <3>4. <<u[1], u[2], u[3], u[4], u[5], u[6]>> = <<v[1], v[2], v[3], v[4], v[5], v[6]>>
      BY <3>1
    <3> QED
      BY <3>2, <3>3, <3>4
  <2>2. PICK d \in T : \A e \in T : d <= e
    <3>1. T \in SUBSET Nat
      OBVIOUS
    <3> HIDE DEF T
    <3> QED
      BY <2>1, <3>1, LeastExists
  <2>3. \A e \in 1 .. d - 1 : u[e] = v[e]
    BY <2>2
  <2>4. u[d] < v[d] \/ v[d] < u[d]
    OBVIOUS
  <2>5. \A e \in 1 .. d - 1 : v[e] = u[e]
    BY <2>3
  <2> QED
    BY <2>3, <2>4, <2>5 DEF Before
<1>4. ASSUME NEW u \in V, NEW v \in V, NEW x \in V, Before(u, v), Before(v, x)
      PROVE  Before(u, x)
  <2>1. PICK c \in 1 .. 6 : u[c] < v[c] /\ \A e \in 1 .. c - 1 : u[e] = v[e]
    BY <1>4 DEF Before
  <2>2. PICK d \in 1 .. 6 : v[d] < x[d] /\ \A e \in 1 .. d - 1 : v[e] = x[e]
    BY <1>4 DEF Before
  <2>3. u[c] \in Int /\ v[c] \in Int /\ v[d] \in Int /\ x[d] \in Int /\ x[c] \in Int /\ u[d] \in Int
    OBVIOUS
  <2>4. CASE c < d
    <3>1. v[c] = x[c] /\ \A e \in 1 .. c - 1 : v[e] = x[e]
      BY <2>2, <2>4
    <3>2. u[c] < x[c] /\ \A e \in 1 .. c - 1 : u[e] = x[e]
      BY <2>1, <3>1
    <3> QED
      BY <3>2 DEF Before
  <2>5. CASE c = d
    <3>1. u[c] < x[c] /\ \A e \in 1 .. c - 1 : u[e] = x[e]
      BY <2>1, <2>2, <2>3, <2>5
    <3> QED
      BY <3>1 DEF Before
  <2>6. CASE d < c
    <3>1. u[d] = v[d] /\ \A e \in 1 .. d - 1 : u[e] = v[e]
      BY <2>1, <2>6
    <3>2. u[d] < x[d] /\ \A e \in 1 .. d - 1 : u[e] = x[e]
      BY <2>2, <3>1
    <3> QED
      BY <3>2 DEF Before
  <2> QED
    BY <2>4, <2>5, <2>6
<1> QED
  BY <1>1, <1>2, <1>3, <1>4 DEF Orders

\* The tiles: how large they are, where they start and what is in them.
LEMMA TileType ==
  ASSUME NEW w, IsJob(w)
  PROVE  /\ EffectiveBlock(w) \in Nat \ {0}
         /\ IsFiniteSet(Starts(w)) /\ Starts(w) \subseteq 0 .. w.n - 1
         /\ \A s \in Starts(w) :
              \E t \in s + 1 .. w.n : Tile(w, s) = s .. t - 1 /\ Cardinality(Tile(w, s)) = t - s
<1> DEFINE n == w.n  b == EffectiveBlock(w)
<1>1. n \in Nat \ {0} /\ w.block \in Nat
  BY DEF IsJob
<1>2. b \in Nat \ {0}
  BY <1>1 DEF EffectiveBlock
<1>3. Starts(w) \subseteq 0 .. n - 1
  BY DEF Starts
<1>4. IsFiniteSet(Starts(w))
  <2>1. PICK q : q = n - 1
    OBVIOUS
  <2>2. q \in Int /\ 0 \in Int
    BY <2>1, <1>1
  <2>3. IsFiniteSet(0 .. q)
    BY <2>2, FS_Interval
  <2> QED
    BY <2>1, <2>3, <1>3, FS_Subset
<1> HIDE DEF n, b
<1>5. ASSUME NEW s \in Starts(w)
      PROVE  \E t \in s + 1 .. n : Tile(w, s) = s .. t - 1 /\ Cardinality(Tile(w, s)) = t - s
  <2>1. s \in Nat /\ s < n
    BY <1>1, <1>3
  <2> DEFINE t == Min({s + b, n})
  <2>2. t \in {s + b, n} /\ t <= s + b /\ t <= n
    <3>1. \E x \in {s + b, n} : \A y \in {s + b, n} : x <= y
      <4>1. CASE s + b <= n
        BY <4>1, <2>1, <1>1, <1>2
      <4>2. CASE ~(s + b <= n)
        BY <4>2, <2>1, <1>1, <1>2
      <4> QED
        BY <4>1, <4>2
    <3>2. t \in {s + b, n} /\ \A y \in {s + b, n} : t <= y
      BY <3>1 DEF Min
    <3> QED
      BY <3>2
  <2>3. Tile(w, s) = s .. t - 1
    BY DEF Tile, n, b
  <2> HIDE DEF t
  <2>4. t \in s + 1 .. n
    BY <2>1, <2>2, <1>1, <1>2
  <2>5. Cardinality(Tile(w, s)) = t - s
    <3>1. PICK e : e = t - 1
      OBVIOUS
    <3>2. e \in Int /\ s \in Int /\ ~(s > e) /\ e - s + 1 = t - s
      BY <3>1, <2>1, <2>4
    <3>3. Cardinality(s .. e) = e - s + 1
      BY <3>2, FS_Interval
    <3> QED
      BY <3>1, <3>2, <3>3, <2>3
  <2> QED
    BY <2>3, <2>4, <2>5
<1> QED
  BY <1>2, <1>3, <1>4, <1>5 DEF n, b

\* The coordinates of an iteration of the matrix kernel.
LEMMA VisitsType ==
  ASSUME NEW w, IsJob(w), NEW v \in Visits(w)
  PROVE  /\ v[1] \in 0 .. w.iterations - 1
         /\ v[2] \in Starts(w) /\ v[3] \in Starts(w) /\ v[4] \in Starts(w)
         /\ v[5] \in 0 .. w.n - 1 /\ v[6] \in 0 .. w.n - 1
         /\ v[5] \in Tile(w, v[2]) /\ v[6] \in Tile(w, v[3])
<1>1. /\ v \in (0 .. w.iterations - 1) \X Starts(w) \X Starts(w) \X Starts(w)
              \X (0 .. w.n) \X (0 .. w.n)
      /\ v[5] \in Tile(w, v[2]) /\ v[6] \in Tile(w, v[3])
  BY DEF Visits
<1>2. /\ v[1] \in 0 .. w.iterations - 1
      /\ v[2] \in Starts(w) /\ v[3] \in Starts(w) /\ v[4] \in Starts(w)
  BY <1>1
<1>3. w.n \in Nat
  BY DEF IsJob
<1>4. \A s \in Starts(w) : Tile(w, s) \subseteq 0 .. w.n - 1
  <2> TAKE s \in Starts(w)
  <2>1. PICK t \in s + 1 .. w.n : Tile(w, s) = s .. t - 1
    BY TileType
  <2>2. s \in 0 .. w.n - 1
    BY TileType
  <2> QED
    BY <2>1, <2>2, <1>3
<1> QED
  BY <1>1, <1>2, <1>4

\* There are finitely many.
LEMMA VisitsFinite ==
  ASSUME NEW w, IsJob(w)
  PROVE  IsFiniteSet(Visits(w))
<1> DEFINE A == 0 .. w.iterations - 1
           B == Starts(w)
           C == 0 .. w.n
           S == A \X (B \X (B \X (B \X (C \X C))))
           T == A \X B \X B \X B \X C \X C
           f == [p \in S |-> <<p[1], p[2][1], p[2][2][1], p[2][2][2][1], p[2][2][2][2][1],
                               p[2][2][2][2][2]>>]
<1>1. IsFiniteSet(A) /\ IsFiniteSet(B) /\ IsFiniteSet(C)
  <2>1. w.iterations - 1 \in Int /\ w.n \in Int /\ 0 \in Int
    BY DEF IsJob
  <2>2. \A b \in Int : IsFiniteSet(0 .. b)
    BY FS_Interval
  <2> QED
    BY <2>1, <2>2, TileType
<1> HIDE DEF A, B, C
<1>2. IsFiniteSet(S)
  <2>1. \A X, Y : IsFiniteSet(X) /\ IsFiniteSet(Y) => IsFiniteSet(X \X Y)
    BY FS_Product
  <2> QED
    BY <1>1, <2>1, Zenon
<1>3. f \in Surjection(S, T)
  <2>1. f \in [S -> T]
    OBVIOUS
  <2>2. ASSUME NEW v \in T PROVE \E p \in S : f[p] = v
    <3> DEFINE p == <<v[1], <<v[2], <<v[3], <<v[4], <<v[5], v[6]>>>>>>>>>>
    <3>1. p \in S
      OBVIOUS
    <3>2. f[p] = <<v[1], v[2], v[3], v[4], v[5], v[6]>>
      BY <3>1
    <3>3. v = <<v[1], v[2], v[3], v[4], v[5], v[6]>>
      OBVIOUS
    <3> QED
      BY <3>1, <3>2, <3>3
  <2> HIDE DEF f, S, T
  <2> QED
    BY <2>1, <2>2 DEF Surjection
<1> HIDE DEF f, S, T
<1>4. IsFiniteSet(T)
  BY <1>2, <1>3, FS_Surjection
<1>5. Visits(w) \subseteq T
  BY DEF Visits, T, A, B, C
<1> QED
  BY <1>4, <1>5, FS_Subset

\* The loops go through the iterations, each time through one of them, and through each
\* once.
LEMMA OrderType ==
  ASSUME NEW w, IsJob(w)
  PROVE  /\ InOrder(Visits(w)) \in Seq(Visits(w))
         /\ Len(InOrder(Visits(w))) = Cardinality(Visits(w))
         /\ \A r \in 1 .. Cardinality(Visits(w)) : InOrder(Visits(w))[r] \in Visits(w)
         /\ \E place : /\ \A v \in Visits(w) : /\ place[v] \in 1 .. Cardinality(Visits(w))
                                               /\ InOrder(Visits(w))[place[v]] = v
                       /\ \A r \in 1 .. Cardinality(Visits(w)) : place[InOrder(Visits(w))[r]] = r
<1> DEFINE V == Visits(w)
           R == {p \in V \X V : Before(p[1], p[2])}
           N == Cardinality(V)
<1>1. IsFiniteSet(V) /\ N \in Nat
  BY VisitsFinite, FS_CardinalityType
<1>2. \A v \in V : \E A, B, C, D, E, F : v \in A \X B \X C \X D \X E \X F
  <2>1. V \subseteq (0 .. w.iterations - 1) \X Starts(w) \X Starts(w) \X Starts(w)
                      \X (0 .. w.n) \X (0 .. w.n)
    BY DEF Visits
  <2> HIDE DEF V
  <2> QED
    BY <2>1, Zenon
<1>3. \A v \in V : \A d \in 1 .. 6 : v[d] \in Int
  <2> TAKE v \in V
  <2> TAKE d \in 1 .. 6
  <2>1. /\ v[1] \in 0 .. w.iterations - 1
        /\ v[2] \in Starts(w) /\ v[3] \in Starts(w) /\ v[4] \in Starts(w)
        /\ v[5] \in 0 .. w.n - 1 /\ v[6] \in 0 .. w.n - 1
    BY VisitsType
  <2>2. \A s \in Starts(w) : s \in Int
    BY TileType
  <2>3. v[1] \in Int /\ v[2] \in Int /\ v[3] \in Int /\ v[4] \in Int /\ v[5] \in Int /\ v[6] \in Int
    BY <2>1, <2>2
  <2>4. d = 1 \/ d = 2 \/ d = 3 \/ d = 4 \/ d = 5 \/ d = 6
    OBVIOUS
  <2> QED
    BY <2>3, <2>4, Zenon
<1> HIDE DEF V
<1>4. Orders(R, V)
  BY <1>2, <1>3, NestIsOrdered
<1>5. \A r \in 1 .. N : \E v \in V : Cardinality({u \in V : Before(u, v)}) = r - 1
  <2> TAKE r \in 1 .. N
  <2>1. PICK v \in V : Cardinality({u \in V : <<u, v>> \in R}) = r - 1
    <3> HIDE DEF R
    <3> QED
      BY <1>1, <1>4, RanksExist
  <2>2. {u \in V : <<u, v>> \in R} = {u \in V : Before(u, v)}
    OBVIOUS
  <2> QED
    BY <2>1, <2>2, Zenon
<1>6. InOrder(V) = [r \in 1 .. N |-> CHOOSE v \in V : Cardinality({u \in V : Before(u, v)}) = r - 1]
  BY DEF InOrder
<1>7. \A r \in 1 .. N : (CHOOSE v \in V : Cardinality({u \in V : Before(u, v)}) = r - 1) \in V
  BY <1>5
<1>8. InOrder(V) \in [1 .. N -> V]
  BY <1>6, <1>7
<1> HIDE DEF N
<1>9. InOrder(V) \in Seq(V) /\ Len(InOrder(V)) = N /\ \A r \in 1 .. N : InOrder(V)[r] \in V
  BY <1>1, <1>8
<1> DEFINE rank(v) == Cardinality({u \in V : Before(u, v)})
           place == [v \in V |-> rank(v) + 1]
<1>10. \A r \in 1 .. N : rank(InOrder(V)[r]) = r - 1
  BY <1>5, <1>6
<1>11. /\ \A v \in V : rank(v) \in 0 .. N - 1
       /\ \A u, v \in V : rank(u) = rank(v) => u = v
  <2>1. \A v \in V : {u \in V : <<u, v>> \in R} = {u \in V : Before(u, v)}
    OBVIOUS
  <2>2. /\ \A v \in V : Cardinality({u \in V : <<u, v>> \in R}) \in 0 .. N - 1
        /\ \A u, v \in V :
             Cardinality({x \in V : <<x, u>> \in R}) = Cardinality({x \in V : <<x, v>> \in R})
               => u = v
    <3> HIDE DEF R
    <3> QED
      BY <1>1, <1>4, RanksDiffer DEF N
  <2> HIDE DEF R
  <2> QED
    BY <2>1, <2>2
<1> HIDE DEF rank
<1>12. ASSUME NEW v \in V PROVE place[v] \in 1 .. N /\ InOrder(V)[place[v]] = v
  <2>1. place[v] = rank(v) + 1 /\ rank(v) \in 0 .. N - 1
    BY <1>11
  <2>2. PICK r : r = place[v]
    OBVIOUS
  <2>3. r \in 1 .. N /\ r - 1 = rank(v)
    BY <2>1, <2>2, <1>1
  <2>4. rank(InOrder(V)[r]) = rank(v) /\ InOrder(V)[r] \in V
    BY <2>3, <1>9, <1>10
  <2>5. InOrder(V)[r] = v
    BY <2>4, <1>11
  <2> QED
    BY <2>2, <2>3, <2>5
<1>13. ASSUME NEW r \in 1 .. N PROVE place[InOrder(V)[r]] = r
  <2>1. InOrder(V)[r] \in V
    BY <1>9
  <2>2. place[InOrder(V)[r]] = rank(InOrder(V)[r]) + 1
    BY <2>1
  <2>3. rank(InOrder(V)[r]) = r - 1
    BY <1>10
  <2> HIDE DEF place
  <2> QED
    BY <2>2, <2>3, <1>1
<1> HIDE DEF place
<1> QED
  BY <1>9, <1>12, <1>13 DEF V, N

-----------------------------------------------------------------------------
(* The matrix kernel.                                                       *)

\* A function applied to the elements of short sequences.
LEMMA MappedShort ==
  ASSUME NEW g, NEW x, NEW y
  PROVE  Mapped(g, <<x>>) = <<g[x]>> /\ Mapped(g, <<x, y>>) = <<g[x], g[y]>>
<1>1. Mapped(g, <<x>>) = <<g[x]>>
  BY DEF Mapped
<1>2. Mapped(g, <<x, y>>) = <<g[x], g[y]>>
  BY DEF Mapped
<1> QED
  BY <1>1, <1>2

\* Row by row the elements of a square matrix have indices of their own range.
LEMMA IndexInRange ==
  ASSUME NEW n \in Nat, NEW i \in 0 .. n - 1, NEW k \in 0 .. n - 1
  PROVE  i * n + k \in 0 .. n * n - 1
<1>1. PICK d \in Nat : n = i + 1 + d
  <2>1. n - 1 - i \in Nat /\ n = i + 1 + (n - 1 - i)
    OBVIOUS
  <2> QED
    BY <2>1
<1>2. n * n = (i + 1) * n + d * n
  BY <1>1, Z3
<1>3. (i + 1) * n = i * n + n
  BY Z3
<1>4. d * n \in Nat /\ i * n \in Nat /\ n * n \in Nat
  BY <1>1
<1> QED
  BY <1>2, <1>3, <1>4

\* The accesses of the kernel to its arrays.
ArrayAccesses(w) ==
  [kind : {"load", "store"}, array : {"a", "b", "c"}, index : 0 .. w.n * w.n - 1]

\* And what is emitted for each.
Emitted(w) ==
  [x \in ArrayAccesses(w) |->
     Record(IF x.kind = "store" THEN "W" ELSE "R",
            LayoutFor(w.n)[x.array] + x.index * ElementSize)]

\* A number divided, rounding up.
LEMMA AlignUpRounds ==
  ASSUME NEW x \in Nat
  PROVE  /\ AlignUp(x, PageSize) \in Nat /\ x <= AlignUp(x, PageSize)
         /\ \E q \in Nat : AlignUp(x, PageSize) = PageSize * q
<1> DEFINE p == PageSize  y == x + p - 1  q == y \div p
<1>1. p \in Nat \ {0} /\ y \in Nat
  BY LayoutAssumption
<1> HIDE DEF p, y
<1>2. q \in Nat /\ y % p \in 0 .. p - 1 /\ y = p * q + (y % p)
  BY <1>1, Division
<1>3. AlignUp(x, p) = q * p
  BY DEF AlignUp, y
<1> HIDE DEF q
<1>4. q * p = p * q /\ p * q \in Nat
  BY <1>1, <1>2, Z3
<1>5. y = x + p - 1
  BY DEF y
<1>6. x <= p * q
  BY <1>1, <1>2, <1>4, <1>5
<1> QED
  BY <1>2, <1>3, <1>4, <1>6 DEF p

\* The three arrays follow each other, each of the later two from the beginning of a page.
LEMMA LayoutApart ==
  ASSUME NEW n \in Nat
  PROVE  /\ LayoutFor(n).a \in Nat /\ LayoutFor(n).b \in Nat /\ LayoutFor(n).c \in Nat
         /\ LayoutFor(n).a + n * n * ElementSize <= LayoutFor(n).b
         /\ LayoutFor(n).b + n * n * ElementSize <= LayoutFor(n).c
         /\ \E q \in Nat : LayoutFor(n).b = PageSize * q
         /\ \E q \in Nat : LayoutFor(n).c = PageSize * q
<1> DEFINE bytes == n * n * ElementSize
           b == AlignUp(ArrayBase + bytes, PageSize)
           c == AlignUp(b + bytes, PageSize)
<1>1. bytes \in Nat /\ ArrayBase \in Nat
  BY LayoutAssumption
<1>2. LayoutFor(n) = [a |-> ArrayBase, b |-> b, c |-> c]
  BY DEF LayoutFor
<1> HIDE DEF bytes
<1>3. b \in Nat /\ ArrayBase + bytes <= b /\ \E q \in Nat : b = PageSize * q
  BY <1>1, AlignUpRounds
<1> HIDE DEF b
<1>4. c \in Nat /\ b + bytes <= c /\ \E q \in Nat : c = PageSize * q
  BY <1>1, <1>3, AlignUpRounds
<1> QED
  BY <1>1, <1>2, <1>3, <1>4 DEF bytes

\* An address below the beginning of a page is on an earlier page than one after it.
LEMMA PagesApart ==
  ASSUME NEW x \in Nat, NEW y \in Nat, NEW q \in Nat, x < PageSize * q, PageSize * q <= y
  PROVE  x \div PageSize < y \div PageSize
<1> DEFINE p == PageSize  u == x \div p  v == y \div p
<1>1. p \in Nat \ {0}
  BY LayoutAssumption
<1> HIDE DEF p
<1>2. /\ u \in Nat /\ x % p \in 0 .. p - 1 /\ x = p * u + (x % p)
      /\ v \in Nat /\ y % p \in 0 .. p - 1 /\ y = p * v + (y % p)
  BY <1>1, Division
<1>3. x < p * q /\ p * q <= y
  BY DEF p
<1> HIDE DEF u, v
<1>4. \A s, t \in Nat : s <= t => p * s <= p * t
  <2> TAKE s, t \in Nat
  <2> SUFFICES ASSUME s <= t PROVE p * s <= p * t
    OBVIOUS
  <2>1. PICK d \in Nat : t = s + d
    <3>1. t - s \in Nat /\ t = s + (t - s)
      OBVIOUS
    <3> QED
      BY <3>1
  <2>2. p * t = p * s + p * d
    BY <1>1, <2>1, Z3
  <2>3. p * s \in Nat /\ p * d \in Nat
    BY <1>1, <2>1
  <2> QED
    BY <2>2, <2>3
<1>5. p * u \in Nat /\ p * v \in Nat /\ p * q \in Nat
  BY <1>1, <1>2
<1>6. u < q
  <2> SUFFICES ASSUME q <= u PROVE FALSE
    BY <1>2
  <2>1. p * q <= p * u
    BY <1>2, <1>4
  <2> QED
    BY <2>1, <1>2, <1>3, <1>5
<1>7. q <= v
  <2> SUFFICES ASSUME v + 1 <= q PROVE FALSE
    BY <1>2
  <2>1. p * (v + 1) <= p * q
    BY <1>2, <1>4
  <2>2. p * (v + 1) = p * v + p
    BY <1>1, <1>2, Z3
  <2> QED
    BY <2>1, <2>2, <1>1, <1>2, <1>3, <1>5
<1>8. u < v
  BY <1>2, <1>6, <1>7
<1> QED
  BY <1>8 DEF u, v, p

\* What is emitted for the accesses: the addresses are those of the elements, and
\* two arrays share no page.
LEMMA EmittedType ==
  ASSUME NEW w, IsJob(w)
  PROVE  /\ Maps(Emitted(w), ArrayAccesses(w), Records)
         /\ \A x \in ArrayAccesses(w) :
              /\ IsAccess(Emitted(w)[x])
              /\ (Emitted(w)[x].type = "W") <=> (x.kind = "store")
         /\ \A x, y \in ArrayAccesses(w) :
              IF x.array = y.array
              THEN Emitted(w)[x].value - Emitted(w)[y].value = (x.index - y.index) * ElementSize
              ELSE Emitted(w)[x].value \div PageSize # Emitted(w)[y].value \div PageSize
<1> DEFINE n == w.n  g == Emitted(w)  Acc == ArrayAccesses(w)  l == LayoutFor(n)
           bytes == n * n * ElementSize
<1>1. n \in Nat \ {0} /\ ElementSize \in Nat \ {0}
  BY LayoutAssumption DEF IsJob
<1>2. \A x \in Acc : /\ x.kind \in {"load", "store"} /\ x.array \in {"a", "b", "c"}
                     /\ x.index \in 0 .. n * n - 1
  BY DEF ArrayAccesses
<1>3. \A x \in Acc : g[x] = Record(IF x.kind = "store" THEN "W" ELSE "R",
                                   l[x.array] + x.index * ElementSize)
  BY DEF Emitted
<1>4. /\ l["a"] \in Nat /\ l["b"] \in Nat /\ l["c"] \in Nat
      /\ l["a"] + bytes <= l["b"] /\ l["b"] + bytes <= l["c"]
      /\ \E q \in Nat : l["b"] = PageSize * q
      /\ \E q \in Nat : l["c"] = PageSize * q
  <2>1. n \in Nat
    BY <1>1
  <2> HIDE DEF n
  <2> QED
    BY <2>1, LayoutApart
<1>5. Emitted(w) = [x \in Acc |-> Record(IF x.kind = "store" THEN "W" ELSE "R",
                                         l[x.array] + x.index * ElementSize)]
  BY DEF Emitted
<1>6. n * n \in Nat /\ bytes \in Nat
  BY <1>1
<1> HIDE DEF g, Acc, l, n
<1>7. \A x \in Acc : x.index \in Nat /\ l[x.array] \in Nat
  <2> TAKE x \in Acc
  <2>1. x.index \in 0 .. n * n - 1 /\ x.array \in {"a", "b", "c"}
    BY <1>2
  <2> QED
    BY <2>1, <1>4
<1>8. \A x \in Acc : x.index * ElementSize \in Nat /\ x.index * ElementSize < bytes
  <2> TAKE x \in Acc
  <2>1. PICK i : i = x.index
    OBVIOUS
  <2>2. i \in Nat /\ i < n * n
    BY <2>1, <1>2, <1>6
  <2>3. PICK d \in Nat : n * n = i + 1 + d
    <3>1. n * n - 1 - i \in Nat /\ n * n = i + 1 + (n * n - 1 - i)
      BY <2>2, <1>6
    <3> QED
      BY <3>1
  <2>4. (i + 1 + d) * ElementSize = i * ElementSize + ElementSize + d * ElementSize
    BY <2>2, <2>3, <1>1, Z3
  <2>5. i * ElementSize \in Nat /\ d * ElementSize \in Nat
    BY <2>2, <2>3, <1>1
  <2>6. bytes = i * ElementSize + ElementSize + d * ElementSize
    BY <2>3, <2>4
  <2>7. i * ElementSize < bytes
    BY <2>5, <2>6, <1>1
  <2> QED
    BY <2>1, <2>5, <2>7
<1>9. \A x \in Acc : /\ g[x].type = IF x.kind = "store" THEN "W" ELSE "R"
                     /\ g[x].value = l[x.array] + x.index * ElementSize
                     /\ g[x].value \in Nat
                     /\ g[x] \in Records
  <2> TAKE x \in Acc
  <2>1. PICK t, v : t = (IF x.kind = "store" THEN "W" ELSE "R")
                    /\ v = l[x.array] + x.index * ElementSize
    OBVIOUS
  <2>2. v \in Nat /\ t \in {"W", "R"}
    BY <2>1, <1>7, <1>8
  <2>3. g[x] = Record(t, v)
    BY <2>1, <1>3
  <2>4. Record(t, v).type = t /\ Record(t, v).value = v /\ Record(t, v) \in Records
    BY <2>2 DEF Record, Records
  <2> QED
    BY <2>1, <2>2, <2>3, <2>4, Zenon
<1>10. Maps(g, Acc, Records)
  <2>1. g = [x \in Acc |-> Record(IF x.kind = "store" THEN "W" ELSE "R",
                                  l[x.array] + x.index * ElementSize)]
    BY <1>5 DEF g
  <2>2. \A x \in Acc : Record(IF x.kind = "store" THEN "W" ELSE "R",
                              l[x.array] + x.index * ElementSize) \in Records
    BY <1>3, <1>9, Zenon
  <2> QED
    BY <2>1, <2>2, Zenon DEF Maps
<1>11. \A x \in Acc : IsAccess(g[x]) /\ ((g[x].type = "W") <=> (x.kind = "store"))
  BY <1>9 DEF IsAccess
<1>12. ASSUME NEW x \in Acc, NEW y \in Acc, x.array = y.array
       PROVE  g[x].value - g[y].value = (x.index - y.index) * ElementSize
  <2>1. PICK i, k : i = x.index /\ k = y.index
    OBVIOUS
  <2>2. i \in Nat /\ k \in Nat /\ i * ElementSize \in Nat /\ k * ElementSize \in Nat
    BY <2>1, <1>7, <1>8
  <2>3. i * ElementSize - k * ElementSize = (i - k) * ElementSize
    BY <2>2, <1>1, Z3
  <2>4. /\ g[x].value = l[x.array] + i * ElementSize
        /\ g[y].value = l[x.array] + k * ElementSize /\ l[x.array] \in Nat
    BY <2>1, <1>7, <1>9, <1>12, Zenon
  <2>5. g[x].value - g[y].value = (i - k) * ElementSize
    BY <2>2, <2>3, <2>4
  <2> QED
    BY <2>1, <2>5
\* An element of an array is on an earlier page than one of a later array.
<1>13. ASSUME NEW x \in Acc, NEW y \in Acc,
              (x.array = "a" /\ y.array \in {"b", "c"}) \/ (x.array = "b" /\ y.array = "c")
       PROVE  g[x].value \div PageSize < g[y].value \div PageSize
  <2>1. PICK u, v : u = g[x].value /\ v = g[y].value
    OBVIOUS
  <2>2. u \in Nat /\ v \in Nat
    BY <2>1, <1>9
  <2>3. u < l[x.array] + bytes /\ l[y.array] <= v
    <3>1. /\ u = l[x.array] + x.index * ElementSize /\ v = l[y.array] + y.index * ElementSize
          /\ x.index * ElementSize \in Nat /\ x.index * ElementSize < bytes
          /\ y.index * ElementSize \in Nat /\ l[x.array] \in Nat /\ l[y.array] \in Nat
      BY <2>1, <1>7, <1>8, <1>9
    <3> HIDE DEF bytes
    <3> QED
      BY <3>1, <1>6
  <2>4. l[x.array] + bytes <= l[y.array] /\ \E q \in Nat : l[y.array] = PageSize * q
    <3> HIDE DEF bytes
    <3> QED
      BY <1>13, <1>4, <1>6
  <2>5. PICK q \in Nat : l[y.array] = PageSize * q
    BY <2>4
  <2>6. u < PageSize * q /\ PageSize * q <= v
    <3>1. l[x.array] \in Nat /\ l[y.array] \in Nat
      BY <1>7
    <3> HIDE DEF bytes
    <3> QED
      BY <3>1, <2>2, <2>3, <2>4, <2>5, <1>6
  <2>7. u \div PageSize < v \div PageSize
    BY <2>2, <2>6, PagesApart
  <2> QED
    BY <2>1, <2>7
<1>14. ASSUME NEW x \in Acc, NEW y \in Acc, x.array # y.array
       PROVE  g[x].value \div PageSize # g[y].value \div PageSize
  <2>1. \A z \in Acc : g[z].value \div PageSize \in Nat
    BY <1>9, LayoutAssumption, Division
  <2>2. x.array \in {"a", "b", "c"} /\ y.array \in {"a", "b", "c"}
    BY <1>2
  <2>3. \/ (x.array = "a" /\ y.array \in {"b", "c"}) \/ (x.array = "b" /\ y.array = "c")
        \/ (y.array = "a" /\ x.array \in {"b", "c"}) \/ (y.array = "b" /\ x.array = "c")
    BY <2>2, <1>14
  <2>4. \/ g[x].value \div PageSize < g[y].value \div PageSize
        \/ g[y].value \div PageSize < g[x].value \div PageSize
    BY <2>3, <1>13
  <2> QED
    BY <2>1, <2>4
<1> QED
  BY <1>10, <1>11, <1>12, <1>14, Zenon DEF g, Acc

\* One element of a sequence of bodies.
LEMMA MatrixBodyTrace ==
  ASSUME NEW w, IsJob(w), NEW v \in Visits(w)
  PROVE  /\ NativeBody(w, v) \in Seq(ArrayAccesses(w))
         /\ MatrixBody(w, v) \in Seq(Records)
         /\ AccessesIn(MatrixBody(w, v)) = Mapped(Emitted(w), NativeBody(w, v))
<1> DEFINE n == w.n  l == LayoutFor(n)  i == v[5]  j == v[6]  s == v[4]
           g == Emitted(w)
           Acc == ArrayAccesses(w)
           N == Cardinality(Tile(w, s))
           c == l.c + (i * n + j) * ElementSize
           ra(k) == Record("R", l.a + (i * n + k) * ElementSize)
           rb(k) == Record("R", l.b + (k * n + j) * ElementSize)
           first == Record("R", c)
           last == Record("W", c)
           inner == [m \in 1 .. N |-> LET k == s + m - 1 IN <<ra(k), rb(k), Record("N", 3)>>]
           xa(k) == Access("load", "a", i * n + k)
           xb(k) == Access("load", "b", k * n + j)
           begin == Access("load", "c", i * n + j)
           end == Access("store", "c", i * n + j)
           native == [m \in 1 .. N |-> LET k == s + m - 1 IN <<xa(k), xb(k)>>]
           pairs == [m \in 1 .. N |-> LET k == s + m - 1 IN <<ra(k), rb(k)>>]
<1>1. MatrixBody(w, v) = Cat(Cat(<<first>>, FlattenSeq(inner)), <<last>>)
  BY DEF MatrixBody, Cat
<1>2. NativeBody(w, v) = Cat(Cat(<<begin>>, FlattenSeq(native)), <<end>>)
  BY DEF NativeBody, Cat
<1>3. /\ n \in Nat \ {0} /\ i \in 0 .. n - 1 /\ j \in 0 .. n - 1 /\ N \in Nat
      /\ \A m \in 1 .. N : s + m - 1 \in 0 .. n - 1
  <2>1. n \in Nat \ {0}
    BY DEF IsJob
  <2>2. v[4] \in Starts(w) /\ i \in 0 .. n - 1 /\ j \in 0 .. n - 1
    BY VisitsType
  <2>3. PICK t \in s + 1 .. n : N = t - s
    BY <2>2, TileType
  <2>4. s \in 0 .. n - 1
    BY <2>2, TileType
  <2> HIDE DEF n, s, N
  <2> QED
    BY <2>1, <2>2, <2>3, <2>4
<1>4. \A x, y \in 0 .. n - 1 : x * n + y \in 0 .. n * n - 1
  <2> HIDE DEF n
  <2> QED
    BY <1>3, IndexInRange
<1>5. /\ begin \in Acc /\ end \in Acc
      /\ \A k \in 0 .. n - 1 : xa(k) \in Acc /\ xb(k) \in Acc
  <2>1. \A x \in 0 .. n * n - 1 :
          /\ Access("load", "a", x) \in Acc /\ Access("load", "b", x) \in Acc
          /\ Access("load", "c", x) \in Acc /\ Access("store", "c", x) \in Acc
    BY DEF Access, ArrayAccesses
  <2> HIDE DEF n, i, j, Acc
  <2> QED
    BY <2>1, <1>3, <1>4
<1>6. \A x \in 0 .. n * n - 1 :
        /\ g[Access("load", "a", x)] = Record("R", l.a + x * ElementSize)
        /\ g[Access("load", "b", x)] = Record("R", l.b + x * ElementSize)
        /\ g[Access("load", "c", x)] = Record("R", l.c + x * ElementSize)
        /\ g[Access("store", "c", x)] = Record("W", l.c + x * ElementSize)
  BY DEF Access, ArrayAccesses, Emitted
<1> HIDE DEF l, i, j, s, n
<1>7. /\ g[begin] = first /\ g[end] = last
      /\ \A k \in 0 .. n - 1 : g[xa(k)] = ra(k) /\ g[xb(k)] = rb(k)
  BY <1>3, <1>4, <1>6
<1> HIDE DEF g, Acc
<1>8. Maps(g, Acc, Records) /\ \A x \in Acc : g[x] \in Records /\ IsAccess(g[x])
  <2>1. Maps(g, Acc, Records) /\ \A x \in Acc : IsAccess(g[x])
    BY EmittedType DEF g, Acc
  <2> QED
    BY <2>1 DEF Maps
<1>9. /\ first \in Records /\ last \in Records /\ IsAccess(first) /\ IsAccess(last)
      /\ \A k \in 0 .. n - 1 : /\ ra(k) \in Records /\ rb(k) \in Records
                               /\ IsAccess(ra(k)) /\ IsAccess(rb(k))
  <2> HIDE DEF first, last, ra, rb, begin, end, xa, xb
  <2> QED
    BY <1>5, <1>7, <1>8
<1>10. Record("N", 3) \in Records /\ ~IsAccess(Record("N", 3))
  BY DEF Record, Records, IsAccess
<1> HIDE DEF first, last, ra, rb, begin, end, xa, xb, N
<1>11. /\ inner \in Seq(Seq(Records)) /\ Len(inner) = N
       /\ pairs \in Seq(Seq(Records)) /\ Len(pairs) = N
       /\ native \in Seq(Seq(Acc)) /\ Len(native) = N
  <2>1. \A k \in 0 .. n - 1 : /\ <<ra(k), rb(k), Record("N", 3)>> \in Seq(Records)
                              /\ <<ra(k), rb(k)>> \in Seq(Records) /\ <<xa(k), xb(k)>> \in Seq(Acc)
    BY <1>5, <1>9, <1>10
  <2>2. \A m \in 1 .. N : LET k == s + m - 1
                          IN  /\ <<ra(k), rb(k), Record("N", 3)>> \in Seq(Records)
                              /\ <<ra(k), rb(k)>> \in Seq(Records)
                              /\ <<xa(k), xb(k)>> \in Seq(Acc)
    BY <2>1, <1>3
  <2> QED
    BY <2>2, <1>3
<1>12. ASSUME NEW m \in 1 .. N
       PROVE  /\ AccessesIn(inner[m]) = pairs[m] /\ Mapped(g, native[m]) = pairs[m]
  <2>1. PICK k : k = s + m - 1
    OBVIOUS
  <2>2. k \in 0 .. n - 1
    BY <2>1, <1>3
  <2>3. inner[m] = <<ra(k), rb(k), Record("N", 3)>> /\ pairs[m] = <<ra(k), rb(k)>>
        /\ native[m] = <<xa(k), xb(k)>>
    BY <2>1
  <2>4. AccessesIn(<<ra(k), rb(k), Record("N", 3)>>) = <<ra(k), rb(k)>>
    BY <2>2, <1>9, <1>10, AccessesOfThree
  <2>5. Mapped(g, <<xa(k), xb(k)>>) = <<g[xa(k)], g[xb(k)]>>
    BY MappedShort
  <2>6. <<g[xa(k)], g[xb(k)]>> = <<ra(k), rb(k)>>
    BY <2>2, <1>7
  <2> QED
    BY <2>3, <2>4, <2>5, <2>6, Zenon
<1> HIDE DEF inner, pairs, native
<1> DEFINE H == [x \in Seq(Records) |-> AccessesIn(x)]
           G == [x \in Seq(Acc) |-> Mapped(g, x)]
<1>13. Homomorphism(H, Records) /\ Homomorphism(G, Acc)
  <2>1. Homomorphism(H, Records)
    BY AccessesHomomorphism, Zenon
  <2>2. Homomorphism(G, Acc)
    BY <1>8, MappedHomomorphism, Zenon
  <2> QED
    BY <2>1, <2>2
<1>14. Images(pairs, H, inner) /\ Images(pairs, G, native)
  <2>1. \A m \in 1 .. N : inner[m] \in Seq(Records) /\ native[m] \in Seq(Acc)
    BY <1>11
  <2>2. \A m \in 1 .. N : H[inner[m]] = AccessesIn(inner[m]) /\ G[native[m]] = Mapped(g, native[m])
    BY <2>1
  <2> HIDE DEF H, G
  <2> QED
    BY <2>2, <1>11, <1>12, Zenon DEF Images
<1>15. /\ FlattenSeq(inner) \in Seq(Records) /\ FlattenSeq(native) \in Seq(Acc)
       /\ FlattenSeq(pairs) \in Seq(Records)
  BY <1>11, FlattenSeqType
<1>16. H[FlattenSeq(inner)] = FlattenSeq(pairs) /\ G[FlattenSeq(native)] = FlattenSeq(pairs)
  <2> HIDE DEF H, G
  <2>1. inner \in Seq(Seq(Records)) /\ pairs \in Seq(Seq(Records)) /\ native \in Seq(Seq(Acc))
    BY <1>11
  <2> QED
    BY <2>1, <1>13, <1>14, HomomorphismFlattens
<1>17. /\ <<first>> \in Seq(Records) /\ <<last>> \in Seq(Records)
       /\ <<begin>> \in Seq(Acc) /\ <<end>> \in Seq(Acc)
  BY <1>5, <1>9
<1>18. /\ H[<<first>>] = <<first>> /\ H[<<last>>] = <<last>>
       /\ G[<<begin>>] = <<first>> /\ G[<<end>>] = <<last>>
  <2>1. AccessesIn(<<first>>) = <<first>> /\ AccessesIn(<<last>>) = <<last>>
    BY <1>9, AccessesOfOne
  <2>2. Mapped(g, <<begin>>) = <<g[begin]>> /\ Mapped(g, <<end>>) = <<g[end]>>
    BY MappedShort
  <2>3. /\ H[<<first>>] = AccessesIn(<<first>>) /\ H[<<last>>] = AccessesIn(<<last>>)
        /\ G[<<begin>>] = Mapped(g, <<begin>>) /\ G[<<end>>] = Mapped(g, <<end>>)
    BY <1>17
  <2> HIDE DEF H, G
  <2> QED
    BY <2>1, <2>2, <2>3, <1>7, Zenon
<1>19. /\ Cat(<<first>>, FlattenSeq(inner)) \in Seq(Records)
       /\ Cat(<<begin>>, FlattenSeq(native)) \in Seq(Acc)
       /\ MatrixBody(w, v) \in Seq(Records) /\ NativeBody(w, v) \in Seq(Acc)
  <2>1. /\ Cat(<<first>>, FlattenSeq(inner)) \in Seq(Records)
        /\ Cat(<<begin>>, FlattenSeq(native)) \in Seq(Acc)
    BY <1>15, <1>17, CatProperties
  <2>2. \A S : \A x, y \in Seq(S) : Cat(x, y) \in Seq(S)
    BY CatProperties
  <2> QED
    BY <2>1, <2>2, <1>1, <1>2, <1>17, Zenon
<1>20. /\ H[MatrixBody(w, v)] = AccessesIn(MatrixBody(w, v))
       /\ G[NativeBody(w, v)] = Mapped(g, NativeBody(w, v))
  BY <1>19
<1> HIDE DEF H, G
<1>21. H[MatrixBody(w, v)] = Cat(Cat(<<first>>, FlattenSeq(pairs)), <<last>>)
  <2>1. \A x, y \in Seq(Records) : H[Cat(x, y)] = Cat(H[x], H[y])
    BY <1>13, Zenon DEF Homomorphism
  <2>2. H[Cat(<<first>>, FlattenSeq(inner))] = Cat(H[<<first>>], H[FlattenSeq(inner)])
    BY <2>1, <1>15, <1>17, Zenon
  <2>3. H[Cat(Cat(<<first>>, FlattenSeq(inner)), <<last>>)]
          = Cat(H[Cat(<<first>>, FlattenSeq(inner))], H[<<last>>])
    BY <2>1, <1>17, <1>19, Zenon
  <2> QED
    BY <2>2, <2>3, <1>1, <1>16, <1>18, Zenon
<1>22. G[NativeBody(w, v)] = Cat(Cat(<<first>>, FlattenSeq(pairs)), <<last>>)
  <2>1. \A x, y \in Seq(Acc) : G[Cat(x, y)] = Cat(G[x], G[y])
    BY <1>13, Zenon DEF Homomorphism
  <2>2. G[Cat(<<begin>>, FlattenSeq(native))] = Cat(G[<<begin>>], G[FlattenSeq(native)])
    BY <2>1, <1>15, <1>17, Zenon
  <2>3. G[Cat(Cat(<<begin>>, FlattenSeq(native)), <<end>>)]
          = Cat(G[Cat(<<begin>>, FlattenSeq(native))], G[<<end>>])
    BY <2>1, <1>17, <1>19, Zenon
  <2> QED
    BY <2>2, <2>3, <1>2, <1>16, <1>18, Zenon
<1> QED
  BY <1>19, <1>20, <1>21, <1>22, Zenon DEF g, Acc

\* The trace of the matrix kernel is that of the kernel.
LEMMA MatrixFaithful ==
  ASSUME NEW w, IsJob(w), w.workload = "matrix"
  PROVE  Faithful(w)
<1> DEFINE order == InOrder(Visits(w))
           N == Cardinality(Visits(w))
           g == Emitted(w)
           Acc == ArrayAccesses(w)
           bodies == [r \in DOMAIN order |-> MatrixBody(w, order[r])]
           natives == [r \in DOMAIN order |-> NativeBody(w, order[r])]
           traces == [r \in DOMAIN order |-> Mapped(g, NativeBody(w, order[r]))]
           H == [x \in Seq(Records) |-> AccessesIn(x)]
           G == [x \in Seq(Acc) |-> Mapped(g, x)]
           kernel == FlattenSeq(natives)
           trace == AccessesIn(FlattenSeq(bodies))
<1>1. Emission(w) = FlattenSeq(bodies)
  BY DEF Emission, Matrix
<1>2. Native(w).accesses = kernel
  <2>1. Native(w) = NativeMatrix(w)
    BY DEF Native
  <2>2. NativeMatrix(w).accesses = kernel
    BY DEF NativeMatrix
  <2> QED
    BY <2>1, <2>2, Zenon
<1>3. N \in Nat /\ DOMAIN order = 1 .. N /\ \A r \in 1 .. N : order[r] \in Visits(w)
  <2>1. order \in Seq(Visits(w)) /\ Len(order) = N /\ \A r \in 1 .. N : order[r] \in Visits(w)
    BY OrderType
  <2> HIDE DEF order, N
  <2> QED
    BY <2>1
<1> HIDE DEF order, N
<1>4. ASSUME NEW r \in 1 .. N
      PROVE  /\ NativeBody(w, order[r]) \in Seq(Acc)
             /\ MatrixBody(w, order[r]) \in Seq(Records)
             /\ AccessesIn(MatrixBody(w, order[r])) = Mapped(g, NativeBody(w, order[r]))
  BY <1>3, MatrixBodyTrace
<1>5. Maps(g, Acc, Records)
  BY EmittedType
<1> HIDE DEF g, Acc
<1>6. \A r \in 1 .. N : Mapped(g, NativeBody(w, order[r])) \in Seq(Records)
  BY <1>4, <1>5, MappedType
<1>7. /\ bodies \in Seq(Seq(Records)) /\ Len(bodies) = N
      /\ natives \in Seq(Seq(Acc)) /\ Len(natives) = N
      /\ traces \in Seq(Seq(Records)) /\ Len(traces) = N
  <2>1. bodies \in [1 .. N -> Seq(Records)] /\ natives \in [1 .. N -> Seq(Acc)]
        /\ traces \in [1 .. N -> Seq(Records)]
    BY <1>3, <1>4, <1>6
  <2> HIDE DEF bodies, natives, traces
  <2> QED
    BY <2>1, <1>3
<1>8. ASSUME NEW r \in 1 .. N
      PROVE  /\ AccessesIn(bodies[r]) = traces[r] /\ Mapped(g, natives[r]) = traces[r]
             /\ bodies[r] \in Seq(Records) /\ natives[r] \in Seq(Acc)
  <2>1. /\ bodies[r] = MatrixBody(w, order[r]) /\ natives[r] = NativeBody(w, order[r])
        /\ traces[r] = Mapped(g, NativeBody(w, order[r]))
    BY <1>3
  <2> QED
    BY <2>1, <1>4, Zenon
<1> HIDE DEF bodies, natives, traces
<1>9. Homomorphism(H, Records) /\ Homomorphism(G, Acc)
  <2>1. Homomorphism(H, Records)
    BY AccessesHomomorphism, Zenon
  <2>2. Homomorphism(G, Acc)
    BY <1>5, MappedHomomorphism, Zenon
  <2> QED
    BY <2>1, <2>2
<1>10. Images(traces, H, bodies) /\ Images(traces, G, natives)
  <2>1. \A r \in 1 .. N : /\ H[bodies[r]] = AccessesIn(bodies[r])
                          /\ G[natives[r]] = Mapped(g, natives[r])
    BY <1>8
  <2> HIDE DEF H, G
  <2> QED
    BY <2>1, <1>7, <1>8, Zenon DEF Images
<1>11. FlattenSeq(bodies) \in Seq(Records) /\ kernel \in Seq(Acc)
  BY <1>7, FlattenSeqType
<1>12. H[FlattenSeq(bodies)] = FlattenSeq(traces) /\ G[FlattenSeq(natives)] = FlattenSeq(traces)
  <2> HIDE DEF H, G
  <2>1. bodies \in Seq(Seq(Records)) /\ traces \in Seq(Seq(Records)) /\ natives \in Seq(Seq(Acc))
    BY <1>7
  <2> QED
    BY <2>1, <1>9, <1>10, HomomorphismFlattens
<1>13. trace = Mapped(g, kernel)
  <2>1. H[FlattenSeq(bodies)] = trace /\ G[kernel] = Mapped(g, kernel)
    BY <1>11
  <2> HIDE DEF H, G
  <2> QED
    BY <2>1, <1>12, Zenon
<1> HIDE DEF kernel, trace, H, G
<1>14. /\ trace \in Seq(Records) /\ Len(trace) = Len(kernel)
       /\ \A p \in 1 .. Len(kernel) : trace[p] = g[kernel[p]]
  BY <1>5, <1>11, <1>13, MappedType
<1>15. DOMAIN trace = 1 .. Len(kernel) /\ \A p \in 1 .. Len(kernel) : kernel[p] \in Acc
  BY <1>11, <1>14
<1>16. IsTraceOf(trace, kernel)
  <2>1. \A p \in 1 .. Len(kernel) : (trace[p].type = "W") <=> (kernel[p].kind = "store")
    <3>1. \A x \in Acc : (g[x].type = "W") <=> (x.kind = "store")
      BY EmittedType DEF g, Acc
    <3> QED
      BY <3>1, <1>14, <1>15, Zenon
  <2>2. \A p, q \in 1 .. Len(kernel) :
          IF kernel[p].array = kernel[q].array
          THEN trace[p].value - trace[q].value
                 = (kernel[p].index - kernel[q].index) * ElementSize
          ELSE trace[p].value \div PageSize # trace[q].value \div PageSize
    <3>1. \A x, y \in Acc :
            IF x.array = y.array
            THEN g[x].value - g[y].value = (x.index - y.index) * ElementSize
            ELSE g[x].value \div PageSize # g[y].value \div PageSize
      BY EmittedType DEF g, Acc
    <3> TAKE p, q \in 1 .. Len(kernel)
    <3>2. PICK x, y : x = kernel[p] /\ y = kernel[q]
      OBVIOUS
    <3>3. x \in Acc /\ y \in Acc /\ trace[p] = g[x] /\ trace[q] = g[y]
      BY <3>2, <1>14, <1>15, Zenon
    <3>4. IF x.array = y.array
          THEN g[x].value - g[y].value = (x.index - y.index) * ElementSize
          ELSE g[x].value \div PageSize # g[y].value \div PageSize
      BY <3>1, <3>3
    <3> QED
      BY <3>2, <3>3, <3>4
  <2>3. \A p, q \in DOMAIN trace :
          IF kernel[p].array = kernel[q].array
          THEN trace[p].value - trace[q].value
                 = (kernel[p].index - kernel[q].index) * ElementSize
          ELSE trace[p].value \div PageSize # trace[q].value \div PageSize
    BY <2>2, <1>15, Zenon
  <2> QED
    BY <2>1, <2>3, <1>14, <1>15, Zenon DEF IsTraceOf
<1> QED
  BY <1>1, <1>2, <1>11, <1>16, Zenon DEF Faithful, trace

\* Each of the five workloads emits the accesses of its kernel.
LEMMA WorkloadFaithful ==
  ASSUME NEW w, IsJob(w)
  PROVE  Faithful(w)
<1>1. w.workload \in {"sequential", "random_access", "pointer_chase", "strided", "matrix"}
  BY DEF IsJob, Workload
<1> QED
  BY <1>1, SequentialFaithful, RandomAccessFaithful, PointerChaseFaithful, StridedFaithful,
     MatrixFaithful

\* As many visits of the chain as it has nodes, from the beginning of a round, are visits
\* of all its nodes.
LEMMA RoundVisitsAll ==
  ASSUME NEW w, IsJob(w), NEW node, NEW place, IsWalk(w, node, place),
         NEW p \in 0 .. w.iterations - 1
  PROVE  /\ \A h \in 1 .. w.n : p * w.n + h \in 1 .. Total(w)
         /\ {Element(node[p * w.n + h]) : h \in 1 .. w.n} = {Element(x) : x \in 0 .. w.n - 1}
<1> DEFINE n == w.n  total == Total(w)
<1>1. n \in Nat \ {0} /\ w.iterations \in Nat \ {0} /\ total = n * w.iterations
  BY TotalType DEF IsJob
<1>2. /\ node \in [1 .. total -> Nodes(n)]
      /\ \A h \in 1 .. total : place[node[h]] = (h - 1) % n
      /\ place \in [Nodes(n) -> Nodes(n)]
      /\ \A x, y \in Nodes(n) : place[x] = place[y] => x = y
  BY DEF IsWalk, OneCycle
<1> HIDE DEF n, total
<1>3. \A h \in 1 .. n : p * n + h \in 1 .. total /\ (p * n + h - 1) % n = h - 1
  <2> TAKE h \in 1 .. n
  <2>1. PICK d \in Nat : w.iterations = p + 1 + d
    <3>1. w.iterations - 1 - p \in Nat /\ w.iterations = p + 1 + (w.iterations - 1 - p)
      BY <1>1
    <3> QED
      BY <3>1
  <2>2. n * w.iterations = p * n + n + d * n
    BY <1>1, <2>1, Z3
  <2>3. p * n \in Nat /\ d * n \in Nat
    BY <1>1, <2>1
  <2>4. p * n + h \in 1 .. total
    BY <2>2, <2>3, <1>1
  <2>5. (n * p + (h - 1)) % n = h - 1
    <3>1. PICK r : r = h - 1
      OBVIOUS
    <3>2. r \in 0 .. n - 1 /\ p \in Nat
      BY <3>1, <1>1
    <3>3. (n * p + r) % n = r
      BY <3>2, <1>1, Remainder
    <3> QED
      BY <3>1, <3>3
  <2>6. n * p = p * n
    BY <1>1, Z3
  <2>7. p * n + h - 1 = n * p + (h - 1)
    BY <2>3, <2>6
  <2> QED
    BY <2>4, <2>5, <2>7, Zenon
<1>4. ASSUME NEW h \in 1 .. n PROVE node[p * n + h] \in 0 .. n - 1
  BY <1>2, <1>3 DEF Nodes
<1>5. ASSUME NEW x \in 0 .. n - 1 PROVE \E h \in 1 .. n : node[p * n + h] = x
  <2>1. x \in Nodes(n)
    BY DEF Nodes
  <2>2. PICK h : h = place[x] + 1
    OBVIOUS
  <2>3. h \in 1 .. n /\ h - 1 = place[x]
    <3>1. place[x] \in Nodes(n)
      BY <2>1, <1>2
    <3>2. PICK q : q = place[x]
      OBVIOUS
    <3>3. q \in 0 .. n - 1 /\ h = q + 1
      BY <3>1, <3>2, <2>2 DEF Nodes
    <3>4. h \in 1 .. n /\ h - 1 = q
      BY <3>3, <1>1
    <3> QED
      BY <3>2, <3>4
  <2>4. PICK k : k = p * n + h
    OBVIOUS
  <2>5. k \in 1 .. total /\ (k - 1) % n = h - 1
    <3>1. p * n + h \in 1 .. total /\ (p * n + h - 1) % n = h - 1
      BY <2>3, <1>3, Zenon
    <3>2. PICK e : e = p * n + h
      OBVIOUS
    <3>3. e \in 1 .. total /\ (e - 1) % n = h - 1
      <4>1. e - 1 = p * n + h - 1
        <5>1. p * n \in Int
          BY <1>1
        <5>2. PICK m : m = p * n
          OBVIOUS
        <5>3. e = m + h /\ m \in Int /\ h \in Int
          BY <5>1, <5>2, <3>2, <2>3, <1>1
        <5>4. e - 1 = m + h - 1
          BY <5>3
        <5> QED
          BY <5>2, <5>4, Zenon
      <4> QED
        BY <3>1, <3>2, <4>1, Zenon
    <3> QED
      BY <3>2, <3>3, <2>4, Zenon
  <2>6. node[k] \in Nodes(n) /\ place[node[k]] = place[x]
    BY <2>3, <2>5, <1>2
  <2>7. node[k] = x
    BY <2>1, <2>6, <1>2
  <2> QED
    BY <2>3, <2>4, <2>7
<1>6. {Element(node[p * n + h]) : h \in 1 .. n} = {Element(x) : x \in 0 .. n - 1}
  <2>1. ASSUME NEW e \in {Element(node[p * n + h]) : h \in 1 .. n}
        PROVE  e \in {Element(x) : x \in 0 .. n - 1}
    BY <1>4
  <2>2. ASSUME NEW e \in {Element(x) : x \in 0 .. n - 1}
        PROVE  e \in {Element(node[p * n + h]) : h \in 1 .. n}
    <3>1. PICK x \in 0 .. n - 1 : e = Element(x)
      OBVIOUS
    <3>2. PICK h \in 1 .. n : node[p * n + h] = x
      BY <1>5
    <3> QED
      BY <3>1, <3>2
  <2> QED
    BY <2>1, <2>2
<1> QED
  BY <1>3, <1>6 DEF n, total

\* A trace goes round the nodes.
GoesRound(trace, w) ==
  /\ Len(trace) = Total(w)
  /\ \A p \in 0 .. w.iterations - 1 :
       {trace[p * w.n + h].value : h \in 1 .. w.n} = {Element(x) : x \in 0 .. w.n - 1}

\* And so do the accesses of the trace of a chase.
LEMMA ChaseAccesses ==
  ASSUME NEW w, IsJob(w), w.workload = "pointer_chase", NEW trace,
         trace = AccessesIn(Emission(w))
  PROVE  GoesRound(trace, w)
<1>1. PICK node, place : IsWalk(w, node, place)
  BY ChaseWalks
<1> DEFINE total == Total(w)
           addresses == [h \in 1 .. total |-> Element(node[h])]
<1>2. total \in Nat
  BY TotalType
<1>3. Emission(w) = Scan("L", addresses, 2)
  BY <1>1 DEF Emission, IsWalk
<1>4. \A h \in 1 .. total : Element(node[h]) \in Int
  <2> TAKE h \in 1 .. total
  <2>1. node[h] \in Nodes(w.n)
    BY <1>1 DEF IsWalk
  <2>2. node[h] \in Int
    BY <2>1 DEF Nodes
  <2> QED
    BY <2>2, ElementType
<1> HIDE DEF total
<1>5. addresses \in [1 .. total -> Int]
  BY <1>4
<1> HIDE DEF addresses
<1>6. trace = [h \in 1 .. total |-> Record("L", addresses[h])]
  <2>1. 2 \in Int
    OBVIOUS
  <2>2. AccessesIn(Scan("L", addresses, 2)) = [h \in 1 .. total |-> Record("L", addresses[h])]
    BY <2>1, <1>2, <1>5, ScanTrace
  <2> QED
    BY <2>2, <1>3, Zenon
<1>7. Len(trace) = total
  BY <1>2, <1>6
<1>8. \A h \in 1 .. total : trace[h].value = Element(node[h])
  <2> TAKE h \in 1 .. total
  <2>1. trace[h] = Record("L", addresses[h]) /\ addresses[h] = Element(node[h])
    BY <1>6 DEF addresses
  <2> QED
    BY <2>1 DEF Record
<1>9. ASSUME NEW p \in 0 .. w.iterations - 1
      PROVE  {trace[p * w.n + h].value : h \in 1 .. w.n} = {Element(x) : x \in 0 .. w.n - 1}
  <2>1. /\ \A h \in 1 .. w.n : p * w.n + h \in 1 .. total
        /\ {Element(node[p * w.n + h]) : h \in 1 .. w.n} = {Element(x) : x \in 0 .. w.n - 1}
    BY <1>1, RoundVisitsAll DEF total
  <2>2. {trace[p * w.n + h].value : h \in 1 .. w.n} = {Element(node[p * w.n + h]) : h \in 1 .. w.n}
    BY <2>1, <1>8
  <2> QED
    BY <2>1, <2>2, Zenon
<1> QED
  BY <1>7, <1>9 DEF total, GoesRound

-----------------------------------------------------------------------------
(* Folds over finite sets.                                                  *)

\* What every set has that its elements can be taken from, one, and have it, every finite
\* set has.
LEMMA InductionByRemoval ==
  ASSUME NEW S, IsFiniteSet(S), NEW T,
         \A s \in SUBSET S : (\A x \in s : s \ {x} \in T) => s \in T
  PROVE  \A s \in SUBSET S : s \in T
<1> DEFINE Good == {k \in Nat : \A s \in SUBSET S : Cardinality(s) = k => s \in T}
<1>1. \A s \in SUBSET S : IsFiniteSet(s) /\ Cardinality(s) \in Nat
  BY FS_Subset, FS_CardinalityType
<1>2. 0 \in Good
  <2> SUFFICES ASSUME NEW s \in SUBSET S, Cardinality(s) = 0 PROVE s \in T
    OBVIOUS
  <2>1. s = {}
    BY <1>1, FS_EmptySet
  <2> QED
    BY <2>1
<1>3. ASSUME NEW k \in Nat \ {0}, k - 1 \in Good PROVE k \in Good
  <2> SUFFICES ASSUME NEW s \in SUBSET S, Cardinality(s) = k PROVE s \in T
    OBVIOUS
  <2>1. ASSUME NEW x \in s PROVE s \ {x} \in T
    <3>1. Cardinality(s \ {x}) = k - 1
      BY <1>1, FS_RemoveElement
    <3> QED
      BY <3>1, <1>3
  <2> QED
    BY <2>1
<1> HIDE DEF Good
<1>4. \A k \in Nat : k \in Good
  BY <1>2, <1>3, InductionOnNat
<1> QED
  BY <1>1, <1>4 DEF Good

\* What such a fold has for a set, given what it has for smaller ones: pick takes an
\* element from a set, and step goes on from what there is for the others.
FoldStep(pick, base, step, g, s) ==
  IF s = {} THEN base ELSE step[<<pick[s], g[s \ {pick[s]}]>>]

\* From every nonempty subset this function picks an element.
Picks(pick, S) == \A s \in SUBSET S : s # {} => pick[s] \in s

\* This function is such a fold, over all subsets of S.
IsFold(g, S, T, pick, base, step) ==
  /\ g \in [SUBSET S -> T]
  /\ \A s \in SUBSET S : g[s] = FoldStep(pick, base, step, g, s)

\* There is a fold.
LEMMA FoldExists ==
  ASSUME NEW S, IsFiniteSet(S), NEW pick, Picks(pick, S),
         NEW T, NEW base \in T, NEW step, Maps(step, S \X T, T)
  PROVE  \E g : IsFold(g, S, T, pick, base, step)
<1> DEFINE Upto(k, g) == \A s \in SUBSET S :
                           Cardinality(s) <= k => g[s] = FoldStep(pick, base, step, g, s)
           Good == {k \in Nat : \E g \in [SUBSET S -> T] : Upto(k, g)}
<1>1. \A s \in SUBSET S : IsFiniteSet(s) /\ Cardinality(s) \in Nat
  BY FS_Subset, FS_CardinalityType
<1>2. ASSUME NEW g \in [SUBSET S -> T], NEW s \in SUBSET S
      PROVE  FoldStep(pick, base, step, g, s) \in T
  <2>1. CASE s = {}
    BY <2>1 DEF FoldStep
  <2>2. CASE s # {}
    <3>1. pick[s] \in S /\ s \ {pick[s]} \in SUBSET S
      BY <2>2 DEF Picks
    <3>2. g[s \ {pick[s]}] \in T
      BY <3>1
    <3>3. step[<<pick[s], g[s \ {pick[s]}]>>] \in T
      BY <3>1, <3>2 DEF Maps
    <3> QED
      BY <2>2, <3>3 DEF FoldStep
  <2> QED
    BY <2>1, <2>2
<1>3. 0 \in Good
  <2> DEFINE g == [s \in SUBSET S |-> base]
  <2>1. ASSUME NEW s \in SUBSET S, Cardinality(s) <= 0 PROVE g[s] = FoldStep(pick, base, step, g, s)
    <3>1. Cardinality(s) = 0
      BY <1>1, <2>1
    <3>2. s = {}
      BY <1>1, <3>1, FS_EmptySet
    <3> QED
      BY <3>2 DEF FoldStep
  <2>2. g \in [SUBSET S -> T]
    OBVIOUS
  <2> HIDE DEF g
  <2> QED
    BY <2>1, <2>2
<1>4. ASSUME NEW k \in Nat \ {0}, k - 1 \in Good PROVE k \in Good
  <2>1. PICK g \in [SUBSET S -> T] : Upto(k - 1, g)
    BY <1>4
  <2> DEFINE h == [s \in SUBSET S |-> FoldStep(pick, base, step, g, s)]
  <2>2. h \in [SUBSET S -> T] /\ \A s \in SUBSET S : h[s] = FoldStep(pick, base, step, g, s)
    BY <1>2
  <2> HIDE DEF h
  <2>3. ASSUME NEW s \in SUBSET S, Cardinality(s) <= k
        PROVE  h[s] = FoldStep(pick, base, step, h, s)
    <3>1. CASE s = {}
      BY <2>2, <3>1 DEF FoldStep
    <3>2. CASE s # {}
      <4> DEFINE x == pick[s]  t == s \ {x}
      <4>1. x \in s /\ t \in SUBSET S
        BY <3>2 DEF Picks
      <4>2. Cardinality(t) = Cardinality(s) - 1
        BY <4>1, <1>1, FS_RemoveElement
      <4> HIDE DEF x, t
      <4>3. Cardinality(t) <= k - 1
        <5>1. Cardinality(s) \in Nat /\ Cardinality(t) \in Nat
          BY <4>1, <1>1
        <5> QED
          BY <4>2, <5>1, <2>3
      <4>4. g[t] = FoldStep(pick, base, step, g, t)
        BY <2>1, <4>1, <4>3
      <4>5. h[t] = g[t]
        BY <2>2, <4>1, <4>4
      <4>6. h[s] = step[<<x, g[t]>>]
        BY <2>2, <3>2 DEF FoldStep, x, t
      <4>7. h[s] = step[<<x, h[t]>>]
        BY <4>5, <4>6
      <4> QED
        BY <3>2, <4>7 DEF FoldStep, x, t
    <3> QED
      BY <3>1, <3>2
  <2> QED
    BY <2>2, <2>3
<1>5. Cardinality(S) \in Good
  <2> HIDE DEF Good
  <2>1. \A k \in Nat : k \in Good
    BY <1>3, <1>4, InductionOnNat
  <2> QED
    BY <2>1, <1>1
<1>6. PICK g \in [SUBSET S -> T] : Upto(Cardinality(S), g)
  BY <1>5
<1>7. ASSUME NEW s \in SUBSET S PROVE g[s] = FoldStep(pick, base, step, g, s)
  <2>1. Cardinality(s) <= Cardinality(S)
    BY FS_Subset
  <2> QED
    BY <2>1, <1>6
<1> QED
  BY <1>7 DEF IsFold

-----------------------------------------------------------------------------
(* Sums.                                                                    *)

\* The element that the definition of a sum takes from a set.
Chosen(s) == CHOOSE x \in s : TRUE

\* The sum over s, given those over smaller sets.
SumStep(f, g, s) == IF s = {} THEN 0 ELSE f[Chosen(s)] + g[s \ {Chosen(s)}]

\* This function has the sums of f over all subsets of S.
Sums(g, f, S) == \A s \in SUBSET S : g[s] = SumStep(f, g, s)

\* Sums depend only on what is summed.
LEMMA SumsAgree ==
  ASSUME NEW S, IsFiniteSet(S), NEW f, NEW e, NEW g, NEW h, NEW T,
         Sums(g, f, S), Sums(h, e, T), S \subseteq T, \A x \in S : f[x] = e[x]
  PROVE  \A s \in SUBSET S : g[s] = h[s]
<1> DEFINE Good == {s \in SUBSET S : g[s] = h[s]}
<1>1. ASSUME NEW s \in SUBSET S, \A x \in s : s \ {x} \in Good PROVE s \in Good
  <2>1. g[s] = SumStep(f, g, s) /\ h[s] = SumStep(e, h, s)
    BY DEF Sums
  <2>2. CASE s = {}
    BY <2>1, <2>2 DEF SumStep
  <2>3. CASE s # {}
    <3> DEFINE x == Chosen(s)
    <3>1. x \in s
      BY <2>3 DEF Chosen
    <3> HIDE DEF x
    <3>2. g[s \ {x}] = h[s \ {x}] /\ f[x] = e[x]
      BY <3>1, <1>1
    <3>3. g[s] = f[x] + g[s \ {x}] /\ h[s] = e[x] + h[s \ {x}]
      BY <2>1, <2>3 DEF SumStep, x
    <3>4. g[s] = h[s]
      BY <3>2, <3>3
    <3> QED
      BY <3>4
  <2> QED
    BY <2>2, <2>3
<1> HIDE DEF Good
<1>2. \A s \in SUBSET S : s \in Good
  BY <1>1, InductionByRemoval
<1> QED
  BY <1>2 DEF Good

\* The sum is the last entry of such a function.
LEMMA SumIsLast ==
  ASSUME NEW S, IsFiniteSet(S), NEW f, DOMAIN f = S, \A x \in S : f[x] \in Nat
  PROVE  \E g \in [SUBSET S -> Nat] : Sums(g, f, S) /\ Sum(f) = g[S]
<1> DEFINE pick == [s \in SUBSET S |-> Chosen(s)]
           step == [p \in S \X Nat |-> f[p[1]] + p[2]]
           c == CHOOSE g : g = [s \in SUBSET S |-> SumStep(f, g, s)]
<1>1. Picks(pick, S)
  BY DEF Picks, Chosen
<1>2. step \in [S \X Nat -> Nat]
  OBVIOUS
<1>3. \A x \in S, t \in Nat : step[<<x, t>>] = f[x] + t
  OBVIOUS
<1>4. \A s \in SUBSET S : pick[s] = Chosen(s)
  OBVIOUS
<1> HIDE DEF pick, step
<1>5. PICK g \in [SUBSET S -> Nat] :
         \A s \in SUBSET S : g[s] = FoldStep(pick, 0, step, g, s)
  <2>1. 0 \in Nat /\ Maps(step, S \X Nat, Nat)
    BY <1>2 DEF Maps
  <2>2. \E g : IsFold(g, S, Nat, pick, 0, step)
    BY <1>1, <2>1, FoldExists
  <2> QED
    BY <2>2 DEF IsFold
<1>6. ASSUME NEW s \in SUBSET S PROVE FoldStep(pick, 0, step, g, s) = SumStep(f, g, s)
  <2>1. CASE s = {}
    BY <2>1 DEF FoldStep, SumStep
  <2>2. CASE s # {}
    <3> DEFINE x == Chosen(s)
    <3>1. x \in s /\ pick[s] = x
      BY <2>2, <1>4 DEF Chosen
    <3> HIDE DEF x
    <3>2. g[s \ {x}] \in Nat
      BY <3>1
    <3>3. step[<<x, g[s \ {x}]>>] = f[x] + g[s \ {x}]
      BY <3>1, <3>2, <1>3
    <3> QED
      BY <2>2, <3>1, <3>3 DEF FoldStep, SumStep, x
  <2> QED
    BY <2>1, <2>2
<1>7. g = [s \in SUBSET S |-> SumStep(f, g, s)]
  BY <1>5, <1>6
<1>8. c = [s \in SUBSET S |-> SumStep(f, c, s)]
  BY <1>7
<1>9. Sum(f) = c[S]
  BY DEF Sum, FoldFunction, FoldFunctionOnSet, MapThenFoldSet, Chosen, SumStep
<1> HIDE DEF c
<1>10. Sums(g, f, S) /\ Sums(c, f, S)
  <2>1. Sums(g, f, S)
    BY <1>7 DEF Sums
  <2>2. Sums(c, f, S)
    BY <1>8 DEF Sums
  <2> QED
    BY <2>1, <2>2
<1>11. c[S] = g[S]
  BY <1>10, SumsAgree
<1> QED
  BY <1>9, <1>10, <1>11

\* The sum of a function over a set.
SumOver(f, S) == Sum([x \in S |-> f[x]])

\* Over the empty set it is 0, and any element may be taken out first.
LEMMA SumPick ==
  ASSUME NEW S, IsFiniteSet(S), NEW f, \A x \in S : f[x] \in Nat
  PROVE  /\ SumOver(f, {}) = 0
         /\ SumOver(f, S) \in Nat
         /\ \A x \in S : /\ SumOver(f, S \ {x}) \in Nat
                         /\ SumOver(f, S) = f[x] + SumOver(f, S \ {x})
<1> DEFINE r(s) == [x \in s |-> f[x]]
<1>1. PICK g \in [SUBSET S -> Nat] : Sums(g, r(S), S) /\ Sum(r(S)) = g[S]
  <2>1. DOMAIN r(S) = S /\ \A x \in S : r(S)[x] \in Nat
    OBVIOUS
  <2> HIDE DEF r
  <2> QED
    BY <2>1, SumIsLast
<1>2. ASSUME NEW s \in SUBSET S PROVE SumOver(f, s) = g[s]
  <2>1. IsFiniteSet(s)
    BY FS_Subset
  <2>2. DOMAIN r(s) = s /\ \A x \in s : r(s)[x] \in Nat /\ r(s)[x] = r(S)[x]
    OBVIOUS
  <2> HIDE DEF r
  <2>3. PICK h \in [SUBSET s -> Nat] : Sums(h, r(s), s) /\ Sum(r(s)) = h[s]
    BY <2>1, <2>2, SumIsLast
  <2>4. \A u \in SUBSET s : h[u] = g[u]
    BY <1>1, <2>1, <2>2, <2>3, SumsAgree
  <2> QED
    BY <2>3, <2>4 DEF SumOver, r
<1>3. \A s \in SUBSET S : g[s] = SumStep(f, g, s)
  <2>1. ASSUME NEW s \in SUBSET S PROVE SumStep(r(S), g, s) = SumStep(f, g, s)
    <3>1. s # {} => Chosen(s) \in S
      BY DEF Chosen
    <3> QED
      BY <3>1 DEF SumStep
  <2> HIDE DEF r
  <2> QED
    BY <2>1, <1>1 DEF Sums
<1> HIDE DEF r
<1> DEFINE Good == {s \in SUBSET S : \A x \in s : g[s] = f[x] + g[s \ {x}]}
<1>4. ASSUME NEW s \in SUBSET S, \A x \in s : s \ {x} \in Good PROVE s \in Good
  <2> DEFINE c == Chosen(s)
  <2> SUFFICES ASSUME NEW x \in s PROVE g[s] = f[x] + g[s \ {x}]
    OBVIOUS
  <2>1. c \in s /\ g[s] = f[c] + g[s \ {c}]
    BY <1>3 DEF SumStep, Chosen
  <2> HIDE DEF c
  <2>2. CASE x = c
    BY <2>1, <2>2
  <2>3. CASE x # c
    <3> DEFINE u == (s \ {c}) \ {x}
    <3>1. s \ {x} \in Good /\ s \ {c} \in Good /\ (s \ {x}) \ {c} = u
          /\ c \in s \ {x} /\ x \in s \ {c}
      BY <1>4, <2>1, <2>3
    <3>2. g[s \ {x}] = f[c] + g[u]
      BY <3>1
    <3>3. g[s \ {c}] = f[x] + g[u]
      BY <3>1
    <3>4. g[u] \in Nat /\ f[c] \in Nat /\ f[x] \in Nat
      BY <2>1
    <3> HIDE DEF u
    <3> QED
      BY <2>1, <3>2, <3>3, <3>4
  <2> QED
    BY <2>2, <2>3
<1> HIDE DEF Good
<1>5. \A s \in SUBSET S : s \in Good
  BY <1>4, InductionByRemoval
<1>6. g[S] \in Nat /\ \A x \in S : g[S \ {x}] \in Nat /\ g[S] = f[x] + g[S \ {x}]
  BY <1>5 DEF Good
<1>7. g[{}] = 0
  BY <1>3 DEF SumStep
<1> QED
  BY <1>2, <1>6, <1>7

\* A sum depends only on what is summed.
LEMMA SumAgrees ==
  ASSUME NEW S, NEW f, NEW g, \A x \in S : f[x] = g[x]
  PROVE  SumOver(f, S) = SumOver(g, S)
<1>1. [x \in S |-> f[x]] = [x \in S |-> g[x]]
  OBVIOUS
<1> QED
  BY <1>1, Zenon DEF SumOver

\* It is a natural number, and a sum of one summand is that summand.
LEMMA SumType ==
  ASSUME NEW S, IsFiniteSet(S), NEW f, \A x \in S : f[x] \in Nat
  PROVE  /\ SumOver(f, S) \in Nat
         /\ \A x : S = {x} => SumOver(f, S) = f[x]
<1>1. SumOver(f, S) \in Nat
  BY SumPick
<1>2. ASSUME NEW x, S = {x} PROVE SumOver(f, S) = f[x]
  <2>1. x \in S /\ S \ {x} = {}
    BY <1>2
  <2>2. SumOver(f, S) = f[x] + SumOver(f, S \ {x}) /\ SumOver(f, {}) = 0
    BY <2>1, SumPick
  <2>3. f[x] \in Nat
    BY <2>1
  <2> QED
    BY <2>1, <2>2, <2>3
<1> QED
  BY <1>1, <1>2

\* When one summand grows the sum does.
LEMMA SumGrows ==
  ASSUME NEW S, IsFiniteSet(S), NEW f, NEW g, NEW x \in S, NEW d \in Nat,
         \A y \in S : f[y] \in Nat, \A y \in S \ {x} : g[y] = f[y], g[x] = f[x] + d
  PROVE  SumOver(g, S) = SumOver(f, S) + d
<1>1. \A y \in S : g[y] \in Nat
  OBVIOUS
<1>2. SumOver(g, S) = g[x] + SumOver(g, S \ {x})
  BY <1>1, SumPick
<1>3. SumOver(f, S) = f[x] + SumOver(f, S \ {x}) /\ SumOver(f, S \ {x}) \in Nat
  BY SumPick
<1>4. SumOver(g, S \ {x}) = SumOver(f, S \ {x})
  BY SumAgrees
<1>5. f[x] \in Nat
  OBVIOUS
<1> QED
  BY <1>2, <1>3, <1>4, <1>5

\* Equal summands.
LEMMA SumOfEquals ==
  ASSUME NEW S, IsFiniteSet(S), NEW f, NEW c \in Nat, \A x \in S : f[x] = c
  PROVE  SumOver(f, S) = Cardinality(S) * c
<1> DEFINE Good == {s \in SUBSET S : SumOver(f, s) = Cardinality(s) * c}
<1>1. ASSUME NEW s \in SUBSET S, \A x \in s : s \ {x} \in Good PROVE s \in Good
  <2>1. IsFiniteSet(s) /\ \A x \in s : f[x] \in Nat
    BY FS_Subset
  <2>2. SumOver(f, {}) = 0 /\ \A x \in s : SumOver(f, s) = f[x] + SumOver(f, s \ {x})
    BY <2>1, SumPick
  <2>3. CASE s = {}
    <3>1. Cardinality(s) = 0
      BY <2>3, FS_EmptySet
    <3>2. SumOver(f, s) = Cardinality(s) * c
      BY <2>2, <2>3, <3>1
    <3> QED
      BY <3>2
  <2>4. CASE s # {}
    <3>1. PICK x \in s : TRUE
      BY <2>4
    <3>2. SumOver(f, s) = c + SumOver(f, s \ {x}) /\ SumOver(f, s \ {x}) = Cardinality(s \ {x}) * c
      BY <1>1, <2>2
    <3>3. PICK k : k = Cardinality(s)
      OBVIOUS
    <3>4. Cardinality(s \ {x}) = k - 1 /\ k \in Nat
      BY <2>1, <3>3, FS_RemoveElement, FS_CardinalityType
    <3>5. c + (k - 1) * c = k * c
      BY <3>4, Z3
    <3>6. SumOver(f, s) = k * c
      BY <3>2, <3>4, <3>5
    <3> QED
      BY <3>3, <3>6
  <2> QED
    BY <2>3, <2>4
<1> HIDE DEF Good
<1>2. \A s \in SUBSET S : s \in Good
  BY <1>1, InductionByRemoval
<1>3. S \in Good
  BY <1>2
<1> QED
  BY <1>3 DEF Good

\* The elements of s at which p is t.
Fibre(s, p, t) == {x \in s : p[x] = t}

\* The sums of f over these.
FibreSums(f, s, p, T) == [t \in T |-> SumOver(f, Fibre(s, p, t))]

\* A sum can be taken part by part.
LEMMA SumOfParts ==
  ASSUME NEW S, IsFiniteSet(S), NEW T, IsFiniteSet(T), NEW f, \A x \in S : f[x] \in Nat,
         NEW p, \A x \in S : p[x] \in T
  PROVE  SumOver(f, S) = SumOver(FibreSums(f, S, p, T), T)
<1> DEFINE Good == {s \in SUBSET S : SumOver(f, s) = SumOver(FibreSums(f, s, p, T), T)}
<1>1. ASSUME NEW s \in SUBSET S, \A x \in s : s \ {x} \in Good PROVE s \in Good
  <2>1. IsFiniteSet(s) /\ \A x \in s : f[x] \in Nat
    BY FS_Subset
  <2>2. SumOver(f, {}) = 0 /\ \A x \in s : SumOver(f, s) = f[x] + SumOver(f, s \ {x})
    BY <2>1, SumPick
  <2>3. CASE s = {}
    <3> DEFINE g == FibreSums(f, s, p, T)
    <3>1. \A t \in T : g[t] = 0
      <4>1. \A t \in T : Fibre(s, p, t) = {}
        BY <2>3 DEF Fibre
      <4> QED
        BY <4>1, <2>2 DEF FibreSums
    <3> HIDE DEF g
    <3>2. SumOver(g, T) = Cardinality(T) * 0
      BY <3>1, SumOfEquals
    <3>3. SumOver(g, T) = 0
      BY <3>2, FS_CardinalityType
    <3> QED
      BY <2>2, <2>3, <3>3 DEF g
  <2>4. CASE s # {}
    <3>1. PICK x \in s : TRUE
      BY <2>4
    <3> DEFINE g == FibreSums(f, s \ {x}, p, T)
               h == FibreSums(f, s, p, T)
               u == p[x]
    <3>2. u \in T /\ f[x] \in Nat
      OBVIOUS
    <3>3. ASSUME NEW t \in T
          PROVE  /\ IsFiniteSet(Fibre(s, p, t)) /\ \A y \in Fibre(s, p, t) : f[y] \in Nat
                 /\ IsFiniteSet(Fibre(s \ {x}, p, t))
                 /\ \A y \in Fibre(s \ {x}, p, t) : f[y] \in Nat
      <4>1. Fibre(s, p, t) \in SUBSET s /\ Fibre(s \ {x}, p, t) \in SUBSET s
        BY DEF Fibre
      <4> QED
        BY <2>1, <4>1, FS_Subset
    <3>4. \A t \in T : g[t] \in Nat
      BY <3>3, SumType DEF FibreSums
    <3>5. ASSUME NEW t \in T \ {u} PROVE h[t] = g[t]
      <4>1. Fibre(s, p, t) = Fibre(s \ {x}, p, t)
        BY DEF Fibre
      <4> QED
        BY <4>1 DEF FibreSums
    <3>6. h[u] = g[u] + f[x]
      <4>1. x \in Fibre(s, p, u) /\ Fibre(s, p, u) \ {x} = Fibre(s \ {x}, p, u)
        BY DEF Fibre
      <4> HIDE DEF u
      <4>2. SumOver(f, Fibre(s, p, u)) = f[x] + SumOver(f, Fibre(s, p, u) \ {x})
        BY <4>1, <3>2, <3>3, SumPick
      <4>3. h[u] = f[x] + g[u]
        BY <3>2, <4>1, <4>2 DEF FibreSums
      <4> HIDE DEF h, g
      <4> QED
        BY <4>3, <3>2, <3>4
    <3> HIDE DEF g, h, u
    <3>7. SumOver(h, T) = SumOver(g, T) + f[x]
      BY <3>2, <3>4, <3>5, <3>6, SumGrows
    <3>8. SumOver(f, s \ {x}) = SumOver(g, T)
      BY <1>1 DEF g
    <3>9. SumOver(g, T) \in Nat
      BY <3>4, SumType
    <3>10. SumOver(f, s) = SumOver(h, T)
      BY <2>2, <3>2, <3>7, <3>8, <3>9
    <3> QED
      BY <3>10 DEF h
  <2> QED
    BY <2>3, <2>4
<1> HIDE DEF Good
<1>2. \A s \in SUBSET S : s \in Good
  BY <1>1, InductionByRemoval
<1>3. S \in Good
  BY <1>2
<1> QED
  BY <1>3 DEF Good

\* The summands can be numbered anew.
LEMMA SumReindexed ==
  ASSUME NEW S, IsFiniteSet(S), NEW T, IsFiniteSet(T), NEW f, \A x \in S : f[x] \in Nat,
         NEW h, NEW p, \A x \in S : p[x] \in T /\ h[p[x]] = x,
         \A t \in T : h[t] \in S /\ p[h[t]] = t, NEW g, \A t \in T : g[t] = f[h[t]]
  PROVE  SumOver(f, S) = SumOver(g, T)
<1> DEFINE sums == FibreSums(f, S, p, T)
<1>1. SumOver(f, S) = SumOver(sums, T)
  BY SumOfParts
<1>2. ASSUME NEW t \in T PROVE sums[t] = g[t]
  <2> DEFINE F == Fibre(S, p, t)
  <2>1. F = {h[t]}
    BY DEF Fibre
  <2>2. F \in SUBSET S
    BY DEF Fibre
  <2> HIDE DEF F
  <2>3. IsFiniteSet(F) /\ \A x \in F : f[x] \in Nat
    BY <2>2, FS_Subset
  <2>4. SumOver(f, F) = f[h[t]]
    BY <2>1, <2>3, SumType
  <2> QED
    BY <2>4 DEF FibreSums, F
<1> HIDE DEF sums
<1>3. SumOver(sums, T) = SumOver(g, T)
  BY <1>2, SumAgrees
<1> QED
  BY <1>1, <1>3

\* Over T, g is f over S: h numbers what p finds.
Renumbers(f, S, g, T, h, p) ==
  /\ \A x \in S : f[x] \in Nat /\ p[x] \in T /\ h[p[x]] = x
  /\ \A t \in T : h[t] \in S /\ p[h[t]] = t /\ g[t] = f[h[t]]

\* The sums of the two are the same.
LEMMA SumRenumbered ==
  ASSUME NEW S, IsFiniteSet(S), NEW T, IsFiniteSet(T), NEW f, NEW g, NEW h, NEW p,
         Renumbers(f, S, g, T, h, p)
  PROVE  SumOver(f, S) = SumOver(g, T)
BY SumReindexed DEF Renumbers

-----------------------------------------------------------------------------
(* The checksum of the matrix kernel.                                       *)

\* The elements of an array.
Elements(w) == 0 .. w.n * w.n - 1

\* Arrays that hold natural numbers.
Arrays(w) == [Elements(w) -> Nat]

\* The product of two elements that the kernel adds to a sum.
ProductAt(w, i, k, j) == Filled(w, 1)[i * w.n + k] * Filled(w, 2)[k * w.n + j]

\* What one iteration adds to the sum of C.
Added(w, v) ==
  SumOver([k \in Tile(w, v[4]) |-> ProductAt(w, v[5], k, v[6])], Tile(w, v[4]))

\* An interval is a finite set.
LEMMA IntervalFinite ==
  ASSUME NEW m \in Int, NEW n \in Int
  PROVE  IsFiniteSet(m .. n)
BY FS_Interval

\* The low 16 bits of a draw.
LowBits(draw) == draw % 65536

\* They are a number.
LEMMA LowBitsType == \A draw \in Nat : LowBits(draw) \in Nat
<1> TAKE draw \in Nat
<1>1. PICK e : e = 65536
  OBVIOUS
<1>2. draw % e \in 0 .. e - 1 /\ e \in Nat
  <2>1. e \in Nat /\ e # 0
    BY <1>1
  <2> QED
    BY <2>1, Division
<1>3. draw % e \in Nat
  BY <1>2
<1> QED
  BY <1>1, <1>3 DEF LowBits

\* The filled arrays.
LEMMA FilledType ==
  ASSUME NEW w, IsJob(w), w.workload = "matrix"
  PROVE  /\ IsFiniteSet(Elements(w)) /\ w.n * w.n \in Nat \ {0}
         /\ Filled(w, 1) \in Arrays(w) /\ Filled(w, 2) \in Arrays(w)
         /\ \A x \in Elements(w) : /\ Filled(w, 1)[x] = LowBits(w.draws[2 * x + 1])
                                   /\ Filled(w, 2)[x] = LowBits(w.draws[2 * x + 2])
<1> DEFINE m == w.n * w.n
<1>1. w.n \in Nat \ {0} /\ m \in Nat /\ m # 0
  <2>1. w.n \in Nat \ {0} /\ m \in Nat
    BY DEF IsJob
  <2>2. m # 0
    BY <2>1, Z3
  <2> QED
    BY <2>1, <2>2
<1>2. Draws(w) = 2 * m
  <2>1. Draws(w) = 2 * w.n * w.n
    BY DEF Draws
  <2>2. 2 * w.n * w.n = 2 * (w.n * w.n)
    BY <1>1, Z3
  <2> QED
    BY <2>1, <2>2
<1>3. \A h \in 1 .. Draws(w) : w.draws[h] \in Nat
  BY DEF IsJob
<1> HIDE DEF m
<1>4. ASSUME NEW x \in 0 .. m - 1, NEW o \in {1, 2} PROVE LowBits(w.draws[2 * x + o]) \in Nat
  <2>1. PICK h : h = 2 * x + o
    OBVIOUS
  <2>2. h \in 1 .. 2 * m
    BY <2>1, <1>1
  <2>3. w.draws[h] \in Nat
    BY <2>2, <1>2, <1>3
  <2> QED
    BY <2>1, <2>3, LowBitsType
<1>5. Elements(w) = 0 .. m - 1 /\ IsFiniteSet(0 .. m - 1)
  <2>1. m - 1 \in Int /\ 0 \in Int
    BY <1>1
  <2>2. IsFiniteSet(0 .. m - 1)
    BY <2>1, IntervalFinite
  <2> QED
    BY <2>2 DEF Elements, m
<1>6. /\ Filled(w, 1) = [x \in 0 .. m - 1 |-> LowBits(w.draws[2 * x + 1])]
      /\ Filled(w, 2) = [x \in 0 .. m - 1 |-> LowBits(w.draws[2 * x + 2])]
  BY DEF Filled, LowBits, m
<1>7. Filled(w, 1) \in Arrays(w) /\ Filled(w, 2) \in Arrays(w)
  BY <1>4, <1>5, <1>6 DEF Arrays
<1>8. \A x \in Elements(w) : /\ Filled(w, 1)[x] = LowBits(w.draws[2 * x + 1])
                            /\ Filled(w, 2)[x] = LowBits(w.draws[2 * x + 2])
  BY <1>5, <1>6, Zenon
<1>9. w.n * w.n \in Nat \ {0} /\ IsFiniteSet(Elements(w))
  BY <1>1, <1>5 DEF m
<1> QED
  BY <1>7, <1>8, <1>9, Zenon

\* Products of two elements.
LEMMA ProductType ==
  ASSUME NEW w, IsJob(w), w.workload = "matrix",
         NEW i \in 0 .. w.n - 1, NEW k \in 0 .. w.n - 1, NEW j \in 0 .. w.n - 1
  PROVE  ProductAt(w, i, k, j) \in Nat
<1>1. w.n \in Nat
  BY DEF IsJob
<1>2. i * w.n + k \in Elements(w) /\ k * w.n + j \in Elements(w)
  BY <1>1, IndexInRange DEF Elements
<1>3. Filled(w, 1)[i * w.n + k] \in Nat /\ Filled(w, 2)[k * w.n + j] \in Nat
  BY <1>2, FilledType DEF Arrays
<1>4. \A x, y \in Nat : x * y \in Nat
  OBVIOUS
<1> QED
  BY <1>3, <1>4 DEF ProductAt

\* A tile is within the matrix.
LEMMA TileInRange ==
  ASSUME NEW w, IsJob(w), NEW s \in Starts(w)
  PROVE  IsFiniteSet(Tile(w, s)) /\ Tile(w, s) \subseteq 0 .. w.n - 1
<1>1. w.n \in Nat \ {0}
  BY DEF IsJob
<1>2. PICK t \in s + 1 .. w.n : Tile(w, s) = s .. t - 1
  BY TileType
<1>3. s \in 0 .. w.n - 1
  BY TileType
<1>4. s \in Int /\ t - 1 \in Int
  BY <1>1, <1>2, <1>3
<1>5. IsFiniteSet(s .. t - 1)
  BY <1>4, IntervalFinite
<1>6. s .. t - 1 \subseteq 0 .. w.n - 1
  BY <1>1, <1>2, <1>3
<1> QED
  BY <1>2, <1>5, <1>6

\* One iteration adds to the sum of C what it adds to one of its elements.
LEMMA AccumulateAdds ==
  ASSUME NEW w, IsJob(w), w.workload = "matrix", NEW v \in Visits(w), NEW c \in Arrays(w),
         NEW d, d = Accumulate(w, Filled(w, 1), Filled(w, 2), c, v)
  PROVE  /\ d \in Arrays(w) /\ Added(w, v) \in Nat
         /\ SumOver(d, Elements(w)) = SumOver(c, Elements(w)) + Added(w, v)
<1> DEFINE n == w.n  E == Elements(w)  K == Tile(w, v[4])
           f == [k \in K |-> ProductAt(w, v[5], k, v[6])]
           x == v[5] * n + v[6]  add == Added(w, v)
<1>1. v[5] \in 0 .. n - 1 /\ v[6] \in 0 .. n - 1 /\ v[4] \in Starts(w)
  BY VisitsType
<1>2. IsFiniteSet(K) /\ K \subseteq 0 .. n - 1
  BY <1>1, TileInRange
<1>3. \A k \in K : f[k] \in Nat
  BY <1>1, <1>2, ProductType
<1>4. add = Sum(f)
  <2>1. [k \in K |-> f[k]] = f
    OBVIOUS
  <2> QED
    BY <2>1 DEF Added, SumOver
<1>5. add \in Nat
  <2> HIDE DEF K, f
  <2>1. SumOver(f, K) \in Nat
    BY <1>2, <1>3, SumType
  <2> QED
    BY <2>1 DEF Added, f, K
<1>6. d = [c EXCEPT ![x] = @ + add]
  <2>1. f = [k \in K |-> Filled(w, 1)[v[5] * n + k] * Filled(w, 2)[k * n + v[6]]]
    BY DEF ProductAt
  <2>2. d = [c EXCEPT ![x] = @ + Sum([k \in K |-> Filled(w, 1)[v[5] * n + k]
                                                     * Filled(w, 2)[k * n + v[6]]])]
    BY Zenon DEF Accumulate
  <2> QED
    BY <2>1, <2>2, <1>4, Zenon
<1>7. x \in E /\ IsFiniteSet(E)
  <2>1. n \in Nat
    BY DEF IsJob
  <2>2. x \in 0 .. n * n - 1
    BY <2>1, <1>1, IndexInRange
  <2>3. IsFiniteSet(E)
    BY FilledType
  <2> QED
    BY <2>2, <2>3 DEF Elements
<1>8. c \in [E -> Nat]
  BY DEF Arrays
<1> HIDE DEF add, x, E, f, K
<1>9. d \in [E -> Nat] /\ d[x] = c[x] + add /\ \A y \in E \ {x} : d[y] = c[y]
  BY <1>5, <1>6, <1>7, <1>8
<1>10. SumOver(d, E) = SumOver(c, E) + add
  BY <1>5, <1>7, <1>8, <1>9, SumGrows
<1> QED
  BY <1>5, <1>9, <1>10 DEF E, add, Arrays

\* The checksum of the kernel is what its iterations add, in whatever order.
LEMMA ChecksumIsAdded ==
  ASSUME NEW w, IsJob(w), w.workload = "matrix", NEW added,
         added = [v \in Visits(w) |-> Added(w, v)]
  PROVE  /\ NativeMatrix(w).checksum = SumOver(added, Visits(w))
         /\ \A v \in Visits(w) : added[v] \in Nat
<1> DEFINE V == Visits(w)  order == InOrder(V)  S == DOMAIN order  N == Cardinality(V)
           a == Filled(w, 1)  b == Filled(w, 2)  E == Elements(w)  T == Arrays(w)
           zeros == [x \in 0 .. w.n * w.n - 1 |-> 0]
           Next1(g, s) == IF s = {} THEN zeros
                          ELSE Accumulate(w, a, b, g[s \ {Max(s)}], order[Max(s)])
           c == CHOOSE g : g = [s \in SUBSET S |-> Next1(g, s)]
           f == [r \in S |-> added[order[r]]]
<1>1. /\ NativeMatrix(w).checksum = Sum(c[S])
  BY DEF NativeMatrix, FoldLeft, MapThenFoldSet
<1>2. /\ IsFiniteSet(V) /\ N \in Nat /\ order \in Seq(V) /\ Len(order) = N
      /\ S = 1 .. N /\ \A r \in S : order[r] \in V
  BY VisitsFinite, OrderType, FS_CardinalityType
<1>3. /\ zeros \in T /\ IsFiniteSet(E)
      /\ SumOver(zeros, E) = 0
  <2>1. E = 0 .. w.n * w.n - 1 /\ IsFiniteSet(E)
    BY FilledType DEF Elements
  <2>2. zeros \in T /\ \A x \in E : zeros[x] = 0
    BY <2>1 DEF Arrays
  <2> HIDE DEF zeros, E
  <2>3. SumOver(zeros, E) = Cardinality(E) * 0
    BY <2>1, <2>2, SumOfEquals
  <2>4. Cardinality(E) \in Nat
    BY <2>1, FS_CardinalityType
  <2> QED
    BY <2>1, <2>2, <2>3, <2>4
<1>4. ASSUME NEW v \in V, NEW d \in T
      PROVE  Accumulate(w, a, b, d, v) \in T /\ Added(w, v) \in Nat
             /\ SumOver(Accumulate(w, a, b, d, v), E) = SumOver(d, E) + Added(w, v)
  BY AccumulateAdds
<1>5. IsFiniteSet(S) /\ \A s \in SUBSET S : s # {} => Max(s) \in s
  <2>1. N \in Int /\ 1 \in Int
    BY <1>2
  <2>2. IsFiniteSet(1 .. N)
    BY <2>1, IntervalFinite
  <2>3. \A s \in SUBSET (1 .. N) : s # {} => Max(s) \in s
    BY <1>2, MaxUpTo
  <2> QED
    BY <2>2, <2>3, <1>2
<1>6. added \in [V -> Nat] /\ \A v \in V : added[v] = Added(w, v)
  BY <1>3, <1>4
<1>7. \A r \in S : f[r] \in Nat /\ f[r] = Added(w, order[r])
  BY <1>2, <1>6
<1> HIDE DEF V, order, S, N, a, b, E, T, zeros, f
<1>8. c = [s \in SUBSET S |-> Next1(c, s)]
  <2> DEFINE pick == [s \in SUBSET S |-> Max(s)]
             step == [p \in S \X T |-> Accumulate(w, a, b, p[2], order[p[1]])]
  <2>1. Picks(pick, S)
    BY <1>5 DEF Picks
  <2>2. Maps(step, S \X T, T)
    <3>1. \A p \in S \X T : p[1] \in S /\ p[2] \in T
      OBVIOUS
    <3>2. \A p \in S \X T : Accumulate(w, a, b, p[2], order[p[1]]) \in T
      BY <3>1, <1>2, <1>4
    <3> QED
      BY <3>2 DEF Maps
  <2>3. PICK g : IsFold(g, S, T, pick, zeros, step)
    <3> HIDE DEF pick, step
    <3> QED
      BY <1>3, <1>5, <2>1, <2>2, FoldExists
  <2>4. ASSUME NEW s \in SUBSET S PROVE g[s] = Next1(g, s)
    <3>1. g[s] = FoldStep(pick, zeros, step, g, s) /\ g \in [SUBSET S -> T]
      BY <2>3 DEF IsFold
    <3>2. CASE s = {}
      BY <3>1, <3>2 DEF FoldStep
    <3>3. CASE s # {}
      <4> DEFINE x == Max(s)
      <4>1. x \in S /\ pick[s] = x /\ g[s \ {x}] \in T
        BY <3>1, <3>3, <1>5
      <4>2. step[<<x, g[s \ {x}]>>] = Accumulate(w, a, b, g[s \ {x}], order[x])
        <5> HIDE DEF x
        <5> QED
          BY <4>1
      <4> HIDE DEF step, pick
      <4> QED
        BY <3>1, <3>3, <4>1, <4>2 DEF FoldStep
    <3> QED
      BY <3>2, <3>3
  <2> HIDE DEF Next1
  <2>5. g = [s \in SUBSET S |-> Next1(g, s)]
    BY <2>3, <2>4 DEF IsFold
  <2> QED
    BY <2>5
<1> HIDE DEF c
<1> DEFINE Good == {s \in SUBSET S : c[s] \in T /\ SumOver(c[s], E) = SumOver(f, s)}
<1>9. ASSUME NEW s \in SUBSET S, \A x \in s : s \ {x} \in Good PROVE s \in Good
  <2>1. IsFiniteSet(s) /\ \A x \in s : f[x] \in Nat
    BY <1>5, <1>7, FS_Subset
  <2>2. SumOver(f, {}) = 0 /\ \A x \in s : SumOver(f, s) = f[x] + SumOver(f, s \ {x})
                                          /\ SumOver(f, s \ {x}) \in Nat
    BY <2>1, SumPick
  <2>3. c[s] = Next1(c, s)
    BY <1>8
  <2>4. CASE s = {}
    <3>1. c[s] = zeros
      BY <2>3, <2>4
    <3> QED
      BY <3>1, <2>2, <2>4, <1>3
  <2>5. CASE s # {}
    <3> DEFINE x == Max(s)  d == c[s \ {x}]
    <3>1. x \in s /\ x \in S
      BY <2>5, <1>5
    <3>2. c[s] = Accumulate(w, a, b, d, order[x])
      BY <2>3, <2>5
    <3>3. d \in T /\ SumOver(d, E) = SumOver(f, s \ {x})
      BY <3>1, <1>9
    <3> HIDE DEF x, d
    <3>4. order[x] \in V
      BY <3>1, <1>2
    <3>5. c[s] \in T /\ SumOver(c[s], E) = SumOver(d, E) + Added(w, order[x])
      BY <3>2, <3>3, <3>4, <1>4
    <3>6. f[x] = Added(w, order[x]) /\ f[x] \in Nat
      BY <3>1, <1>7
    <3>7. SumOver(c[s], E) = SumOver(f, s)
      BY <2>2, <3>1, <3>3, <3>5, <3>6
    <3> QED
      BY <3>5, <3>7
  <2> QED
    BY <2>4, <2>5
<1>10. S \in Good
  <2> HIDE DEF Good
  <2>1. \A s \in SUBSET S : s \in Good
    BY <1>5, <1>9, InductionByRemoval
  <2> QED
    BY <2>1
<1>11. Sum(c[S]) = SumOver(f, S)
  <2>1. PICK d : d = c[S]
    OBVIOUS
  <2>2. d \in [E -> Nat] /\ SumOver(d, E) = SumOver(f, S)
    BY <2>1, <1>10 DEF Arrays, E, T
  <2>3. d = [x \in E |-> d[x]]
    BY <2>2
  <2>4. SumOver(d, E) = Sum(d)
    BY <2>3, Zenon DEF SumOver
  <2> QED
    BY <2>1, <2>2, <2>4
<1>12. SumOver(added, V) = SumOver(f, S)
  <2>1. PICK place : /\ \A v \in V : place[v] \in 1 .. N /\ order[place[v]] = v
                     /\ \A r \in 1 .. N : place[order[r]] = r
    BY OrderType DEF V, order, N
  <2>2. /\ \A v \in V : place[v] \in S /\ order[place[v]] = v
        /\ \A r \in S : order[r] \in V /\ place[order[r]] = r
    BY <2>1, <1>2
  <2>3. \A r \in S : f[r] = added[order[r]]
    BY DEF f
  <2>4. \A v \in V : added[v] \in Nat
    BY <1>6
  <2>5. Renumbers(added, V, f, S, order, place)
    BY <2>2, <2>3, <2>4 DEF Renumbers
  <2> QED
    BY <1>2, <1>5, <2>5, SumRenumbered
<1> QED
  BY <1>1, <1>6, <1>11, <1>12 DEF V

\* Two multiples of e that are less than e apart are the same.
LEMMA CloseMultiples ==
  ASSUME NEW e \in Nat, e # 0, NEW s \in Nat, NEW u \in Nat, s % e = 0, u % e = 0,
         s < u + e, u < s + e
  PROVE  s = u
<1>1. PICK p : p = s \div e
  OBVIOUS
<1>2. PICK q : q = u \div e
  OBVIOUS
<1>3. p \in Nat /\ q \in Nat /\ s = e * p /\ u = e * q
  BY <1>1, <1>2, Division
<1>4. \A x, y \in Nat : x < y => e * x + e <= e * y
  BY Z3
<1>5. ~(p < q) /\ ~(q < p)
  BY <1>3, <1>4
<1>6. p = q
  BY <1>3, <1>5
<1> QED
  BY <1>3, <1>6

\* The tile an index is in.
TileAt(w, x) == x - (x % EffectiveBlock(w))

\* Every index is in one tile.
LEMMA OneTile ==
  ASSUME NEW w, IsJob(w), NEW x \in 0 .. w.n - 1
  PROVE  /\ TileAt(w, x) \in Starts(w) /\ x \in Tile(w, TileAt(w, x))
         /\ \A s \in Starts(w) : x \in Tile(w, s) => s = TileAt(w, x)
<1> DEFINE n == w.n  e == EffectiveBlock(w)  t == TileAt(w, x)
<1>1. n \in Nat \ {0} /\ e \in Nat /\ e # 0 /\ x \in Nat /\ x < n
  BY TileType DEF IsJob
<1>2. /\ Starts(w) = {s \in 0 .. n - 1 : s % e = 0}
      /\ \A s : Tile(w, s) = s .. Min({s + e, n}) - 1
  BY DEF Starts, Tile
<1>3. t = x - (x % e)
  BY DEF TileAt
<1> HIDE DEF n, e, t
<1>4. PICK q \in Nat, r \in 0 .. e - 1 : x = e * q + r /\ x % e = r
  <2>1. /\ x \div e \in Nat /\ x % e \in 0 .. e - 1
        /\ x = e * (x \div e) + (x % e)
    BY <1>1, Division
  <2> QED
    BY <2>1, Zenon
<1>5. t \in Nat /\ t <= x /\ x < t + e /\ t % e = 0
  <2>1. PICK y : y = e * q
    OBVIOUS
  <2>2. y \in Nat /\ (y % e) = 0
    <3>1. e * q \in Nat /\ (e * q) % e = 0
      BY <1>1, Z3
    <3> QED
      BY <3>1, <2>1
  <2>3. x = y + r /\ t = x - r
    <3>1. x = y + r
      BY ONLY <2>1, <1>4, Zenon
    <3>2. t = x - r
      BY <1>3, <1>4
    <3> QED
      BY <3>1, <3>2
  <2>4. t = y
    BY <2>2, <2>3, <1>1
  <2> QED
    BY <2>2, <2>3, <2>4, <1>1
<1>6. \A s \in Nat : Min({s + e, n}) \in {s + e, n} /\ Min({s + e, n}) <= s + e
  <2> TAKE s \in Nat
  <2>1. \E y \in {s + e, n} : \A z \in {s + e, n} : y <= z
    <3>1. CASE s + e <= n
      BY <3>1, <1>1
    <3>2. CASE ~(s + e <= n)
      BY <3>2, <1>1
    <3> QED
      BY <3>1, <3>2
  <2>2. Min({s + e, n}) \in {s + e, n} /\ \A z \in {s + e, n} : Min({s + e, n}) <= z
    BY <2>1 DEF Min
  <2> QED
    BY <2>2
<1>7. t \in Starts(w)
  BY <1>1, <1>2, <1>5
<1>8. x \in Tile(w, t)
  <2>1. PICK m : m = Min({t + e, n})
    OBVIOUS
  <2>2. m \in {t + e, n}
    BY <2>1, <1>5, <1>6
  <2>3. Tile(w, t) = t .. m - 1
    BY <2>1, <1>2
  <2> QED
    BY <2>2, <2>3, <1>1, <1>5
<1>9. ASSUME NEW s \in Starts(w), x \in Tile(w, s) PROVE s = t
  <2>1. s \in Nat /\ s % e = 0
    BY <1>1, <1>2
  <2>2. PICK m : m = Min({s + e, n})
    OBVIOUS
  <2>3. m \in {s + e, n} /\ m <= s + e /\ x \in s .. m - 1
    BY <2>1, <2>2, <1>2, <1>6, <1>9
  <2>4. s <= x /\ x < s + e
    BY <2>1, <2>3, <1>1
  <2>5. s < t + e /\ t < s + e
    BY <2>1, <2>4, <1>1, <1>5
  <2> QED
    BY <2>1, <2>5, <1>1, <1>5, CloseMultiples
<1> QED
  BY <1>7, <1>8, <1>9 DEF t

\* The multiplications of the kernel: an iteration and an index of its inner loop.
Multiplications(w) == {q \in Visits(w) \X (0 .. w.n - 1) : q[2] \in Tile(w, q[1][4])}

\* What each of them adds.
Summands(w) == [q \in Multiplications(w) |-> ProductAt(w, q[1][5], q[2], q[1][6])]

\* The triples of the product of the two matrices, and what each contributes to it.
Triples(w) == (0 .. w.n - 1) \X (0 .. w.n - 1) \X (0 .. w.n - 1)

Products(w) == [c \in Triples(w) |-> ProductAt(w, c[1], c[2], c[3])]

\* The multiplications are finitely many.
LEMMA MultiplicationsType ==
  ASSUME NEW w, IsJob(w), w.workload = "matrix"
  PROVE  /\ IsFiniteSet(Multiplications(w))
         /\ \A q \in Multiplications(w) :
              /\ q[1] \in Visits(w) /\ q[2] \in 0 .. w.n - 1 /\ q[2] \in Tile(w, q[1][4])
              /\ q = <<q[1], q[2]>>
              /\ Summands(w)[q] = ProductAt(w, q[1][5], q[2], q[1][6])
              /\ Summands(w)[q] \in Nat
<1> DEFINE V == Visits(w)  I == 0 .. w.n - 1  Q == Multiplications(w)
<1>1. IsFiniteSet(V) /\ IsFiniteSet(I)
  <2>1. 0 \in Int /\ w.n - 1 \in Int
    BY DEF IsJob
  <2> QED
    BY <2>1, VisitsFinite, IntervalFinite
<1>2. IsFiniteSet(V \X I) /\ Q \subseteq V \X I
  <2> HIDE DEF V, I
  <2>1. IsFiniteSet(V \X I)
    BY <1>1, FS_Product
  <2> QED
    BY <2>1 DEF Multiplications, V, I
<1>3. IsFiniteSet(Q)
  <2> HIDE DEF V, I, Q
  <2> QED
    BY <1>2, FS_Subset
<1>4. ASSUME NEW q \in Q
      PROVE  /\ q[1] \in V /\ q[2] \in I /\ q[2] \in Tile(w, q[1][4]) /\ q = <<q[1], q[2]>>
             /\ Summands(w)[q] = ProductAt(w, q[1][5], q[2], q[1][6])
             /\ Summands(w)[q] \in Nat
  <2>1. q \in V \X I /\ q[2] \in Tile(w, q[1][4])
    BY DEF Multiplications
  <2>2. q[1] \in V /\ q[2] \in I /\ q = <<q[1], q[2]>>
    <3> HIDE DEF V, I
    <3> QED
      BY <2>1
  <2>3. Summands(w)[q] = ProductAt(w, q[1][5], q[2], q[1][6])
    BY DEF Summands
  <2>4. q[1][5] \in I /\ q[1][6] \in I
    BY <2>2, VisitsType
  <2>5. Summands(w)[q] \in Nat
    BY <2>2, <2>3, <2>4, ProductType
  <2> QED
    BY <2>1, <2>2, <2>3, <2>5
<1> QED
  BY <1>3, <1>4

\* Taken iteration by iteration, they are what the iterations add.
LEMMA SummandsByVisit ==
  ASSUME NEW w, IsJob(w), w.workload = "matrix", NEW added,
         added = [v \in Visits(w) |-> Added(w, v)]
  PROVE  SumOver(Summands(w), Multiplications(w)) = SumOver(added, Visits(w))
<1> DEFINE V == Visits(w)  I == 0 .. w.n - 1  Q == Multiplications(w)  F == Summands(w)
           p == [q \in Q |-> q[1]]  sums == FibreSums(F, Q, p, V)
<1>1. /\ IsFiniteSet(Q) /\ IsFiniteSet(V)
      /\ \A q \in Q : F[q] \in Nat /\ p[q] \in V
  BY MultiplicationsType, VisitsFinite
<1>2. SumOver(F, Q) = SumOver(sums, V)
  <2> HIDE DEF V, Q, F, p
  <2> QED
    BY <1>1, SumOfParts
<1>3. ASSUME NEW v \in V PROVE sums[v] = added[v]
  <2> DEFINE K == Tile(w, v[4])  f == [k \in K |-> ProductAt(w, v[5], k, v[6])]
             S == Fibre(Q, p, v)
             h == [k \in K |-> <<v, k>>]  second == [q \in S |-> q[2]]
  <2>1. IsFiniteSet(K) /\ K \subseteq I
    BY VisitsType, TileInRange
  <2>2. S \subseteq Q /\ \A q \in S : q[1] = v
    BY DEF Fibre
  <2>3. IsFiniteSet(S)
    <3> HIDE DEF S, Q
    <3> QED
      BY <1>1, <2>2, FS_Subset
  <2>4. ASSUME NEW k \in K PROVE <<v, k>> \in S
    <3>1. <<v, k>>[1] = v /\ <<v, k>>[2] = k /\ <<v, k>> \in V \X I
      BY <2>1
    <3>2. <<v, k>> \in Q
      <4> HIDE DEF I, V
      <4> QED
        BY <3>1 DEF Multiplications, I, V
    <3> QED
      BY <3>1, <3>2 DEF Fibre
  <2>5. ASSUME NEW q \in S
        PROVE  /\ F[q] \in Nat /\ second[q] \in K /\ h[second[q]] = q
    <3>1. q \in Q /\ q[1] = v
      BY <2>2
    <3>2. q[2] \in K /\ q = <<v, q[2]>> /\ F[q] \in Nat
      BY <3>1, MultiplicationsType
    <3> QED
      BY <3>2
  <2>6. ASSUME NEW k \in K PROVE h[k] \in S /\ second[h[k]] = k /\ f[k] = F[h[k]]
    <3>1. h[k] = <<v, k>> /\ h[k] \in S /\ h[k][1] = v /\ h[k][2] = k
      BY <2>4
    <3>2. second[h[k]] = k
      BY <3>1
    <3>3. F[h[k]] = ProductAt(w, v[5], k, v[6])
      BY <3>1, <2>2, MultiplicationsType
    <3> QED
      BY <3>1, <3>2, <3>3
  <2>7. SumOver(F, S) = SumOver(f, K)
    <3> HIDE DEF F, S, f, K, h, second
    <3>1. Renumbers(F, S, f, K, h, second)
      BY <2>5, <2>6 DEF Renumbers
    <3> QED
      BY <3>1, <2>1, <2>3, SumRenumbered
  <2>8. sums[v] = SumOver(F, S)
    BY DEF FibreSums
  <2>9. added[v] = SumOver(f, K)
    BY DEF Added
  <2> QED
    BY <2>7, <2>8, <2>9
<1>4. SumOver(sums, V) = SumOver(added, V)
  <2> HIDE DEF sums, V
  <2> QED
    BY <1>3, SumAgrees
<1> QED
  BY <1>2, <1>4

\* An iteration of the outermost loop makes each multiplication of the product once.
LEMMA SummandsByIteration ==
  ASSUME NEW w, IsJob(w), w.workload = "matrix"
  PROVE  /\ SumOver(Summands(w), Multiplications(w))
              = w.iterations * SumOver(Products(w), Triples(w))
         /\ SumOver(Products(w), Triples(w)) \in Nat
<1> DEFINE V == Visits(w)  I == 0 .. w.n - 1  Q == Multiplications(w)  F == Summands(w)
           J == 0 .. w.iterations - 1  C == Triples(w)  P == Products(w)
           p == [q \in Q |-> q[1][1]]  sums == FibreSums(F, Q, p, J)
<1>1. w.iterations \in Nat /\ w.iterations - 1 \in Int /\ w.n - 1 \in Int /\ 0 \in Int
      /\ w.iterations - 1 - 0 + 1 = w.iterations /\ ~(0 > w.iterations - 1)
  BY DEF IsJob
<1>2. IsFiniteSet(J) /\ Cardinality(J) = w.iterations /\ IsFiniteSet(I)
  BY <1>1, FS_Interval
<1>3. IsFiniteSet(Q) /\ \A q \in Q : F[q] \in Nat /\ p[q] \in J
  BY MultiplicationsType, VisitsType
<1>4. SumOver(F, Q) = SumOver(sums, J)
  <2> HIDE DEF J, Q, F, p
  <2> QED
    BY <1>2, <1>3, SumOfParts
<1>5. IsFiniteSet(C) /\ \A c \in C : /\ c[1] \in I /\ c[2] \in I /\ c[3] \in I
                                     /\ c = <<c[1], c[2], c[3]>>
                                     /\ P[c] = ProductAt(w, c[1], c[2], c[3]) /\ P[c] \in Nat
  <2> DEFINE R == I \X (I \X I)  g == [r \in R |-> <<r[1], r[2][1], r[2][2]>>]
  <2>1. IsFiniteSet(R)
    <3> HIDE DEF I
    <3>1. IsFiniteSet(I \X I)
      BY <1>2, FS_Product
    <3> QED
      BY <3>1, <1>2, FS_Product
  <2>2. g \in Surjection(R, C)
    <3> HIDE DEF I
    <3>1. ASSUME NEW c \in I \X I \X I PROVE \E r \in R : g[r] = c
      <4>1. <<c[1], <<c[2], c[3]>>>> \in R
        OBVIOUS
      <4>2. g[<<c[1], <<c[2], c[3]>>>>] = <<c[1], c[2], c[3]>>
        BY <4>1
      <4>3. c = <<c[1], c[2], c[3]>>
        OBVIOUS
      <4> QED
        BY <4>1, <4>2, <4>3
    <3>2. g \in [R -> I \X I \X I]
      OBVIOUS
    <3>3. C = I \X I \X I
      BY DEF Triples, I
    <3> HIDE DEF R, g, C
    <3> QED
      BY <3>1, <3>2, <3>3 DEF Surjection
  <2>3. IsFiniteSet(C)
    <3> HIDE DEF R, C, g
    <3> QED
      BY <2>1, <2>2, FS_Surjection
  <2>4. ASSUME NEW c \in C
        PROVE  /\ c[1] \in I /\ c[2] \in I /\ c[3] \in I /\ c = <<c[1], c[2], c[3]>>
               /\ P[c] = ProductAt(w, c[1], c[2], c[3]) /\ P[c] \in Nat
    <3>1. c \in I \X I \X I
      BY DEF Triples
    <3>2. c[1] \in I /\ c[2] \in I /\ c[3] \in I /\ c = <<c[1], c[2], c[3]>>
      <4> HIDE DEF I
      <4> QED
        BY <3>1
    <3>3. P[c] = ProductAt(w, c[1], c[2], c[3])
      BY DEF Products
    <3> QED
      BY <3>2, <3>3, ProductType
  <2> QED
    BY <2>3, <2>4
<1>6. ASSUME NEW t \in J PROVE sums[t] = SumOver(P, C)
  <2> DEFINE S == Fibre(Q, p, t)
             nest(c) == <<t, TileAt(w, c[1]), TileAt(w, c[3]), TileAt(w, c[2]), c[1], c[3]>>
             h == [c \in C |-> <<nest(c), c[2]>>]
             r == [q \in S |-> <<q[1][5], q[2], q[1][6]>>]
  <2>1. S \subseteq Q /\ \A q \in S : q[1][1] = t
    BY DEF Fibre
  <2>2. IsFiniteSet(S)
    <3> HIDE DEF S, Q
    <3> QED
      BY <1>3, <2>1, FS_Subset
  <2>3. ASSUME NEW c \in C
        PROVE  /\ h[c] \in S /\ r[h[c]] = c /\ P[c] = F[h[c]]
    <3> DEFINE i == c[1]  k == c[2]  j == c[3]  v == nest(c)  q == <<v, k>>
    <3>1. i \in I /\ k \in I /\ j \in I /\ c = <<i, k, j>> /\ P[c] = ProductAt(w, i, k, j)
      BY <1>5
    <3> HIDE DEF i, k, j
    <3>2. v = <<t, TileAt(w, i), TileAt(w, j), TileAt(w, k), i, j>>
      BY DEF i, j, k
    <3> HIDE DEF v
    <3>3. /\ TileAt(w, i) \in Starts(w) /\ i \in Tile(w, TileAt(w, i))
          /\ TileAt(w, j) \in Starts(w) /\ j \in Tile(w, TileAt(w, j))
          /\ TileAt(w, k) \in Starts(w) /\ k \in Tile(w, TileAt(w, k))
      BY <3>1, OneTile
    <3>4. /\ v[1] = t /\ v[2] = TileAt(w, i) /\ v[3] = TileAt(w, j) /\ v[4] = TileAt(w, k)
          /\ v[5] = i /\ v[6] = j
      BY <3>2
    <3>5. v \in V
      <4>1. i \in 0 .. w.n /\ j \in 0 .. w.n
        <5>1. w.n \in Nat
          BY DEF IsJob
        <5> QED
          BY <5>1, <3>1
      <4>2. v \in J \X Starts(w) \X Starts(w) \X Starts(w) \X (0 .. w.n) \X (0 .. w.n)
        <5> HIDE DEF J
        <5> QED
          BY <4>1, <3>2, <3>3
      <4> QED
        BY <4>2, <3>3, <3>4 DEF Visits
    <3>6. q[1] = v /\ q[2] = k /\ q \in V \X I
      BY <3>1, <3>5
    <3>7. q \in Q
      <4> HIDE DEF V, I, q
      <4> QED
        BY <3>3, <3>4, <3>6 DEF Multiplications, V, I
    <3>8. q \in S
      BY <3>4, <3>7 DEF Fibre
    <3>9. h[c] = q
      BY <3>2 DEF i, j, k, v
    <3>10. r[q] = <<i, k, j>>
      <4> HIDE DEF S, q
      <4> QED
        BY <3>4, <3>6, <3>8
    <3>11. F[q] = ProductAt(w, i, k, j)
      BY <3>4, <3>6, <3>7, MultiplicationsType
    <3> QED
      BY <3>1, <3>8, <3>9, <3>10, <3>11
  <2>4. ASSUME NEW q \in S
        PROVE  F[q] \in Nat /\ r[q] \in C /\ h[r[q]] = q
    <3> DEFINE v == q[1]  k == q[2]  c == r[q]
    <3>1. q \in Q /\ v[1] = t
      BY <2>1
    <3>2. v \in V /\ k \in I /\ k \in Tile(w, v[4]) /\ q = <<v, k>> /\ F[q] \in Nat
      BY <3>1, MultiplicationsType
    <3>3. /\ v[2] \in Starts(w) /\ v[3] \in Starts(w) /\ v[4] \in Starts(w)
          /\ v[5] \in I /\ v[6] \in I /\ v[5] \in Tile(w, v[2]) /\ v[6] \in Tile(w, v[3])
      BY <3>2, VisitsType
    <3>4. v = <<v[1], v[2], v[3], v[4], v[5], v[6]>>
      <4>1. v \in J \X Starts(w) \X Starts(w) \X Starts(w) \X (0 .. w.n) \X (0 .. w.n)
        BY <3>2 DEF Visits
      <4> HIDE DEF J, v
      <4> QED
        BY <4>1
    <3>5. v[2] = TileAt(w, v[5]) /\ v[3] = TileAt(w, v[6]) /\ v[4] = TileAt(w, k)
      BY <3>2, <3>3, OneTile
    <3>6. c = <<v[5], k, v[6]>>
      OBVIOUS
    <3> HIDE DEF c
    <3>7. c[1] = v[5] /\ c[2] = k /\ c[3] = v[6] /\ c \in C
      BY <3>2, <3>3, <3>6 DEF Triples
    <3>8. nest(c) = v
      BY <3>1, <3>4, <3>5, <3>7
    <3>9. h[c] = <<nest(c), c[2]>>
      BY <3>7
    <3>10. h[c] = q
      BY <3>2, <3>7, <3>8, <3>9
    <3> QED
      BY <3>2, <3>7, <3>10 DEF c
  <2>5. SumOver(F, S) = SumOver(P, C)
    <3> HIDE DEF F, S, P, C, h, r
    <3>1. Renumbers(F, S, P, C, h, r)
      BY <2>3, <2>4 DEF Renumbers
    <3> QED
      BY <3>1, <1>5, <2>2, SumRenumbered
  <2>6. sums[t] = SumOver(F, S)
    BY DEF FibreSums
  <2> QED
    BY <2>5, <2>6
<1>7. SumOver(P, C) \in Nat
  <2> HIDE DEF P, C
  <2> QED
    BY <1>5, SumType
<1>8. SumOver(sums, J) = w.iterations * SumOver(P, C)
  <2>1. PICK s : s = SumOver(P, C)
    OBVIOUS
  <2> HIDE DEF sums, J
  <2>2. SumOver(sums, J) = Cardinality(J) * s
    BY <1>2, <1>6, <1>7, <2>1, SumOfEquals
  <2> QED
    BY <2>1, <2>2, <1>2
<1> QED
  BY <1>4, <1>7, <1>8

\* The products of the elements that the draws give the two matrices.
ProductOfDraws(w) ==
  [v \in Triples(w) |-> LowBits(w.draws[2 * (v[1] * w.n + v[2]) + 1])
                          * LowBits(w.draws[2 * (v[2] * w.n + v[3]) + 2])]

\* The checksum is the sum of the elements of the product, once per iteration.
LEMMA ChecksumIsProduct ==
  ASSUME NEW w, IsJob(w), w.workload = "matrix"
  PROVE  NativeMatrix(w).checksum = w.iterations * Sum(ProductOfDraws(w))
<1> DEFINE P == Products(w)  C == Triples(w)  D == ProductOfDraws(w)
<1>1. NativeMatrix(w).checksum = w.iterations * SumOver(P, C)
  <2>1. PICK added : added = [v \in Visits(w) |-> Added(w, v)]
    OBVIOUS
  <2>2. NativeMatrix(w).checksum = SumOver(added, Visits(w))
    BY <2>1, ChecksumIsAdded
  <2>3. SumOver(Summands(w), Multiplications(w)) = SumOver(added, Visits(w))
    BY <2>1, SummandsByVisit
  <2>4. SumOver(Summands(w), Multiplications(w)) = w.iterations * SumOver(P, C)
    BY SummandsByIteration
  <2> QED
    BY <2>2, <2>3, <2>4
<1>2. ASSUME NEW v \in C PROVE P[v] = D[v]
  <2> DEFINE x == v[1] * w.n + v[2]  y == v[2] * w.n + v[3]
  <2>1. v[1] \in 0 .. w.n - 1 /\ v[2] \in 0 .. w.n - 1 /\ v[3] \in 0 .. w.n - 1
    <3>1. PICK I : I = 0 .. w.n - 1
      OBVIOUS
    <3>2. v \in I \X I \X I
      BY <3>1 DEF Triples
    <3>3. v[1] \in I /\ v[2] \in I /\ v[3] \in I
      BY <3>2
    <3> QED
      BY <3>1, <3>3
  <2>2. x \in Elements(w) /\ y \in Elements(w)
    <3>1. w.n \in Nat
      BY DEF IsJob
    <3> QED
      BY <2>1, <3>1, IndexInRange DEF Elements
  <2>3. /\ P[v] = Filled(w, 1)[x] * Filled(w, 2)[y]
        /\ D[v] = LowBits(w.draws[2 * x + 1]) * LowBits(w.draws[2 * y + 2])
    <3>1. P[v] = ProductAt(w, v[1], v[2], v[3])
      BY DEF Products
    <3>2. D[v] = LowBits(w.draws[2 * x + 1]) * LowBits(w.draws[2 * y + 2])
      BY DEF ProductOfDraws
    <3> QED
      BY <3>1, <3>2 DEF ProductAt
  <2> HIDE DEF P, D, x, y
  <2>4. /\ Filled(w, 1)[x] = LowBits(w.draws[2 * x + 1])
        /\ Filled(w, 2)[y] = LowBits(w.draws[2 * y + 2])
    BY <2>2, FilledType
  <2> QED
    BY <2>3, <2>4
<1>3. SumOver(P, C) = SumOver(D, C)
  <2> HIDE DEF P, C, D
  <2> QED
    BY <1>2, SumAgrees
<1>4. [v \in C |-> D[v]] = D
  BY DEF ProductOfDraws
<1>5. SumOver(D, C) = Sum(D)
  BY <1>4, Zenon DEF SumOver
<1> QED
  BY <1>1, <1>3, <1>5

-----------------------------------------------------------------------------
(* The command line.                                                        *)

\* The places of an option on a command line.
Places(r, option) == {x \in DOMAIN r : r[x].option = option}

\* The last value is the one there is without the option, or one given to it.
LEMMA LastValueIsGiven ==
  ASSUME NEW S, NEW r \in Seq(S), NEW option, NEW otherwise
  PROVE  /\ Places(r, option) = {} => LastValue(r, option, otherwise) = otherwise
         /\ Places(r, option) # {} =>
              /\ LastValue(r, option, otherwise) = r[Max(Places(r, option))].value
              /\ Max(Places(r, option)) \in Places(r, option)
              /\ \A y \in Places(r, option) : y <= Max(Places(r, option))
<1> DEFINE T == Places(r, option)
<1>1. T \in SUBSET (1 .. Len(r)) /\ Len(r) \in Nat
  BY DEF Places
<1>2. LastValue(r, option, otherwise) = IF T = {} THEN otherwise ELSE r[Max(T)].value
  BY DEF LastValue, Places
<1> HIDE DEF T
<1>3. T # {} => Max(T) \in T /\ \A y \in T : y <= Max(T)
  BY <1>1, MaxUpTo
<1> QED
  BY <1>2, <1>3 DEF T

\* A command line is read from the front.
LEMMA LastValueOfTail ==
  ASSUME NEW S, NEW r \in Seq(S), r # <<>>, NEW option, NEW otherwise
  PROVE  LastValue(r, option, otherwise)
           = LastValue(Tail(r), option,
                       IF Head(r).option = option THEN Head(r).value ELSE otherwise)
<1> DEFINE t == Tail(r)
           P == Places(r, option)
           Q == Places(t, option)
           here == IF Head(r).option = option THEN Head(r).value ELSE otherwise
<1>1. /\ t \in Seq(S) /\ Head(r) = r[1] /\ Len(r) \in Nat \ {0} /\ Len(t) = Len(r) - 1
      /\ \A x \in 1 .. Len(t) : t[x] = r[x + 1]
      /\ DOMAIN r = 1 .. Len(r) /\ DOMAIN t = 1 .. Len(t)
  OBVIOUS
<1> HIDE DEF t
<1>2. \A x \in Nat : x \in Q <=> x # 0 /\ x + 1 \in P
  BY <1>1 DEF Places
<1>3. 1 \in P <=> Head(r).option = option
  BY <1>1 DEF Places
<1>4. P \subseteq Nat \ {0} /\ Q \subseteq Nat \ {0}
  BY <1>1 DEF Places
<1>5. /\ P = {} => LastValue(r, option, otherwise) = otherwise
      /\ P # {} => /\ LastValue(r, option, otherwise) = r[Max(P)].value
                   /\ Max(P) \in P /\ \A y \in P : y <= Max(P)
  BY LastValueIsGiven
<1>6. /\ Q = {} => LastValue(t, option, here) = here
      /\ Q # {} => /\ LastValue(t, option, here) = t[Max(Q)].value
                   /\ Max(Q) \in Q /\ \A y \in Q : y <= Max(Q)
  <2>1. t \in Seq(S)
    BY <1>1
  <2> HIDE DEF here
  <2> QED
    BY <2>1, LastValueIsGiven, Zenon
<1>7. \A x \in Q : t[x] = r[x + 1]
  BY <1>1 DEF Places
<1> HIDE DEF P, Q, here
<1>8. CASE Q # {}
  <2>1. Max(Q) \in Q /\ Max(Q) \in Nat /\ Max(Q) + 1 \in P
    BY <1>8, <1>2, <1>4, <1>6
  <2>2. Max(P) \in P /\ \A y \in P : y <= Max(P)
    BY <2>1, <1>5
  <2>3. Max(P) = Max(Q) + 1
    <3>1. Max(P) \in Nat \ {0} /\ Max(Q) + 1 <= Max(P) /\ Max(Q) \in Nat \ {0}
      BY <2>1, <2>2, <1>4
    <3>2. PICK x \in Nat : Max(P) = x + 1
      <4>1. Max(P) - 1 \in Nat /\ Max(P) = (Max(P) - 1) + 1
        BY <3>1
      <4> QED
        BY <4>1
    <3>3. x # 0
      BY <3>1, <3>2
    <3>4. x \in Q
      BY <3>2, <3>3, <2>2, <1>2
    <3>5. x <= Max(Q)
      BY <3>4, <1>6
    <3> QED
      BY <3>1, <3>2, <3>5
  <2>4. t[Max(Q)] = r[Max(P)]
    BY <2>1, <2>3, <1>7
  <2>5. P # {}
    BY <2>1
  <2> QED
    BY <2>4, <2>5, <1>5, <1>6, <1>8 DEF t, here
<1>9. CASE Q = {}
  <2>1. P \subseteq {1}
    <3> SUFFICES ASSUME NEW y \in P, y # 1 PROVE FALSE
      OBVIOUS
    <3>1. y \in Nat \ {0}
      BY <1>4
    <3>2. y - 1 \in Nat /\ y - 1 # 0 /\ (y - 1) + 1 = y
      BY <3>1
    <3>3. y - 1 \in Q
      BY <3>2, <1>2
    <3> QED
      BY <3>3, <1>9
  <2>2. CASE Head(r).option = option
    <3>1. P # {} /\ Max(P) = 1
      BY <2>1, <2>2, <1>3, <1>5
    <3> QED
      BY <3>1, <2>2, <1>1, <1>5, <1>6, <1>9 DEF t, here
  <2>3. CASE Head(r).option # option
    <3>1. P = {}
      BY <2>1, <2>3, <1>3
    <3> QED
      BY <3>1, <2>3, <1>5, <1>6, <1>9 DEF t, here
  <2> QED
    BY <2>2, <2>3
<1> QED
  BY <1>8, <1>9

\* The parameters that the rest of a command line makes of these.
AskedFor(r, j) ==
  [workload   |-> LastValue(r, "name", j.workload),
   mode       |-> LastValue(r, "--mode", j.mode),
   out        |-> LastValue(r, "--out", j.out),
   n          |-> LastValue(r, "--n", j.n),
   nGiven     |-> j.nGiven \/ Places(r, "--n") # {},
   block      |-> LastValue(r, "--block", j.block),
   stride     |-> LastValue(r, "--stride", j.stride),
   iterations |-> LastValue(r, "--iterations", j.iterations),
   draws      |-> LastValue(r, "--seed", j.draws)]

\* The parameters are a record with the fields of Params.
IsParams(j) ==
  /\ j.nGiven \in BOOLEAN
  /\ j = [workload |-> j.workload, mode |-> j.mode, out |-> j.out, n |-> j.n, nGiven |-> j.nGiven,
          block |-> j.block, stride |-> j.stride, iterations |-> j.iterations,
          draws |-> j.draws]

\* No option ends the command line before its value.
Whole(r) == \A x \in DOMAIN r : r[x].option \in Valued => r[x].value # Missing

\* Nothing is left to be made of them at the end.
LEMMA AskedForNothing ==
  ASSUME NEW j, IsParams(j)
  PROVE  AskedFor(<<>>, j) = j
<1>1. \A option, otherwise : LastValue(<<>>, option, otherwise) = otherwise
  BY DEF LastValue
<1>2. \A option : Places(<<>>, option) = {}
  BY DEF Places
<1>3. (j.nGiven \/ Places(<<>>, "--n") # {}) = j.nGiven
  BY <1>2 DEF IsParams
<1>4. AskedFor(<<>>, j)
        = [workload |-> j.workload, mode |-> j.mode, out |-> j.out, n |-> j.n,
           nGiven |-> j.nGiven, block |-> j.block, stride |-> j.stride, iterations |-> j.iterations,
           draws |-> j.draws]
  BY <1>1, <1>3, Zenon DEF AskedFor
<1> QED
  BY <1>4, Zenon DEF IsParams

\* What Argument does with an option.
SetBy(j, option, value) ==
  [j EXCEPT ![Field(option)] = value, !.nGiven = @ \/ option = "--n"]

\* An option that is read sets its parameter.
LEMMA ArgumentSets ==
  ASSUME NEW j, IsParams(j), NEW option \in Valued, NEW value, NEW k,
         k = SetBy(j, option, value)
  PROVE  /\ IsParams(k) /\ k.workload = j.workload
         /\ k.mode = IF option = "--mode" THEN value ELSE j.mode
         /\ k.out = IF option = "--out" THEN value ELSE j.out
         /\ k.n = IF option = "--n" THEN value ELSE j.n
         /\ k.nGiven = (j.nGiven \/ option = "--n")
         /\ k.block = IF option = "--block" THEN value ELSE j.block
         /\ k.stride = IF option = "--stride" THEN value ELSE j.stride
         /\ k.iterations = IF option = "--iterations" THEN value ELSE j.iterations
         /\ k.draws = IF option = "--seed" THEN value ELSE j.draws
<1>1. /\ Field("--mode") = "mode" /\ Field("--n") = "n" /\ Field("--block") = "block"
      /\ Field("--stride") = "stride" /\ Field("--seed") = "draws"
      /\ Field("--iterations") = "iterations" /\ Field("--out") = "out"
  BY DEF Field
<1>2. \/ option = "--mode" \/ option = "--n" \/ option = "--block" \/ option = "--stride"
      \/ option = "--seed" \/ option = "--iterations" \/ option = "--out"
  BY DEF Valued
<1>3. CASE option = "--mode"
  BY <1>1, <1>3 DEF IsParams, SetBy
<1>4. CASE option = "--n"
  BY <1>1, <1>4 DEF IsParams, SetBy
<1>5. CASE option = "--block"
  BY <1>1, <1>5 DEF IsParams, SetBy
<1>6. CASE option = "--stride"
  BY <1>1, <1>6 DEF IsParams, SetBy
<1>7. CASE option = "--seed"
  BY <1>1, <1>7 DEF IsParams, SetBy
<1>8. CASE option = "--iterations"
  BY <1>1, <1>8 DEF IsParams, SetBy
<1>9. CASE option = "--out"
  BY <1>1, <1>9 DEF IsParams, SetBy
<1> QED
  BY <1>2, <1>3, <1>4, <1>5, <1>6, <1>7, <1>8, <1>9

\* What the whole command line makes of the parameters, the first argument and then the
\* others do.
LEMMA AskedForTail ==
  ASSUME NEW S, NEW r \in Seq(S), r # <<>>, NEW j, IsParams(j), NEW k, IsParams(k),
         NEW option, option = Head(r).option, NEW value, value = Head(r).value,
         k.workload = IF option = "name" THEN value ELSE j.workload,
         k.mode = IF option = "--mode" THEN value ELSE j.mode,
         k.out = IF option = "--out" THEN value ELSE j.out,
         k.n = IF option = "--n" THEN value ELSE j.n,
         k.nGiven = (j.nGiven \/ option = "--n"),
         k.block = IF option = "--block" THEN value ELSE j.block,
         k.stride = IF option = "--stride" THEN value ELSE j.stride,
         k.iterations = IF option = "--iterations" THEN value ELSE j.iterations,
         k.draws = IF option = "--seed" THEN value ELSE j.draws
  PROVE  AskedFor(Tail(r), k) = AskedFor(r, j)
<1>1. \A o, d : LastValue(r, o, d) = LastValue(Tail(r), o, IF option = o THEN value ELSE d)
  <2> TAKE o, d
  <2>1. LastValue(r, o, d)
          = LastValue(Tail(r), o, IF Head(r).option = o THEN Head(r).value ELSE d)
    BY LastValueOfTail
  <2> QED
    BY <2>1, Zenon
<1>2. Places(r, "--n") # {} <=> option = "--n" \/ Places(Tail(r), "--n") # {}
  <2> DEFINE t == Tail(r)
  <2>1. /\ t \in Seq(S) /\ Head(r) = r[1] /\ Len(r) \in Nat \ {0} /\ Len(t) = Len(r) - 1
        /\ \A x \in 1 .. Len(t) : t[x] = r[x + 1]
        /\ DOMAIN r = 1 .. Len(r) /\ DOMAIN t = 1 .. Len(t)
    OBVIOUS
  <2> HIDE DEF t
  <2>2. ASSUME NEW x \in Places(r, "--n"), option # "--n" PROVE Places(t, "--n") # {}
    <3>1. x \in 1 .. Len(r) /\ x # 1
      BY <2>1, <2>2 DEF Places
    <3>2. x - 1 \in 1 .. Len(t) /\ (x - 1) + 1 = x
      BY <2>1, <3>1
    <3>3. t[x - 1] = r[x]
      BY <2>1, <3>2
    <3>4. x - 1 \in Places(t, "--n")
      BY <3>2, <3>3, <2>1 DEF Places
    <3> QED
      BY <3>4
  <2>3. ASSUME NEW x \in Places(t, "--n") PROVE Places(r, "--n") # {}
    <3>1. x \in 1 .. Len(t) /\ t[x].option = "--n"
      BY <2>1 DEF Places
    <3>2. x + 1 \in 1 .. Len(r) /\ r[x + 1] = t[x]
      BY <2>1, <3>1
    <3>3. x + 1 \in Places(r, "--n")
      BY <3>1, <3>2, <2>1 DEF Places
    <3> QED
      BY <3>3
  <2>4. option = "--n" => 1 \in Places(r, "--n")
    BY <2>1 DEF Places
  <2> QED
    BY <2>2, <2>3, <2>4 DEF t
<1>3. (k.nGiven \/ Places(Tail(r), "--n") # {}) = (j.nGiven \/ Places(r, "--n") # {})
  BY <1>2 DEF IsParams
<1>4. LastValue(r, "name", j.workload) = LastValue(Tail(r), "name", k.workload)
  BY <1>1, ZenonT(40)
<1>5. LastValue(r, "--mode", j.mode) = LastValue(Tail(r), "--mode", k.mode)
  BY <1>1, ZenonT(40)
<1>6. LastValue(r, "--n", j.n) = LastValue(Tail(r), "--n", k.n)
  BY <1>1, ZenonT(40)
<1>7. LastValue(r, "--block", j.block) = LastValue(Tail(r), "--block", k.block)
  BY <1>1, ZenonT(40)
<1>8. LastValue(r, "--stride", j.stride) = LastValue(Tail(r), "--stride", k.stride)
  BY <1>1, ZenonT(40)
<1>9. LastValue(r, "--iterations", j.iterations) = LastValue(Tail(r), "--iterations", k.iterations)
  BY <1>1, ZenonT(40)
<1>10. LastValue(r, "--seed", j.draws) = LastValue(Tail(r), "--seed", k.draws)
  BY <1>1, ZenonT(40)
<1>11. LastValue(r, "--out", j.out) = LastValue(Tail(r), "--out", k.out)
  BY <1>1, ZenonT(40)
<1> QED
  BY <1>3, <1>4, <1>5, <1>6, <1>7, <1>8, <1>9, <1>10, <1>11, Zenon DEF AskedFor

\* Nor does the loop pass over an option without its value.
LEMMA WholeOfTail ==
  ASSUME NEW S, NEW r \in Seq(S), r # <<>>, Whole(Tail(r)),
         Head(r).option \in Valued => Head(r).value # Missing
  PROVE  Whole(r)
<1> DEFINE t == Tail(r)
<1>1. /\ Head(r) = r[1] /\ Len(r) \in Nat \ {0} /\ Len(t) = Len(r) - 1
      /\ \A x \in 1 .. Len(t) : t[x] = r[x + 1]
      /\ DOMAIN r = 1 .. Len(r) /\ DOMAIN t = 1 .. Len(t)
  OBVIOUS
<1> HIDE DEF t
<1> SUFFICES ASSUME NEW x \in DOMAIN r, r[x].option \in Valued PROVE r[x].value # Missing
  BY DEF Whole
<1>2. CASE x = 1
  BY <1>1, <1>2
<1>3. CASE x # 1
  <2>1. x - 1 \in 1 .. Len(t) /\ (x - 1) + 1 = x
    BY <1>1, <1>3
  <2>2. t[x - 1] = r[x]
    BY <1>1, <2>1
  <2>3. \A y \in DOMAIN t : t[y].option \in Valued => t[y].value # Missing
    BY DEF Whole, t
  <2> QED
    BY <2>1, <2>2, <2>3, <1>1
<1> QED
  BY <1>2, <1>3

\* What a command line gives to a numeric option is a number.
LEMMA NumbersAreGiven ==
  ASSUME NEW arguments \in CommandLines, Whole(arguments),
         NEW option \in {"--n", "--block", "--stride", "--iterations"}, NEW otherwise \in Nat
  PROVE  LastValue(arguments, option, otherwise) \in Nat
<1> DEFINE S == {arguments[x] : x \in DOMAIN arguments}
           P == Places(arguments, option)
<1>1. arguments \in Seq(S)
  BY ArgumentsAssumption
<1>2. \A x \in DOMAIN arguments :
        arguments[x].option = option /\ arguments[x].value # Missing => arguments[x].value \in Nat
  BY ArgumentsAssumption
<1>3. option \in Valued
  BY DEF Valued
<1>4. \A x \in P : arguments[x].value \in Nat
  BY <1>2, <1>3 DEF Places, Whole
<1> HIDE DEF S
<1>5. /\ P = {} => LastValue(arguments, option, otherwise) = otherwise
      /\ P # {} => /\ LastValue(arguments, option, otherwise) = arguments[Max(P)].value
                   /\ Max(P) \in P
  BY <1>1, LastValueIsGiven
<1> QED
  BY <1>4, <1>5

\* What main hands to the workload is what the command line asks for, and a job.
LEMMA AcceptedIsAsked ==
  ASSUME line \in CommandLines, Whole(line), job = AskedFor(line, Defaults), Accepts(job)
  PROVE  Parameters = Asked /\ IsJob(Asked) /\ Asked.mode = job.mode
<1> DEFINE S == {line[x] : x \in DOMAIN line}
           name == LastValue(line, "name", "")
           given == Places(line, "--n") # {}
           plain == LastValue(line, "--n", Defaults.n)
           size == LastValue(line, "--n", IF name = "matrix" THEN MatrixDimension ELSE Defaults.n)
<1>1. line \in Seq(S)
  BY ArgumentsAssumption
<1>2. /\ Defaults.workload = "" /\ Defaults.mode = "trace" /\ Defaults.out = "-"
      /\ Defaults.nGiven = FALSE
      /\ Defaults.n \in Nat /\ Defaults.block \in Nat /\ Defaults.stride \in Nat
      /\ Defaults.iterations \in Nat /\ MatrixDimension \in Nat \ {0}
  <2>1. /\ Defaults.workload = "" /\ Defaults.mode = "trace" /\ Defaults.out = "-"
        /\ Defaults.nGiven = FALSE
    <3>1. PICK n, block, stride, iterations, draws :
            Defaults = [workload |-> "", mode |-> "trace", out |-> "-",
                        n |-> n, nGiven |-> FALSE, block |-> block, stride |-> stride,
                        iterations |-> iterations, draws |-> draws]
      BY DefaultsAssumption, Zenon
    <3> QED
      BY <3>1
  <2> QED
    BY <2>1, DefaultsAssumption
<1>3. given <=> \E x \in DOMAIN line : line[x].option = "--n"
  BY DEF Places
<1>4. /\ job.workload = name /\ job.mode = LastValue(line, "--mode", "trace")
      /\ job.out = LastValue(line, "--out", "-")
      /\ job.n = plain /\ job.nGiven = given
      /\ job.block = LastValue(line, "--block", Defaults.block)
      /\ job.stride = LastValue(line, "--stride", Defaults.stride)
      /\ job.iterations = LastValue(line, "--iterations", Defaults.iterations)
      /\ job.draws = LastValue(line, "--seed", Defaults.draws)
  BY <1>2 DEF AskedFor
<1>5. Asked = [workload |-> name, mode |-> LastValue(line, "--mode", "trace"),
               out |-> LastValue(line, "--out", "-"), n |-> size,
               nGiven |-> given, block |-> LastValue(line, "--block", Defaults.block),
               stride |-> LastValue(line, "--stride", Defaults.stride),
               iterations |-> LastValue(line, "--iterations", Defaults.iterations),
               draws |-> LastValue(line, "--seed", Defaults.draws)]
  <2>1. given = \E x \in DOMAIN line : line[x].option = "--n"
    BY <1>3, Zenon
  <2> HIDE DEF given
  <2> QED
    BY <2>1, Zenon DEF Asked, AskedBy
<1>6. job = [workload |-> job.workload, mode |-> job.mode, out |-> job.out, n |-> job.n,
             nGiven |-> job.nGiven, block |-> job.block, stride |-> job.stride, iterations |-> job.iterations,
             draws |-> job.draws]
  BY DEF AskedFor
<1>7. size = IF given THEN plain ELSE IF name = "matrix" THEN MatrixDimension ELSE Defaults.n
  <2>1. ASSUME NEW otherwise
        PROVE  LastValue(line, "--n", otherwise)
                 = IF given THEN line[Max(Places(line, "--n"))].value
                                                   ELSE otherwise
    BY <1>1, LastValueIsGiven, SMTT(30)
  <2>2. CASE given
    <3>1. /\ size = line[Max(Places(line, "--n"))].value
          /\ plain = line[Max(Places(line, "--n"))].value
      BY <2>1, <2>2
    <3> QED
      BY <2>2, <3>1, Zenon
  <2>3. CASE ~given
    <3>1. PICK o : o = IF name = "matrix" THEN MatrixDimension ELSE Defaults.n
      OBVIOUS
    <3>2. LastValue(line, "--n", o) = o
      <4> HIDE DEF name, size, plain
      <4> QED
        BY <2>1, <2>3
    <3>3. size = o
      BY <3>1, <3>2, Zenon
    <3> QED
      BY <2>3, <3>1, <3>3, Zenon
  <2> QED
    BY <2>2, <2>3
<1>8. plain = IF given THEN plain ELSE Defaults.n
  BY <1>1, LastValueIsGiven, SMTT(30)
<1>9. given \in BOOLEAN
  OBVIOUS
<1> HIDE DEF S, name, given, plain, size
<1>10. Parameters = Asked
  <2>1. CASE job.workload = "matrix" /\ ~job.nGiven
    <3>1. Parameters = [job EXCEPT !.n = MatrixDimension]
      BY <2>1 DEF Parameters
    <3>2. size = MatrixDimension
      BY <2>1, <1>4, <1>7
    <3>3. Parameters = [workload |-> job.workload, mode |-> job.mode, out |-> job.out,
                        n |-> MatrixDimension, nGiven |-> job.nGiven, block |-> job.block, stride |-> job.stride,
                        iterations |-> job.iterations, draws |-> job.draws]
      BY <3>1, <1>6
    <3> QED
      BY <3>2, <3>3, <1>4, <1>5, Zenon
  <2>2. CASE ~(job.workload = "matrix" /\ ~job.nGiven)
    <3>1. Parameters = job
      BY <2>2 DEF Parameters
    <3>2. size = plain
      BY <2>2, <1>4, <1>7, <1>8, <1>9
    <3> QED
      BY <3>1, <3>2, <1>4, <1>5, <1>6, Zenon
  <2> QED
    BY <2>1, <2>2
<1>11. /\ job.workload \in Workload /\ job.n > 0 /\ job.iterations > 0
       /\ job.stride > 0 /\ job.stride % ElementSize = 0
  BY DEF Accepts
<1>12. /\ plain \in Nat /\ job.block \in Nat /\ job.stride \in Nat /\ job.iterations \in Nat
  BY <1>2, <1>4, NumbersAreGiven DEF plain
<1>13. Asked.mode = job.mode
  BY <1>4, <1>5
<1>14. /\ Asked.workload = job.workload /\ Asked.n = size /\ Asked.block = job.block
       /\ Asked.stride = job.stride /\ Asked.iterations = job.iterations
  BY <1>4, <1>5
<1>15. size \in Nat \ {0}
  <2>1. plain \in Nat \ {0}
    BY <1>4, <1>11, <1>12
  <2>2. CASE given
    BY <2>1, <2>2, <1>7
  <2>3. CASE ~given /\ name = "matrix"
    BY <2>3, <1>2, <1>7
  <2>4. CASE ~given /\ name # "matrix"
    BY <2>1, <2>4, <1>7, <1>8
  <2> QED
    BY <2>2, <2>3, <2>4, <1>9
<1>16. \A h \in 1 .. Draws(Asked) : Asked.draws[h] \in Nat
  <2>1. Asked.workload \in Workload
    BY <1>11, <1>14
  <2>2. \A x \in DOMAIN line : line[x].option \in Valued => line[x].value # Missing
    BY DEF Whole
  <2>3. Asked = AskedBy(line)
    BY DEF Asked
  <2> QED
    BY <2>1, <2>2, <2>3, DrawsAssumption
<1>17. IsJob(Asked)
  BY <1>11, <1>12, <1>14, <1>15, <1>16 DEF IsJob
<1> QED
  BY <1>10, <1>13, <1>17

-----------------------------------------------------------------------------
(* The inductive invariant.                                                 *)

\* The loop over the arguments: what it has made of the parameters, and what the rest
\* makes of them, is what the whole command line asks for.
Reading ==
  /\ rest \in Seq({line[x] : x \in DOMAIN line})
  /\ IsParams(job) /\ AskedFor(rest, job) = AskedFor(line, Defaults)
  /\ Whole(rest) => Whole(line)
  /\ file = <<>> /\ printed = <<>>

\* What is in the file and the buffer and what is to be emitted make the trace.
Writing ==
  /\ job = Asked /\ IsJob(job) /\ job.mode = "trace"
  /\ file \in Seq(Records) /\ buffer \in Seq(Records) /\ todo \in Seq(Records)
  /\ Cat(file, Cat(buffer, todo)) = Cat(Header, Emission(job))
  /\ printed = <<>>

\* All of the trace is in the file, unless it was lost when the file was closed.
Written == "close" \notin Failures => file = Cat(Header, Emission(job))

\* The trace was written, or the result of the native run was.
Done ==
  /\ job = Asked /\ IsJob(job)
  /\ \/ job.mode = "trace" /\ Written /\ printed = <<>>
     \/ job.mode = "native" /\ file = <<>> /\ printed = <<Native(job).checksum>>

\* The inductive invariant.
Inductive ==
  /\ line \in CommandLines
  /\ status = "start" => Reading
  /\ status = "emitting" => Writing
  /\ status = "exit 0" => Done

\* The header of a trace is not an access.
LEMMA HeaderType == Header \in Seq(Records) /\ AccessesIn(Header) = <<>>
<1> DEFINE a == Record("#", 1)  b == Record("#", 2)
<1>1. a \in Records /\ b \in Records /\ ~IsAccess(a) /\ ~IsAccess(b)
  BY DEF Record, Records, IsAccess
<1>2. Header = <<a, b>>
  BY DEF Header
<1> HIDE DEF a, b
<1>3. <<a>> \in Seq(Records) /\ <<b>> \in Seq(Records) /\ <<a, b>> \in Seq(Records)
  BY <1>1
<1>4. <<a>> \o <<b>> = <<a, b>>
  BY <1>1, PairIsConcat
<1>5. AccessesIn(<<a>> \o <<b>>) = AccessesIn(<<a>>) \o AccessesIn(<<b>>)
  BY <1>3, AccessesConcat
<1>6. AccessesIn(<<a>>) = <<>> /\ AccessesIn(<<b>>) = <<>>
  BY <1>1, AccessesOfOne
<1>7. AccessesIn(<<a, b>>) = <<>> \o <<>>
  BY <1>4, <1>5, <1>6, Zenon
<1>8. <<>> \o <<>> = <<>>
  <2>1. <<>> \in Seq(Records)
    OBVIOUS
  <2> QED
    BY <2>1, ConcatEmptySeq
<1> QED
  BY <1>2, <1>3, <1>7, <1>8, Zenon

\* A record goes from what is to be emitted to the buffer.
LEMMA HeadAppended ==
  ASSUME NEW S, NEW b \in Seq(S), NEW t \in Seq(S), t # <<>>
  PROVE  /\ Append(b, Head(t)) \in Seq(S) /\ Tail(t) \in Seq(S)
         /\ Cat(Append(b, Head(t)), Tail(t)) = Cat(b, t)
<1> DEFINE r == Head(t)  one == <<r>>  u == Tail(t)
<1>1. r \in S /\ u \in Seq(S) /\ Append(b, r) \in Seq(S)
  OBVIOUS
<1>2. one \in Seq(S)
  BY <1>1
<1>3. t = one \o u
  OBVIOUS
<1>4. Append(b, r) = b \o one
  OBVIOUS
<1> HIDE DEF r, u, one
<1>5. \A x, y, z \in Seq(S) : Cat(Cat(x, y), z) = Cat(x, Cat(y, z))
  BY CatProperties
<1>6. Append(b, r) = Cat(b, one) /\ t = Cat(one, u)
  BY <1>3, <1>4, Zenon DEF Cat
<1>7. Cat(Append(b, r), u) = Cat(b, t)
  <2>1. b \in Seq(S)
    OBVIOUS
  <2>2. Cat(Cat(b, one), u) = Cat(b, Cat(one, u))
    BY <2>1, <1>1, <1>2, <1>5, ZenonT(40)
  <2> QED
    BY <2>2, <1>6, Zenon
<1> QED
  BY <1>1, <1>7 DEF r, u

\* The initial states.
LEMMA InitIsInductive == Init => Inductive
<1> SUFFICES ASSUME Init PROVE Inductive
  OBVIOUS
<1>1. line \in CommandLines /\ rest = line /\ job = Defaults /\ file = <<>> /\ printed = <<>>
      /\ status = "start"
  BY DEF Init
<1>2. rest \in Seq({line[x] : x \in DOMAIN line})
  BY <1>1, ArgumentsAssumption
<1>3. IsParams(Defaults)
  <2>1. PICK n, block, stride, iterations, draws :
          Defaults = [workload |-> "", mode |-> "trace", out |-> "-", n |-> n, nGiven |-> FALSE,
                      block |-> block, stride |-> stride, iterations |-> iterations,
                      draws |-> draws]
    BY DefaultsAssumption, Zenon
  <2> QED
    BY <2>1 DEF IsParams
<1>4. Reading
  BY <1>1, <1>2, <1>3 DEF Reading
<1> QED
  BY <1>1, <1>4 DEF Inductive

\* An argument.
LEMMA ArgumentIsInductive ==
  ASSUME Inductive, Argument
  PROVE  Inductive'
<1> DEFINE S == {line[x] : x \in DOMAIN line}
           option == Head(rest).option
           value == Head(rest).value
<1>1. /\ status = "start" /\ rest # <<>> /\ rest' = Tail(rest)
      /\ UNCHANGED <<line, todo, buffer, file, printed>>
  BY DEF Argument
<1>2. Reading /\ line \in CommandLines
  BY <1>1 DEF Inductive
<1>3. CASE status' # "start"
  <2>1. status' \in {"usage", "exit 1"}
    BY <1>1, <1>3 DEF Argument, Fail
  <2> QED
    BY <2>1, <1>1, <1>2 DEF Inductive
<1>4. CASE status' = "start"
  <2>1. \/ /\ option \in Valued /\ value # Missing
           /\ job' = [job EXCEPT ![Field(option)] = value, !.nGiven = @ \/ option = "--n"]
        \/ /\ option = "name" /\ job.workload = ""
           /\ job' = [job EXCEPT !.workload = value]
    BY <1>4 DEF Argument, Fail
  <2>2. /\ rest \in Seq(S) /\ IsParams(job) /\ AskedFor(rest, job) = AskedFor(line, Defaults)
        /\ (Whole(rest) => Whole(line)) /\ file = <<>> /\ printed = <<>>
    BY <1>2 DEF Reading
  <2> DEFINE k == job'
  <2>3. /\ IsParams(k)
        /\ k.workload = IF option = "name" THEN value ELSE job.workload
        /\ k.mode = IF option = "--mode" THEN value ELSE job.mode
        /\ k.out = IF option = "--out" THEN value ELSE job.out
        /\ k.n = IF option = "--n" THEN value ELSE job.n
        /\ k.nGiven = (job.nGiven \/ option = "--n")
        /\ k.block = IF option = "--block" THEN value ELSE job.block
        /\ k.stride = IF option = "--stride" THEN value ELSE job.stride
        /\ k.iterations = IF option = "--iterations" THEN value ELSE job.iterations
        /\ k.draws = IF option = "--seed" THEN value ELSE job.draws
    <3>1. CASE /\ option \in Valued
               /\ k = [job EXCEPT ![Field(option)] = value, !.nGiven = @ \/ option = "--n"]
      <4>1. option # "name"
        BY <3>1 DEF Valued
      <4>2. option \in Valued /\ k = SetBy(job, option, value)
        BY <3>1, Zenon DEF SetBy
      <4> HIDE DEF option, value, k
      <4> QED
        BY <4>1, <4>2, <2>2, ArgumentSets
    <3>2. CASE option = "name" /\ k = [job EXCEPT !.workload = value]
      <4> HIDE DEF option, value, k
      <4>1. /\ job.nGiven \in BOOLEAN
            /\ job = [workload |-> job.workload, mode |-> job.mode, out |-> job.out, n |-> job.n,
                      nGiven |-> job.nGiven, block |-> job.block, stride |-> job.stride,
                      iterations |-> job.iterations, draws |-> job.draws]
        BY <2>2, Zenon DEF IsParams
      <4>2. k = [workload |-> value, mode |-> job.mode, out |-> job.out, n |-> job.n,
                 nGiven |-> job.nGiven, block |-> job.block, stride |-> job.stride,
                 iterations |-> job.iterations, draws |-> job.draws]
        BY <3>2, <4>1
      <4>3. /\ k.workload = value /\ k.mode = job.mode /\ k.out = job.out
            /\ k.n = job.n /\ k.nGiven = job.nGiven
            /\ k.block = job.block /\ k.stride = job.stride /\ k.iterations = job.iterations
            /\ k.draws = job.draws
        BY <4>2
      <4>4. IsParams(k)
        BY <4>1, <4>2, <4>3, Zenon DEF IsParams
      <4> QED
        BY <3>2, <4>1, <4>3, <4>4
    <3> QED
      BY <2>1, <3>1, <3>2
  <2>4. AskedFor(Tail(rest), k) = AskedFor(rest, job)
    <3> HIDE DEF k
    <3> QED
      BY <1>1, <2>2, <2>3, AskedForTail
  <2>5. option \in Valued => value # Missing
    BY <2>1 DEF Valued
  <2>6. Whole(Tail(rest)) => Whole(rest)
    BY <1>1, <2>2, <2>5, WholeOfTail
  <2>7. Tail(rest) \in Seq(S)
    BY <1>1, <2>2
  <2>8. AskedFor(rest', job') = AskedFor(line', Defaults) /\ (Whole(rest') => Whole(line'))
    BY <1>1, <2>2, <2>4, <2>6
  <2>9. Reading'
    <3>1. rest' \in Seq({line'[x] : x \in DOMAIN line'})
      BY <1>1, <2>7
    <3>2. IsParams(job') /\ file' = <<>> /\ printed' = <<>>
      BY <1>1, <2>2, <2>3
    <3> QED
      BY <3>1, <3>2, <2>8 DEF Reading, AskedFor, Whole, IsParams, Places
  <2> QED
    BY <2>9, <1>1, <1>2, <1>4 DEF Inductive
<1> QED
  BY <1>3, <1>4

\* When the command line is read the parameters are those asked for.
LEMMA CheckedIsAsked ==
  ASSUME Inductive, Checked, Accepts(job)
  PROVE  /\ Parameters = Asked /\ IsJob(Asked) /\ Asked.mode = job.mode
         /\ file = <<>> /\ printed = <<>> /\ line \in CommandLines
<1>1. status = "start" /\ rest = <<>> /\ line \in CommandLines
  BY DEF Checked, Inductive
<1>2. Reading
  BY <1>1 DEF Inductive
<1>3. /\ IsParams(job) /\ AskedFor(rest, job) = AskedFor(line, Defaults)
      /\ (Whole(rest) => Whole(line)) /\ file = <<>> /\ printed = <<>>
  BY <1>2 DEF Reading
<1>4. Whole(rest)
  BY <1>1 DEF Whole
<1>5. AskedFor(rest, job) = job
  BY <1>1, <1>3, AskedForNothing
<1>6. job = AskedFor(line, Defaults) /\ Whole(line)
  BY <1>3, <1>4, <1>5
<1>7. Parameters = Asked /\ IsJob(Asked) /\ Asked.mode = job.mode
  BY <1>1, <1>6, AcceptedIsAsked
<1> QED
  BY <1>1, <1>3, <1>7

\* The other actions before the trace.
LEMMA CheckedIsInductive ==
  ASSUME Inductive, Reject \/ RunNative \/ Open
  PROVE  Inductive'
<1>1. line \in CommandLines
  BY DEF Inductive
<1>2. CASE Reject
  BY <1>1, <1>2 DEF Reject, Inductive
<1>3. CASE RunNative
  <2>1. /\ Checked /\ Accepts(job) /\ job.mode = "native" /\ job' = Parameters
        /\ printed' = <<Native(Parameters).checksum>> /\ status' = "exit 0"
        /\ UNCHANGED <<line, rest, todo, buffer, file>>
    BY <1>3 DEF RunNative
  <2>2. /\ Parameters = Asked /\ IsJob(Asked) /\ Asked.mode = job.mode /\ file = <<>>
    BY <2>1, CheckedIsAsked
  <2>3. Asked' = Asked
    BY <2>1 DEF Asked
  <2>4. job' = Asked' /\ job'.mode = "native" /\ file' = <<>>
    BY <2>1, <2>2, <2>3
  <2>5. IsJob(job') /\ printed' = <<Native(job').checksum>>
    BY <2>1, <2>2, Zenon
  <2>6. Done'
    BY <2>4, <2>5, Zenon DEF Done
  <2> QED
    BY <2>1, <2>6, <1>1 DEF Inductive
<1>4. CASE Open
  <2>1. /\ Checked /\ Accepts(job) /\ job.mode = "trace" /\ job' = Parameters
        /\ buffer' = Header /\ todo' = Emission(Parameters) /\ status' = "emitting"
        /\ UNCHANGED <<line, rest, file, printed>>
    BY <1>4 DEF Open
  <2>2. /\ Parameters = Asked /\ IsJob(Asked) /\ Asked.mode = job.mode
        /\ file = <<>> /\ printed = <<>>
    BY <2>1, CheckedIsAsked
  <2>3. Asked' = Asked
    BY <2>1 DEF Asked
  <2>4. job' = Asked' /\ job' = Asked /\ job'.mode = "trace" /\ file' = <<>> /\ printed' = <<>>
        /\ buffer' = Header /\ todo' = Emission(Asked)
    BY <2>1, <2>2, <2>3
  <2>5. Emission(Asked) \in Seq(Records) /\ Header \in Seq(Records)
    BY <2>2, WorkloadFaithful, HeaderType DEF Faithful
  <2>6. <<>> \in Seq(Records)
    OBVIOUS
  <2>7. Cat(<<>>, Cat(Header, Emission(Asked))) = Cat(Header, Emission(Asked))
    <3>1. \A x, y \in Seq(Records) : Cat(x, y) \in Seq(Records)
      BY CatProperties
    <3>2. \A x \in Seq(Records) : Cat(<<>>, x) = x
      BY CatProperties, Zenon
    <3> QED
      BY <2>5, <3>1, <3>2, Zenon
  <2>8. Cat(file', Cat(buffer', todo')) = Cat(Header, Emission(job'))
    BY <2>4, <2>7, Zenon
  <2>9. file' \in Seq(Records) /\ buffer' \in Seq(Records) /\ todo' \in Seq(Records)
    BY <2>4, <2>5, <2>6, Zenon
  <2>10. IsJob(job')
    BY <2>2, <2>4, Zenon
  <2>11. Writing'
    BY <2>4, <2>8, <2>9, <2>10, Zenon DEF Writing
  <2> QED
    BY <2>1, <2>11, <1>1 DEF Inductive
<1> QED
  BY <1>2, <1>3, <1>4

\* The writes.
LEMMA WritingIsInductive ==
  ASSUME Inductive,
         Emit \/ Finish \/ FinishThrows \/ Destroy \/ DestroyThrows
  PROVE  Inductive'
<1>1. line \in CommandLines
  BY DEF Inductive
<1>2. CASE FinishThrows \/ Destroy \/ DestroyThrows
  BY <1>1, <1>2 DEF FinishThrows, Destroy, DestroyThrows, Inductive
<1>3. CASE Emit \/ Finish
  <2>1. status = "emitting" /\ UNCHANGED <<line, rest, job, printed>>
    BY <1>3 DEF Emit, Finish
  <2>2. /\ job = Asked /\ IsJob(job) /\ job.mode = "trace" /\ printed = <<>>
        /\ file \in Seq(Records) /\ buffer \in Seq(Records) /\ todo \in Seq(Records)
        /\ Cat(file, Cat(buffer, todo)) = Cat(Header, Emission(job))
    BY <2>1 DEF Inductive, Writing
  <2>3. job' = Asked' /\ IsJob(job') /\ job'.mode = "trace" /\ printed' = <<>> /\ job' = job
    <3>1. Asked' = Asked
      BY <2>1 DEF Asked
    <3>2. job' = job /\ printed' = printed
      BY <2>1
    <3> QED
      BY <2>2, <3>1, <3>2, Zenon
  <2>4. /\ \A x, y \in Seq(Records) : Cat(x, y) \in Seq(Records)
        /\ \A x, y, z \in Seq(Records) : Cat(Cat(x, y), z) = Cat(x, Cat(y, z))
        /\ \A x \in Seq(Records) : Cat(<<>>, x) = x /\ Cat(x, <<>>) = x
    <3>1. \A x \in Seq(Records) : Cat(<<>>, x) = x /\ Cat(x, <<>>) = x
      BY CatProperties, Zenon
    <3> QED
      BY <3>1, CatProperties
  <2>5. CASE Emit
    <3> DEFINE pending == Append(buffer, Head(todo))
    <3>1. /\ todo # <<>> /\ todo' = Tail(todo)
          /\ \/ buffer' = pending /\ file' = file /\ status' = status
             \/ Flushed(pending) /\ status' = status
             \/ FlushThrows(pending) /\ status' = "unwinding"
      BY <2>5 DEF Emit
    <3>2. /\ pending \in Seq(Records) /\ Tail(todo) \in Seq(Records)
          /\ Cat(pending, Tail(todo)) = Cat(buffer, todo)
      BY <2>2, <3>1, HeadAppended
    <3> HIDE DEF pending
    <3>3. Cat(file, Cat(pending, Tail(todo))) = Cat(Header, Emission(job))
      BY <2>2, <3>2, Zenon
    <3>4. CASE buffer' = pending /\ file' = file /\ status' = status
      <4>1. Cat(file', Cat(buffer', todo')) = Cat(Header, Emission(job'))
        BY <2>3, <3>1, <3>3, <3>4, Zenon
      <4>2. file' \in Seq(Records) /\ buffer' \in Seq(Records) /\ todo' \in Seq(Records)
        BY <2>2, <3>1, <3>2, <3>4, Zenon
      <4>3. Writing'
        BY <2>3, <4>1, <4>2, Zenon DEF Writing
      <4> QED
        BY <2>1, <3>4, <4>3, <1>1 DEF Inductive
    <3>5. CASE Flushed(pending) /\ status' = status
      <4>1. file' = Cat(file, pending) /\ buffer' = <<>>
        BY <3>5, Zenon DEF Flushed, Cat
      <4>2. <<>> \in Seq(Records)
        OBVIOUS
      <4>3. Cat(buffer', todo') = Tail(todo)
        BY <4>1, <3>1, <3>2, <2>4, Zenon
      <4>4. Cat(Cat(file, pending), Tail(todo)) = Cat(file, Cat(pending, Tail(todo)))
        BY <2>2, <2>4, <3>2, ZenonT(40)
      <4>5. Cat(file', Cat(buffer', todo')) = Cat(Header, Emission(job'))
        BY <2>3, <3>3, <4>1, <4>3, <4>4, Zenon
      <4>6. file' \in Seq(Records) /\ buffer' \in Seq(Records) /\ todo' \in Seq(Records)
        BY <2>2, <2>4, <3>1, <3>2, <4>1, <4>2, Zenon
      <4>7. Writing'
        BY <2>3, <4>5, <4>6, Zenon DEF Writing
      <4> QED
        BY <2>1, <3>5, <4>7, <1>1 DEF Inductive
    <3>6. CASE FlushThrows(pending) /\ status' = "unwinding"
      BY <2>1, <3>6, <1>1 DEF Inductive
    <3> QED
      BY <3>1, <3>4, <3>5, <3>6
  <2>6. CASE Finish
    <3>1. todo = <<>> /\ Close(file \o buffer) /\ status' = "exit 0"
      BY <2>6 DEF Finish
    <3>2. Cat(buffer, todo) = buffer
      BY <2>2, <2>4, <3>1, Zenon
    <3>3. ASSUME "close" \notin Failures PROVE file' = Cat(Header, Emission(job'))
      <4>1. file' = file \o buffer
        BY <3>1, <3>3 DEF Close
      <4>2. file' = Cat(file, buffer)
        BY <4>1, Zenon DEF Cat
      <4> QED
        BY <2>2, <2>3, <3>2, <4>2, Zenon
    <3>4. Done'
      BY <2>3, <3>3, Zenon DEF Done, Written
    <3> QED
      BY <2>1, <3>1, <3>4, <1>1 DEF Inductive
  <2> QED
    BY <1>3, <2>5, <2>6
<1> QED
  BY <1>2, <1>3

\* A step that changes nothing.
LEMMA StutterIsInductive ==
  ASSUME Inductive, UNCHANGED vars
  PROVE  Inductive'
<1>1. /\ line' = line /\ rest' = rest /\ job' = job /\ todo' = todo /\ buffer' = buffer
      /\ file' = file /\ printed' = printed /\ status' = status
  BY DEF vars
<1> QED
  BY <1>1 DEF Inductive, Reading, Writing, Done, Written, Asked

\* The invariant is kept by every step.
LEMMA Invariant == Spec => []Inductive
<1>1. Inductive /\ [Next]_vars => Inductive'
  <2> SUFFICES ASSUME Inductive, [Next]_vars PROVE Inductive'
    OBVIOUS
  <2>1. CASE Argument
    BY <2>1, ArgumentIsInductive
  <2>2. CASE Reject \/ RunNative \/ Open
    BY <2>2, CheckedIsInductive
  <2>3. CASE Emit \/ Finish \/ FinishThrows \/ Destroy \/ DestroyThrows
    BY <2>3, WritingIsInductive
  <2>4. CASE UNCHANGED vars
    BY <2>4, StutterIsInductive
  <2> QED
    BY <2>1, <2>2, <2>3, <2>4 DEF Next
<1> QED
  BY <1>1, InitIsInductive, PTL DEF Spec

-----------------------------------------------------------------------------
(* What tracegen promises.                                                  *)

\* When the exit status is 0 the trace of the parameters that were asked for is all
\* there, in order, or the result of the native run is: for all command lines, sizes of
\* the buffer and writes that fail, as long as the errors of fclose, which is ignored,
\* are left out.
THEOREM SuccessMeansComplete ==
  ASSUME "close" \notin Failures
  PROVE  Spec => []SuccessIsComplete
<1>1. Inductive => SuccessIsComplete
  <2> SUFFICES ASSUME Inductive, Succeeded PROVE SuccessIsComplete
    BY DEF SuccessIsComplete
  <2>1. Done
    BY DEF Inductive, Succeeded
  <2>2. CASE job.mode = "trace" /\ Written /\ printed = <<>>
    <3>1. /\ Asked.mode = "trace" /\ printed = <<>> /\ file = Header \o Emission(Asked)
      BY <2>1, <2>2, Zenon DEF Done, Written, Cat
    <3> QED
      BY <3>1, Zenon DEF SuccessIsComplete
  <2>3. CASE job.mode = "native" /\ file = <<>> /\ printed = <<Native(job).checksum>>
    <3>1. Asked.mode = "native" /\ file = <<>>
      BY <2>1, <2>3, Zenon DEF Done
    <3>2. Len(printed) = 1
      BY <2>3
    <3> QED
      BY <3>1, <3>2 DEF SuccessIsComplete
  <2> QED
    BY <2>1, <2>2, <2>3 DEF Done
<1> QED
  BY <1>1, Invariant, PTL

\* The accesses of a trace that is reported to be written.
LEMMA TraceOfJob ==
  ASSUME "close" \notin Failures, Inductive, Succeeded, job.mode = "trace"
  PROVE  IsJob(job) /\ Accesses = AccessesIn(Emission(job))
<1>1. Done
  BY DEF Inductive, Succeeded
<1>2. IsJob(job) /\ file = Header \o Emission(job)
  BY <1>1, Zenon DEF Done, Written, Cat
<1>3. Emission(job) \in Seq(Records)
  BY <1>2, WorkloadFaithful DEF Faithful
<1>4. AccessesIn(Header \o Emission(job)) = AccessesIn(Header) \o AccessesIn(Emission(job))
  BY <1>3, HeaderType, AccessesConcat
<1>5. <<>> \o AccessesIn(Emission(job)) = AccessesIn(Emission(job))
  <2>1. AccessesIn(Emission(job)) \in Seq(Records)
    BY <1>3, AccessesType
  <2> QED
    BY <2>1, ConcatEmptySeq
<1> QED
  BY <1>2, <1>4, <1>5, HeaderType, Zenon DEF Accesses

\* The trace makes the accesses of the real kernel, load by load and store by store, and
\* no two of its arrays share a page: for each workload, all parameters and all draws.
THEOREM TracesAreKernels ==
  ASSUME "close" \notin Failures
  PROVE  Spec => []TraceIsKernel
<1>1. Inductive => TraceIsKernel
  <2> SUFFICES ASSUME Inductive, Succeeded, job.mode = "trace" PROVE TraceIsKernel
    BY DEF TraceIsKernel
  <2>1. IsJob(job) /\ Accesses = AccessesIn(Emission(job))
    BY TraceOfJob
  <2>2. IsTraceOf(Accesses, Native(job).accesses)
    BY <2>1, WorkloadFaithful, Zenon DEF Faithful
  <2> QED
    BY <2>2, Zenon DEF TraceIsKernel, IsTraceOf
<1> QED
  BY <1>1, Invariant, PTL

\* Between two visits of an element the chase visits all the others, whatever the seed.
THEOREM ChasesAreOneCycle ==
  ASSUME "close" \notin Failures
  PROVE  Spec => []ChaseIsOneCycle
<1>1. Inductive => ChaseIsOneCycle
  <2> SUFFICES ASSUME Inductive, Succeeded, job.mode = "trace", job.workload = "pointer_chase"
               PROVE  ChaseIsOneCycle
    BY DEF ChaseIsOneCycle
  <2>1. IsJob(job) /\ Accesses = AccessesIn(Emission(job))
    BY TraceOfJob
  <2>2. GoesRound(Accesses, job)
    BY <2>1, ChaseAccesses
  <2> QED
    BY <2>2, Zenon DEF ChaseIsOneCycle, GoesRound
<1> QED
  BY <1>1, Invariant, PTL

\* Whatever the block and the draws, and whichever writes fail, the checksum of the
\* matrix kernel is the sum of the elements of the product, once per iteration.
THEOREM MatricesAreProducts == Spec => []MatrixIsProduct
<1>1. Inductive => MatrixIsProduct
  <2> SUFFICES ASSUME Inductive, Succeeded, job.mode = "native", job.workload = "matrix"
               PROVE  MatrixIsProduct
    BY DEF MatrixIsProduct
  <2>1. IsJob(job) /\ printed = <<Native(job).checksum>>
    BY DEF Inductive, Succeeded, Done
  <2>2. Native(job) = NativeMatrix(job)
    BY DEF Native
  <2>3. Native(job).checksum = job.iterations * Sum(ProductOfDraws(job))
    BY <2>1, <2>2, ChecksumIsProduct
  <2>4. printed = <<job.iterations * Sum(ProductOfDraws(job))>>
    BY <2>1, <2>3, Zenon
  <2> QED
    BY <2>4 DEF MatrixIsProduct, ProductOfDraws, Triples, LowBits
<1> QED
  BY <1>1, Invariant, PTL
=============================================================================
