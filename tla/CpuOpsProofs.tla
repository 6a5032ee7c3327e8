---------------------------- MODULE CpuOpsProofs ----------------------------
(***************************************************************************)
(* Lemmas about the operations of CpuOps: what a stall does to the counters, *)
(* that the walk of drain over the outstanding fills is a sequence of waits,  *)
(* that sift_down restores the heap and loses no entry, sums over the MSHRs,   *)
(* what is charged to which bucket and why, and what the payments depend on.    *)
(* The recursive functions of CpuOps are shown to exist, and their values are    *)
(* reached by taking the least argument for which a statement could fail.        *)
(***************************************************************************)
EXTENDS CpuOps, FiniteSetsExt, FiniteSetTheorems, WellFoundedInduction, TLAPS

-----------------------------------------------------------------------------
(* Least numbers.                                                           *)

Less == {p \in Nat \X Nat : p[1] < p[2]}

\* The pairs of naturals in increasing order form a well-founded relation.
LEMMA LessIsWellFounded == IsWellFoundedOn(Less, Nat)
<1>1. Less = OpToRel(<, Nat)
  BY Zenon DEF Less, OpToRel
<1> QED
  BY <1>1, NatLessThanWellFounded, Zenon

\* Min returns the least element of a nonempty set of naturals.
LEMMA MinIsLeast ==
  ASSUME NEW T \in SUBSET Nat, T # {}
  PROVE  Min(T) \in T /\ \A x \in T : Min(T) <= x
<1>1. PICK x \in T : \A y \in T : <<y, x>> \notin Less
  BY LessIsWellFounded, WFMin
<1>2. ASSUME NEW y \in T PROVE x <= y
  <2>1. <<y, x>> \in Nat \X Nat /\ <<y, x>> \notin Less
    BY <1>1
  <2>2. ~(<<y, x>>[1] < <<y, x>>[2])
    BY <2>1, Zenon DEF Less
  <2> QED
    BY <2>2
<1> QED
  BY <1>2 DEF Min

-----------------------------------------------------------------------------
(* Sums over finite sets.                                                   *)

Sum(f, S) == MapThenSumSet(LAMBDA i : f[i], S)

Chosen(s) == CHOOSE x \in s : TRUE

\* The sum over s, given those over smaller sets.
SumStep(f, sums, s) == IF s = {} THEN 0 ELSE f[Chosen(s)] + sums[s \ {Chosen(s)}]

\* Sums holds the sums of f over all subsets of S.
Sums(f, S, sums) == sums = [s \in SUBSET S |-> SumStep(f, sums, s)]

\* Sums over the subsets of a finite set exist.
LEMMA SumsExist ==
  ASSUME NEW f, NEW S, IsFiniteSet(S)
  PROVE  \E sums : Sums(f, S, sums)
<1> DEFINE Upto(k) == {s \in SUBSET S : Cardinality(s) <= k}
           Walks(g, k) == g = [s \in Upto(k) |-> SumStep(f, g, s)]
           Without == {k \in Nat : ~\E g : Walks(g, k)}
<1>1. \A s \in SUBSET S : /\ IsFiniteSet(s) /\ Cardinality(s) \in Nat
                          /\ Cardinality(s) <= Cardinality(S)
                          /\ s = {} <=> Cardinality(s) = 0
                          /\ s # {} => /\ Chosen(s) \in s
                                       /\ Cardinality(s \ {Chosen(s)}) = Cardinality(s) - 1
  <2>1. ASSUME NEW s \in SUBSET S
        PROVE  /\ IsFiniteSet(s) /\ Cardinality(s) <= Cardinality(S)
               /\ Cardinality(s) \in Nat
    BY FS_Subset, FS_CardinalityType
  <2>2. ASSUME NEW s \in SUBSET S, s # {}
        PROVE  Chosen(s) \in s /\ Cardinality(s \ {Chosen(s)}) = Cardinality(s) - 1
    <3>1. Chosen(s) \in s
      BY <2>2 DEF Chosen
    <3> QED
      BY <2>1, <3>1, FS_RemoveElement
  <2> QED
    BY <2>1, <2>2, FS_EmptySet
<1>2. Cardinality(S) \in Nat /\ Upto(Cardinality(S)) = SUBSET S
  BY <1>1
<1>3. SUFFICES Without = {}
  <2>1. ASSUME NEW g, Walks(g, Cardinality(S)) PROVE Sums(f, S, g)
    BY <1>2, <2>1 DEF Sums
  <2> QED
    BY <1>2, <2>1, ZenonT(40)
<1>4. SUFFICES ASSUME Without # {} PROVE FALSE
  OBVIOUS
<1> DEFINE k == Min(Without)
<1>5. k \in Without /\ \A x \in Without : k <= x
  BY <1>4, MinIsLeast
<1> HIDE DEF k
<1>6. k \in Nat /\ ~\E g : Walks(g, k)
  BY <1>5
<1>7. CASE k = 0
  <2> DEFINE g == [s \in Upto(k) |-> 0]
  <2>1. \A s \in Upto(k) : s = {}
    <3>1. ASSUME NEW s \in Upto(k) PROVE s = {}
      <4>1. s \in SUBSET S /\ Cardinality(s) \in Nat /\ Cardinality(s) <= 0
        BY <1>1, <1>7
      <4>2. Cardinality(s) = 0
        BY <4>1
      <4> QED
        BY <1>1, <4>1, <4>2
    <3> QED
      BY <3>1
  <2>2. \A s \in Upto(k) : SumStep(f, g, s) = 0
    BY <2>1 DEF SumStep
  <2>3. Walks(g, k)
    BY <2>2
  <2> QED
    BY <1>6, <2>3
<1>8. CASE k # 0
  <2>1. k-1 \in Nat /\ ~(k <= k-1)
    BY <1>6, <1>8
  <2>2. PICK g : Walks(g, k-1)
    BY <1>5, <2>1
  <2> DEFINE h == [s \in Upto(k) |-> IF Cardinality(s) = k THEN SumStep(f, g, s) ELSE g[s]]
  <2>3. ASSUME NEW s \in Upto(k) PROVE h[s] = SumStep(f, h, s)
    <3>1. \A t \in Upto(k-1) : t \in Upto(k) /\ h[t] = g[t]
      <4>1. \A t \in Upto(k-1) : Cardinality(t) \in Nat /\ Cardinality(t) <= k-1
        BY <1>1
      <4> QED
        BY <1>6, <4>1
    <3>2. s # {} => s \ {Chosen(s)} \in Upto(k-1)
      <4>1. Cardinality(s) \in Nat /\ Cardinality(s) <= k
        BY <1>1
      <4> QED
        BY <1>1, <1>6, <4>1
    <3>3. SumStep(f, h, s) = SumStep(f, g, s)
      BY <3>1, <3>2 DEF SumStep
    <3>4. CASE Cardinality(s) = k
      BY <3>3, <3>4
    <3>5. CASE Cardinality(s) # k
      <4>1. s \in Upto(k-1)
        <5>1. Cardinality(s) \in Nat /\ Cardinality(s) <= k
          BY <1>1
        <5> QED
          BY <1>6, <3>5, <5>1
      <4>2. g[s] = SumStep(f, g, s)
        BY <2>2, <4>1
      <4> QED
        BY <3>1, <3>3, <4>1, <4>2
    <3> QED
      BY <3>4, <3>5
  <2>4. Walks(h, k)
    BY <2>3
  <2> QED
    BY <1>6, <2>4
<1> QED
  BY <1>7, <1>8

\* The sum is the last entry of such a function.
LEMMA SumIsLast ==
  ASSUME NEW f, NEW S, IsFiniteSet(S)
  PROVE  \E sums : Sums(f, S, sums) /\ Sum(f, S) = sums[S]
<1> DEFINE sums == CHOOSE g : g = [s \in SUBSET S |-> SumStep(f, g, s)]
<1>1. Sum(f, S) = sums[S]
  BY DEF Sum, MapThenSumSet, MapThenFoldSet, SumStep, Chosen
<1>2. Sums(f, S, sums)
  BY SumsExist DEF Sums
<1> QED
  BY <1>1, <1>2

\* Sums depend only on what is summed.
LEMMA SumsAgree ==
  ASSUME NEW f, NEW g, NEW S, NEW T, IsFiniteSet(S), IsFiniteSet(T),
         NEW a, NEW b, Sums(f, S, a), Sums(g, T, b),
         NEW U \in SUBSET (S \cap T), \A x \in U : f[x] = g[x]
  PROVE  a[U] = b[U]
<1> DEFINE Differ == {k \in Nat : \E s \in SUBSET U : Cardinality(s) = k /\ a[s] # b[s]}
<1>1. SUFFICES ASSUME a[U] # b[U] PROVE FALSE
  OBVIOUS
<1>2. \A s \in SUBSET U : IsFiniteSet(s) /\ Cardinality(s) \in Nat
  BY FS_Subset, FS_CardinalityType
<1>3. Differ # {} /\ Differ \in SUBSET Nat
  BY <1>1, <1>2
<1>4. PICK k \in Differ : \A x \in Differ : k <= x
  BY <1>3, MinIsLeast
<1>5. PICK s \in SUBSET U : Cardinality(s) = k /\ a[s] # b[s]
  BY <1>4
<1>6. a[s] = SumStep(f, a, s) /\ b[s] = SumStep(g, b, s)
  BY DEF Sums
<1>7. s # {}
  BY <1>5, <1>6 DEF SumStep
<1> DEFINE x == Chosen(s)
           t == s \ {x}
<1>8. x \in s
  BY <1>7 DEF Chosen
<1> HIDE DEF x
<1>9. t \in SUBSET U /\ Cardinality(t) = k-1 /\ k-1 \in Nat /\ ~(k <= k-1)
  <2>1. Cardinality(t) = k-1 /\ Cardinality(t) \in Nat
    BY <1>2, <1>5, <1>8, FS_RemoveElement
  <2> QED
    BY <2>1
<1>10. a[t] = b[t]
  BY <1>4, <1>9
<1>11. a[s] = f[x] + a[t] /\ b[s] = g[x] + b[t]
  BY <1>6, <1>7 DEF SumStep, x
<1> QED
  BY <1>5, <1>8, <1>10, <1>11

\* The sum over the empty set; any element may be taken out first.
LEMMA SumPick ==
  ASSUME NEW S, IsFiniteSet(S), NEW f, \A i \in S : f[i] \in Nat
  PROVE  /\ Sum(f, {}) = 0
         /\ Sum(f, S) \in Nat
         /\ \A x \in S : Sum(f, S \ {x}) \in Nat /\ Sum(f, S) = f[x] + Sum(f, S \ {x})
<1>1. PICK sums : Sums(f, S, sums) /\ Sum(f, S) = sums[S]
  BY SumIsLast
<1>2. \A T \in SUBSET S : IsFiniteSet(T) /\ Cardinality(T) \in Nat
  BY FS_Subset, FS_CardinalityType
<1>3. ASSUME NEW T \in SUBSET S PROVE Sum(f, T) = sums[T]
  <2>1. IsFiniteSet(T) /\ T \in SUBSET (S \cap T) /\ \A x \in T : f[x] = f[x]
    BY <1>2
  <2>2. PICK own : Sums(f, T, own) /\ Sum(f, T) = own[T]
    BY <2>1, SumIsLast
  <2>3. sums[T] = own[T]
    BY <1>1, <2>1, <2>2, SumsAgree
  <2> QED
    BY <2>2, <2>3
<1>4. sums[{}] = 0
  BY <1>1 DEF Sums, SumStep
<1> DEFINE Good(T) == /\ sums[T] \in Nat
                      /\ \A x \in T : sums[T] = f[x] + sums[T \ {x}]
           Bad == {k \in Nat : \E T \in SUBSET S : Cardinality(T) = k /\ ~Good(T)}
<1>5. Bad = {}
  <2>1. SUFFICES ASSUME Bad # {} PROVE FALSE
    OBVIOUS
  <2>2. PICK k \in Bad : \A m \in Bad : k <= m
    <3>1. Bad \in SUBSET Nat
      OBVIOUS
    <3> HIDE DEF Bad
    <3> QED
      BY <2>1, <3>1, MinIsLeast
  <2>3. PICK T \in SUBSET S : Cardinality(T) = k /\ ~Good(T)
    BY <2>2
  <2> DEFINE c == Chosen(T)
  <2>4. T # {}
    BY <1>4, <2>3
  <2>5. c \in T /\ sums[T] = f[c] + sums[T \ {c}]
    BY <1>1, <2>4 DEF Sums, SumStep, Chosen
  <2> HIDE DEF c
  <2>6. ASSUME NEW x \in T PROVE Good(T \ {x})
    <3>1. Cardinality(T \ {x}) = k-1 /\ Cardinality(T \ {x}) \in Nat
      BY <1>2, <2>3, FS_RemoveElement
    <3>2. k-1 \notin Bad
      BY <2>2
    <3> QED
      BY <3>1, <3>2
  <2>7. sums[T] \in Nat
    BY <2>5, <2>6
  <2>8. ASSUME NEW x \in T PROVE sums[T] = f[x] + sums[T \ {x}]
    <3>1. CASE x = c
      BY <2>5, <3>1
    <3>2. CASE x # c
      <4>1. (T \ {x}) \ {c} = (T \ {c}) \ {x} /\ c \in T \ {x} /\ x \in T \ {c}
        BY <2>5, <3>2
      <4> DEFINE rest == sums[(T \ {c}) \ {x}]
      <4>2. sums[T \ {c}] = f[x] + rest
        BY <2>5, <2>6, <4>1
      <4>3. sums[T \ {x}] = f[c] + rest
        BY <2>5, <2>6, <4>1
      <4>4. rest \in Nat
        <5>1. Cardinality((T \ {c}) \ {x}) \in Nat /\ Cardinality((T \ {c}) \ {x}) = k-2
          <6> DEFINE U == T \ {c}
          <6>1. IsFiniteSet(U) /\ Cardinality(U) = k-1 /\ x \in U /\ k \in Nat
            BY <1>2, <2>3, <2>5, <4>1, FS_RemoveElement
          <6>2. U \ {x} \in SUBSET S
            OBVIOUS
          <6>3. Cardinality(U \ {x}) \in Nat
            BY <1>2, <6>2
          <6> HIDE DEF U, Bad, Good
          <6>4. Cardinality(U \ {x}) = (k-1) - 1
            BY <6>1, FS_RemoveElement
          <6>5. (k-1) - 1 = k-2
            BY <6>1
          <6> QED
            BY <6>3, <6>4, <6>5 DEF U
        <5>2. k-2 \notin Bad
          BY <2>2
        <5> QED
          BY <5>1, <5>2
      <4>5. f[x] \in Nat /\ f[c] \in Nat
        BY <2>5
      <4> HIDE DEF rest
      <4> QED
        BY <2>5, <4>2, <4>3, <4>4, <4>5
    <3> QED
      BY <3>1, <3>2
  <2> QED
    BY <2>3, <2>7, <2>8
<1>6. ASSUME NEW T \in SUBSET S PROVE Good(T)
  BY <1>2, <1>5
<1>7. ASSUME NEW x \in S
      PROVE  Sum(f, S \ {x}) \in Nat /\ Sum(f, S) = f[x] + Sum(f, S \ {x})
  BY <1>1, <1>3, <1>6
<1>8. Sum(f, {}) = 0 /\ Sum(f, S) \in Nat
  BY <1>1, <1>3, <1>4, <1>6
<1> QED
  BY <1>7, <1>8

\* Equal summands have equal sums.
LEMMA SumAgrees ==
  ASSUME NEW S, IsFiniteSet(S), NEW f, NEW g, \A i \in S : f[i] = g[i]
  PROVE  Sum(f, S) = Sum(g, S)
<1>1. PICK a : Sums(f, S, a) /\ Sum(f, S) = a[S]
  BY SumIsLast
<1>2. PICK b : Sums(g, S, b) /\ Sum(g, S) = b[S]
  BY SumIsLast
<1> QED
  BY <1>1, <1>2, SumsAgree

\* Larger summands have a larger sum.
LEMMA SumIsMonotone ==
  ASSUME NEW S, IsFiniteSet(S), NEW f, NEW g,
         \A i \in S : f[i] \in Nat /\ g[i] \in Nat /\ f[i] <= g[i]
  PROVE  Sum(f, S) <= Sum(g, S)
<1> DEFINE Bad == {k \in Nat : \E T \in SUBSET S : Cardinality(T) = k /\ ~(Sum(f, T) <= Sum(g, T))}
<1>1. \A T \in SUBSET S : IsFiniteSet(T) /\ Cardinality(T) \in Nat
  BY FS_Subset, FS_CardinalityType
<1>2. SUFFICES ASSUME Bad # {} PROVE FALSE
  BY <1>1
<1>3. PICK k \in Bad : \A m \in Bad : k <= m
  <2>1. Bad \in SUBSET Nat
    OBVIOUS
  <2> HIDE DEF Bad
  <2> QED
    BY <1>2, <2>1, MinIsLeast
<1>4. PICK T \in SUBSET S : Cardinality(T) = k /\ ~(Sum(f, T) <= Sum(g, T))
  BY <1>3
<1>5. CASE T = {}
  <2>1. Sum(f, {}) = 0 /\ Sum(g, {}) = 0
    BY SumPick
  <2> QED
    BY <1>4, <1>5, <2>1
<1>6. ASSUME NEW x \in T PROVE FALSE
  <2> DEFINE U == T \ {x}
  <2>1. Cardinality(U) = k-1 /\ Cardinality(U) \in Nat /\ k-1 \notin Bad
    BY <1>1, <1>3, <1>4, FS_RemoveElement
  <2>2. Sum(f, U) <= Sum(g, U)
    BY <2>1
  <2>3. /\ Sum(f, U) \in Nat /\ Sum(f, T) = f[x] + Sum(f, U)
        /\ Sum(g, U) \in Nat /\ Sum(g, T) = g[x] + Sum(g, U)
    BY <1>1, SumPick, ZenonT(40)
  <2>4. f[x] \in Nat /\ g[x] \in Nat /\ f[x] <= g[x]
    OBVIOUS
  <2> HIDE DEF U
  <2> QED
    BY <1>4, <2>2, <2>3, <2>4
<1> QED
  BY <1>5, <1>6

\* Summands up to a bound have a sum up to that many times the bound.
LEMMA SumIsBounded ==
  ASSUME NEW S, IsFiniteSet(S), NEW f, NEW bound \in Nat,
         \A i \in S : f[i] \in Nat /\ f[i] <= bound
  PROVE  Sum(f, S) <= Cardinality(S) * bound
<1> DEFINE Bad == {k \in Nat : \E T \in SUBSET S : Cardinality(T) = k /\ ~(Sum(f, T) <= k * bound)}
<1>1. \A T \in SUBSET S : IsFiniteSet(T) /\ Cardinality(T) \in Nat
  BY FS_Subset, FS_CardinalityType
<1>2. SUFFICES ASSUME Bad # {} PROVE FALSE
  BY <1>1
<1>3. PICK k \in Bad : \A m \in Bad : k <= m
  <2>1. Bad \in SUBSET Nat
    OBVIOUS
  <2> HIDE DEF Bad
  <2> QED
    BY <1>2, <2>1, MinIsLeast
<1>4. PICK T \in SUBSET S : Cardinality(T) = k /\ ~(Sum(f, T) <= k * bound)
  BY <1>3
<1>5. CASE T = {}
  <2>1. Sum(f, {}) = 0 /\ k = 0 /\ 0 * bound = 0
    BY <1>1, <1>4, <1>5, SumPick, FS_EmptySet
  <2> QED
    BY <1>4, <1>5, <2>1
<1>6. ASSUME NEW x \in T PROVE FALSE
  <2> DEFINE U == T \ {x}
  <2>1. Cardinality(U) = k-1 /\ Cardinality(U) \in Nat /\ k-1 \notin Bad
    BY <1>1, <1>3, <1>4, FS_RemoveElement
  <2>2. Sum(f, U) <= (k-1) * bound
    BY <2>1
  <2>3. Sum(f, U) \in Nat /\ Sum(f, T) = f[x] + Sum(f, U)
    BY <1>1, SumPick
  <2>4. f[x] \in Nat /\ f[x] <= bound
    OBVIOUS
  <2>5. k * bound = (k-1) * bound + bound /\ (k-1) * bound \in Nat
    BY <2>1
  <2> HIDE DEF U
  <2> QED
    BY <1>4, <2>2, <2>3, <2>4, <2>5
<1> QED
  BY <1>5, <1>6

\* The order of the summands does not matter.
LEMMA SumIsCommutative ==
  ASSUME NEW S, IsFiniteSet(S), NEW p \in [S -> S],
         \A i, j \in S : p[i] = p[j] => i = j,
         NEW f, NEW g, \A i \in S : f[i] \in Nat /\ g[i] = f[p[i]]
  PROVE  Sum(g, S) = Sum(f, S)
<1> DEFINE Image(T) == {p[i] : i \in T}
           Bad == {k \in Nat : \E T \in SUBSET S : Cardinality(T) = k /\ Sum(g, T) # Sum(f, Image(T))}
<1>1. \A T \in SUBSET S : IsFiniteSet(T) /\ Cardinality(T) \in Nat
  BY FS_Subset, FS_CardinalityType
<1>2. Image(S) = S
  <2>1. p \in Injection(S, S)
    BY DEF Injection, IsInjective
  <2>2. p \in Surjection(S, S)
    BY <2>1, FS_Injection
  <2> QED
    BY <2>2 DEF Surjection
<1>3. Bad = {}
  <2>1. SUFFICES ASSUME Bad # {} PROVE FALSE
    OBVIOUS
  <2>2. PICK k \in Bad : \A m \in Bad : k <= m
    <3>1. Bad \in SUBSET Nat
      OBVIOUS
    <3> HIDE DEF Bad
    <3> QED
      BY <2>1, <3>1, MinIsLeast
  <2>3. PICK T \in SUBSET S : Cardinality(T) = k /\ Sum(g, T) # Sum(f, Image(T))
    BY <2>2
  <2>4. CASE T = {}
    <3>1. Sum(f, {}) = 0 /\ Sum(g, {}) = 0 /\ Image({}) = {}
      BY SumPick
    <3> QED
      BY <2>3, <2>4, <3>1
  <2>5. ASSUME NEW x \in T PROVE FALSE
    <3> DEFINE U == T \ {x}
    <3>1. Cardinality(U) = k-1 /\ Cardinality(U) \in Nat /\ k-1 \notin Bad
      <4>1. U \in SUBSET S
        OBVIOUS
      <4>2. IsFiniteSet(T) /\ Cardinality(T) = k
        BY <1>1, <2>3
      <4>3. Cardinality(U) \in Nat
        BY <1>1, <4>1
      <4>4. k \in Nat
        OBVIOUS
      <4> HIDE DEF Bad
      <4>5. Cardinality(U) = k-1
        BY <4>2, <4>4, FS_RemoveElement
      <4> HIDE DEF U
      <4>6. k-1 \in Bad => k <= k-1
        BY <2>2
      <4> QED
        BY <4>3, <4>4, <4>5, <4>6
    <3>2. Sum(g, U) = Sum(f, Image(U))
      BY <3>1
    <3>3. Image(U) = Image(T) \ {p[x]} /\ p[x] \in Image(T)
      OBVIOUS
    <3>4. Image(T) \in SUBSET S
      OBVIOUS
    <3>5. Sum(f, Image(T)) = f[p[x]] + Sum(f, Image(T) \ {p[x]})
      <4>1. IsFiniteSet(Image(T)) /\ \A i \in Image(T) : f[i] \in Nat
        BY <1>1, <3>4
      <4> HIDE DEF Image, Bad
      <4> QED
        BY <3>3, <4>1, SumPick
    <3>6. Sum(g, T) = g[x] + Sum(g, U)
      <4>1. IsFiniteSet(T) /\ \A i \in T : g[i] \in Nat
        BY <1>1
      <4> HIDE DEF Bad
      <4> QED
        BY <4>1, SumPick, ZenonT(40)
    <3> QED
      BY <2>3, <3>2, <3>3, <3>5, <3>6
  <2> QED
    BY <2>4, <2>5
<1> QED
  BY <1>1, <1>2, <1>3

-----------------------------------------------------------------------------
(* Counters.                                                                *)

\* Every counter is a number, and so is their sum over the buckets.
LEMMA StatsAreNumbers ==
  ASSUME NEW stats \in CpuStats
  PROVE  /\ \A k \in StatNames : stats[k] \in Nat
         /\ stats["cycles"] \in Nat /\ StallTotal(stats) \in Nat
  BY DEF CpuStats, StallTotal, StatNames, Buckets

\* Adding to some counters leaves the others.
LEMMA AddType ==
  ASSUME NEW stats \in CpuStats, NEW n \in Nat, NEW which
  PROVE  /\ Add(stats, n, which) \in CpuStats
         /\ \A k \in StatNames :
              Add(stats, n, which)[k] = IF k \in which THEN stats[k] + n ELSE stats[k]
  BY DEF Add, CpuStats

\* The cycles that are in no stall bucket.
Unstalled(stats) == stats["cycles"] - StallTotal(stats)

Timing == Buckets \cup {"cycles"}

\* A stall of so many cycles: it is added to the cycles, whatever buckets share it,
\* and to nothing else.
Stalled(stats, new, cycles) ==
  /\ new \in CpuStats
  /\ new["cycles"] = stats["cycles"] + cycles
  /\ StallTotal(new) = StallTotal(stats) + cycles
  /\ \A k \in StatNames \ Timing : new[k] = stats[k]

\* A stall in one bucket.
LEMMA StallIsStall ==
  ASSUME NEW stats \in CpuStats, NEW cycles \in Nat, NEW bucket \in Buckets
  PROVE  /\ Stalled(stats, Stall(stats, cycles, bucket), cycles)
         /\ bucket # "mshr" => Stall(stats, cycles, bucket)["mshr"] = stats["mshr"]
<1> DEFINE new == Stall(stats, cycles, bucket)
<1>1. /\ new \in CpuStats
      /\ \A k \in StatNames :
           new[k] = IF k \in {"cycles", bucket} THEN stats[k] + cycles ELSE stats[k]
  BY AddType DEF Stall
<1>2. /\ \A k \in StatNames : stats[k] \in Nat /\ new[k] \in Nat
      /\ {"l1", "l2", "dram", "bandwidth", "mshr", "cycles"} \subseteq StatNames
  BY <1>1 DEF CpuStats, StatNames, Buckets
<1> HIDE DEF new
<1>3. new["cycles"] = stats["cycles"] + cycles
  BY <1>1, <1>2
<1>4. StallTotal(new) = StallTotal(stats) + cycles
  <2>1. CASE bucket = "l1"
    BY <1>1, <1>2, <2>1 DEF StallTotal
  <2>2. CASE bucket = "l2"
    BY <1>1, <1>2, <2>2 DEF StallTotal
  <2>3. CASE bucket = "dram"
    BY <1>1, <1>2, <2>3 DEF StallTotal
  <2>4. CASE bucket = "bandwidth"
    BY <1>1, <1>2, <2>4 DEF StallTotal
  <2>5. CASE bucket = "mshr"
    BY <1>1, <1>2, <2>5 DEF StallTotal
  <2> QED
    BY <2>1, <2>2, <2>3, <2>4, <2>5 DEF Buckets
<1>5. \A k \in StatNames \ Timing : new[k] = stats[k]
  BY <1>1 DEF Timing
<1>6. bucket # "mshr" => new["mshr"] = stats["mshr"]
  BY <1>1, <1>2
<1> QED
  BY <1>1, <1>3, <1>4, <1>5, <1>6 DEF Stalled, new

\* The queued share of a stall is a part of it.
LEMMA QueuedShareIsPart ==
  ASSUME NEW cycles \in Nat, NEW entry \in Mshr
  PROVE  QueuedShare(cycles, entry) \in 0 .. cycles
<1>1. /\ 2 * cycles * entry.queue_delay + entry.latency \in Nat
      /\ 2 * entry.latency \in Nat \ {0}
  BY DEF Mshr
<1>2. (2 * cycles * entry.queue_delay + entry.latency) \div (2 * entry.latency) \in Nat
  BY <1>1
<1> QED
  BY <1>2 DEF QueuedShare

\* A split stall is one stall.
LEMMA SplitIsStall ==
  ASSUME NEW stats \in CpuStats, NEW cycles \in Nat, NEW bucket \in Buckets,
         NEW entry \in Mshr
  PROVE  /\ Stalled(stats, StallSplit(stats, cycles, bucket, entry), cycles)
         /\ bucket # "mshr" =>
              StallSplit(stats, cycles, bucket, entry)["mshr"] = stats["mshr"]
<1> DEFINE queued == QueuedShare(cycles, entry)
           first  == Stall(stats, cycles - queued, bucket)
           both   == Stall(first, queued, "bandwidth")
<1>1. queued \in Nat /\ cycles - queued \in Nat /\ cycles - queued + queued = cycles
  BY QueuedShareIsPart
<1> HIDE DEF queued
<1>2. /\ Stalled(stats, first, cycles - queued)
      /\ bucket # "mshr" => first["mshr"] = stats["mshr"]
  BY <1>1, StallIsStall
<1>3. Stalled(first, both, queued) /\ both["mshr"] = first["mshr"]
  BY <1>1, <1>2, StallIsStall DEF Stalled, Buckets
<1>4. /\ stats["cycles"] \in Nat /\ StallTotal(stats) \in Nat
      /\ \A k \in StatNames : stats[k] \in Nat
  BY StatsAreNumbers
<1>5. Stalled(stats, both, cycles)
  <2> HIDE DEF first, both
  <2> QED
    BY <1>1, <1>2, <1>3, <1>4 DEF Stalled
<1> QED
  BY <1>2, <1>3, <1>5 DEF StallSplit, queued

\* Waiting for an entry is a stall until it frees up.
LEMMA WaitIsStall ==
  ASSUME NEW stats \in CpuStats, NEW bucket \in Buckets, NEW entry \in Mshr
  PROVE  \E cycles \in Nat :
           /\ Stalled(stats, WaitFor(stats, bucket, entry), cycles)
           /\ entry.free_at <= stats["cycles"] => WaitFor(stats, bucket, entry) = stats
<1>1. stats["cycles"] \in Nat /\ entry.free_at \in Nat
  BY DEF CpuStats, StatNames, Mshr
<1>2. CASE entry.free_at > stats["cycles"]
  <2> DEFINE cycles == entry.free_at - stats["cycles"]
  <2>1. cycles \in Nat /\ ~(entry.free_at <= stats["cycles"])
    BY <1>1, <1>2
  <2>2. WaitFor(stats, bucket, entry) = StallSplit(stats, cycles, bucket, entry)
    BY <1>2 DEF WaitFor
  <2> QED
    BY <2>1, <2>2, SplitIsStall
<1>3. CASE ~(entry.free_at > stats["cycles"])
  <2>1. WaitFor(stats, bucket, entry) = stats
    BY <1>3 DEF WaitFor
  <2>2. Stalled(stats, stats, 0)
    BY DEF Stalled, CpuStats, StallTotal, StatNames, Buckets
  <2> QED
    BY <2>1, <2>2
<1> QED
  BY <1>2, <1>3

\* A product grows with its factors.
LEMMA ProductIsMonotone ==
  ASSUME NEW a \in Nat, NEW b \in Nat, NEW c \in Nat, a <= b
  PROVE  a * c <= b * c /\ a * c \in Nat /\ b * c \in Nat
<1> DEFINE e == b - a
<1>1. e \in Nat /\ b = a + e
  OBVIOUS
<1> HIDE DEF e
<1>2. (a + e) * c = a * c + e * c
  BY <1>1
<1>3. a * c \in Nat /\ e * c \in Nat
  BY <1>1
<1> QED
  BY <1>1, <1>2, <1>3

\* A quotient is below what its dividend is below.
LEMMA QuotientIsBelow ==
  ASSUME NEW x \in Nat, NEW d \in Nat \ {0}, NEW n \in Nat, x < (n + 1) * d
  PROVE  x \div d \in Nat /\ x \div d <= n
<1> DEFINE q == x \div d
<1>1. q \in Nat /\ q * d <= x
  OBVIOUS
<1> HIDE DEF q
<1>2. SUFFICES ASSUME n + 1 <= q PROVE FALSE
  BY <1>1 DEF q
<1>3. (n + 1) * d <= q * d
  BY <1>1, <1>2, ProductIsMonotone
<1>4. (n + 1) * d \in Nat /\ q * d \in Nat
  BY <1>1
<1> QED
  BY <1>1, <1>3, <1>4

\* A stall no longer than the miss contains no more queueing than the miss, none if the
\* miss did not queue.
LEMMA QueuedShareIsBelow ==
  ASSUME NEW cycles \in Nat, NEW entry \in Mshr
  PROVE  /\ cycles <= entry.latency => QueuedShare(cycles, entry) <= entry.queue_delay
         /\ entry.queue_delay = 0 => QueuedShare(cycles, entry) = 0
<1> DEFINE q == entry.queue_delay
           l == entry.latency
           x == 2 * cycles * q + l
           rounded == x \div (2 * l)
<1>1. q \in Nat /\ l \in Nat \ {0} /\ 2 * l \in Nat \ {0}
  BY DEF Mshr
<1>2. QueuedShare(cycles, entry) = IF rounded < cycles THEN rounded ELSE cycles
  BY DEF QueuedShare
<1> HIDE DEF q, l
<1>3. 2 * cycles * q = 2 * (cycles * q) /\ cycles * q \in Nat
  BY <1>1
<1>4. x \in Nat
  BY <1>1, <1>3
<1>5. ASSUME cycles <= l PROVE rounded \in Nat /\ rounded <= q
  <2>1. cycles * q <= l * q /\ l * q \in Nat
    BY <1>1, <1>5, ProductIsMonotone
  <2>2. (q + 1) * (2 * l) = 2 * (l * q) + 2 * l
    BY <1>1
  <2>3. x < (q + 1) * (2 * l)
    BY <1>1, <1>3, <2>1, <2>2
  <2> HIDE DEF x
  <2> QED
    BY <1>1, <1>4, <2>3, QuotientIsBelow
<1>6. ASSUME q = 0 PROVE rounded = 0
  <2>1. cycles * 0 = 0
    OBVIOUS
  <2>2. x = l /\ (0 + 1) * (2 * l) = 2 * l
    BY <1>1, <1>3, <1>6, <2>1
  <2>3. x < (0 + 1) * (2 * l)
    BY <1>1, <2>2
  <2> HIDE DEF x
  <2>4. rounded \in Nat /\ rounded <= 0
    BY <1>1, <1>4, <2>3, QuotientIsBelow
  <2> HIDE DEF rounded
  <2> QED
    BY <2>4
<1> HIDE DEF rounded
<1>7. cycles <= l => QueuedShare(cycles, entry) <= q
  BY <1>1, <1>2, <1>5
<1>8. q = 0 => QueuedShare(cycles, entry) = 0
  BY <1>2, <1>6
<1> QED
  BY <1>7, <1>8 DEF q, l

\* What a split stall changes: the cycles, its bucket and the bandwidth bucket, which
\* gets no more than the miss queued.
LEMMA SplitChanges ==
  ASSUME NEW stats \in CpuStats, NEW cycles \in Nat, NEW bucket \in Buckets \ {"bandwidth"},
         NEW entry \in Mshr
  PROVE  LET new == StallSplit(stats, cycles, bucket, entry)
         IN  /\ \A k \in StatNames \ {"cycles", bucket, "bandwidth"} : new[k] = stats[k]
             /\ cycles <= entry.latency => new["bandwidth"] <= stats["bandwidth"] + entry.queue_delay
             /\ entry.queue_delay = 0 => new["bandwidth"] = stats["bandwidth"]
<1> DEFINE queued == QueuedShare(cycles, entry)
           first  == Stall(stats, cycles - queued, bucket)
           new    == Stall(first, queued, "bandwidth")
<1>1. /\ queued \in Nat /\ cycles - queued \in Nat
      /\ cycles <= entry.latency => queued <= entry.queue_delay
      /\ entry.queue_delay = 0 => queued = 0
      /\ entry.queue_delay \in Nat /\ entry.latency \in Nat
  BY QueuedShareIsPart, QueuedShareIsBelow DEF Mshr
<1>2. StallSplit(stats, cycles, bucket, entry) = new
  BY DEF StallSplit
<1> HIDE DEF queued
<1>3. /\ first \in CpuStats
      /\ \A k \in StatNames : first[k] = IF k \in {"cycles", bucket}
                                         THEN stats[k] + (cycles - queued) ELSE stats[k]
  BY <1>1, AddType DEF Stall
<1> HIDE DEF first
<1>4. \A k \in StatNames : new[k] = IF k \in {"cycles", "bandwidth"}
                                    THEN first[k] + queued ELSE first[k]
  BY <1>1, <1>3, AddType DEF Stall
<1> HIDE DEF new
<1>5. "bandwidth" \in StatNames /\ stats["bandwidth"] \in Nat
  BY DEF CpuStats, StatNames, Buckets
<1>6. new["bandwidth"] = stats["bandwidth"] + queued
  BY <1>3, <1>4, <1>5
<1>7. \A k \in StatNames \ {"cycles", bucket, "bandwidth"} : new[k] = stats[k]
  BY <1>3, <1>4
<1> QED
  BY <1>1, <1>2, <1>5, <1>6, <1>7

\* The queue delay that the wait for an entry may still charge.
Pending(entry, cycle) == IF entry.free_at > cycle THEN entry.queue_delay ELSE 0

\* A wait ends when the entry frees up, and what it charges for bandwidth is no longer
\* pending.
LEMMA WaitChanges ==
  ASSUME NEW stats \in CpuStats, NEW bucket \in Buckets \ {"bandwidth"}, NEW entry \in Mshr
  PROVE  LET new == WaitFor(stats, bucket, entry)
         IN  /\ new \in CpuStats
             /\ new["cycles"] = IF entry.free_at > stats["cycles"] THEN entry.free_at
                                                                   ELSE stats["cycles"]
             /\ \A k \in StatNames \ {"cycles", bucket, "bandwidth"} : new[k] = stats[k]
             /\ entry.free_at <= stats["cycles"] + entry.latency =>
                  new["bandwidth"] + Pending(entry, new["cycles"])
                    <= stats["bandwidth"] + Pending(entry, stats["cycles"])
             /\ entry.free_at <= stats["cycles"] => new = stats
             /\ entry.queue_delay = 0 => new["bandwidth"] = stats["bandwidth"]
<1> DEFINE new == WaitFor(stats, bucket, entry)
           cycles == entry.free_at - stats["cycles"]
<1>1. /\ stats["cycles"] \in Nat /\ entry.free_at \in Nat /\ entry.latency \in Nat
      /\ stats["bandwidth"] \in Nat /\ entry.queue_delay \in Nat
  BY DEF CpuStats, StatNames, Buckets, Mshr
<1>2. CASE entry.free_at > stats["cycles"]
  <2>1. cycles \in Nat /\ stats["cycles"] + cycles = entry.free_at
    BY <1>1, <1>2
  <2>2. new = StallSplit(stats, cycles, bucket, entry)
    BY <1>2 DEF WaitFor
  <2>3. Stalled(stats, new, cycles)
    BY <2>1, <2>2, SplitIsStall
  <2>4. /\ \A k \in StatNames \ {"cycles", bucket, "bandwidth"} : new[k] = stats[k]
        /\ cycles <= entry.latency => new["bandwidth"] <= stats["bandwidth"] + entry.queue_delay
        /\ entry.queue_delay = 0 => new["bandwidth"] = stats["bandwidth"]
    BY <2>1, <2>2, SplitChanges
  <2> HIDE DEF new
  <2>5. new \in CpuStats /\ new["cycles"] = entry.free_at /\ new["bandwidth"] \in Nat
    BY <2>1, <2>3 DEF Stalled, CpuStats, StatNames, Buckets
  <2>6. Pending(entry, new["cycles"]) = 0 /\ Pending(entry, stats["cycles"]) = entry.queue_delay
    BY <1>1, <1>2, <2>5 DEF Pending
  <2>7. entry.free_at <= stats["cycles"] + entry.latency => cycles <= entry.latency
    BY <1>1
  <2> QED
    BY <1>1, <1>2, <2>4, <2>5, <2>6, <2>7 DEF new
<1>3. CASE ~(entry.free_at > stats["cycles"])
  <2>1. new = stats
    BY <1>3 DEF WaitFor
  <2>2. stats["bandwidth"] + Pending(entry, stats["cycles"]) \in Nat
    BY <1>1 DEF Pending
  <2> HIDE DEF new
  <2> QED
    BY <1>1, <1>3, <2>1, <2>2 DEF new
<1> QED
  BY <1>2, <1>3

-----------------------------------------------------------------------------
(* drain walks over the outstanding fills.                                  *)

\* The statistics after the fill that completes n-th, given those after the earlier ones.
TailStep(cpu, order, after, n) ==
  IF n = 0 THEN cpu.stats
  ELSE WaitFor(after[n-1], cpu.mshrs[order[n]].bucket, cpu.mshrs[order[n]])

\* The walk over the fills is well defined: for every number of them there is a
\* function that steps from each to the next.
LEMMA TailExists ==
  ASSUME NEW cpu, NEW order
  PROVE  \E after : after = [n \in 0 .. Mshrs |-> TailStep(cpu, order, after, n)]
<1> DEFINE Walks(f, k) == f = [n \in 0 .. k |-> TailStep(cpu, order, f, n)]
           Without == {k \in Nat : ~\E f : Walks(f, k)}
<1>1. SUFFICES Without = {}
  BY CpuAssumption
<1>2. SUFFICES ASSUME Without # {} PROVE FALSE
  OBVIOUS
<1> DEFINE k == Min(Without)
<1>3. k \in Without /\ \A x \in Without : k <= x
  BY <1>2, MinIsLeast
<1> HIDE DEF k
<1>4. k \in Nat /\ ~\E f : Walks(f, k)
  BY <1>3
<1>5. CASE k = 0
  <2> DEFINE f == [n \in 0 .. k |-> cpu.stats]
  <2>1. \A n \in 0 .. k : TailStep(cpu, order, f, n) = cpu.stats
    BY <1>5 DEF TailStep
  <2>2. Walks(f, k)
    BY <2>1
  <2> QED
    BY <1>4, <2>2
<1>6. CASE k # 0
  <2>1. k-1 \in Nat /\ ~(k <= k-1)
    BY <1>4, <1>6
  <2>2. PICK f : Walks(f, k-1)
    BY <1>3, <2>1
  <2> DEFINE g == [n \in 0 .. k |-> IF n = k THEN TailStep(cpu, order, f, k) ELSE f[n]]
  <2>3. ASSUME NEW n \in 0 .. k PROVE g[n] = TailStep(cpu, order, g, n)
    <3>1. \A m \in 0 .. k-1 : m # k /\ m \in 0 .. k /\ g[m] = f[m]
      BY <1>4
    <3>2. n # 0 => n-1 \in 0 .. k-1
      BY <1>4
    <3>3. TailStep(cpu, order, g, n) = TailStep(cpu, order, f, n)
      BY <3>1, <3>2 DEF TailStep
    <3>4. CASE n = k
      BY <3>3, <3>4
    <3>5. CASE n # k
      <4>1. n \in 0 .. k-1
        BY <1>4, <3>5
      <4>2. f[n] = TailStep(cpu, order, f, n)
        BY <2>2, <4>1
      <4> QED
        BY <3>1, <3>3, <4>1, <4>2
    <3> QED
      BY <3>4, <3>5
  <2>4. Walks(g, k)
    BY <2>3
  <2> QED
    BY <1>4, <2>4
<1> QED
  BY <1>5, <1>6

\* What drain does to the counters is one stall; none when every fill has completed.
LEMMA TailIsStall ==
  ASSUME NEW cpu \in CpuState, NEW order \in [1 .. Mshrs -> Slots]
  PROVE  \E cycles \in Nat :
           /\ Stalled(cpu.stats, TailStats(cpu, order), cycles)
           /\ (\A i \in Slots : cpu.mshrs[i].free_at <= Cycles(cpu))
                => TailStats(cpu, order) = cpu.stats
<1> DEFINE after == CHOOSE f : f = [n \in 0 .. Mshrs |-> TailStep(cpu, order, f, n)]
           Completed == \A i \in Slots : cpu.mshrs[i].free_at <= Cycles(cpu)
           Tail(n) == \E cycles \in Nat : /\ Stalled(cpu.stats, after[n], cycles)
                                          /\ Completed => after[n] = cpu.stats
           Fails == {n \in 0 .. Mshrs : ~Tail(n)}
<1>1. TailStats(cpu, order) = after[Mshrs]
  BY DEF TailStats, TailStep
<1>2. after = [n \in 0 .. Mshrs |-> TailStep(cpu, order, after, n)]
  BY TailExists
<1> HIDE DEF after
<1>3. \A n \in 0 .. Mshrs : after[n] = TailStep(cpu, order, after, n)
  BY <1>2
<1>4. SUFFICES ASSUME Fails # {} PROVE FALSE
  BY <1>1, CpuAssumption
<1> DEFINE k == Min(Fails)
<1>5. k \in Fails /\ \A x \in Fails : k <= x
  <2>1. Fails \in SUBSET Nat
    BY CpuAssumption
  <2> HIDE DEF Fails
  <2> QED
    BY <1>4, <2>1, MinIsLeast
<1> HIDE DEF k
<1>6. k \in 0 .. Mshrs /\ ~Tail(k) /\ Mshrs \in Nat
  BY <1>5, CpuAssumption
<1>7. cpu.stats \in CpuStats /\ \A i \in Slots : cpu.mshrs[i] \in Mshr
  BY DEF CpuState
<1>8. CASE k = 0
  <2>1. after[k] = cpu.stats
    BY <1>3, <1>6, <1>8 DEF TailStep
  <2>2. cpu.stats["cycles"] \in Nat /\ StallTotal(cpu.stats) \in Nat
    BY <1>7, StatsAreNumbers
  <2>3. Stalled(cpu.stats, cpu.stats, 0)
    BY <1>7, <2>2 DEF Stalled
  <2> QED
    BY <1>6, <2>1, <2>3
<1>9. CASE k # 0
  <2> DEFINE entry == cpu.mshrs[order[k]]
             before == after[k-1]
  <2>1. k-1 \in 0 .. Mshrs /\ ~(k <= k-1) /\ k \in 1 .. Mshrs
    BY <1>6, <1>9
  <2>2. Tail(k-1)
    BY <1>5, <2>1
  <2>3. PICK c \in Nat : Stalled(cpu.stats, before, c) /\ (Completed => before = cpu.stats)
    BY <2>2
  <2>4. entry \in Mshr /\ entry.bucket \in Buckets
    BY <1>7, <2>1 DEF Mshr, Buckets
  <2>5. after[k] = WaitFor(before, entry.bucket, entry)
    BY <1>3, <1>6, <1>9 DEF TailStep
  <2>6. Completed => entry.free_at <= cpu.stats["cycles"]
    BY <2>1 DEF Cycles
  <2> HIDE DEF entry, before, Completed
  <2>7. PICK d \in Nat : /\ Stalled(before, after[k], d)
                         /\ entry.free_at <= before["cycles"] => after[k] = before
    BY <2>3, <2>4, <2>5, WaitIsStall DEF Stalled
  <2>8. Stalled(cpu.stats, after[k], c + d)
    <3>1. /\ cpu.stats["cycles"] \in Nat /\ StallTotal(cpu.stats) \in Nat
          /\ \A i \in StatNames : cpu.stats[i] \in Nat
      BY <1>7, StatsAreNumbers
    <3>2. /\ before["cycles"] = cpu.stats["cycles"] + c
          /\ StallTotal(before) = StallTotal(cpu.stats) + c
          /\ after[k]["cycles"] = before["cycles"] + d
          /\ StallTotal(after[k]) = StallTotal(before) + d
      BY <2>3, <2>7 DEF Stalled
    <3>3. /\ after[k]["cycles"] = cpu.stats["cycles"] + (c + d)
          /\ StallTotal(after[k]) = StallTotal(cpu.stats) + (c + d)
      BY <3>1, <3>2
    <3>4. \A i \in StatNames \ Timing : after[k][i] = cpu.stats[i]
      BY <2>3, <2>7 DEF Stalled
    <3> QED
      BY <2>7, <3>3, <3>4 DEF Stalled
  <2>9. Completed => after[k] = cpu.stats
    BY <2>3, <2>6, <2>7
  <2>10. c + d \in Nat
    OBVIOUS
  <2> QED
    BY <1>6, <2>8, <2>9, <2>10 DEF Completed
<1> QED
  BY <1>8, <1>9

\* The queue delay that the entries of a heap may still charge.
PendingTotal(heap, cycle) == Sum([i \in Slots |-> Pending(heap[i], cycle)], Slots)

\* There are as many slots as MSHRs (Cpu::Cpu, cpu.cpp:14-20), at least one.
LEMMA SlotsAreFinite == IsFiniteSet(Slots) /\ Cardinality(Slots) = Mshrs /\ 0 \in Slots
  BY CpuAssumption, FS_Interval DEF Slots

\* What the entries may still charge is a number of cycles.
LEMMA PendingIsNumber ==
  ASSUME NEW heap \in [Slots -> Mshr], NEW cycle \in Nat
  PROVE  PendingTotal(heap, cycle) \in Nat
<1> DEFINE f == [i \in Slots |-> Pending(heap[i], cycle)]
<1>1. \A i \in Slots : f[i] \in Nat
  BY DEF Pending, Mshr
<1> HIDE DEF f
<1>2. Sum(f, Slots) \in Nat
  BY <1>1, SlotsAreFinite, SumPick
<1> QED
  BY <1>2 DEF PendingTotal, f

\* When only one entry changes, and time passes, no other entry has more pending.
LEMMA PendingOfOne ==
  ASSUME NEW heap \in [Slots -> Mshr], NEW new \in [Slots -> Mshr], NEW i \in Slots,
         \A j \in Slots \ {i} : new[j] = heap[j],
         NEW before \in Nat, NEW after \in Nat, before <= after
  PROVE  PendingTotal(new, after) + Pending(heap[i], before)
           <= PendingTotal(heap, before) + Pending(new[i], after)
<1> DEFINE f == [j \in Slots |-> Pending(heap[j], before)]
           g == [j \in Slots |-> Pending(new[j], after)]
           rest == Slots \ {i}
<1>1. \A j \in Slots : f[j] \in Nat /\ g[j] \in Nat
  BY DEF Pending, Mshr
<1>2. \A j \in rest : g[j] <= f[j]
  <2>1. \A j \in Slots : heap[j].free_at \in Nat /\ heap[j].queue_delay \in Nat
    BY DEF Mshr
  <2> QED
    BY <2>1 DEF Pending
<1>3. f[i] = Pending(heap[i], before) /\ g[i] = Pending(new[i], after)
  OBVIOUS
<1>4. PendingTotal(heap, before) = Sum(f, Slots) /\ PendingTotal(new, after) = Sum(g, Slots)
  BY DEF PendingTotal
<1> HIDE DEF f, g
<1>5. /\ Sum(f, Slots) \in Nat /\ Sum(f, rest) \in Nat /\ Sum(f, Slots) = f[i] + Sum(f, rest)
      /\ Sum(g, Slots) \in Nat /\ Sum(g, rest) \in Nat /\ Sum(g, Slots) = g[i] + Sum(g, rest)
  BY <1>1, SlotsAreFinite, SumPick, ZenonT(40)
<1>6. Sum(g, rest) <= Sum(f, rest)
  <2>1. IsFiniteSet(rest)
    BY SlotsAreFinite, FS_RemoveElement
  <2> QED
    BY <1>1, <1>2, <2>1, SumIsMonotone
<1>7. f[i] \in Nat /\ g[i] \in Nat
  BY <1>1
<1> QED
  BY <1>3, <1>4, <1>5, <1>6, <1>7

\* A completion order meets every MSHR.
LEMMA OrderIsComplete ==
  ASSUME NEW mshrs, NEW order \in CompletionOrders(mshrs), NEW i \in Slots
  PROVE  \E n \in 1 .. Mshrs : order[n] = i
<1>1. /\ order \in [1 .. Mshrs -> Slots]
      /\ \A m, n \in 1 .. Mshrs : m < n => order[m] # order[n]
  BY DEF CompletionOrders
<1>2. \A m, n \in 1 .. Mshrs : order[m] = order[n] => m = n
  BY <1>1, CpuAssumption
<1>3. order \in Injection(1 .. Mshrs, Slots)
  BY <1>1, <1>2 DEF Injection, IsInjective
<1>4. Cardinality(1 .. Mshrs) = Cardinality(Slots)
  BY SlotsAreFinite, CpuAssumption, FS_Interval
<1>5. order \in Surjection(1 .. Mshrs, Slots)
  BY <1>3, <1>4, SlotsAreFinite, FS_Injection
<1> QED
  BY <1>5 DEF Surjection

\* No wait of the entry is longer than its miss.
WaitsForOwnMiss(heap, cycle) == \A i \in Slots : heap[i].free_at <= cycle + heap[i].latency

\* An outstanding fill of a level, or one that queued.
Outstanding(c, i) == i \in Slots /\ c.mshrs[i].free_at > Cycles(c)

\* After drain's walk every fill has completed, and the last to complete ends it; what
\* was pending for bandwidth is what at most was charged; and only the buckets of
\* outstanding fills were charged.
LEMMA TailChanges ==
  ASSUME NEW c \in CpuState, NEW order \in CompletionOrders(c.mshrs)
  PROVE  LET tail == TailStats(c, order)
         IN  /\ tail \in CpuStats
             /\ \A i \in Slots : c.mshrs[i].free_at <= tail["cycles"]
             /\ \A last \in Nat : /\ Cycles(c) <= last
                                  /\ \A i \in Slots : c.mshrs[i].free_at <= last
                                  => tail["cycles"] <= last
             /\ WaitsForOwnMiss(c.mshrs, Cycles(c)) =>
                  tail["bandwidth"] <= c.stats["bandwidth"] + PendingTotal(c.mshrs, Cycles(c))
             /\ \A k \in StatNames \ {"cycles", "l2", "dram", "bandwidth"} : tail[k] = c.stats[k]
             /\ \A k \in {"l2", "dram"} :
                  tail[k] # c.stats[k] => \E i \in Slots : Outstanding(c, i) /\ c.mshrs[i].bucket = k
             /\ tail["bandwidth"] # c.stats["bandwidth"] =>
                  \E i \in Slots : Outstanding(c, i) /\ c.mshrs[i].queue_delay > 0
<1> DEFINE after == CHOOSE f : f = [n \in 0 .. Mshrs |-> TailStep(c, order, f, n)]
           heap == c.mshrs
           start == Cycles(c)
           Owed(k) == \E i \in Slots : Outstanding(c, i) /\ heap[i].bucket = k
           Queued == \E i \in Slots : Outstanding(c, i) /\ heap[i].queue_delay > 0
           Walked(n) ==
             /\ after[n] \in CpuStats /\ start <= after[n]["cycles"]
             /\ \A m \in 1 .. n : heap[order[m]].free_at <= after[n]["cycles"]
             /\ \A last \in Nat : start <= last /\ (\A i \in Slots : heap[i].free_at <= last)
                                    => after[n]["cycles"] <= last
             /\ WaitsForOwnMiss(heap, start) =>
                  after[n]["bandwidth"] + PendingTotal(heap, after[n]["cycles"])
                    <= c.stats["bandwidth"] + PendingTotal(heap, start)
             /\ \A k \in StatNames \ {"cycles", "l2", "dram", "bandwidth"} :
                  after[n][k] = c.stats[k]
             /\ \A k \in {"l2", "dram"} : after[n][k] # c.stats[k] => Owed(k)
             /\ after[n]["bandwidth"] # c.stats["bandwidth"] => Queued
           Fails == {n \in 0 .. Mshrs : ~Walked(n)}
<1>1. TailStats(c, order) = after[Mshrs]
  BY DEF TailStats, TailStep
<1>2. after = [n \in 0 .. Mshrs |-> TailStep(c, order, after, n)]
  BY TailExists
<1> HIDE DEF after
<1>3. \A n \in 0 .. Mshrs : after[n] = TailStep(c, order, after, n)
  BY <1>2
<1>4. /\ c.stats \in CpuStats /\ heap \in [Slots -> Mshr] /\ start \in Nat
      /\ c.stats["bandwidth"] \in Nat /\ order \in [1 .. Mshrs -> Slots] /\ start = c.stats["cycles"]
      /\ \A i \in Slots : heap[i].free_at \in Nat /\ heap[i].latency \in Nat
  BY DEF CpuState, CpuStats, StatNames, Buckets, CompletionOrders, Cycles, Mshr
<1>5. PendingTotal(heap, start) \in Nat
  BY <1>4, PendingIsNumber
<1>6. Fails = {}
  <2>1. SUFFICES ASSUME Fails # {} PROVE FALSE
    OBVIOUS
  <2> DEFINE n == Min(Fails)
  <2>2. n \in Fails /\ \A x \in Fails : n <= x
    <3>1. Fails \in SUBSET Nat
      BY CpuAssumption
    <3> HIDE DEF Fails
    <3> QED
      BY <2>1, <3>1, MinIsLeast
  <2> HIDE DEF n
  <2>3. n \in 0 .. Mshrs /\ ~Walked(n) /\ Mshrs \in Nat
    BY <2>2, CpuAssumption
  <2>4. CASE n = 0
    <3>1. after[0] = c.stats
      BY <1>3, <2>3, <2>4 DEF TailStep
    <3>2. \A m \in 1 .. 0 : FALSE
      OBVIOUS
    <3>3. Walked(0)
      BY <1>4, <1>5, <3>1, <3>2
    <3> QED
      BY <2>3, <2>4, <3>3
  <2>5. CASE n # 0
    <3> DEFINE i == order[n]
               entry == heap[i]
               was == after[n-1]
               is == after[n]
    <3>1. n-1 \in 0 .. Mshrs /\ ~(n <= n-1) /\ n \in 1 .. Mshrs
      BY <2>3, <2>5
    <3>2. Walked(n-1)
      BY <2>2, <3>1
    <3>3. i \in Slots /\ entry \in Mshr /\ entry.bucket \in {"l2", "dram"}
      BY <1>4, <3>1 DEF Mshr
    <3>4. is = WaitFor(was, entry.bucket, entry)
      BY <1>3, <2>3, <2>5 DEF TailStep
    <3>5. /\ is \in CpuStats
          /\ is["cycles"] = IF entry.free_at > was["cycles"] THEN entry.free_at ELSE was["cycles"]
          /\ \A k \in StatNames \ {"cycles", entry.bucket, "bandwidth"} : is[k] = was[k]
          /\ entry.free_at <= was["cycles"] + entry.latency =>
               is["bandwidth"] + Pending(entry, is["cycles"])
                 <= was["bandwidth"] + Pending(entry, was["cycles"])
          /\ entry.free_at <= was["cycles"] => is = was
          /\ entry.queue_delay = 0 => is["bandwidth"] = was["bandwidth"]
      BY <3>2, <3>3, <3>4, WaitChanges, SMTT(30) DEF Buckets
    <3>6. /\ was["cycles"] \in Nat /\ is["cycles"] \in Nat
          /\ was["bandwidth"] \in Nat /\ is["bandwidth"] \in Nat
          /\ entry.free_at \in Nat /\ entry.latency \in Nat /\ entry.queue_delay \in Nat
          /\ Pending(entry, was["cycles"]) \in Nat
      BY <3>2, <3>3, <3>5 DEF CpuStats, StatNames, Buckets, Mshr, Pending
    <3>7. start <= was["cycles"] /\ was["cycles"] <= is["cycles"] /\ entry.free_at <= is["cycles"]
      BY <3>2, <3>5, <3>6
    <3>8. \A m \in 1 .. n : heap[order[m]].free_at <= is["cycles"]
      <4>1. ASSUME NEW m \in 1 .. n PROVE heap[order[m]].free_at <= is["cycles"]
        <5>1. CASE m = n
          BY <3>7, <5>1
        <5>2. CASE m # n
          <6>1. m \in 1 .. n-1 /\ m \in 1 .. Mshrs
            BY <2>3, <5>2
          <6>2. heap[order[m]].free_at <= was["cycles"] /\ heap[order[m]].free_at \in Nat
            BY <1>4, <3>2, <6>1
          <6> QED
            BY <3>6, <3>7, <6>2
        <5> QED
          BY <5>1, <5>2
      <4> QED
        BY <4>1
    <3>9. \A last \in Nat : start <= last /\ (\A j \in Slots : heap[j].free_at <= last)
                              => is["cycles"] <= last
      BY <3>2, <3>3, <3>5
    <3>10. ASSUME WaitsForOwnMiss(heap, start)
           PROVE  is["bandwidth"] + PendingTotal(heap, is["cycles"])
                    <= c.stats["bandwidth"] + PendingTotal(heap, start)
      <4>1. was["bandwidth"] + PendingTotal(heap, was["cycles"])
              <= c.stats["bandwidth"] + PendingTotal(heap, start)
        BY <3>2, <3>10
      <4>2. entry.free_at <= was["cycles"] + entry.latency
        <5>1. entry.free_at <= start + entry.latency
          BY <3>3, <3>10 DEF WaitsForOwnMiss
        <5> QED
          BY <1>4, <3>6, <3>7, <5>1, SMTT(30)
      <4>3. is["bandwidth"] + Pending(heap[i], is["cycles"])
              <= was["bandwidth"] + Pending(heap[i], was["cycles"])
        BY <3>5, <3>6, <4>2
      <4>4. PendingTotal(heap, is["cycles"]) + Pending(heap[i], was["cycles"])
              <= PendingTotal(heap, was["cycles"]) + Pending(heap[i], is["cycles"])
        <5> HIDE DEF i, was, is, heap
        <5> QED
          BY <1>4, <3>3, <3>6, <3>7, PendingOfOne
      <4>5. /\ PendingTotal(heap, was["cycles"]) \in Nat /\ PendingTotal(heap, is["cycles"]) \in Nat
            /\ PendingTotal(heap, start) \in Nat /\ c.stats["bandwidth"] \in Nat
        BY <1>4, <1>5, <3>6, PendingIsNumber
      <4>6. /\ Pending(heap[i], was["cycles"]) \in Nat /\ Pending(heap[i], is["cycles"]) \in Nat
            /\ was["bandwidth"] \in Nat /\ is["bandwidth"] \in Nat
        BY <3>6 DEF Pending
      <4> HIDE DEF was, is, heap, start, i
      <4> QED
        BY <4>1, <4>3, <4>4, <4>5, <4>6
    <3>11. \A k \in StatNames \ {"cycles", "l2", "dram", "bandwidth"} : is[k] = c.stats[k]
      BY <3>2, <3>3, <3>5
    <3>12. is # was => Outstanding(c, i)
      <4>1. is # was => entry.free_at > start
        BY <1>4, <3>5, <3>6, <3>7
      <4> QED
        BY <3>3, <4>1 DEF Outstanding
    <3>13. ASSUME NEW k \in {"l2", "dram"}, is[k] # c.stats[k] PROVE Owed(k)
      <4>1. CASE is[k] = was[k]
        BY <3>2, <3>13, <4>1
      <4>2. CASE is[k] # was[k]
        <5>1. k = entry.bucket
          BY <3>5, <4>2 DEF StatNames, Buckets
        <5> QED
          BY <3>3, <3>12, <4>2, <5>1
      <4> QED
        BY <4>1, <4>2
    <3>14. ASSUME is["bandwidth"] # c.stats["bandwidth"] PROVE Queued
      <4>1. CASE is["bandwidth"] = was["bandwidth"]
        BY <3>2, <3>14, <4>1
      <4>2. CASE is["bandwidth"] # was["bandwidth"]
        <5>1. entry.queue_delay > 0
          BY <3>5, <3>6, <4>2
        <5> QED
          BY <3>3, <3>12, <4>2, <5>1
      <4> QED
        BY <4>1, <4>2
    <3>15. start <= is["cycles"]
      BY <1>4, <3>6, <3>7
    <3>16. Walked(n)
      BY <3>5, <3>8, <3>9, <3>10, <3>11, <3>13, <3>14, <3>15
    <3> QED
      BY <2>3, <3>16
  <2> QED
    BY <2>4, <2>5
<1>7. Walked(Mshrs)
  BY <1>6, CpuAssumption
<1> DEFINE tail == after[Mshrs]
<1>8. \A i \in Slots : heap[i].free_at <= tail["cycles"]
  BY <1>7, OrderIsComplete
<1>9. WaitsForOwnMiss(heap, start) =>
        tail["bandwidth"] <= c.stats["bandwidth"] + PendingTotal(heap, start)
  <2>1. /\ tail["bandwidth"] \in Nat /\ tail["cycles"] \in Nat
        /\ start <= tail["cycles"]
    BY <1>7 DEF CpuStats, StatNames, Buckets
  <2>2. PendingTotal(heap, tail["cycles"]) \in Nat
    BY <1>4, <2>1, PendingIsNumber
  <2> QED
    BY <1>4, <1>5, <1>7, <2>1, <2>2
<1> QED
  BY <1>1, <1>7, <1>8, <1>9

-----------------------------------------------------------------------------
(* sift_down.                                                               *)

HeapOrdered(heap) ==
  \A i \in Slots \ {0} : heap[Parent(i)].free_at <= heap[i].free_at

\* A heap in which anything may have been put at the root.
OrderedBelowRoot(heap) ==
  \A i \in Slots \ {0} : Parent(i) # 0 => heap[Parent(i)].free_at <= heap[i].free_at

\* The two slots below a slot.
LEMMA ParentIsAbove ==
  ASSUME NEW i \in Slots \ {0}
  PROVE  /\ Parent(i) \in Slots /\ Parent(i) < i
         /\ i = 2 * Parent(i) + 1 \/ i = 2 * Parent(i) + 2
  BY CpuAssumption DEF Slots, Parent

\* The other way round.
LEMMA ChildIsBelow ==
  ASSUME NEW i \in Slots, NEW c \in {2 * i + 1, 2 * i + 2}, c < Mshrs
  PROVE  c \in Slots \ {0} /\ c # i /\ Parent(c) = i
  BY CpuAssumption DEF Slots, Parent

\* The new root entry stops at a slot when no child frees up before it, and
\* otherwise sinks towards the smaller child.
LEMMA SinksToSmaller ==
  ASSUME NEW heap \in [Slots -> Mshr], NEW i \in Slots
  PROVE  LET to == SinksTo(heap, i)
         IN  \/ /\ to = i
                /\ \A c \in Slots \ {0} :
                     Parent(c) = i => heap[0].free_at <= heap[c].free_at
             \/ /\ to \in Slots \ {0} /\ to # i /\ Parent(to) = i
                /\ heap[to].free_at < heap[0].free_at
                /\ \A c \in Slots \ {0} :
                     Parent(c) = i => heap[to].free_at <= heap[c].free_at
<1> DEFINE free(j)  == IF j = i THEN heap[0].free_at ELSE heap[j].free_at
           left     == 2 * i + 1
           right    == 2 * i + 2
           smaller  == IF left < Mshrs /\ free(left) < free(i) THEN left ELSE i
           to       == IF right < Mshrs /\ free(right) < free(smaller) THEN right ELSE smaller
<1>1. SinksTo(heap, i) = to
  BY DEF SinksTo
<1>2. /\ 0 \in Slots
      /\ \A j \in Slots : heap[j].free_at \in Int
  BY CpuAssumption DEF Slots, Mshr
<1>3. /\ left < Mshrs => left \in Slots \ {0} /\ left # i /\ Parent(left) = i
      /\ right < Mshrs => right \in Slots \ {0} /\ right # i /\ Parent(right) = i
  BY ChildIsBelow
<1>4. \A c \in Slots \ {0} :
        Parent(c) = i => (c = left /\ left < Mshrs) \/ (c = right /\ right < Mshrs)
  <2>1. \A c \in Slots : c < Mshrs
    BY CpuAssumption DEF Slots
  <2> QED
    BY <2>1, ParentIsAbove
<1>5. /\ free(i) = heap[0].free_at
      /\ left < Mshrs => free(left) = heap[left].free_at
      /\ right < Mshrs => free(right) = heap[right].free_at
  BY <1>3
<1> HIDE DEF free, left, right
<1>6. CASE right < Mshrs /\ free(right) < free(smaller)
  BY <1>1, <1>2, <1>3, <1>4, <1>5, <1>6
<1>7. CASE ~(right < Mshrs /\ free(right) < free(smaller))
  <2>1. to = smaller
    BY <1>7
  <2>2. CASE left < Mshrs /\ free(left) < free(i)
    BY <1>1, <1>2, <1>3, <1>4, <1>5, <1>7, <2>1, <2>2
  <2>3. CASE ~(left < Mshrs /\ free(left) < free(i))
    BY <1>1, <1>2, <1>3, <1>4, <1>5, <1>7, <2>1, <2>3
  <2> QED
    BY <2>2, <2>3
<1> QED
  BY <1>6, <1>7

\* Whether the new root entry reaches slot i, given whether it reaches those above.
PathStep(heap, onPath, i) ==
  IF i = 0 THEN TRUE ELSE onPath[Parent(i)] /\ SinksTo(heap, Parent(i)) = i

\* The path of the new root entry is well defined.
LEMMA PathExists ==
  ASSUME NEW heap
  PROVE  \E onPath : onPath = [i \in Slots |-> PathStep(heap, onPath, i)]
<1> DEFINE Walks(f, k) == f = [i \in 0 .. k-1 |-> PathStep(heap, f, i)]
           Without == {k \in Nat : ~\E f : Walks(f, k)}
<1>1. SUFFICES Without = {}
  BY CpuAssumption DEF Slots
<1>2. SUFFICES ASSUME Without # {} PROVE FALSE
  OBVIOUS
<1> DEFINE k == Min(Without)
<1>3. k \in Without /\ \A x \in Without : k <= x
  BY <1>2, MinIsLeast
<1> HIDE DEF k
<1>4. k \in Nat /\ ~\E f : Walks(f, k)
  BY <1>3
<1>5. CASE k = 0
  <2> DEFINE f == [i \in 0 .. k-1 |-> TRUE]
  <2>1. 0 .. k-1 = {}
    BY <1>5
  <2>2. Walks(f, k)
    BY <2>1
  <2> QED
    BY <1>4, <2>2
<1>6. CASE k # 0
  <2>1. k-1 \in Nat /\ ~(k <= k-1)
    BY <1>4, <1>6
  <2>2. PICK f : Walks(f, k-1)
    BY <1>3, <2>1
  <2> DEFINE g == [i \in 0 .. k-1 |-> IF i = k-1 THEN PathStep(heap, f, k-1) ELSE f[i]]
  <2>3. ASSUME NEW i \in 0 .. k-1 PROVE g[i] = PathStep(heap, g, i)
    <3>1. \A j \in 0 .. k-2 : j # k-1 /\ j \in 0 .. k-1 /\ g[j] = f[j]
      BY <1>4
    <3>2. i # 0 => Parent(i) \in 0 .. k-2
      BY <1>4 DEF Parent
    <3>3. PathStep(heap, g, i) = PathStep(heap, f, i)
      BY <3>1, <3>2 DEF PathStep
    <3>4. CASE i = k-1
      BY <3>3, <3>4
    <3>5. CASE i # k-1
      <4>1. i \in 0 .. k-2 /\ k-2 = (k-1)-1
        BY <1>4, <3>5
      <4>2. f[i] = PathStep(heap, f, i)
        BY <2>2, <4>1
      <4> QED
        BY <3>1, <3>3, <4>1, <4>2
    <3> QED
      BY <3>4, <3>5
  <2>4. Walks(g, k)
    BY <2>3
  <2> QED
    BY <1>4, <2>4
<1> QED
  BY <1>5, <1>6

\* sift_down moves entries along one path and restores the order of the heap.
LEMMA SiftDownRestores ==
  ASSUME NEW heap \in [Slots -> Mshr], OrderedBelowRoot(heap)
  PROVE  /\ HeapOrdered(SiftDown(heap))
         /\ SiftDown(heap) \in [Slots -> Mshr]
         /\ \A i \in Slots : \E j \in Slots : SiftDown(heap)[i] = heap[j]
<1> DEFINE onPath == CHOOSE f : f = [i \in Slots |-> PathStep(heap, f, i)]
           to(i) == SinksTo(heap, i)
           new == [i \in Slots |-> IF ~onPath[i] THEN heap[i]
                                   ELSE IF to(i) = i THEN heap[0] ELSE heap[to(i)]]
<1>1. SiftDown(heap) = new
  BY DEF SiftDown, PathStep
<1>2. onPath = [i \in Slots |-> PathStep(heap, onPath, i)]
  BY PathExists
<1> HIDE DEF onPath
<1>3. 0 \in Slots /\ \A j \in Slots : heap[j].free_at \in Int
  BY CpuAssumption DEF Slots, Mshr
<1>4. /\ onPath[0]
      /\ \A i \in Slots \ {0} : onPath[i] <=> onPath[Parent(i)] /\ to(Parent(i)) = i
  BY <1>2, <1>3 DEF PathStep
<1>5. \A i \in Slots :
        \/ /\ to(i) = i
           /\ \A c \in Slots \ {0} : Parent(c) = i => heap[0].free_at <= heap[c].free_at
        \/ /\ to(i) \in Slots \ {0} /\ to(i) # i /\ Parent(to(i)) = i
           /\ heap[to(i)].free_at < heap[0].free_at
           /\ \A c \in Slots \ {0} : Parent(c) = i => heap[to(i)].free_at <= heap[c].free_at
  BY SinksToSmaller
<1> HIDE DEF to
<1>6. \A i \in Slots : \E j \in Slots : new[i] = heap[j]
  BY <1>3, <1>5
<1>7. new \in [Slots -> Mshr]
  BY <1>6
<1>8. ASSUME NEW i \in Slots \ {0} PROVE new[Parent(i)].free_at <= new[i].free_at
  <2> DEFINE p == Parent(i)
  <2>1. p \in Slots
    BY ParentIsAbove
  <2> HIDE DEF p
  <2>2. CASE ~onPath[p]
    <3>1. p # 0 /\ ~onPath[i]
      BY <1>4, <2>2 DEF p
    <3>2. new[p] = heap[p] /\ new[i] = heap[i]
      BY <2>1, <2>2, <3>1
    <3> QED
      BY <3>1, <3>2 DEF OrderedBelowRoot, p
  <2>3. CASE onPath[p] /\ to(p) = p
    <3>1. p # i
      BY CpuAssumption, ParentIsAbove DEF p, Slots
    <3>2. ~onPath[i]
      BY <1>4, <2>3, <3>1 DEF p
    <3>3. new[p] = heap[0] /\ new[i] = heap[i]
      BY <2>1, <2>3, <3>2
    <3>4. heap[0].free_at <= heap[i].free_at
      BY <1>5, <2>1, <2>3 DEF p
    <3> QED
      BY <3>3, <3>4 DEF p
  <2>4. CASE onPath[p] /\ to(p) # p /\ to(p) # i
    <3>1. ~onPath[i]
      BY <1>4, <2>4 DEF p
    <3>2. new[p] = heap[to(p)] /\ new[i] = heap[i]
      BY <2>1, <2>4, <3>1
    <3>3. heap[to(p)].free_at <= heap[i].free_at
      BY <1>5, <2>1, <2>4 DEF p
    <3> QED
      BY <3>2, <3>3 DEF p
  <2>5. CASE onPath[p] /\ to(p) # p /\ to(p) = i
    <3>1. onPath[i] /\ i # 0
      BY <1>4, <2>5 DEF p
    <3>2. new[p] = heap[i]
      BY <2>1, <2>5
    <3>3. heap[i].free_at < heap[0].free_at
      BY <1>5, <2>1, <2>5
    <3>4. CASE to(i) = i
      <4>1. new[i] = heap[0]
        BY <3>1, <3>4
      <4> QED
        BY <1>3, <3>2, <3>3, <4>1 DEF p
    <3>5. CASE to(i) # i
      <4>1. new[i] = heap[to(i)] /\ to(i) \in Slots \ {0} /\ Parent(to(i)) = i
        BY <1>5, <3>1, <3>5
      <4>2. heap[i].free_at <= heap[to(i)].free_at
        BY <3>1, <4>1 DEF OrderedBelowRoot
      <4> QED
        BY <3>2, <4>1, <4>2 DEF p
    <3> QED
      BY <3>4, <3>5
  <2> QED
    BY <2>2, <2>3, <2>4, <2>5 DEF p
<1> QED
  BY <1>1, <1>6, <1>7, <1>8 DEF HeapOrdered

\* Of two slots, the earlier has no later parent.
LEMMA ParentIsMonotone ==
  ASSUME NEW i \in Slots \ {0}, NEW j \in Slots \ {0}, i <= j
  PROVE  Parent(i) <= Parent(j)
  BY CpuAssumption DEF Slots, Parent

\* sift_down loses no entry and holds none twice.
LEMMA SiftDownPermutes ==
  ASSUME NEW heap \in [Slots -> Mshr]
  PROVE  \E p \in [Slots -> Slots] :
           /\ \A i, j \in Slots : p[i] = p[j] => i = j
           /\ SiftDown(heap) = [i \in Slots |-> heap[p[i]]]
<1> DEFINE onPath == CHOOSE f : f = [i \in Slots |-> PathStep(heap, f, i)]
           to(i) == SinksTo(heap, i)
           p == [i \in Slots |-> IF ~onPath[i] THEN i ELSE IF to(i) = i THEN 0 ELSE to(i)]
<1>1. SiftDown(heap) = [i \in Slots |-> IF ~onPath[i] THEN heap[i]
                                        ELSE IF to(i) = i THEN heap[0] ELSE heap[to(i)]]
  BY DEF SiftDown, PathStep
<1>2. onPath = [i \in Slots |-> PathStep(heap, onPath, i)]
  BY PathExists
<1> HIDE DEF onPath
<1>3. 0 \in Slots /\ Slots \subseteq Nat
  BY CpuAssumption DEF Slots
<1>4. /\ onPath[0]
      /\ \A i \in Slots \ {0} : onPath[i] <=> onPath[Parent(i)] /\ to(Parent(i)) = i
  BY <1>2, <1>3 DEF PathStep
<1>5. \A i \in Slots : \/ to(i) = i
                       \/ to(i) \in Slots \ {0} /\ to(i) # i /\ Parent(to(i)) = i
  BY SinksToSmaller
<1> HIDE DEF to
<1>6. p \in [Slots -> Slots]
  BY <1>3, <1>5
<1>7. SiftDown(heap) = [i \in Slots |-> heap[p[i]]]
  BY <1>1
<1> DEFINE Path == {i \in Slots : onPath[i]}
           Skips == {b \in Path : \E a \in Path : a < b /\ ~(b # 0 /\ a <= Parent(b))}
           Stops == {b \in Path : \E a \in Path : a < b /\ to(a) = a}
<1>8. Skips = {}
  <2>1. SUFFICES ASSUME Skips # {} PROVE FALSE
    OBVIOUS
  <2>2. PICK b \in Skips : \A x \in Skips : b <= x
    <3>1. Skips \in SUBSET Nat
      BY <1>3
    <3> HIDE DEF Skips
    <3> QED
      BY <2>1, <3>1, MinIsLeast
  <2>3. PICK a \in Path : a < b /\ ~(b # 0 /\ a <= Parent(b))
    OBVIOUS
  <2>4. b \in Slots \ {0} /\ a \in Slots \ {0}
    <3>1. ASSUME a = 0 PROVE FALSE
      <4>1. b \in Slots \ {0}
        BY <1>3, <2>3, <3>1
      <4>2. Parent(b) \in Nat
        BY <1>3, <4>1, ParentIsAbove
      <4> QED
        BY <2>3, <3>1, <4>1, <4>2
    <3> QED
      BY <1>3, <2>3, <3>1
  <2>5. /\ Parent(b) \in Path /\ to(Parent(b)) = b /\ Parent(b) < b
        /\ Parent(a) \in Path /\ to(Parent(a)) = a /\ Parent(a) < a
        /\ Parent(b) \in Nat /\ Parent(a) \in Nat /\ a \in Nat /\ b \in Nat
    BY <1>3, <1>4, <2>4, ParentIsAbove
  <2>6. Parent(a) <= Parent(b) /\ Parent(a) # Parent(b)
    BY <2>3, <2>4, <2>5, ParentIsMonotone
  <2>7. a \notin Skips
    BY <2>2, <2>3, <2>5
  <2>8. ~(Parent(b) < a) \/ Parent(b) <= Parent(a)
    BY <2>5, <2>7
  <2> QED
    BY <2>3, <2>4, <2>5, <2>6, <2>8
<1>9. Stops = {}
  <2>1. SUFFICES ASSUME Stops # {} PROVE FALSE
    OBVIOUS
  <2>2. PICK b \in Stops : \A x \in Stops : b <= x
    <3>1. Stops \in SUBSET Nat
      BY <1>3
    <3> HIDE DEF Stops
    <3> QED
      BY <2>1, <3>1, MinIsLeast
  <2>3. PICK a \in Path : a < b /\ to(a) = a
    OBVIOUS
  <2>4. b # 0 /\ a <= Parent(b)
    BY <1>8, <2>3
  <2>5. /\ Parent(b) \in Path /\ to(Parent(b)) = b /\ Parent(b) < b
        /\ Parent(b) \in Nat /\ a \in Nat /\ b \in Nat
    BY <1>3, <1>4, <2>4, ParentIsAbove
  <2>6. a # Parent(b)
    BY <2>3, <2>5
  <2>7. Parent(b) \notin Stops
    BY <2>2, <2>5
  <2> QED
    BY <2>3, <2>4, <2>5, <2>6, <2>7
<1>10. ASSUME NEW i \in Slots, NEW j \in Slots, p[i] = p[j] PROVE i = j
  <2>1. \A k \in Path : to(k) # k => to(k) \in Path
    BY <1>3, <1>4, <1>5
  <2>2. CASE ~onPath[i] \/ ~onPath[j]
    BY <1>3, <1>4, <1>10, <2>1, <2>2
  <2>3. CASE onPath[i] /\ onPath[j] /\ (to(i) # i \/ to(j) # j)
    BY <1>3, <1>5, <1>10, <2>3
  <2>4. CASE onPath[i] /\ onPath[j] /\ to(i) = i /\ to(j) = j
    <3>1. ~(i < j) /\ ~(j < i)
      BY <1>9, <2>4
    <3> QED
      BY <1>3, <3>1
  <2> QED
    BY <2>2, <2>3, <2>4
<1> QED
  BY <1>6, <1>7, <1>10

-----------------------------------------------------------------------------
(* Instructions.                                                            *)

OutcomeOfAccess == [source : {"L1", "L2", "Memory"}, latency : Nat \ {0}, queue_delay : Nat]

\* A CPU with other values for the counters.
Recounted(c, new, debt) == /\ new \in CpuState
                           /\ new.mshrs = c.mshrs
                           /\ new.debt = debt

\* Issue pays whole cycles of the debt; when the word is long enough for the debt
\* with its new part, nothing of it is lost.
LEMMA IssueCorrect ==
  ASSUME NEW c \in CpuState, NEW n \in Nat
  PROVE  LET r == Issue(c, n)
         IN  /\ Recounted(c, r, r.debt)
             /\ \E whole \in Nat :
                  /\ \A k \in StatNames :
                       r.stats[k] = IF k = "instructions" THEN c.stats[k] + n
                                    ELSE IF k \in {"cycles", "compute_cycles"}
                                         THEN c.stats[k] + whole
                                    ELSE c.stats[k]
                  /\ c.debt + n * CpiScaled < WordSize =>
                       whole * FractionOne + r.debt = c.debt + n * CpiScaled
<1> DEFINE sum   == c.debt + n * CpiScaled
           debt  == sum % WordSize
           whole == debt \div FractionOne
           left  == debt - whole * FractionOne
           first == Add(c.stats, n, {"instructions"})
           stats == Add(first, whole, {"cycles", "compute_cycles"})
           r     == Issue(c, n)
<1>1. r = [stats |-> stats, debt |-> left, mshrs |-> c.mshrs]
  BY DEF Issue
<1>2. /\ c.stats \in CpuStats /\ c.debt \in Nat /\ c.mshrs \in [Slots -> Mshr]
      /\ CpiScaled \in Nat /\ FractionOne \in Nat \ {0} /\ WordSize \in Nat \ {0}
  BY CpuAssumption DEF CpuState
<1>3. sum \in Nat
  <2>1. n * CpiScaled \in Nat
    BY <1>2
  <2> QED
    BY <1>2, <2>1
<1> HIDE DEF sum
<1>4. debt \in Nat /\ (sum < WordSize => debt = sum)
  BY <1>2, <1>3
<1> HIDE DEF debt
<1>5. whole \in Nat /\ left \in 0 .. FractionOne-1
  BY <1>2, <1>4
<1>6. whole * FractionOne \in Nat /\ whole * FractionOne + left = debt
  BY <1>2, <1>4, <1>5
<1> HIDE DEF whole, left
<1>7. /\ first \in CpuStats
      /\ \A k \in StatNames : first[k] = IF k \in {"instructions"} THEN c.stats[k] + n
                                                                   ELSE c.stats[k]
  BY <1>2, AddType
<1> HIDE DEF first
<1>8. /\ stats \in CpuStats
      /\ \A k \in StatNames : stats[k] = IF k \in {"cycles", "compute_cycles"}
                                         THEN first[k] + whole ELSE first[k]
  BY <1>5, <1>7, AddType
<1>9. \A k \in StatNames :
        stats[k] = IF k = "instructions" THEN c.stats[k] + n
                   ELSE IF k \in {"cycles", "compute_cycles"} THEN c.stats[k] + whole
                   ELSE c.stats[k]
  BY <1>7, <1>8
<1> HIDE DEF stats, r
<1>10. r \in CpuState
  BY <1>1, <1>2, <1>5, <1>8 DEF CpuState
<1>11. r.stats = stats /\ r.debt = left /\ r.mshrs = c.mshrs
  BY <1>1
<1>12. sum < WordSize => whole * FractionOne + left = sum
  BY <1>4, <1>6
<1> QED
  BY <1>5, <1>9, <1>10, <1>11, <1>12 DEF Recounted, r, sum

\* An access begins as an instruction that is counted once more.
LEMMA BeginCorrect ==
  ASSUME NEW c \in CpuState, NEW dependent \in BOOLEAN
  PROVE  LET r == BeginAccess(c, dependent)
             once == {"memory_instructions"} \cup (IF dependent THEN {"dependent_loads"} ELSE {})
         IN  /\ Recounted(c, r, r.debt)
             /\ \E whole \in Nat :
                  /\ \A k \in StatNames :
                       r.stats[k] = IF k = "instructions" \/ k \in once THEN c.stats[k] + 1
                                    ELSE IF k \in {"cycles", "compute_cycles"}
                                         THEN c.stats[k] + whole
                                    ELSE c.stats[k]
                  /\ c.debt + CpiScaled < WordSize =>
                       whole * FractionOne + r.debt = c.debt + CpiScaled
<1> DEFINE once   == {"memory_instructions"} \cup (IF dependent THEN {"dependent_loads"} ELSE {})
           issued == Issue(c, 1)
           stats  == Add(issued.stats, 1, once)
           r      == BeginAccess(c, dependent)
<1>1. 1 * CpiScaled = CpiScaled
  BY CpuAssumption
<1>2. /\ Recounted(c, issued, issued.debt)
      /\ \E whole \in Nat :
           /\ \A k \in StatNames :
                issued.stats[k] = IF k = "instructions" THEN c.stats[k] + 1
                                  ELSE IF k \in {"cycles", "compute_cycles"}
                                       THEN c.stats[k] + whole
                                  ELSE c.stats[k]
           /\ c.debt + CpiScaled < WordSize =>
                whole * FractionOne + issued.debt = c.debt + CpiScaled
  BY <1>1, IssueCorrect
<1>3. r = [stats |-> stats, debt |-> issued.debt, mshrs |-> issued.mshrs]
  BY DEF BeginAccess
<1> HIDE DEF issued, r, once
<1>4. issued.stats \in CpuStats
  BY <1>2 DEF Recounted, CpuState
<1>5. /\ stats \in CpuStats
      /\ \A k \in StatNames : stats[k] = IF k \in once THEN issued.stats[k] + 1
                                                       ELSE issued.stats[k]
  BY <1>4, AddType
<1> HIDE DEF stats
<1>6. Recounted(c, r, r.debt) /\ r.stats = stats /\ r.debt = issued.debt
  BY <1>2, <1>3, <1>5 DEF Recounted, CpuState
<1>7. PICK whole \in Nat :
        /\ \A k \in StatNames :
             issued.stats[k] = IF k = "instructions" THEN c.stats[k] + 1
                               ELSE IF k \in {"cycles", "compute_cycles"}
                                    THEN c.stats[k] + whole
                               ELSE c.stats[k]
        /\ c.debt + CpiScaled < WordSize =>
             whole * FractionOne + issued.debt = c.debt + CpiScaled
  BY <1>2
<1>8. \A k \in StatNames :
        stats[k] = IF k = "instructions" \/ k \in once THEN c.stats[k] + 1
                   ELSE IF k \in {"cycles", "compute_cycles"} THEN c.stats[k] + whole
                   ELSE c.stats[k]
  BY <1>5, <1>7 DEF once
<1> QED
  BY <1>6, <1>7, <1>8 DEF r, once

\* All outstanding fills have completed.
AllCompleted(c) == \A i \in Slots : c.mshrs[i].free_at <= c.stats["cycles"]

Latencies == {"access_latency_cycles", "miss_latency_cycles"}

\* What a memory access costs beyond its instruction: stalls of so many cycles, and its
\* latency is recorded.
Accessed(c, r, latency, stall) ==
  /\ r \in CpuState /\ r.debt = c.debt
  /\ r.stats["cycles"] = c.stats["cycles"] + stall
  /\ StallTotal(r.stats) = StallTotal(c.stats) + stall
  /\ r.stats["access_latency_cycles"] = c.stats["access_latency_cycles"] + latency
  /\ \A k \in StatNames \ (Timing \cup Latencies) : r.stats[k] = c.stats[k]

\* A hit takes no MSHR, and only a dependent load waits for it.
LEMMA HitCorrect ==
  ASSUME NEW c \in CpuState, NEW o \in OutcomeOfAccess, NEW dependent \in BOOLEAN
  PROVE  LET r == FinishHit(c, o, dependent)
             stall == IF dependent THEN o.latency ELSE 0
         IN  /\ Accessed(c, r, o.latency, stall)
             /\ r.mshrs = c.mshrs
             /\ r.stats["mshr"] = c.stats["mshr"]
<1> DEFINE counted == Add(c.stats, o.latency, {"access_latency_cycles"})
           waited  == Stall(counted, o.latency, "l1")
           r       == FinishHit(c, o, dependent)
<1>1. /\ c.stats \in CpuStats /\ o.latency \in Nat
      /\ \A k \in StatNames : c.stats[k] \in Nat
      /\ {"l1", "l2", "dram", "bandwidth", "mshr", "cycles", "access_latency_cycles"}
           \subseteq StatNames
  BY StatsAreNumbers DEF CpuState, OutcomeOfAccess, StatNames, Buckets
<1>2. /\ counted \in CpuStats
      /\ \A k \in StatNames : counted[k] = IF k \in {"access_latency_cycles"}
                                           THEN c.stats[k] + o.latency ELSE c.stats[k]
  BY <1>1, AddType
<1> HIDE DEF counted
<1>3. StallTotal(counted) = StallTotal(c.stats) /\ counted["cycles"] = c.stats["cycles"]
  BY <1>1, <1>2 DEF StallTotal
<1>4. Stalled(counted, waited, o.latency) /\ waited["mshr"] = counted["mshr"]
  BY <1>1, <1>2, StallIsStall DEF Buckets
<1> HIDE DEF waited
<1>5. r = [stats |-> IF dependent THEN waited ELSE counted, debt |-> c.debt, mshrs |-> c.mshrs]
  BY DEF FinishHit, waited, counted
<1> HIDE DEF r
<1>6. /\ r.stats = IF dependent THEN waited ELSE counted
      /\ r.debt = c.debt /\ r.mshrs = c.mshrs
      /\ r \in CpuState
  BY <1>2, <1>4, <1>5 DEF CpuState, Stalled
<1>7. "access_latency_cycles" \in StatNames \ Timing
  BY DEF StatNames, Timing, Buckets
<1>8. StallTotal(c.stats) \in Nat
  BY <1>1, StatsAreNumbers
<1>9. CASE dependent
  BY <1>1, <1>2, <1>3, <1>4, <1>6, <1>7, <1>9 DEF Accessed, Stalled, Latencies, r
<1>10. CASE ~dependent
  BY <1>1, <1>2, <1>3, <1>6, <1>8, <1>10 DEF Accessed, Latencies, r
<1> QED
  BY <1>9, <1>10

\* A miss keeps the heap.  A dependent one finds, when all fills have completed, a free
\* MSHR, stalls for its latency and leaves all fills completed again.
LEMMA MissCorrect ==
  ASSUME NEW c \in CpuState, HeapOrdered(c.mshrs),
         NEW o \in OutcomeOfAccess, NEW dependent \in BOOLEAN
  PROVE  LET r == FinishMiss(c, o, dependent)
         IN  /\ \E stall \in Nat :
                  /\ Accessed(c, r, o.latency, stall)
                  /\ dependent /\ AllCompleted(c) => stall = o.latency
             /\ HeapOrdered(r.mshrs)
             /\ dependent /\ AllCompleted(c) =>
                  AllCompleted(r) /\ r.stats["mshr"] = c.stats["mshr"]
<1> DEFINE counted == Add(c.stats, o.latency, Latencies)
           started == WaitFor(counted, "mshr", c.mshrs[0])
           entry   == MissEntry(started["cycles"], o)
           split   == StallSplit(started, o.latency, entry.bucket, entry)
           heap    == [c.mshrs EXCEPT ![0] = entry]
           r       == FinishMiss(c, o, dependent)
<1>1. /\ c.stats \in CpuStats /\ c.mshrs \in [Slots -> Mshr] /\ 0 \in Slots
      /\ o.latency \in Nat /\ o.latency # 0 /\ o.queue_delay \in Nat
      /\ StallTotal(c.stats) \in Nat /\ \A k \in StatNames : c.stats[k] \in Nat
      /\ {"l1", "l2", "dram", "bandwidth", "mshr", "cycles", "access_latency_cycles"}
           \subseteq StatNames
      /\ "access_latency_cycles" \in StatNames \ Timing
  BY CpuAssumption, StatsAreNumbers DEF CpuState, OutcomeOfAccess, StatNames, Buckets, Slots,
                                        Timing
<1>2. r = [stats |-> IF dependent THEN split ELSE started,
           debt |-> c.debt, mshrs |-> SiftDown(heap)]
  BY DEF FinishMiss, Latencies
<1>3. /\ counted \in CpuStats
      /\ \A k \in StatNames : counted[k] = IF k \in Latencies THEN c.stats[k] + o.latency
                                                              ELSE c.stats[k]
  BY <1>1, AddType
<1> HIDE DEF counted
<1>4. /\ StallTotal(counted) = StallTotal(c.stats)
      /\ counted["cycles"] = c.stats["cycles"] /\ counted["mshr"] = c.stats["mshr"]
      /\ counted["access_latency_cycles"] = c.stats["access_latency_cycles"] + o.latency
  BY <1>1, <1>3 DEF StallTotal, Latencies
<1>5. PICK wait \in Nat :
        /\ Stalled(counted, started, wait)
        /\ c.mshrs[0].free_at <= counted["cycles"] => started = counted
  BY <1>1, <1>3, WaitIsStall DEF Buckets
<1> HIDE DEF started
<1>6. started \in CpuStats /\ started["cycles"] \in Nat /\ started["mshr"] \in Nat
  BY <1>1, <1>5, StatsAreNumbers DEF Stalled
<1>7. /\ entry \in Mshr
      /\ entry.free_at = started["cycles"] + o.latency
      /\ entry.bucket \in Buckets /\ entry.bucket # "mshr"
  BY <1>1, <1>6 DEF MissEntry, BucketOf, Mshr, Buckets
<1>8. Stalled(started, split, o.latency) /\ split["mshr"] = started["mshr"]
  BY <1>1, <1>6, <1>7, SplitIsStall
<1> HIDE DEF entry, split
<1>9. /\ heap \in [Slots -> Mshr]
      /\ heap[0] = entry /\ \A i \in Slots \ {0} : heap[i] = c.mshrs[i]
  BY <1>1, <1>7
<1> HIDE DEF heap
<1>10. OrderedBelowRoot(heap)
  BY <1>9, ParentIsAbove DEF HeapOrdered, OrderedBelowRoot
<1>11. /\ HeapOrdered(SiftDown(heap))
       /\ SiftDown(heap) \in [Slots -> Mshr]
       /\ \A i \in Slots : \E j \in Slots : SiftDown(heap)[i] = heap[j]
  BY <1>9, <1>10, SiftDownRestores
<1> HIDE DEF r
<1>12. /\ r.stats = IF dependent THEN split ELSE started
       /\ r.debt = c.debt /\ r.mshrs = SiftDown(heap)
       /\ r \in CpuState
  BY <1>2, <1>6, <1>8, <1>11 DEF CpuState, Stalled
<1> DEFINE stall == IF dependent THEN wait + o.latency ELSE wait
<1>13. /\ stall \in Nat
       /\ Accessed(c, r, o.latency, stall)
  <2>1. \A k \in StatNames \ (Timing \cup Latencies) :
          counted[k] = c.stats[k] /\ k \in StatNames \ Timing
    BY <1>3
  <2>2. CASE dependent
    BY <1>1, <1>4, <1>5, <1>8, <1>12, <2>1, <2>2 DEF Accessed, Stalled
  <2>3. CASE ~dependent
    BY <1>1, <1>4, <1>5, <1>12, <2>1, <2>3 DEF Accessed, Stalled
  <2> QED
    BY <2>2, <2>3
<1>14. ASSUME dependent, AllCompleted(c)
       PROVE  /\ stall = o.latency
              /\ AllCompleted(r) /\ r.stats["mshr"] = c.stats["mshr"]
  <2>1. started = counted
    BY <1>1, <1>4, <1>5, <1>14 DEF AllCompleted
  <2>2. wait = 0
    <3>1. started["cycles"] = counted["cycles"] + wait /\ counted["cycles"] \in Nat
      BY <1>1, <1>4, <1>5 DEF Stalled
    <3> QED
      BY <2>1, <3>1
  <2>3. r.stats["cycles"] = c.stats["cycles"] + o.latency
    BY <1>4, <1>8, <1>12, <1>14, <2>1 DEF Stalled
  <2>4. \A j \in Slots : heap[j].free_at <= r.stats["cycles"]
    <3>1. heap[0].free_at <= r.stats["cycles"]
      BY <1>1, <1>4, <1>7, <1>9, <2>1, <2>3
    <3>2. \A j \in Slots \ {0} : heap[j].free_at <= r.stats["cycles"]
      <4>1. \A j \in Slots : c.mshrs[j].free_at \in Nat
        BY <1>1 DEF Mshr
      <4> QED
        BY <1>1, <1>9, <1>14, <2>3, <4>1 DEF AllCompleted
    <3> QED
      BY <3>1, <3>2
  <2>5. AllCompleted(r)
    BY <1>11, <1>12, <2>4 DEF AllCompleted
  <2>6. r.stats["mshr"] = c.stats["mshr"]
    BY <1>4, <1>8, <1>12, <1>14, <2>1
  <2> QED
    BY <1>14, <1>1, <2>2, <2>5, <2>6
<1> HIDE DEF stall
<1> QED
  BY <1>11, <1>12, <1>13, <1>14 DEF r

\* drain stalls for what is outstanding, pays the last fraction of a cycle and frees
\* every MSHR.
LEMMA DrainCorrect ==
  ASSUME NEW c \in CpuState, NEW order \in [1 .. Mshrs -> Slots]
  PROVE  LET r == Drain(c, order)
             last == IF c.debt > 0 THEN 1 ELSE 0
         IN  /\ r \in CpuState
             /\ \A i \in Slots : r.mshrs[i].free_at = 0
             /\ \E stall \in Nat :
                  /\ r.stats["cycles"] = c.stats["cycles"] + stall + last
                  /\ StallTotal(r.stats) = StallTotal(c.stats) + stall
                  /\ r.stats["compute_cycles"] = c.stats["compute_cycles"] + last
                  /\ \A k \in StatNames \ (Timing \cup {"compute_cycles"}) :
                       r.stats[k] = c.stats[k]
                  /\ AllCompleted(c) => stall = 0 /\ r.stats["mshr"] = c.stats["mshr"]
<1> DEFINE tail  == TailStats(c, order)
           paid  == Add(tail, 1, {"cycles", "compute_cycles"})
           stats == IF c.debt > 0 THEN paid ELSE tail
           freed == [i \in Slots |-> Released(c.mshrs[order[i + 1]])]
           r     == Drain(c, order)
           last  == IF c.debt > 0 THEN 1 ELSE 0
<1>1. /\ c.stats \in CpuStats /\ c.mshrs \in [Slots -> Mshr]
      /\ StallTotal(c.stats) \in Nat /\ \A k \in StatNames : c.stats[k] \in Nat
      /\ {"l1", "l2", "dram", "bandwidth", "mshr", "cycles", "compute_cycles"}
           \subseteq StatNames
      /\ "compute_cycles" \in StatNames \ Timing
  BY StatsAreNumbers DEF CpuState, StatNames, Buckets, Timing
<1>2. r = [stats |-> stats, debt |-> 0, mshrs |-> freed]
  BY DEF Drain
<1>3. PICK stall \in Nat : /\ Stalled(c.stats, tail, stall)
                           /\ AllCompleted(c) => tail = c.stats
  BY TailIsStall DEF AllCompleted, Cycles
<1> HIDE DEF tail
<1>4. tail \in CpuStats /\ \A k \in StatNames : tail[k] \in Nat
  BY <1>3, StatsAreNumbers DEF Stalled
<1>5. /\ paid \in CpuStats
      /\ \A k \in StatNames : paid[k] = IF k \in {"cycles", "compute_cycles"}
                                        THEN tail[k] + 1 ELSE tail[k]
  BY <1>4, AddType
<1> HIDE DEF paid
<1>6. StallTotal(paid) = StallTotal(tail)
  BY <1>1, <1>5 DEF StallTotal
<1>7. /\ freed \in [Slots -> Mshr]
      /\ \A i \in Slots : freed[i].free_at = 0
  <2>1. \A i \in Slots : i + 1 \in 1 .. Mshrs
    BY CpuAssumption DEF Slots
  <2>2. \A i \in Slots : c.mshrs[order[i + 1]] \in Mshr
    BY <1>1, <2>1
  <2> QED
    BY <2>2 DEF Released, Mshr
<1> HIDE DEF freed, r
<1>8. /\ r.stats = stats /\ r.debt = 0 /\ r.mshrs = freed
      /\ r \in CpuState
  BY <1>2, <1>4, <1>5, <1>7, CpuAssumption DEF CpuState
<1>9. /\ r.stats["cycles"] = c.stats["cycles"] + stall + last
      /\ StallTotal(r.stats) = StallTotal(c.stats) + stall
      /\ r.stats["compute_cycles"] = c.stats["compute_cycles"] + last
  <2>1. CASE c.debt > 0
    BY <1>1, <1>3, <1>4, <1>5, <1>6, <1>8, <2>1 DEF Stalled
  <2>2. CASE ~(c.debt > 0)
    BY <1>1, <1>3, <1>4, <1>8, <2>2 DEF Stalled
  <2> QED
    BY <2>1, <2>2
<1>10. \A k \in StatNames \ (Timing \cup {"compute_cycles"}) : r.stats[k] = c.stats[k]
  BY <1>3, <1>5, <1>8 DEF Stalled, Timing
<1>11. ASSUME AllCompleted(c) PROVE stall = 0 /\ r.stats["mshr"] = c.stats["mshr"]
  <2>1. tail = c.stats
    BY <1>3, <1>11
  <2>2. tail["cycles"] = c.stats["cycles"] + stall /\ c.stats["cycles"] \in Nat
    BY <1>1, <1>3 DEF Stalled
  <2> QED
    BY <1>1, <1>5, <1>8, <2>1, <2>2, SMTT(30)
<1> QED
  BY <1>7, <1>8, <1>9, <1>10, <1>11 DEF r

\* The entries of a heap, in any order.
Permuted(heap, file) ==
  \E p \in [Slots -> Slots] : /\ \A i, j \in Slots : p[i] = p[j] => i = j
                              /\ heap = [i \in Slots |-> file[p[i]]]

\* The cycle at which a miss gets its MSHR.
MissStart(c) == IF c.mshrs[0].free_at > Cycles(c) THEN c.mshrs[0].free_at ELSE Cycles(c)

\* What a miss changes: the file of MSHRs by one entry, up to their order, the cycles by
\* the waits for an MSHR and for its own fill, and the buckets of these two.
LEMMA MissChanges ==
  ASSUME NEW c \in CpuState, NEW o \in OutcomeOfAccess, NEW dependent \in BOOLEAN
  PROVE  LET r     == FinishMiss(c, o, dependent)
             entry == MissEntry(MissStart(c), o)
             file  == [c.mshrs EXCEPT ![0] = entry]
         IN  /\ entry \in Mshr
             /\ Permuted(r.mshrs, file)
             /\ Cycles(r) = MissStart(c) + (IF dependent THEN o.latency ELSE 0)
             /\ r.stats["miss_latency_cycles"] = c.stats["miss_latency_cycles"] + o.latency
             /\ WaitsForOwnMiss(c.mshrs, Cycles(c)) =>
                  r.stats["bandwidth"] + Pending(entry, Cycles(r))
                    <= c.stats["bandwidth"] + Pending(c.mshrs[0], Cycles(c)) + o.queue_delay
             /\ r.stats["l1"] = c.stats["l1"]
             /\ r.stats["mshr"] # c.stats["mshr"] => c.mshrs[0].free_at > Cycles(c)
             /\ \A k \in {"l2", "dram"} : r.stats[k] # c.stats[k] => k = entry.bucket
             /\ r.stats["bandwidth"] # c.stats["bandwidth"] =>
                  o.queue_delay > 0 \/ (Outstanding(c, 0) /\ c.mshrs[0].queue_delay > 0)
<1> DEFINE counted == Add(c.stats, o.latency, Latencies)
           first   == c.mshrs[0]
           started == WaitFor(counted, "mshr", first)
           entry   == MissEntry(MissStart(c), o)
           split   == StallSplit(started, o.latency, entry.bucket, entry)
           file    == [c.mshrs EXCEPT ![0] = entry]
           stats   == IF dependent THEN split ELSE started
           r       == FinishMiss(c, o, dependent)
           own     == MissEntry(started["cycles"], o)
<1>1. r = [stats |-> IF dependent THEN StallSplit(started, o.latency, own.bucket, own) ELSE started,
           debt |-> c.debt, mshrs |-> SiftDown([c.mshrs EXCEPT ![0] = own])]
  BY DEF FinishMiss, Latencies
<1>2. /\ c.stats \in CpuStats /\ c.mshrs \in [Slots -> Mshr] /\ first \in Mshr /\ 0 \in Slots
      /\ o.latency \in Nat \ {0} /\ o.queue_delay \in Nat /\ o.latency \in Nat
      /\ first.free_at \in Nat /\ first.queue_delay \in Nat /\ first.latency \in Nat
      /\ {"l1", "l2", "dram", "bandwidth", "mshr", "cycles", "miss_latency_cycles"} \subseteq StatNames
      /\ Latencies \cap {"l1", "l2", "dram", "bandwidth", "mshr", "cycles"} = {}
      /\ "miss_latency_cycles" \in Latencies
  BY SlotsAreFinite DEF CpuState, OutcomeOfAccess, Mshr, StatNames, Buckets, Latencies
<1>3. /\ counted \in CpuStats
      /\ \A k \in StatNames : counted[k] = IF k \in Latencies THEN c.stats[k] + o.latency
                                                              ELSE c.stats[k]
  BY <1>2, AddType
<1>4. \A k \in StatNames : counted[k] \in Nat /\ c.stats[k] \in Nat
  BY <1>2, <1>3, StatsAreNumbers
<1> HIDE DEF counted, first
<1>5. /\ started \in CpuStats
      /\ started["cycles"] = IF first.free_at > counted["cycles"] THEN first.free_at
                                                                  ELSE counted["cycles"]
      /\ \A k \in StatNames \ {"cycles", "mshr", "bandwidth"} : started[k] = counted[k]
      /\ first.free_at <= counted["cycles"] + first.latency =>
           started["bandwidth"] + Pending(first, started["cycles"])
             <= counted["bandwidth"] + Pending(first, counted["cycles"])
      /\ first.free_at <= counted["cycles"] => started = counted
      /\ first.queue_delay = 0 => started["bandwidth"] = counted["bandwidth"]
  BY <1>2, <1>3, WaitChanges DEF Buckets
<1>6. Cycles(c) = counted["cycles"] /\ counted["bandwidth"] = c.stats["bandwidth"]
  BY <1>2, <1>3 DEF Cycles
<1>7. started["cycles"] = MissStart(c)
  BY <1>5, <1>6 DEF MissStart, first
<1> HIDE DEF started
<1>8. \A k \in StatNames : started[k] \in Nat
  BY <1>5, StatsAreNumbers
<1>10. r = [stats |-> stats, debt |-> c.debt, mshrs |-> SiftDown(file)]
  BY <1>1, <1>7
<1>9. /\ entry \in Mshr /\ entry.latency = o.latency /\ entry.queue_delay = o.queue_delay
      /\ entry.free_at = started["cycles"] + o.latency
      /\ entry.bucket \in {"l2", "dram"} /\ entry.bucket \in Buckets \ {"bandwidth"}
  BY <1>2, <1>7, <1>8 DEF MissEntry, BucketOf, Mshr, Buckets
<1> HIDE DEF entry
<1>11. /\ Stalled(started, split, o.latency)
       /\ \A k \in StatNames \ {"cycles", entry.bucket, "bandwidth"} : split[k] = started[k]
       /\ split["bandwidth"] <= started["bandwidth"] + o.queue_delay
       /\ o.queue_delay = 0 => split["bandwidth"] = started["bandwidth"]
  <2>1. Stalled(started, split, o.latency)
    BY <1>2, <1>5, <1>9, SplitIsStall
  <2>2. o.latency <= entry.latency
    BY <1>2, <1>9
  <2>3. /\ \A k \in StatNames \ {"cycles", entry.bucket, "bandwidth"} : split[k] = started[k]
        /\ split["bandwidth"] <= started["bandwidth"] + entry.queue_delay
        /\ entry.queue_delay = 0 => split["bandwidth"] = started["bandwidth"]
    BY <1>2, <1>5, <1>9, <2>2, SplitChanges
  <2> QED
    BY <1>9, <2>1, <2>3
<1> HIDE DEF split
<1>12. /\ stats \in CpuStats
       /\ stats["cycles"] = started["cycles"] + (IF dependent THEN o.latency ELSE 0)
       /\ \A k \in StatNames \ {"cycles", entry.bucket, "bandwidth"} : stats[k] = started[k]
  BY <1>2, <1>5, <1>8, <1>11 DEF Stalled
<1>13. /\ stats["bandwidth"] + Pending(entry, stats["cycles"]) <= started["bandwidth"] + o.queue_delay
       /\ o.queue_delay = 0 => stats["bandwidth"] = started["bandwidth"]
  <2>1. CASE dependent
    <3>1. stats = split /\ stats["cycles"] = entry.free_at
      BY <1>9, <1>12, <2>1
    <3>2. Pending(entry, stats["cycles"]) = 0
      BY <1>8, <1>9, <1>2, <3>1 DEF Pending
    <3>3. stats["bandwidth"] \in Nat
      BY <1>2, <1>12, StatsAreNumbers
    <3> HIDE DEF stats
    <3> QED
      BY <1>11, <3>1, <3>2, <3>3
  <2>2. CASE ~dependent
    <3>1. stats = started
      BY <2>2
    <3>2. Pending(entry, stats["cycles"]) <= o.queue_delay /\ Pending(entry, stats["cycles"]) \in Nat
      BY <1>2, <1>9 DEF Pending
    <3> HIDE DEF stats
    <3> QED
      BY <1>2, <1>8, <3>1, <3>2
  <2> QED
    BY <2>1, <2>2
<1>14. \A k \in StatNames : stats[k] \in Nat
  BY <1>12, StatsAreNumbers
<1> HIDE DEF stats
<1>15. file \in [Slots -> Mshr]
  BY <1>2, <1>9
<1>16. Permuted(SiftDown(file), file)
  <2> HIDE DEF file
  <2> QED
    BY <1>15, SiftDownPermutes DEF Permuted
<1> HIDE DEF file, r
<1>17. r.stats = stats /\ r.mshrs = SiftDown(file) /\ Cycles(r) = stats["cycles"]
  BY <1>10 DEF Cycles
<1>18. ASSUME WaitsForOwnMiss(c.mshrs, Cycles(c))
       PROVE  r.stats["bandwidth"] + Pending(entry, Cycles(r))
                <= c.stats["bandwidth"] + Pending(first, Cycles(c)) + o.queue_delay
  <2>1. first.free_at <= counted["cycles"] + first.latency
    BY <1>2, <1>6, <1>18 DEF WaitsForOwnMiss, first
  <2>2. started["bandwidth"] + Pending(first, started["cycles"])
          <= c.stats["bandwidth"] + Pending(first, Cycles(c))
    BY <1>5, <1>6, <2>1
  <2>3. /\ Pending(first, started["cycles"]) \in Nat /\ Pending(first, Cycles(c)) \in Nat
        /\ Pending(entry, stats["cycles"]) \in Nat
        /\ started["bandwidth"] \in Nat /\ stats["bandwidth"] \in Nat /\ c.stats["bandwidth"] \in Nat
    BY <1>2, <1>4, <1>8, <1>9, <1>14 DEF Pending
  <2> QED
    BY <1>2, <1>13, <1>17, <2>2, <2>3
<1>19. r.stats["mshr"] # c.stats["mshr"] => first.free_at > Cycles(c)
  <2>1. stats["mshr"] = started["mshr"]
    BY <1>2, <1>9, <1>12
  <2>2. ~(first.free_at > Cycles(c)) => started = counted
    BY <1>2, <1>4, <1>5, <1>6
  <2> QED
    BY <1>2, <1>3, <1>17, <2>1, <2>2
<1>20. ASSUME NEW k \in {"l2", "dram"}, r.stats[k] # c.stats[k] PROVE k = entry.bucket
  BY <1>2, <1>3, <1>5, <1>12, <1>17, <1>20
<1>21. r.stats["l1"] = c.stats["l1"]
  BY <1>2, <1>3, <1>5, <1>9, <1>12, <1>17
<1>22. r.stats["miss_latency_cycles"] = c.stats["miss_latency_cycles"] + o.latency
  BY <1>2, <1>3, <1>5, <1>9, <1>12, <1>17
<1>23. r.stats["bandwidth"] # c.stats["bandwidth"] =>
         o.queue_delay > 0 \/ (Outstanding(c, 0) /\ first.queue_delay > 0)
  <2>1. ASSUME o.queue_delay = 0, r.stats["bandwidth"] # c.stats["bandwidth"]
        PROVE  Outstanding(c, 0) /\ first.queue_delay > 0
    <3>1. started["bandwidth"] # counted["bandwidth"]
      BY <1>6, <1>13, <1>17, <2>1
    <3>2. first.queue_delay > 0 /\ first.free_at > counted["cycles"]
      BY <1>2, <1>4, <1>5, <3>1
    <3> QED
      BY <1>2, <1>6, <3>2 DEF Outstanding, first
  <2>2. o.queue_delay # 0 => o.queue_delay > 0
    BY <1>2
  <2> HIDE DEF r, first
  <2> QED
    BY <2>1, <2>2
<1> QED
  BY <1>7, <1>9, <1>12, <1>16, <1>17, <1>18, <1>19, <1>20, <1>21, <1>22, <1>23 DEF first, file, entry, r

\* Any such function ends with the sum.
LEMMA AnySums ==
  ASSUME NEW f, NEW S, IsFiniteSet(S), NEW sums, Sums(f, S, sums)
  PROVE  Sum(f, S) = sums[S]
<1>1. PICK own : Sums(f, S, own) /\ Sum(f, S) = own[S]
  BY SumIsLast
<1>2. ASSUME NEW g, g = f, NEW T, T = S, NEW U, U = S PROVE sums[U] = own[U]
  <2>1. /\ U \in SUBSET (S \cap T) /\ \A x \in U : f[x] = g[x]
        /\ IsFiniteSet(S) /\ IsFiniteSet(T) /\ Sums(f, S, sums) /\ Sums(g, T, own)
    BY <1>1, <1>2
  <2> QED
    BY ONLY <2>1, SumsAgree
<1> QED
  BY <1>1, <1>2

-----------------------------------------------------------------------------
(* The time of the MSHRs.                                                   *)

\* The time at which each MSHR is free, summed up.
FreeTotal(heap) == MapThenSumSet(LAMBDA i : heap[i].free_at, Slots)

Frees(heap) == [i \in Slots |-> heap[i].free_at]

\* The model's sum over the MSHRs is the sum that the lemmas about sums speak of.
LEMMA FreeTotalIsSum ==
  ASSUME NEW heap
  PROVE  FreeTotal(heap) = Sum(Frees(heap), Slots)
<1> DEFINE Step(g, s) == IF s = {} THEN 0 ELSE heap[Chosen(s)].free_at + g[s \ {Chosen(s)}]
           sums == CHOOSE g : g = [s \in SUBSET Slots |-> Step(g, s)]
           f == Frees(heap)
<1>1. FreeTotal(heap) = sums[Slots]
  BY DEF FreeTotal, MapThenSumSet, MapThenFoldSet, Chosen
<1>2. ASSUME NEW g, NEW s \in SUBSET Slots PROVE Step(g, s) = SumStep(f, g, s)
  <2>1. s # {} => Chosen(s) \in Slots
    BY DEF Chosen
  <2> QED
    BY <2>1 DEF SumStep, Frees
<1>3. \E g : g = [s \in SUBSET Slots |-> Step(g, s)]
  <2>1. PICK g : Sums(f, Slots, g)
    BY SumsExist, SlotsAreFinite
  <2>2. g = [s \in SUBSET Slots |-> Step(g, s)]
    <3> HIDE DEF Step, f
    <3> QED
      BY <1>2, <2>1 DEF Sums
  <2> QED
    BY <2>2
<1>4. Sums(f, Slots, sums)
  <2>1. sums = [s \in SUBSET Slots |-> Step(sums, s)]
    BY <1>3
  <2> HIDE DEF Step, f, sums
  <2> QED
    BY <1>2, <2>1 DEF Sums
<1>5. Sum(f, Slots) = sums[Slots]
  <2> HIDE DEF sums, f
  <2> QED
    BY <1>4, AnySums, SlotsAreFinite
<1> QED
  BY <1>1, <1>5

\* The order of the entries does not matter to either total.
LEMMA TotalsOfPermuted ==
  ASSUME NEW file \in [Slots -> Mshr], NEW heap, Permuted(heap, file), NEW cycle \in Nat
  PROVE  /\ PendingTotal(heap, cycle) = PendingTotal(file, cycle)
         /\ FreeTotal(heap) = FreeTotal(file)
         /\ \A i \in Slots : \E j \in Slots : heap[i] = file[j]
<1>1. PICK p \in [Slots -> Slots] : /\ \A i, j \in Slots : p[i] = p[j] => i = j
                                    /\ heap = [i \in Slots |-> file[p[i]]]
  BY DEF Permuted
<1>2. PendingTotal(heap, cycle) = PendingTotal(file, cycle)
  <2> DEFINE f == [i \in Slots |-> Pending(file[i], cycle)]
             g == [i \in Slots |-> Pending(heap[i], cycle)]
  <2>1. \A i \in Slots : f[i] \in Nat /\ g[i] = f[p[i]]
    BY <1>1 DEF Pending, Mshr
  <2> HIDE DEF f, g
  <2>2. Sum(g, Slots) = Sum(f, Slots)
    BY <1>1, <2>1, SlotsAreFinite, SumIsCommutative
  <2> QED
    BY <2>2 DEF f, g, PendingTotal
<1>3. FreeTotal(heap) = FreeTotal(file)
  <2> DEFINE f == Frees(file)
             g == Frees(heap)
  <2>1. \A i \in Slots : f[i] \in Nat /\ g[i] = f[p[i]]
    BY <1>1 DEF Frees, Mshr
  <2> HIDE DEF f, g
  <2>2. Sum(g, Slots) = Sum(f, Slots)
    BY <1>1, <2>1, SlotsAreFinite, SumIsCommutative
  <2> QED
    BY <2>2, FreeTotalIsSum DEF f, g
<1> QED
  BY <1>1, <1>2, <1>3

\* Replacing the root adds what it frees up later.
LEMMA FreeTotalOfOne ==
  ASSUME NEW heap \in [Slots -> Mshr], NEW entry \in Mshr, NEW root \in Slots
  PROVE  LET file == [heap EXCEPT ![root] = entry]
         IN  /\ FreeTotal(heap) \in Nat /\ FreeTotal(file) \in Nat
             /\ FreeTotal(file) + heap[root].free_at = FreeTotal(heap) + entry.free_at
<1> DEFINE file == [heap EXCEPT ![root] = entry]
           f == Frees(heap)
           g == Frees(file)
           rest == Slots \ {root}
<1>1. /\ \A i \in Slots : f[i] \in Nat /\ g[i] \in Nat
      /\ f[root] = heap[root].free_at /\ g[root] = entry.free_at
      /\ \A i \in rest : g[i] = f[i]
  BY SlotsAreFinite DEF Frees, Mshr
<1>2. FreeTotal(heap) = Sum(f, Slots) /\ FreeTotal(file) = Sum(g, Slots)
  BY FreeTotalIsSum
<1> HIDE DEF f, g
<1>3. /\ Sum(f, Slots) \in Nat /\ Sum(f, rest) \in Nat /\ Sum(f, Slots) = f[root] + Sum(f, rest)
      /\ Sum(g, Slots) \in Nat /\ Sum(g, rest) \in Nat /\ Sum(g, Slots) = g[root] + Sum(g, rest)
  BY <1>1, SlotsAreFinite, SumPick
<1>4. Sum(g, rest) = Sum(f, rest)
  <2>1. IsFiniteSet(rest)
    BY SlotsAreFinite, FS_RemoveElement
  <2> QED
    BY <1>1, <2>1, SumAgrees
<1>5. f[root] \in Nat /\ g[root] \in Nat
  BY <1>1, SlotsAreFinite
<1> QED
  BY <1>1, <1>2, <1>3, <1>4, <1>5

\* No MSHR is busy for longer than the last of them.
LEMMA FreeTotalIsBounded ==
  ASSUME NEW heap \in [Slots -> Mshr], NEW last \in Nat,
         \A i \in Slots : heap[i].free_at <= last
  PROVE  FreeTotal(heap) \in Nat /\ FreeTotal(heap) <= Mshrs * last
<1> DEFINE f == Frees(heap)
<1>1. \A i \in Slots : f[i] \in Nat /\ f[i] <= last
  BY DEF Frees, Mshr
<1> HIDE DEF f
<1>2. Sum(f, Slots) \in Nat /\ Sum(f, Slots) <= Mshrs * last
  <2>1. Sum(f, Slots) \in Nat
    BY <1>1, SlotsAreFinite, SumPick
  <2>2. Sum(f, Slots) <= Cardinality(Slots) * last
    BY <1>1, SlotsAreFinite, SumIsBounded
  <2> QED
    BY <2>1, <2>2, SlotsAreFinite
<1> QED
  BY <1>2, FreeTotalIsSum DEF f

-----------------------------------------------------------------------------
(* What the accounts of a CPU say: what is charged to bandwidth was queued, and   *)
(* nothing takes longer than it would one access after the other.                *)

\* Bandwidth, and what the outstanding fills may still charge to it.
Charged(c) == c.stats["bandwidth"] + PendingTotal(c.mshrs, Cycles(c))

Serial(c) == c.stats["compute_cycles"] + c.stats["access_latency_cycles"]

Overlapped(c) == /\ Cycles(c) <= Serial(c)
                 /\ \A i \in Slots : c.mshrs[i].free_at <= Serial(c)

\* Nothing but time passes.
LEMMA TimePasses ==
  ASSUME NEW c \in CpuState, NEW r \in CpuState, NEW cycles \in Nat,
         r.mshrs = c.mshrs, r.stats["bandwidth"] = c.stats["bandwidth"],
         Cycles(r) = Cycles(c) + cycles, Serial(c) + cycles <= Serial(r),
         WaitsForOwnMiss(c.mshrs, Cycles(c)), Overlapped(c)
  PROVE  /\ WaitsForOwnMiss(r.mshrs, Cycles(r))
         /\ Charged(r) <= Charged(c)
         /\ Overlapped(r)
<1>1. /\ c.mshrs \in [Slots -> Mshr] /\ Cycles(c) \in Nat /\ Cycles(r) \in Nat /\ 0 \in Slots
      /\ Serial(c) \in Nat /\ Serial(r) \in Nat /\ c.stats["bandwidth"] \in Nat
  BY StatsAreNumbers, SlotsAreFinite DEF CpuState, Cycles, Serial, StatNames, Buckets
<1>2. \A i \in Slots : c.mshrs[i].free_at \in Nat /\ c.mshrs[i].latency \in Nat
  BY <1>1 DEF Mshr
<1>3. WaitsForOwnMiss(r.mshrs, Cycles(r))
  BY <1>1, <1>2 DEF WaitsForOwnMiss
<1>4. Overlapped(r)
  BY <1>1, <1>2 DEF Overlapped
<1>5. PendingTotal(c.mshrs, Cycles(r)) <= PendingTotal(c.mshrs, Cycles(c))
  <2> DEFINE f == [i \in Slots |-> Pending(c.mshrs[i], Cycles(c))]
             g == [i \in Slots |-> Pending(c.mshrs[i], Cycles(r))]
  <2>1. \A i \in Slots : g[i] \in Nat /\ f[i] \in Nat /\ g[i] <= f[i]
    <3>1. \A i \in Slots : c.mshrs[i].queue_delay \in Nat
      BY <1>1 DEF Mshr
    <3> QED
      BY <1>1, <1>2, <3>1 DEF Pending
  <2> HIDE DEF f, g
  <2>2. Sum(g, Slots) <= Sum(f, Slots)
    BY <2>1, SlotsAreFinite, SumIsMonotone
  <2> QED
    BY <2>2 DEF PendingTotal, f, g
<1>6. /\ PendingTotal(c.mshrs, Cycles(r)) \in Nat
      /\ PendingTotal(c.mshrs, Cycles(c)) \in Nat
  BY <1>1, PendingIsNumber
<1> QED
  BY <1>1, <1>3, <1>4, <1>5, <1>6 DEF Charged

\* A hit takes time at most.
LEMMA HitAccounts ==
  ASSUME NEW c \in CpuState, NEW o \in OutcomeOfAccess, NEW dependent \in BOOLEAN,
         WaitsForOwnMiss(c.mshrs, Cycles(c)), Overlapped(c)
  PROVE  LET r == FinishHit(c, o, dependent)
         IN  /\ WaitsForOwnMiss(r.mshrs, Cycles(r))
             /\ Charged(r) <= Charged(c)
             /\ Overlapped(r)
             /\ r.stats["miss_latency_cycles"] = c.stats["miss_latency_cycles"]
<1> DEFINE r     == FinishHit(c, o, dependent)
           stall == IF dependent THEN o.latency ELSE 0
<1>1. /\ c.stats \in CpuStats /\ o.latency \in Nat
      /\ \A k \in StatNames : c.stats[k] \in Nat
      /\ {"compute_cycles", "access_latency_cycles", "bandwidth", "cycles", "l1",
          "miss_latency_cycles"} \subseteq StatNames
      /\ "compute_cycles" \in StatNames \ (Timing \cup Latencies)
  BY StatsAreNumbers DEF CpuState, OutcomeOfAccess, StatNames, Buckets, Timing, Latencies
<1>2. Accessed(c, r, o.latency, stall) /\ r.mshrs = c.mshrs
  BY HitCorrect
<1>3. /\ r.stats["bandwidth"] = c.stats["bandwidth"]
      /\ r.stats["miss_latency_cycles"] = c.stats["miss_latency_cycles"]
  BY <1>1 DEF FinishHit, Stall, Add
<1>4. stall \in Nat /\ stall <= o.latency
  BY <1>1
<1> HIDE DEF r, stall
<1>5. /\ r \in CpuState /\ Cycles(r) = Cycles(c) + stall
      /\ Serial(r) = c.stats["compute_cycles"] + (c.stats["access_latency_cycles"] + o.latency)
  BY <1>1, <1>2 DEF Accessed, Cycles, Serial
<1>6. Serial(c) + stall <= Serial(r)
  BY <1>1, <1>4, <1>5 DEF Serial
<1>7. WaitsForOwnMiss(r.mshrs, Cycles(r)) /\ Charged(r) <= Charged(c) /\ Overlapped(r)
  BY <1>2, <1>3, <1>4, <1>5, <1>6, TimePasses
<1> QED
  BY <1>3, <1>7 DEF r

\* A miss queues for its own delay, and starts no later than after all before it.
LEMMA MissAccounts ==
  ASSUME NEW c \in CpuState, NEW o \in OutcomeOfAccess, NEW dependent \in BOOLEAN,
         HeapOrdered(c.mshrs), WaitsForOwnMiss(c.mshrs, Cycles(c)), Overlapped(c)
  PROVE  LET r == FinishMiss(c, o, dependent)
         IN  /\ WaitsForOwnMiss(r.mshrs, Cycles(r))
             /\ Charged(r) <= Charged(c) + o.queue_delay
             /\ Overlapped(r)
             /\ r.stats["miss_latency_cycles"] = c.stats["miss_latency_cycles"] + o.latency
             /\ FreeTotal(c.mshrs) + o.latency <= FreeTotal(r.mshrs)
<1> DEFINE r     == FinishMiss(c, o, dependent)
           start == MissStart(c)
           entry == MissEntry(start, o)
           file  == [c.mshrs EXCEPT ![0] = entry]
           own   == IF dependent THEN o.latency ELSE 0
<1>1. /\ c.stats \in CpuStats /\ c.mshrs \in [Slots -> Mshr] /\ 0 \in Slots
      /\ o.latency \in Nat /\ o.queue_delay \in Nat
      /\ \A k \in StatNames : c.stats[k] \in Nat
      /\ {"compute_cycles", "access_latency_cycles", "bandwidth", "cycles"} \subseteq StatNames
      /\ "compute_cycles" \in StatNames \ (Timing \cup Latencies)
      /\ Cycles(c) \in Nat /\ c.stats["bandwidth"] \in Nat /\ Serial(c) \in Nat
  BY StatsAreNumbers, SlotsAreFinite
     DEF CpuState, OutcomeOfAccess, StatNames, Buckets, Timing, Latencies, Cycles, Serial
<1>2. \A i \in Slots : c.mshrs[i].free_at \in Nat /\ c.mshrs[i].latency \in Nat
  BY <1>1 DEF Mshr
<1>3. /\ r \in CpuState
      /\ r.stats["access_latency_cycles"] = c.stats["access_latency_cycles"] + o.latency
      /\ r.stats["compute_cycles"] = c.stats["compute_cycles"]
  BY <1>1, MissCorrect DEF Accessed
<1>4. /\ entry \in Mshr
      /\ Permuted(r.mshrs, file)
      /\ Cycles(r) = start + own
      /\ r.stats["miss_latency_cycles"] = c.stats["miss_latency_cycles"] + o.latency
      /\ r.stats["bandwidth"] + Pending(entry, Cycles(r))
           <= c.stats["bandwidth"] + Pending(c.mshrs[0], Cycles(c)) + o.queue_delay
  BY MissChanges
<1>5. entry.free_at = start + o.latency /\ entry.latency = o.latency
  BY DEF MissEntry
<1>6. /\ start \in Nat /\ Cycles(c) <= start /\ c.mshrs[0].free_at <= start
      /\ start <= Serial(c)
  BY <1>1, <1>2 DEF MissStart, Overlapped
<1> HIDE DEF r, start, entry
<1>7. Cycles(r) \in Nat /\ Cycles(c) <= Cycles(r) /\ start <= Cycles(r) /\ r.stats["bandwidth"] \in Nat
  BY <1>1, <1>3, <1>4, <1>6, StatsAreNumbers DEF CpuState
<1>8. /\ file \in [Slots -> Mshr] /\ file[0] = entry
      /\ \A i \in Slots \ {0} : file[i] = c.mshrs[i]
  BY <1>1, <1>4
<1> HIDE DEF file
<1>9. /\ PendingTotal(r.mshrs, Cycles(r)) = PendingTotal(file, Cycles(r))
      /\ FreeTotal(r.mshrs) = FreeTotal(file)
      /\ \A i \in Slots : \E j \in Slots : r.mshrs[i] = file[j]
  BY <1>4, <1>7, <1>8, TotalsOfPermuted
<1>10. ASSUME NEW i \in Slots
       PROVE  file[i].free_at <= Cycles(r) + file[i].latency
  <2>1. CASE i = 0
    BY <1>1, <1>5, <1>6, <1>7, <1>8, <2>1
  <2>2. CASE i # 0
    <3>1. file[i] = c.mshrs[i] /\ c.mshrs[i].free_at <= Cycles(c) + c.mshrs[i].latency
      BY <1>8, <2>2 DEF WaitsForOwnMiss
    <3> QED
      BY <1>1, <1>2, <1>7, <3>1
  <2> QED
    BY <2>1, <2>2
<1>11. WaitsForOwnMiss(r.mshrs, Cycles(r))
  BY <1>9, <1>10 DEF WaitsForOwnMiss
<1>12. Serial(r) = Serial(c) + o.latency
  <2>1. c.stats["compute_cycles"] \in Nat /\ c.stats["access_latency_cycles"] \in Nat
    BY <1>1
  <2> QED
    BY <1>1, <1>3, <2>1 DEF Serial
<1>13. ASSUME NEW i \in Slots
       PROVE  file[i].free_at <= Serial(r)
  <2>1. CASE i = 0
    BY <1>1, <1>5, <1>6, <1>8, <1>12, <2>1
  <2>2. CASE i # 0
    <3>1. file[i] = c.mshrs[i] /\ c.mshrs[i].free_at <= Serial(c)
      BY <1>8, <2>2 DEF Overlapped
    <3> QED
      BY <1>1, <1>2, <1>12, <3>1
  <2> QED
    BY <2>1, <2>2
<1>14. Overlapped(r)
  <2>1. own \in Nat /\ own <= o.latency
    BY <1>1
  <2> HIDE DEF own
  <2>2. Cycles(r) <= Serial(r)
    BY <1>1, <1>4, <1>6, <1>12, <2>1
  <2> QED
    BY <1>9, <1>13, <2>2 DEF Overlapped
<1>15. Charged(r) <= Charged(c) + o.queue_delay
  <2>1. PendingTotal(file, Cycles(r)) + Pending(c.mshrs[0], Cycles(c))
          <= PendingTotal(c.mshrs, Cycles(c)) + Pending(entry, Cycles(r))
    BY <1>1, <1>7, <1>8, PendingOfOne
  <2>2. /\ PendingTotal(file, Cycles(r)) \in Nat /\ PendingTotal(c.mshrs, Cycles(c)) \in Nat
        /\ Pending(entry, Cycles(r)) \in Nat /\ Pending(c.mshrs[0], Cycles(c)) \in Nat
    <3>1. PendingTotal(file, Cycles(r)) \in Nat /\ PendingTotal(c.mshrs, Cycles(c)) \in Nat
      BY <1>1, <1>7, <1>8, PendingIsNumber
    <3> QED
      BY <1>1, <1>4, <3>1 DEF Pending, Mshr
  <2> QED
    BY <1>1, <1>4, <1>7, <1>9, <2>1, <2>2 DEF Charged
<1>16. FreeTotal(c.mshrs) + o.latency <= FreeTotal(r.mshrs)
  <2>1. /\ FreeTotal(c.mshrs) \in Nat /\ FreeTotal(file) \in Nat
        /\ FreeTotal(file) + c.mshrs[0].free_at = FreeTotal(c.mshrs) + entry.free_at
    BY <1>1, <1>4, FreeTotalOfOne DEF file
  <2>2. c.mshrs[0].free_at \in Nat
    BY <1>1, <1>2
  <2> QED
    BY <1>1, <1>5, <1>6, <1>9, <2>1, <2>2
<1> QED
  BY <1>4, <1>11, <1>14, <1>15, <1>16 DEF r

\* drain charges no more than is pending, and ends no later than the last fill.
LEMMA DrainAccounts ==
  ASSUME NEW c \in CpuState, NEW order \in CompletionOrders(c.mshrs),
         WaitsForOwnMiss(c.mshrs, Cycles(c)), Overlapped(c)
  PROVE  LET r == Drain(c, order)
         IN  /\ WaitsForOwnMiss(r.mshrs, Cycles(r))
             /\ Charged(r) <= Charged(c)
             /\ Overlapped(r)
             /\ r.stats["miss_latency_cycles"] = c.stats["miss_latency_cycles"]
             /\ FreeTotal(c.mshrs) <= Mshrs * Cycles(r)
<1> DEFINE r    == Drain(c, order)
           tail == TailStats(c, order)
           last == IF c.debt > 0 THEN 1 ELSE 0
<1>1. /\ c.stats \in CpuStats /\ c.mshrs \in [Slots -> Mshr] /\ c.debt \in Nat
      /\ \A k \in StatNames : c.stats[k] \in Nat
      /\ {"compute_cycles", "access_latency_cycles", "bandwidth", "cycles",
          "miss_latency_cycles"} \subseteq StatNames
      /\ Cycles(c) \in Nat /\ Serial(c) \in Nat
      /\ order \in [1 .. Mshrs -> Slots]
  <2>1. order \in [1 .. Mshrs -> Slots]
    BY DEF CompletionOrders
  <2>2. /\ c.stats \in CpuStats /\ c.mshrs \in [Slots -> Mshr] /\ c.debt \in Nat
        /\ {"compute_cycles", "access_latency_cycles", "bandwidth", "cycles",
            "miss_latency_cycles"} \subseteq StatNames
    BY CpuAssumption DEF CpuState, StatNames, Buckets
  <2>3. \A k \in StatNames : c.stats[k] \in Nat
    BY <2>2, StatsAreNumbers
  <2> QED
    BY <2>1, <2>2, <2>3 DEF Cycles, Serial
<1>2. /\ tail \in CpuStats
      /\ \A i \in Slots : c.mshrs[i].free_at <= tail["cycles"]
      /\ tail["cycles"] <= Serial(c)
      /\ tail["bandwidth"] <= c.stats["bandwidth"] + PendingTotal(c.mshrs, Cycles(c))
      /\ \A k \in StatNames \ {"cycles", "l2", "dram", "bandwidth"} : tail[k] = c.stats[k]
  BY <1>1, TailChanges DEF Overlapped
<1>3. r \in CpuState /\ \A i \in Slots : r.mshrs[i].free_at = 0
  BY <1>1, DrainCorrect
<1>4. \A k \in StatNames : r.stats[k] = IF k \in {"cycles", "compute_cycles"} THEN tail[k] + last
                                                                           ELSE tail[k]
  <2>1. \A k \in StatNames : tail[k] \in Nat
    BY <1>2, StatsAreNumbers
  <2> HIDE DEF tail
  <2>2. r.stats = IF c.debt > 0 THEN Add(tail, 1, {"cycles", "compute_cycles"}) ELSE tail
    BY DEF Drain, tail
  <2> HIDE DEF r
  <2> QED
    BY <2>1, <2>2 DEF Add
<1> HIDE DEF r, tail
<1>5. /\ last \in Nat /\ tail["cycles"] \in Nat /\ Cycles(r) = tail["cycles"] + last
      /\ r.stats["bandwidth"] = tail["bandwidth"] /\ r.stats["bandwidth"] \in Nat
      /\ r.stats["miss_latency_cycles"] = c.stats["miss_latency_cycles"]
      /\ Serial(r) = Serial(c) + last /\ Serial(r) \in Nat
  <2>1. \A k \in StatNames : tail[k] \in Nat /\ r.stats[k] \in Nat
    BY <1>2, <1>3, StatsAreNumbers DEF CpuState
  <2>2. /\ r.stats["compute_cycles"] = c.stats["compute_cycles"] + last
        /\ r.stats["access_latency_cycles"] = c.stats["access_latency_cycles"]
        /\ r.stats["miss_latency_cycles"] = c.stats["miss_latency_cycles"]
    BY <1>1, <1>2, <1>4
  <2>3. /\ Cycles(r) = tail["cycles"] + last
        /\ r.stats["bandwidth"] = tail["bandwidth"]
    BY <1>1, <1>4 DEF Cycles
  <2>4. last \in Nat
    OBVIOUS
  <2> HIDE DEF last
  <2>5. /\ tail["cycles"] \in Nat /\ r.stats["bandwidth"] \in Nat
        /\ c.stats["compute_cycles"] \in Nat /\ c.stats["access_latency_cycles"] \in Nat
    BY <1>1, <2>1
  <2>6. Serial(r) = Serial(c) + last /\ Serial(r) \in Nat
    BY <2>2, <2>4, <2>5 DEF Serial
  <2> QED
    BY <2>2, <2>3, <2>4, <2>5, <2>6
<1> HIDE DEF last
<1>6. Cycles(r) \in Nat /\ r.mshrs \in [Slots -> Mshr]
  BY <1>3, <1>5 DEF CpuState
<1>7. WaitsForOwnMiss(r.mshrs, Cycles(r))
  BY <1>3, <1>6 DEF WaitsForOwnMiss, Mshr
<1>8. Overlapped(r)
  BY <1>1, <1>2, <1>3, <1>5 DEF Overlapped
<1>9. PendingTotal(r.mshrs, Cycles(r)) = 0
  <2> DEFINE f == [i \in Slots |-> Pending(r.mshrs[i], Cycles(r))]
  <2>1. \A i \in Slots : f[i] \in Nat /\ f[i] <= 0
    BY <1>3, <1>6 DEF Pending
  <2>2. 0 \in Nat /\ Mshrs * 0 = 0
    BY CpuAssumption
  <2> HIDE DEF f
  <2>3. Sum(f, Slots) <= Mshrs * 0 /\ Sum(f, Slots) \in Nat
    <3>1. Sum(f, Slots) <= Cardinality(Slots) * 0
      BY <2>1, <2>2, SlotsAreFinite, SumIsBounded
    <3> QED
      BY <2>1, <3>1, SlotsAreFinite, SumPick
  <2> QED
    BY <2>2, <2>3 DEF PendingTotal, f
<1>10. Charged(r) <= Charged(c)
  <2>1. PendingTotal(c.mshrs, Cycles(c)) \in Nat /\ c.stats["bandwidth"] \in Nat
    BY <1>1, PendingIsNumber
  <2> QED
    BY <1>2, <1>5, <1>9, <2>1 DEF Charged
<1>11. FreeTotal(c.mshrs) <= Mshrs * Cycles(r)
  <2>1. \A i \in Slots : c.mshrs[i].free_at <= Cycles(r)
    <3>1. \A i \in Slots : c.mshrs[i].free_at \in Nat
      BY <1>1 DEF Mshr
    <3> QED
      BY <1>2, <1>5, <3>1
  <2> QED
    BY <1>1, <1>6, <2>1, FreeTotalIsBounded
<1> QED
  BY <1>5, <1>7, <1>8, <1>10, <1>11 DEF r

\* What is charged and what may still be charged to bandwidth is a number of cycles.
LEMMA ChargedIsNumber ==
  ASSUME NEW c \in CpuState
  PROVE  Charged(c) \in Nat
<1>1. /\ c.mshrs \in [Slots -> Mshr] /\ Cycles(c) \in Nat /\ c.stats["bandwidth"] \in Nat
  BY StatsAreNumbers DEF CpuState, Cycles, StatNames, Buckets
<1> QED
  BY <1>1, PendingIsNumber DEF Charged

\* The sum of the times is a number.
LEMMA FreeTotalIsNumber ==
  ASSUME NEW heap \in [Slots -> Mshr]
  PROVE  FreeTotal(heap) \in Nat
<1> DEFINE f == Frees(heap)
<1>1. \A i \in Slots : f[i] \in Nat
  BY DEF Frees, Mshr
<1> HIDE DEF f
<1> QED
  BY <1>1, SlotsAreFinite, SumPick, FreeTotalIsSum DEF f

\* Instructions are paid for in time.
LEMMA IssueAccounts ==
  ASSUME NEW c \in CpuState, NEW n \in Nat,
         WaitsForOwnMiss(c.mshrs, Cycles(c)), Overlapped(c)
  PROVE  LET r == Issue(c, n)
         IN  /\ r \in CpuState /\ r.mshrs = c.mshrs
             /\ WaitsForOwnMiss(r.mshrs, Cycles(r))
             /\ Charged(r) <= Charged(c)
             /\ Overlapped(r)
             /\ r.stats["miss_latency_cycles"] = c.stats["miss_latency_cycles"]
<1> DEFINE r == Issue(c, n)
<1>1. PICK whole \in Nat :
        \A k \in StatNames : r.stats[k] = IF k = "instructions" THEN c.stats[k] + n
                                          ELSE IF k \in {"cycles", "compute_cycles"}
                                               THEN c.stats[k] + whole
                                          ELSE c.stats[k]
  BY IssueCorrect
<1>2. r \in CpuState /\ r.mshrs = c.mshrs
  BY IssueCorrect DEF Recounted
<1> HIDE DEF r
<1>3. /\ r.stats["cycles"] = c.stats["cycles"] + whole
      /\ r.stats["compute_cycles"] = c.stats["compute_cycles"] + whole
      /\ r.stats["access_latency_cycles"] = c.stats["access_latency_cycles"]
      /\ r.stats["miss_latency_cycles"] = c.stats["miss_latency_cycles"]
      /\ r.stats["bandwidth"] = c.stats["bandwidth"]
  BY <1>1 DEF StatNames, Buckets
<1>4. /\ c.stats["compute_cycles"] \in Nat /\ c.stats["access_latency_cycles"] \in Nat
      /\ c.stats["cycles"] \in Nat
  BY StatsAreNumbers DEF CpuState, StatNames
<1>5. Cycles(r) = Cycles(c) + whole /\ Serial(c) + whole <= Serial(r)
  BY <1>3, <1>4 DEF Cycles, Serial
<1> QED
  BY <1>2, <1>3, <1>5, TimePasses DEF r

\* The instruction of the access itself is paid for like any other (cpu.cpp:57-60).
LEMMA BeginAccounts ==
  ASSUME NEW c \in CpuState, NEW dependent \in BOOLEAN,
         WaitsForOwnMiss(c.mshrs, Cycles(c)), Overlapped(c)
  PROVE  LET r == BeginAccess(c, dependent)
         IN  /\ r \in CpuState /\ r.mshrs = c.mshrs
             /\ WaitsForOwnMiss(r.mshrs, Cycles(r))
             /\ Charged(r) <= Charged(c)
             /\ Overlapped(r)
             /\ r.stats["miss_latency_cycles"] = c.stats["miss_latency_cycles"]
<1> DEFINE r    == BeginAccess(c, dependent)
           once == {"memory_instructions"} \cup (IF dependent THEN {"dependent_loads"} ELSE {})
<1>1. PICK whole \in Nat :
        \A k \in StatNames : r.stats[k] = IF k = "instructions" \/ k \in once THEN c.stats[k] + 1
                                          ELSE IF k \in {"cycles", "compute_cycles"}
                                               THEN c.stats[k] + whole
                                          ELSE c.stats[k]
  BY BeginCorrect
<1>2. r \in CpuState /\ r.mshrs = c.mshrs
  BY BeginCorrect DEF Recounted
<1>3. \A k \in once : k \in {"memory_instructions", "dependent_loads"}
  OBVIOUS
<1> HIDE DEF r, once
<1>4. /\ r.stats["cycles"] = c.stats["cycles"] + whole
      /\ r.stats["compute_cycles"] = c.stats["compute_cycles"] + whole
      /\ r.stats["access_latency_cycles"] = c.stats["access_latency_cycles"]
      /\ r.stats["miss_latency_cycles"] = c.stats["miss_latency_cycles"]
      /\ r.stats["bandwidth"] = c.stats["bandwidth"]
  BY <1>1, <1>3 DEF StatNames, Buckets
<1>5. /\ c.stats["compute_cycles"] \in Nat /\ c.stats["access_latency_cycles"] \in Nat
      /\ c.stats["cycles"] \in Nat
  BY StatsAreNumbers DEF CpuState, StatNames
<1>6. Cycles(r) = Cycles(c) + whole /\ Serial(c) + whole <= Serial(r)
  BY <1>4, <1>5 DEF Cycles, Serial
<1> QED
  BY <1>2, <1>4, <1>6, TimePasses DEF r

-----------------------------------------------------------------------------
(* What the MSHRs and the stalls say of the past.                           *)

\* The root frees up first.
LEMMA RootIsLeast ==
  ASSUME NEW heap \in [Slots -> Mshr], HeapOrdered(heap), NEW slot \in Slots
  PROVE  heap[0].free_at <= heap[slot].free_at
<1> DEFINE Bad == {i \in Slots : ~(heap[0].free_at <= heap[i].free_at)}
<1>1. \A i \in Slots : heap[i].free_at \in Nat /\ i \in Nat
  BY CpuAssumption DEF Mshr, Slots
<1>2. SUFFICES ASSUME Bad # {} PROVE FALSE
  OBVIOUS
<1>3. PICK i \in Bad : \A j \in Bad : i <= j
  <2>1. Bad \in SUBSET Nat
    BY <1>1
  <2> HIDE DEF Bad
  <2> QED
    BY <1>2, <2>1, MinIsLeast
<1>4. i \in Slots \ {0} /\ ~(heap[0].free_at <= heap[i].free_at)
  BY <1>1, <1>3, SlotsAreFinite
<1> DEFINE above == Parent(i)
<1>5. above \in Slots /\ above < i /\ above \in Nat
  BY <1>1, <1>4, ParentIsAbove
<1>6. heap[above].free_at <= heap[i].free_at
  BY <1>4 DEF HeapOrdered
<1> HIDE DEF above
<1>7. heap[0].free_at <= heap[above].free_at
  BY <1>1, <1>3, <1>5
<1> QED
  BY <1>1, <1>4, <1>5, <1>6, <1>7, SlotsAreFinite

\* The MSHRs that have been used since the last drain.
Busy(heap) == {i \in Slots : heap[i].free_at > 0}

\* No more MSHRs are in use than there are.
LEMMA BusyIsFinite ==
  ASSUME NEW heap
  PROVE  /\ IsFiniteSet(Busy(heap)) /\ Cardinality(Busy(heap)) \in Nat
         /\ Cardinality(Busy(heap)) <= Mshrs
<1>1. Busy(heap) \in SUBSET Slots
  BY DEF Busy
<1> QED
  BY <1>1, SlotsAreFinite, FS_Subset, FS_CardinalityType

\* A miss uses one more at most.
LEMMA BusyAfterMiss ==
  ASSUME NEW old \in [Slots -> Mshr], NEW entry \in Mshr, NEW heap,
         Permuted(heap, [old EXCEPT ![0] = entry])
  PROVE  Cardinality(Busy(heap)) <= Cardinality(Busy(old)) + 1
<1> DEFINE file == [old EXCEPT ![0] = entry]
           S == Busy(heap)
           T == Busy(file)
           U == Busy(old)
           V == U \cup {0}
<1>1. PICK p \in [Slots -> Slots] : /\ \A i, j \in Slots : p[i] = p[j] => i = j
                                    /\ heap = [i \in Slots |-> file[p[i]]]
  BY DEF Permuted
<1>2. /\ IsFiniteSet(S) /\ IsFiniteSet(T) /\ IsFiniteSet(U)
      /\ Cardinality(S) \in Nat /\ Cardinality(T) \in Nat /\ Cardinality(U) \in Nat
  BY BusyIsFinite
<1>3. Cardinality(S) <= Cardinality(T)
  <2> DEFINE f == [i \in S |-> p[i]]
  <2>1. \A i \in S : i \in Slots /\ p[i] \in T
    BY <1>1 DEF Busy
  <2>2. f \in Injection(S, T)
    BY <1>1, <2>1, ZenonT(40) DEF Injection, IsInjective
  <2> HIDE DEF f, S, T
  <2> QED
    BY <1>2, <2>2, FS_Injection
<1>4. T \in SUBSET V
  BY DEF Busy
<1>5. IsFiniteSet(V) /\ Cardinality(V) \in Nat /\ Cardinality(V) <= Cardinality(U) + 1
  <2> HIDE DEF U
  <2>1. IsFiniteSet(V) /\ Cardinality(V) = IF 0 \in U THEN Cardinality(U) ELSE Cardinality(U) + 1
    BY <1>2, FS_AddElement
  <2> QED
    BY <1>2, <2>1
<1> HIDE DEF S, T, U, V
<1>6. Cardinality(T) <= Cardinality(V)
  BY <1>4, <1>5, FS_Subset
<1>7. Cardinality(S) <= Cardinality(U) + 1
  BY <1>2, <1>3, <1>5, <1>6
<1> QED
  BY <1>7 DEF S, U

\* The cycles, or an outstanding fill, have got as far as x.
Reaches(c, x) == x <= Cycles(c) \/ \E i \in Slots : x <= c.mshrs[i].free_at

\* Time passes.
LEMMA TimeReaches ==
  ASSUME NEW c \in CpuState, NEW r \in CpuState, NEW x \in Nat, Reaches(c, x),
         r.mshrs = c.mshrs, Cycles(c) <= Cycles(r)
  PROVE  Reaches(r, x)
<1>1. Cycles(c) \in Nat /\ Cycles(r) \in Nat
  BY StatsAreNumbers DEF CpuState, Cycles, StatNames
<1> QED
  BY <1>1 DEF Reaches

\* The MSHR a miss takes has got no further than the miss starts.
LEMMA MissReaches ==
  ASSUME NEW c \in CpuState, NEW o \in OutcomeOfAccess, NEW dependent \in BOOLEAN,
         HeapOrdered(c.mshrs), NEW x \in Nat
  PROVE  LET r == FinishMiss(c, o, dependent)
         IN  /\ Reaches(c, x) => Reaches(r, x)
             /\ x <= Cycles(c) + o.latency => Reaches(r, x)
<1> DEFINE r     == FinishMiss(c, o, dependent)
           start == MissStart(c)
           entry == MissEntry(start, o)
           file  == [c.mshrs EXCEPT ![0] = entry]
           own   == IF dependent THEN o.latency ELSE 0
<1>1. /\ c.mshrs \in [Slots -> Mshr] /\ 0 \in Slots /\ o.latency \in Nat /\ Cycles(c) \in Nat
  BY StatsAreNumbers, SlotsAreFinite DEF CpuState, OutcomeOfAccess, StatNames, Cycles
<1>2. \A i \in Slots : c.mshrs[i].free_at \in Nat
  BY <1>1 DEF Mshr
<1>3. r \in CpuState
  BY MissCorrect DEF Accessed
<1>4. /\ entry \in Mshr /\ Permuted(r.mshrs, file) /\ Cycles(r) = start + own
  BY MissChanges
<1>5. start \in Nat /\ Cycles(c) <= start /\ c.mshrs[0].free_at <= start /\ own \in Nat
  BY <1>1, <1>2 DEF MissStart
<1>6. entry.free_at = start + o.latency
  BY DEF MissEntry
<1> HIDE DEF r, start, entry, own
<1>7. /\ file[0] = entry /\ \A i \in Slots \ {0} : file[i] = c.mshrs[i]
  BY <1>1
<1> HIDE DEF file
<1>8. \A i \in Slots : \E j \in Slots : r.mshrs[j] = file[i]
  <2>1. PICK p \in [Slots -> Slots] : /\ \A i, j \in Slots : p[i] = p[j] => i = j
                                      /\ r.mshrs = [i \in Slots |-> file[p[i]]]
    BY <1>4 DEF Permuted
  <2>2. p \in Injection(Slots, Slots)
    BY <2>1 DEF Injection, IsInjective
  <2>3. p \in Surjection(Slots, Slots)
    BY <2>2, SlotsAreFinite, FS_Injection
  <2> QED
    BY <2>1, <2>3 DEF Surjection
<1>9. ASSUME Reaches(c, x) PROVE Reaches(r, x)
  <2>1. CASE x <= Cycles(c)
    BY <1>1, <1>4, <1>5, <2>1 DEF Reaches
  <2>2. ASSUME NEW i \in Slots, x <= c.mshrs[i].free_at PROVE Reaches(r, x)
    <3>1. CASE i = 0
      BY <1>1, <1>2, <1>4, <1>5, <2>2, <3>1 DEF Reaches
    <3>2. CASE i # 0
      BY <1>7, <1>8, <2>2, <3>2 DEF Reaches
    <3> QED
      BY <3>1, <3>2
  <2> QED
    BY <1>9, <2>1, <2>2 DEF Reaches
<1>10. ASSUME x <= Cycles(c) + o.latency PROVE Reaches(r, x)
  <2>1. PICK j \in Slots : r.mshrs[j] = entry
    BY <1>1, <1>7, <1>8
  <2>2. x <= entry.free_at
    BY <1>1, <1>5, <1>6, <1>10
  <2> QED
    BY <2>1, <2>2 DEF Reaches
<1> QED
  BY <1>9, <1>10 DEF r

\* Every stall has its cause in the counters of the caches: a stall in the bucket of a
\* level is for what that level supplied, and one for an MSHR comes after a miss in each
\* of them.  The fills that are still outstanding have their cause too.
Caused(c, hits, l2Hits, reads, misses) ==
  /\ c.stats["l1"] > 0 => c.stats["dependent_loads"] > 0 /\ hits > 0
  /\ c.stats["l2"] > 0 => l2Hits > 0
  /\ c.stats["dram"] > 0 => reads > 0
  /\ c.stats["bandwidth"] > 0 => reads > 0
  /\ c.stats["mshr"] > 0 => misses > Mshrs
  /\ Cardinality(Busy(c.mshrs)) <= misses
  /\ \A i \in Busy(c.mshrs) : /\ c.mshrs[i].bucket = "l2" => l2Hits > 0
                              /\ c.mshrs[i].bucket = "dram" => reads > 0
                              /\ c.mshrs[i].queue_delay > 0 => reads > 0

\* An outstanding fill is in an MSHR that is in use.
LEMMA OutstandingIsBusy ==
  ASSUME NEW c \in CpuState, NEW i, Outstanding(c, i)
  PROVE  i \in Busy(c.mshrs)
<1>1. Cycles(c) \in Nat /\ i \in Slots /\ c.mshrs[i].free_at > Cycles(c)
  BY StatsAreNumbers DEF CpuState, Cycles, StatNames, Outstanding
<1>2. c.mshrs[i].free_at \in Nat
  BY <1>1 DEF CpuState, Mshr
<1> QED
  BY <1>1, <1>2 DEF Busy

\* A miss is caused by the level that supplies it; it waits for an MSHR only when all
\* are in use.
LEMMA MissIsCaused ==
  ASSUME NEW c \in CpuState, NEW o \in OutcomeOfAccess, NEW dependent \in BOOLEAN,
         HeapOrdered(c.mshrs),
         NEW hits \in Nat, NEW l2Hits \in Nat, NEW reads \in Nat, NEW misses \in Nat,
         Caused(c, hits, l2Hits, reads, misses),
         NEW l2After \in Nat, l2Hits <= l2After, NEW readsAfter \in Nat, reads <= readsAfter,
         o.source = "L2" => l2After > 0 /\ o.queue_delay = 0,
         o.source # "L2" => readsAfter > 0
  PROVE  Caused(FinishMiss(c, o, dependent), hits, l2After, readsAfter, misses + 1)
<1> DEFINE r     == FinishMiss(c, o, dependent)
           entry == MissEntry(MissStart(c), o)
           file  == [c.mshrs EXCEPT ![0] = entry]
<1>1. /\ c.stats \in CpuStats /\ c.mshrs \in [Slots -> Mshr] /\ 0 \in Slots /\ Cycles(c) \in Nat
      /\ o.queue_delay \in Nat /\ Mshrs \in Nat
      /\ \A i \in Slots : c.mshrs[i].free_at \in Nat /\ c.mshrs[i].queue_delay \in Nat
      /\ "dependent_loads" \in StatNames \ (Timing \cup Latencies)
  BY StatsAreNumbers, SlotsAreFinite, CpuAssumption
     DEF CpuState, OutcomeOfAccess, StatNames, Buckets, Timing, Latencies, Cycles, Mshr
<1>2. /\ entry \in Mshr /\ Permuted(r.mshrs, file)
      /\ r.stats["l1"] = c.stats["l1"]
      /\ r.stats["mshr"] # c.stats["mshr"] => c.mshrs[0].free_at > Cycles(c)
      /\ \A k \in {"l2", "dram"} : r.stats[k] # c.stats[k] => k = entry.bucket
      /\ r.stats["bandwidth"] # c.stats["bandwidth"] =>
           o.queue_delay > 0 \/ (Outstanding(c, 0) /\ c.mshrs[0].queue_delay > 0)
  BY MissChanges
<1>3. r \in CpuState /\ r.stats["dependent_loads"] = c.stats["dependent_loads"]
  BY <1>1, MissCorrect DEF Accessed
<1>4. /\ entry.bucket = IF o.source = "L2" THEN "l2" ELSE "dram"
      /\ entry.queue_delay = o.queue_delay
  BY DEF MissEntry, BucketOf
<1>5. /\ entry.bucket = "l2" => l2After > 0
      /\ entry.bucket = "dram" => readsAfter > 0
      /\ o.queue_delay > 0 => readsAfter > 0
  BY <1>1, <1>4
<1> HIDE DEF r, entry
<1>6. Cardinality(Busy(r.mshrs)) <= misses + 1
  <2>1. Cardinality(Busy(r.mshrs)) <= Cardinality(Busy(c.mshrs)) + 1
    BY <1>1, <1>2, BusyAfterMiss
  <2>2. Cardinality(Busy(r.mshrs)) \in Nat /\ Cardinality(Busy(c.mshrs)) \in Nat
    BY BusyIsFinite
  <2>3. Cardinality(Busy(c.mshrs)) <= misses
    BY DEF Caused
  <2> QED
    BY <2>1, <2>2, <2>3
<1>7. ASSUME NEW i \in Busy(r.mshrs)
      PROVE  /\ r.mshrs[i].bucket = "l2" => l2After > 0
             /\ r.mshrs[i].bucket = "dram" => readsAfter > 0
             /\ r.mshrs[i].queue_delay > 0 => readsAfter > 0
  <2>1. PICK p \in [Slots -> Slots] : r.mshrs = [j \in Slots |-> file[p[j]]]
    BY <1>2 DEF Permuted
  <2>2. i \in Slots /\ r.mshrs[i].free_at > 0
    BY DEF Busy
  <2> DEFINE j == p[i]
  <2>3. j \in Slots /\ r.mshrs[i] = file[j]
    BY <2>1, <2>2
  <2> HIDE DEF j
  <2>4. CASE j = 0
    BY <1>1, <1>4, <1>5, <2>3, <2>4
  <2>5. CASE j # 0
    <3>1. r.mshrs[i] = c.mshrs[j] /\ j \in Busy(c.mshrs)
      BY <1>1, <2>2, <2>3, <2>5 DEF Busy
    <3>2. /\ c.mshrs[j].bucket = "l2" => l2Hits > 0
          /\ c.mshrs[j].bucket = "dram" => reads > 0
          /\ c.mshrs[j].queue_delay > 0 => reads > 0
      BY <3>1 DEF Caused
    <3> QED
      BY <3>1, <3>2
  <2> QED
    BY <2>4, <2>5
<1>8. r.stats["mshr"] > 0 => misses + 1 > Mshrs
  <2>1. CASE r.stats["mshr"] = c.stats["mshr"]
    <3>1. c.stats["mshr"] > 0 => misses > Mshrs
      BY DEF Caused
    <3> QED
      BY <1>1, <2>1, <3>1
  <2>2. CASE r.stats["mshr"] # c.stats["mshr"]
    <3>1. \A i \in Slots : c.mshrs[i].free_at > 0
      <4>1. c.mshrs[0].free_at > 0
        BY <1>1, <1>2, <2>2
      <4>2. \A i \in Slots : c.mshrs[0].free_at <= c.mshrs[i].free_at
        BY <1>1, RootIsLeast
      <4> QED
        BY <1>1, <4>1, <4>2
    <3>2. Busy(c.mshrs) = Slots
      BY <3>1 DEF Busy
    <3>3. Mshrs <= misses
      BY <3>2, SlotsAreFinite DEF Caused
    <3> QED
      BY <1>1, <3>3
  <2> QED
    BY <2>1, <2>2
<1>9. r.stats["l2"] > 0 => l2After > 0
  BY <1>2, <1>5 DEF Caused
<1>10. r.stats["dram"] > 0 => readsAfter > 0
  BY <1>2, <1>5 DEF Caused
<1>11. r.stats["bandwidth"] > 0 => readsAfter > 0
  <2>1. CASE r.stats["bandwidth"] = c.stats["bandwidth"]
    BY <2>1 DEF Caused
  <2>2. CASE o.queue_delay > 0
    BY <1>5, <2>2
  <2>3. CASE Outstanding(c, 0) /\ c.mshrs[0].queue_delay > 0
    <3>1. 0 \in Busy(c.mshrs)
      BY <2>3, OutstandingIsBusy
    <3> QED
      BY <2>3, <3>1 DEF Caused
  <2> QED
    BY <1>2, <2>1, <2>2, <2>3
<1>12. r.stats["l1"] > 0 => r.stats["dependent_loads"] > 0 /\ hits > 0
  BY <1>2, <1>3 DEF Caused
<1> QED
  BY <1>6, <1>7, <1>8, <1>9, <1>10, <1>11, <1>12 DEF Caused, r

\* Only a dependent load waits for a hit.
LEMMA HitIsCaused ==
  ASSUME NEW c \in CpuState, NEW o \in OutcomeOfAccess, NEW dependent \in BOOLEAN,
         dependent => c.stats["dependent_loads"] > 0,
         NEW hits \in Nat, NEW l2Hits, NEW reads, NEW misses,
         Caused(c, hits, l2Hits, reads, misses)
  PROVE  Caused(FinishHit(c, o, dependent), hits + 1, l2Hits, reads, misses)
<1> DEFINE r == FinishHit(c, o, dependent)
<1>1. /\ r.mshrs = c.mshrs
      /\ r.stats["l1"] # c.stats["l1"] => dependent
      /\ \A k \in {"l2", "dram", "bandwidth", "mshr", "dependent_loads"} : r.stats[k] = c.stats[k]
  BY DEF FinishHit, Stall, Add, StatNames, Buckets, CpuState, CpuStats
<1>2. r.stats["l1"] > 0 => r.stats["dependent_loads"] > 0 /\ hits + 1 > 0
  BY <1>1 DEF Caused
<1> HIDE DEF r
<1>3. Caused(r, hits + 1, l2Hits, reads, misses)
  BY <1>1, <1>2 DEF Caused
<1> QED
  BY <1>3 DEF r

\* drain charges the levels that supply what is outstanding.
LEMMA DrainIsCaused ==
  ASSUME NEW c \in CpuState, NEW order \in CompletionOrders(c.mshrs),
         NEW hits, NEW l2Hits, NEW reads, NEW misses \in Nat,
         Caused(c, hits, l2Hits, reads, misses)
  PROVE  /\ Caused(Drain(c, order), hits, l2Hits, reads, misses)
         /\ \A x \in Nat : Reaches(c, x) => x <= Cycles(Drain(c, order))
<1> DEFINE r    == Drain(c, order)
           tail == TailStats(c, order)
<1>1. /\ tail \in CpuStats
      /\ \A i \in Slots : c.mshrs[i].free_at <= tail["cycles"]
      /\ \A k \in StatNames \ {"cycles", "l2", "dram", "bandwidth"} : tail[k] = c.stats[k]
      /\ \A k \in {"l2", "dram"} :
           tail[k] # c.stats[k] => \E i \in Slots : Outstanding(c, i) /\ c.mshrs[i].bucket = k
      /\ tail["bandwidth"] # c.stats["bandwidth"] =>
           \E i \in Slots : Outstanding(c, i) /\ c.mshrs[i].queue_delay > 0
  BY TailChanges
<1>2. /\ r \in CpuState /\ \A i \in Slots : r.mshrs[i].free_at = 0
  BY DrainCorrect DEF CompletionOrders
<1>3. /\ r.stats["cycles"] = tail["cycles"] \/ r.stats["cycles"] = tail["cycles"] + 1
      /\ \A k \in StatNames \ {"cycles", "compute_cycles"} : r.stats[k] = tail[k]
  <2>1. r.stats = IF c.debt > 0 THEN Add(tail, 1, {"cycles", "compute_cycles"}) ELSE tail
    BY DEF Drain
  <2> HIDE DEF r, tail
  <2> QED
    BY <2>1 DEF Add, StatNames
<1> HIDE DEF r, tail
<1>4. Busy(r.mshrs) = {} /\ Cardinality({}) = 0
  BY <1>2, FS_EmptySet DEF Busy
<1>5. \A k \in {"l1", "mshr", "dependent_loads"} : r.stats[k] = c.stats[k]
  BY <1>1, <1>3 DEF StatNames, Buckets
<1>6. \A k \in {"l2", "dram", "bandwidth"} : r.stats[k] = tail[k]
  BY <1>3 DEF StatNames, Buckets
<1>7. \A i \in Slots : Outstanding(c, i) =>
        /\ c.mshrs[i].bucket = "l2" => l2Hits > 0
        /\ c.mshrs[i].bucket = "dram" => reads > 0
        /\ c.mshrs[i].queue_delay > 0 => reads > 0
  BY OutstandingIsBusy DEF Caused
<1>8. /\ r.stats["l2"] > 0 => l2Hits > 0
      /\ r.stats["dram"] > 0 => reads > 0
      /\ r.stats["bandwidth"] > 0 => reads > 0
  BY <1>1, <1>6, <1>7 DEF Caused
<1>9. Caused(r, hits, l2Hits, reads, misses)
  BY <1>4, <1>5, <1>8 DEF Caused
<1>10. ASSUME NEW x \in Nat, Reaches(c, x) PROVE x <= Cycles(r)
  <2>1. /\ tail["cycles"] \in Nat /\ \A i \in Slots : c.mshrs[i].free_at \in Nat
        /\ Cycles(c) \in Nat
    BY <1>1, StatsAreNumbers DEF CpuState, StatNames, Mshr, Cycles
  <2>2. Cycles(c) <= tail["cycles"]
    <3>1. \E stall \in Nat : Stalled(c.stats, tail, stall)
      BY TailIsStall DEF tail, CompletionOrders
    <3> QED
      BY <2>1, <3>1 DEF Stalled, Cycles
  <2> QED
    BY <1>1, <1>3, <1>10, <2>1, <2>2 DEF Reaches, Cycles
<1> QED
  BY <1>9, <1>10 DEF r

-----------------------------------------------------------------------------
(* What is needed to compare two CPUs.                                      *)

\* The first entries of a completion order.
FirstToComplete(mshrs, k, order) ==
  /\ order \in [1 .. k -> Slots]
  /\ \A i, j \in 1 .. k : i < j => /\ order[i] # order[j]
                                   /\ mshrs[order[i]].free_at <= mshrs[order[j]].free_at
  /\ \A s \in Slots : \/ \E i \in 1 .. k : order[i] = s
                      \/ \A i \in 1 .. k : mshrs[order[i]].free_at <= mshrs[s].free_at

\* Fewer entries than there are slots leave a slot out.
LEMMA SomeSlotIsLeft ==
  ASSUME NEW k \in Nat, k < Mshrs, NEW order \in [1 .. k -> Slots]
  PROVE  \E s \in Slots : \A i \in 1 .. k : order[i] # s
<1>1. SUFFICES ASSUME \A s \in Slots : \E i \in 1 .. k : order[i] = s PROVE FALSE
  OBVIOUS
<1>2. order \in Surjection(1 .. k, Slots)
  BY <1>1 DEF Surjection
<1>3. IsFiniteSet(1 .. k) /\ Cardinality(1 .. k) = k
  BY FS_Interval
<1>4. Cardinality(Slots) <= k
  BY <1>2, <1>3, FS_Surjection
<1> QED
  BY <1>4, SlotsAreFinite, CpuAssumption

\* The MSHRs can be listed in order of completion.
LEMMA OrderExists ==
  ASSUME NEW mshrs \in [Slots -> Mshr]
  PROVE  CompletionOrders(mshrs) # {}
<1> DEFINE Listed(k) == \E order : FirstToComplete(mshrs, k, order)
           Unlisted == {k \in Nat : k <= Mshrs /\ ~Listed(k)}
<1>1. SUFFICES Unlisted = {}
  <2>1. SUFFICES ASSUME Unlisted = {} PROVE CompletionOrders(mshrs) # {}
    OBVIOUS
  <2>2. PICK order : FirstToComplete(mshrs, Mshrs, order)
    BY <2>1, CpuAssumption
  <2> QED
    BY <2>2 DEF FirstToComplete, CompletionOrders
<1>2. SUFFICES ASSUME Unlisted # {} PROVE FALSE
  OBVIOUS
<1>3. PICK k \in Unlisted : \A n \in Unlisted : k <= n
  BY <1>2, MinIsLeast
<1>4. \A s \in Slots : mshrs[s].free_at \in Nat
  BY DEF Mshr
<1>5. CASE k = 0
  <2> DEFINE order == [i \in 1 .. 0 |-> 0]
  <2>1. FirstToComplete(mshrs, 0, order)
    BY DEF FirstToComplete
  <2> QED
    BY <1>3, <1>5, <2>1
<1>6. CASE k # 0
  <2> DEFINE n == k - 1
  <2>1. n \in Nat /\ n < Mshrs /\ k = n + 1 /\ Mshrs \in Nat /\ n \notin Unlisted
    BY <1>3, <1>6, CpuAssumption
  <2> HIDE DEF n
  <2>2. PICK order : FirstToComplete(mshrs, n, order)
    BY <2>1
  <2> DEFINE Left == {s \in Slots : \A i \in 1 .. n : order[i] # s}
             Ends == {mshrs[s].free_at : s \in Left}
  <2>3. Left # {}
    <3>1. order \in [1 .. n -> Slots]
      BY <2>2 DEF FirstToComplete
    <3>2. \E s \in Slots : \A i \in 1 .. n : order[i] # s
      BY <2>1, <3>1, SomeSlotIsLeft
    <3> QED
      BY <3>2
  <2>4. Ends \in SUBSET Nat /\ Ends # {}
    BY <1>4, <2>3
  <2>5. PICK s \in Left : \A t \in Left : mshrs[s].free_at <= mshrs[t].free_at
    <3>1. Min(Ends) \in Ends /\ \A e \in Ends : Min(Ends) <= e
      BY <2>4, MinIsLeast
    <3> QED
      BY <3>1
  <2> DEFINE longer == [i \in 1 .. k |-> IF i = k THEN s ELSE order[i]]
  <2>6. /\ \A i \in 1 .. n : i \in 1 .. k /\ i # k /\ order[i] \in Slots /\ longer[i] = order[i]
        /\ k \in 1 .. k /\ longer[k] = s
        /\ \A i \in 1 .. k : i = k \/ i \in 1 .. n
    BY <2>1, <2>2 DEF FirstToComplete
  <2>7. longer \in [1 .. k -> Slots]
    BY <2>6
  <2>8. \A i, j \in 1 .. n : i < j => /\ order[i] # order[j]
                                      /\ mshrs[order[i]].free_at <= mshrs[order[j]].free_at
    BY <2>2 DEF FirstToComplete
  <2>9. \A t \in Left : \A i \in 1 .. n : mshrs[order[i]].free_at <= mshrs[t].free_at
    BY <2>2 DEF FirstToComplete
  <2> HIDE DEF longer
  <2>10. ASSUME NEW i \in 1 .. k, NEW j \in 1 .. k, i < j
         PROVE  /\ longer[i] # longer[j]
                /\ mshrs[longer[i]].free_at <= mshrs[longer[j]].free_at
    <3>1. i \in 1 .. n
      BY <2>1, <2>10
    <3>2. CASE j = k
      BY <2>5, <2>6, <2>9, <3>1, <3>2
    <3>3. CASE j # k
      BY <2>6, <2>8, <2>10, <3>1, <3>3
    <3> QED
      BY <3>2, <3>3
  <2>11. ASSUME NEW t \in Slots, \A i \in 1 .. k : longer[i] # t, NEW i \in 1 .. k
         PROVE  mshrs[longer[i]].free_at <= mshrs[t].free_at
    <3>1. t \in Left
      BY <2>6, <2>11
    <3>2. CASE i = k
      BY <2>5, <2>6, <3>1, <3>2
    <3>3. CASE i # k
      BY <2>6, <2>9, <3>1, <3>3
    <3> QED
      BY <3>2, <3>3
  <2>12. FirstToComplete(mshrs, k, longer)
    BY <2>7, <2>10, <2>11 DEF FirstToComplete
  <2> QED
    BY <1>3, <2>12
<1> QED
  BY <1>5, <1>6

\* The whole cycles that issue pays, and the debt it leaves.
Paid(debt, n)   == ((debt + n * CpiScaled) % WordSize) \div FractionOne
StillOwed(debt, n) == ((debt + n * CpiScaled) % WordSize) - Paid(debt, n) * FractionOne

\* What issue pays depends on nothing but the debt.
LEMMA IssuePays ==
  ASSUME NEW c \in CpuState, NEW n \in Nat
  PROVE  LET r == Issue(c, n)
         IN  /\ r \in CpuState /\ r.mshrs = c.mshrs
             /\ r.debt = StillOwed(c.debt, n)
             /\ Paid(c.debt, n) \in Nat
             /\ r.stats["cycles"] = c.stats["cycles"] + Paid(c.debt, n)
             /\ Unstalled(r.stats) = Unstalled(c.stats) + Paid(c.debt, n)
<1> DEFINE r     == Issue(c, n)
           whole == Paid(c.debt, n)
           Names == Buckets \cup {"cycles"}
<1>1. /\ Recounted(c, r, r.debt)
      /\ \E paid \in Nat :
           /\ \A k \in StatNames :
                r.stats[k] = IF k = "instructions" THEN c.stats[k] + n
                             ELSE IF k \in {"cycles", "compute_cycles"}
                                  THEN c.stats[k] + paid
                             ELSE c.stats[k]
           /\ c.debt + n * CpiScaled < WordSize =>
                paid * FractionOne + r.debt = c.debt + n * CpiScaled
  BY IssueCorrect
<1>2. /\ r.debt = StillOwed(c.debt, n)
      /\ r.stats = Add(Add(c.stats, n, {"instructions"}), whole, {"cycles", "compute_cycles"})
  BY DEF Issue, StillOwed, Paid
<1> HIDE DEF r, whole
<1>3. PICK paid \in Nat : \A k \in StatNames :
        r.stats[k] = IF k = "instructions" THEN c.stats[k] + n
                     ELSE IF k \in {"cycles", "compute_cycles"}
                          THEN c.stats[k] + paid
                     ELSE c.stats[k]
  BY <1>1
<1>4. r.stats["cycles"] = c.stats["cycles"] + whole
  BY <1>2 DEF Add, StatNames
<1>5. r.stats["cycles"] = c.stats["cycles"] + paid
  BY <1>3 DEF StatNames
<1>6. \A k \in Names : c.stats[k] \in Nat
  BY DEF CpuState, CpuStats, StatNames
<1>7. whole \in Int
  <2>1. /\ c.debt \in Nat /\ CpiScaled \in Nat /\ WordSize \in Nat \ {0} /\ FractionOne \in Nat \ {0}
    BY CpuAssumption DEF CpuState
  <2>2. n * CpiScaled \in Nat
    BY <2>1
  <2>3. (c.debt + n * CpiScaled) % WordSize \in Nat
    BY <2>1, <2>2
  <2> QED
    BY <2>1, <2>3 DEF whole, Paid
<1>8. whole = paid
  BY <1>4, <1>5, <1>6, <1>7
<1>9. Unstalled(r.stats) = Unstalled(c.stats) + whole
  <2>1. \A k \in Buckets : r.stats[k] = c.stats[k]
    BY <1>3 DEF Buckets, StatNames
  <2>2. StallTotal(r.stats) = StallTotal(c.stats)
    BY <2>1 DEF StallTotal, Buckets
  <2>3. StallTotal(c.stats) \in Nat /\ c.stats["cycles"] \in Nat
    BY StatsAreNumbers DEF CpuState
  <2> QED
    BY <1>5, <1>8, <2>2, <2>3 DEF Unstalled
<1> QED
  BY <1>1, <1>2, <1>4, <1>8, <1>9 DEF Recounted, r, whole

\* Nor does what the issue of an access pays.
LEMMA BeginPays ==
  ASSUME NEW c \in CpuState, NEW dependent \in BOOLEAN
  PROVE  LET r == BeginAccess(c, dependent)
         IN  /\ r \in CpuState /\ r.mshrs = c.mshrs
             /\ r.debt = StillOwed(c.debt, 1)
             /\ Paid(c.debt, 1) \in Nat
             /\ r.stats["cycles"] = c.stats["cycles"] + Paid(c.debt, 1)
             /\ Unstalled(r.stats) = Unstalled(c.stats) + Paid(c.debt, 1)
<1> DEFINE issued == Issue(c, 1)
           once   == {"memory_instructions"} \cup (IF dependent THEN {"dependent_loads"} ELSE {})
           r      == BeginAccess(c, dependent)
<1>1. /\ issued \in CpuState /\ issued.mshrs = c.mshrs
      /\ issued.debt = StillOwed(c.debt, 1)
      /\ Paid(c.debt, 1) \in Nat
      /\ issued.stats["cycles"] = c.stats["cycles"] + Paid(c.debt, 1)
      /\ Unstalled(issued.stats) = Unstalled(c.stats) + Paid(c.debt, 1)
  BY IssuePays
<1>2. r = [stats |-> Add(issued.stats, 1, once), debt |-> issued.debt, mshrs |-> issued.mshrs]
  BY DEF BeginAccess
<1>3. once \cap (Buckets \cup {"cycles"}) = {}
  BY DEF Buckets
<1> HIDE DEF issued, once, r
<1>4. /\ Add(issued.stats, 1, once) \in CpuStats
      /\ \A k \in StatNames :
           Add(issued.stats, 1, once)[k] = IF k \in once THEN issued.stats[k] + 1 ELSE issued.stats[k]
  BY <1>1, AddType DEF CpuState
<1>5. /\ r.stats["cycles"] = issued.stats["cycles"]
      /\ \A k \in Buckets : r.stats[k] = issued.stats[k]
  BY <1>2, <1>3, <1>4 DEF StatNames
<1>6. Unstalled(r.stats) = Unstalled(issued.stats)
  BY <1>5 DEF Unstalled, StallTotal, Buckets
<1>7. r \in CpuState
  BY <1>1, <1>2, <1>4 DEF CpuState
<1> QED
  BY <1>1, <1>2, <1>5, <1>6, <1>7 DEF r

\* drain ends with the last fill; a fraction of a cycle still owed is rounded up.
LEMMA DrainPays ==
  ASSUME NEW c \in CpuState, NEW order \in CompletionOrders(c.mshrs)
  PROVE  LET r    == Drain(c, order)
             owed == IF c.debt > 0 THEN 1 ELSE 0
         IN  /\ r \in CpuState /\ r.debt = 0 /\ \A i \in Slots : r.mshrs[i].free_at = 0
             /\ Cycles(r) - owed \in Nat
             /\ Cycles(c) <= Cycles(r) - owed
             /\ \A i \in Slots : c.mshrs[i].free_at <= Cycles(r) - owed
             /\ \A last \in Nat : /\ Cycles(c) <= last
                                  /\ \A i \in Slots : c.mshrs[i].free_at <= last
                                  => Cycles(r) <= last + owed
             /\ Unstalled(r.stats) = Unstalled(c.stats) + owed
<1> DEFINE r    == Drain(c, order)
           owed == IF c.debt > 0 THEN 1 ELSE 0
           tail == TailStats(c, order)
<1>1. /\ tail \in CpuStats
      /\ \A i \in Slots : c.mshrs[i].free_at <= tail["cycles"]
      /\ \A last \in Nat : /\ Cycles(c) <= last
                           /\ \A i \in Slots : c.mshrs[i].free_at <= last
                           => tail["cycles"] <= last
  BY TailChanges
<1>2. /\ r \in CpuState /\ \A i \in Slots : r.mshrs[i].free_at = 0
      /\ \E stall \in Nat :
           /\ r.stats["cycles"] = c.stats["cycles"] + stall + owed
           /\ StallTotal(r.stats) = StallTotal(c.stats) + stall
           /\ r.stats["compute_cycles"] = c.stats["compute_cycles"] + owed
           /\ \A k \in StatNames \ (Timing \cup {"compute_cycles"}) : r.stats[k] = c.stats[k]
           /\ AllCompleted(c) => stall = 0 /\ r.stats["mshr"] = c.stats["mshr"]
  BY DrainCorrect DEF CompletionOrders
<1>3. /\ r.debt = 0
      /\ r.stats = IF c.debt > 0 THEN Add(tail, 1, {"cycles", "compute_cycles"}) ELSE tail
  BY DEF Drain
<1>4. "cycles" \in StatNames /\ owed \in {0, 1} /\ (c.debt > 0 <=> owed = 1)
  BY DEF StatNames
<1> HIDE DEF r, owed, tail
<1>5. r.stats["cycles"] = tail["cycles"] + owed
  <2>1. tail["cycles"] \in Nat
    BY <1>1, StatsAreNumbers
  <2>2. CASE c.debt > 0
    <3>1. r.stats = Add(tail, 1, {"cycles", "compute_cycles"})
      BY <1>3, <2>2
    <3> QED
      BY <1>4, <2>2, <3>1 DEF Add
  <2>3. CASE ~(c.debt > 0)
    BY <1>3, <1>4, <2>1, <2>3
  <2> QED
    BY <2>2, <2>3
<1>6. PICK stall \in Nat : /\ r.stats["cycles"] = c.stats["cycles"] + stall + owed
                           /\ StallTotal(r.stats) = StallTotal(c.stats) + stall
  BY <1>2
<1>7. /\ tail["cycles"] \in Nat /\ c.stats["cycles"] \in Nat /\ r.stats["cycles"] \in Nat
      /\ StallTotal(c.stats) \in Nat
  BY <1>1, <1>2, StatsAreNumbers DEF CpuState
<1>8. Unstalled(r.stats) = Unstalled(c.stats) + owed
  BY <1>4, <1>6, <1>7 DEF Unstalled
<1>9. Cycles(r) - owed = tail["cycles"] /\ Cycles(c) <= tail["cycles"]
  BY <1>4, <1>5, <1>6, <1>7 DEF Cycles
<1>10. ASSUME NEW last \in Nat, Cycles(c) <= last, \A i \in Slots : c.mshrs[i].free_at <= last
       PROVE  Cycles(r) <= last + owed
  <2>1. tail["cycles"] <= last
    BY <1>1, <1>10
  <2> QED
    BY <1>4, <1>5, <1>7, <2>1 DEF Cycles
<1> QED
  BY <1>1, <1>2, <1>3, <1>7, <1>8, <1>9, <1>10 DEF r, owed
=============================================================================
