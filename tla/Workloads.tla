----------------------------- MODULE Workloads -----------------------------
(***************************************************************************)
(* The workloads (workloads/): what each of the five kernels emits, as a      *)
(* sequence of trace records, and what the same kernel does when it is run,    *)
(* as the sequence of its accesses to the arrays and its checksum.  A job is   *)
(* the Params structure with the workload's name, and                        *)
(*                                                                         *)
(*   draws   the values next_random() returns, one after the other           *)
(*                                                                         *)
(* which stand for the seed: any sequence of draws is looked at.  Loops are   *)
(* written as the sequence of their iterations.  Sums stay far below the       *)
(* width of the program's words.                                            *)
(***************************************************************************)
EXTENDS Integers, SequencesExt

CONSTANTS ElementSize,   \* kElementSize
          ArrayBase,     \* kArrayBase
          PageSize       \* what arrays of a matrix kernel are aligned to

ASSUME LayoutAssumption ==
  /\ ElementSize \in Nat \ {0} /\ ArrayBase \in Nat /\ PageSize \in Nat \ {0}

Record(type, value) == [type |-> type, value |-> value]

Element(index) == ArrayBase + index * ElementSize

Total(job) == job.n * job.iterations

\* One load and the arithmetic of its iteration, for each of these addresses.
Scan(type, addresses, compute) ==
  FlattenSeq([h \in DOMAIN addresses |-> <<Record(type, addresses[h]), Record("N", compute)>>])

Sequential(job) == Scan("R", [h \in 1 .. Total(job) |-> Element((h - 1) % job.n)], 3)

RandomAccess(job) == Scan("R", [h \in 1 .. Total(job) |-> Element(job.draws[h] % job.n)], 9)

Strided(job) ==
  Scan("R", [h \in 1 .. Total(job) |-> ArrayBase + (job.draws[h] % job.n) * job.stride], 6)

-----------------------------------------------------------------------------
(* The pointer chase.                                                       *)

\* Mutant: an element may be swapped with itself (Fisher-Yates).
ChaseMayStay(job) ==
  LET shuffled[k \in 0 .. job.n - 1] ==
        IF k = 0 THEN [node \in 0 .. job.n - 1 |-> node]
        ELSE LET i    == job.n - k
                 j    == job.draws[k] % (i + 1)
                 next == shuffled[k - 1]
             IN  [next EXCEPT ![i] = next[j], ![j] = next[i]]
  IN  shuffled[job.n - 1]

\* build_chase_permutation: the k-th swap is that of i = n - k.
ChasePermutation(job) ==
  LET shuffled[k \in 0 .. job.n - 1] ==
        IF k = 0 THEN [node \in 0 .. job.n - 1 |-> node]
        ELSE LET i    == job.n - k
                 j    == job.draws[k] % i
                 next == shuffled[k - 1]
             IN  [next EXCEPT ![i] = next[j], ![j] = next[i]]
  IN  shuffled[job.n - 1]

PointerChase(job) ==
  LET next == ChasePermutation(job)
      node[h \in 1 .. Total(job)] == IF h = 1 THEN 0 ELSE next[node[h - 1]]
  IN  Scan("L", [h \in 1 .. Total(job) |-> Element(node[h])], 2)

-----------------------------------------------------------------------------
(* Matrix multiplication.                                                   *)

AlignUp(value, alignment) == ((value + alignment - 1) \div alignment) * alignment

LayoutFor(n) ==
  LET bytes == n * n * ElementSize
      b     == AlignUp(ArrayBase + bytes, PageSize)
  IN  [a |-> ArrayBase, b |-> b, c |-> AlignUp(b + bytes, PageSize)]

EffectiveBlock(job) == IF job.block = 0 \/ job.block >= job.n THEN job.n ELSE job.block

\* One dimension of the tile that starts here; the last one may be smaller.
Tile(job, start) == start .. Min({start + EffectiveBlock(job), job.n}) - 1

Starts(job) == {t \in 0 .. job.n - 1 : t % EffectiveBlock(job) = 0}

\* The iterations of the loops over iteration, ii, jj, kk, i and j.
Visits(job) ==
  {v \in (0 .. job.iterations - 1) \X Starts(job) \X Starts(job) \X Starts(job)
           \X (0 .. job.n) \X (0 .. job.n) :
     v[5] \in Tile(job, v[2]) /\ v[6] \in Tile(job, v[3])}

\* The order in which a loop nest goes through them.
Before(u, v) ==
  \E d \in 1 .. 6 : u[d] < v[d] /\ \A e \in 1 .. d - 1 : u[e] = v[e]

InOrder(visits) ==
  [r \in 1 .. Cardinality(visits) |->
     CHOOSE v \in visits : Cardinality({u \in visits : Before(u, v)}) = r - 1]

\* The body of the loop over j: C[i,j] accumulates one row of the tile.
MatrixBody(job, visit) ==
  LET n      == job.n
      layout == LayoutFor(n)
      i      == visit[5]
      j      == visit[6]
      c      == layout.c + (i * n + j) * ElementSize
      row    == Tile(job, visit[4])
      inner  == [m \in 1 .. Cardinality(row) |->
                   LET k == visit[4] + m - 1
                   IN  <<Record("R", layout.a + (i * n + k) * ElementSize),
                         Record("R", layout.b + (k * n + j) * ElementSize),
                         Record("N", 3)>>]
  IN  <<Record("R", c)>> \o FlattenSeq(inner) \o <<Record("W", c)>>

Matrix(job) ==
  LET order == InOrder(Visits(job))
  IN  FlattenSeq([r \in DOMAIN order |-> MatrixBody(job, order[r])])

-----------------------------------------------------------------------------
(* The same kernels, run natively.                                          *)

Access(kind, array, index) == [kind |-> kind, array |-> array, index |-> index]

Sum(f) == FoldFunction(+, 0, f)

\* A kernel that adds up these elements of an array whose element x holds x.
NativeScan(indices) ==
  [accesses |-> [h \in DOMAIN indices |-> Access("load", "array", indices[h])],
   checksum |-> Sum(indices)]

NativeSequential(job) == NativeScan([h \in 1 .. Total(job) |-> (h - 1) % job.n])

NativeRandomAccess(job) == NativeScan([h \in 1 .. Total(job) |-> job.draws[h] % job.n])

\* Mutant: the stride is taken for a number of elements.
NativeStridedBytes(job) ==
  NativeScan([h \in 1 .. Total(job) |-> (job.draws[h] % job.n) * job.stride])

NativeStrided(job) ==
  LET step == job.stride \div ElementSize
  IN  NativeScan([h \in 1 .. Total(job) |-> (job.draws[h] % job.n) * step])

\* Each load returns the next node, which the checksum adds up.
NativePointerChase(job) ==
  LET next == ChasePermutation(job)
      node[h \in 1 .. Total(job)] == IF h = 1 THEN 0 ELSE next[node[h - 1]]
  IN  [accesses |-> [h \in 1 .. Total(job) |-> Access("load", "next", node[h])],
       checksum |-> Sum([h \in 1 .. Total(job) |-> next[node[h]]])]

\* The arrays are filled with the low 16 bits of the draws, A and B in turn.
Filled(job, offset) ==
  [x \in 0 .. job.n * job.n - 1 |-> job.draws[2 * x + offset] % 65536]

\* The body of the loop over j: the sum is kept in a register.
NativeBody(job, visit) ==
  LET n     == job.n
      i     == visit[5]
      j     == visit[6]
      row   == Tile(job, visit[4])
      inner == [m \in 1 .. Cardinality(row) |->
                  LET k == visit[4] + m - 1
                  IN  <<Access("load", "a", i * n + k), Access("load", "b", k * n + j)>>]
  IN  <<Access("load", "c", i * n + j)>> \o FlattenSeq(inner)
        \o <<Access("store", "c", i * n + j)>>

\* Mutant: the sum of a tile starts at zero.
AccumulateAnew(job, a, b, c, visit) ==
  LET n == job.n
      i == visit[5]
      j == visit[6]
  IN  [c EXCEPT ![i * n + j] = Sum([k \in Tile(job, visit[4]) |-> a[i * n + k] * b[k * n + j]])]

\* What the body leaves in C.
Accumulate(job, a, b, c, visit) ==
  LET n == job.n
      i == visit[5]
      j == visit[6]
  IN  [c EXCEPT ![i * n + j] = @ + Sum([k \in Tile(job, visit[4]) |-> a[i * n + k] * b[k * n + j]])]

NativeMatrix(job) ==
  LET order == InOrder(Visits(job))
      a     == Filled(job, 1)
      b     == Filled(job, 2)
      c     == FoldLeft(LAMBDA sums, visit : Accumulate(job, a, b, sums, visit),
                        [x \in 0 .. job.n * job.n - 1 |-> 0], order)
  IN  [accesses |-> FlattenSeq([r \in DOMAIN order |-> NativeBody(job, order[r])]),
       checksum |-> Sum(c)]

-----------------------------------------------------------------------------

\* How often a workload calls next_random().
Draws(job) ==
  CASE job.workload = "sequential"                    -> 0
    [] job.workload \in {"random_access", "strided"} -> Total(job)
    [] job.workload = "pointer_chase"                 -> job.n - 1
    [] job.workload = "matrix"                        -> 2 * job.n * job.n

\* The registry: what the workload of this name emits.
Emission(job) ==
  CASE job.workload = "sequential"    -> Sequential(job)
    [] job.workload = "random_access" -> RandomAccess(job)
    [] job.workload = "pointer_chase" -> PointerChase(job)
    [] job.workload = "strided"       -> Strided(job)
    [] job.workload = "matrix"        -> Matrix(job)

\* And what running it natively does.
Native(job) ==
  CASE job.workload = "sequential"    -> NativeSequential(job)
    [] job.workload = "random_access" -> NativeRandomAccess(job)
    [] job.workload = "pointer_chase" -> NativePointerChase(job)
    [] job.workload = "strided"       -> NativeStrided(job)
    [] job.workload = "matrix"        -> NativeMatrix(job)
=============================================================================
