----------------------------- MODULE MCTracegen -----------------------------
(***************************************************************************)
(* Command lines for TLC: elements of 8 bytes in pages of 64, dimensions up    *)
(* to 4.                                                                    *)
(***************************************************************************)
EXTENDS Tracegen

Arg(option, value) == [option |-> option, value |-> value]

\* What the elements of the matrices are filled with: values that tell apart all
\* the products.
Entries == [d \in 1 .. 18 |-> (d * d * d + 7 * d) % 97]

MCDefaults ==
  [workload |-> "", mode |-> "trace", out |-> "-", n |-> 3, nGiven |-> FALSE, block |-> 0,
   stride |-> 16, iterations |-> 1, draws |-> Entries]

Line(workload, n, block, stride, iterations, draws) ==
  <<Arg("name", workload), Arg("--n", n), Arg("--block", block), Arg("--stride", stride),
    Arg("--iterations", iterations), Arg("--seed", draws), Arg("--out", "file")>>

\* Blocks that divide n, that do not, that are larger, and none.
MatrixLines ==
  {Line("matrix", n, block, 8, 1, Entries) : n \in 0 .. 3, block \in 0 .. 4}
    \union {Line("matrix", 2, 1, 8, 2, Entries)}

\* Every permutation the shuffle can make of up to four elements.
ChaseLines ==
  UNION {{Line("pointer_chase", n, 0, 8, 2, draws) : draws \in [1 .. n - 1 -> 0 .. n - 1]} :
           n \in 1 .. 4}

RandomLines ==
  {Line(workload, 2, 0, stride, 2, draws) :
     workload \in {"random_access", "strided"}, stride \in {4, 8, 16}, draws \in [1 .. 4 -> 0 .. 1]}

ScanLines ==
  {Line("sequential", n, 0, 8, iterations, Entries) : n \in 0 .. 3, iterations \in 0 .. 2}

\* A whole command line, in either mode.
WholeLines ==
  {Append(whole, Arg("--mode", mode)) :
     whole \in MatrixLines \union ChaseLines \union RandomLines \union ScanLines,
     mode \in {"trace", "native"}}

\* Arguments in any order, left out, given twice, without a value or unknown.
OddLines ==
  SeqOf({Arg("name", "matrix"), Arg("name", "strided"), Arg("name", "other"), Arg("--n", 2),
         Arg("--n", 1), Arg("--mode", "native"), Arg("--mode", "other"), Arg("--block", 2),
         Arg("--list", 0), Arg("--other", 0), Arg("--stride", 8), Arg("--out", "file")}, 3)

CutLines == {<<Arg("name", "matrix"), Arg(option, Missing)>> : option \in Valued}

MCCommandLines == WholeLines \union OddLines \union CutLines
=============================================================================
