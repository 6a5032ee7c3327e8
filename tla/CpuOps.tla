------------------------------- MODULE CpuOps -------------------------------
(***************************************************************************)
(* The CPU timing model (include/cpu.hpp, src/cpu.cpp) as a value and the   *)
(* operations on it:                                                        *)
(*                                                                         *)
(*   stats  CpuStats with its StallCycles, one natural number per counter   *)
(*   debt   compute_debt_, in units of 1/FractionOne of a cycle              *)
(*   mshrs  the min-heap mshrs_, indexed from 0                             *)
(*                                                                         *)
(* The queue fraction of an MSHR is kept as the pair it was computed from,   *)
(* queue_delay / latency.                                                   *)
(***************************************************************************)
EXTENDS Integers

CONSTANTS Mshrs,         \* config.mshrs
          CpiScaled,     \* compute_cpi_scaled_
          FractionOne,   \* 2^kCpiFractionBits: one cycle of debt
          WordSize       \* 2^64: compute_debt_ is a 64-bit word

ASSUME CpuAssumption ==
  /\ Mshrs \in Nat \ {0}
  /\ CpiScaled \in Nat \ {0}
  /\ FractionOne \in Nat \ {0}
  /\ WordSize \in Nat \ {0}

Slots   == 0 .. Mshrs-1
Buckets == {"l1", "l2", "dram", "bandwidth", "mshr"}

StatNames == Buckets \cup
  {"instructions", "memory_instructions", "dependent_loads", "cycles",
   "compute_cycles", "access_latency_cycles", "miss_latency_cycles"}

Add(stats, n, which) ==
  [k \in StatNames |-> IF k \in which THEN stats[k] + n ELSE stats[k]]

IdleMshr == [free_at |-> 0, bucket |-> "dram", queue_delay |-> 0, latency |-> 1]

NewCpu == [stats |-> [k \in StatNames |-> 0],
           debt  |-> 0,
           mshrs |-> [i \in Slots |-> IdleMshr]]

Cycles(cpu) == cpu.stats["cycles"]

-----------------------------------------------------------------------------
(* Stalls.  Every stalled cycle goes to one bucket.                         *)

Stall(stats, cycles, bucket) == Add(stats, cycles, {"cycles", bucket})

\* The share of a stall that was spent in the queue for the DRAM bus, rounded to
\* the nearest cycle.
QueuedShare(cycles, entry) ==
  LET rounded == (2 * cycles * entry.queue_delay + entry.latency) \div (2 * entry.latency)
  IN  IF rounded < cycles THEN rounded ELSE cycles

\* Mutant: the queued share is moved to its bucket but not to the total.
StallSplitLoses(stats, cycles, bucket, entry) ==
  LET queued == QueuedShare(cycles, entry)
  IN  Add(Stall(stats, cycles - queued, bucket), queued, {"bandwidth"})

StallSplit(stats, cycles, bucket, entry) ==
  LET queued == QueuedShare(cycles, entry)
  IN  Stall(Stall(stats, cycles - queued, bucket), queued, "bandwidth")

\* Mutant: the wait is the time at which the entry frees up.
WaitForAbsolute(stats, bucket, entry) ==
  IF entry.free_at > stats["cycles"]
  THEN StallSplit(stats, entry.free_at, bucket, entry)
  ELSE stats

\* Mutant: the wait ends a cycle late.
WaitForTooLong(stats, bucket, entry) ==
  IF entry.free_at > stats["cycles"]
  THEN StallSplit(stats, entry.free_at + 1 - stats["cycles"], bucket, entry)
  ELSE stats

\* Waiting until an entry frees up; no wait when it already has.
WaitFor(stats, bucket, entry) ==
  IF entry.free_at > stats["cycles"]
  THEN StallSplit(stats, entry.free_at - stats["cycles"], bucket, entry)
  ELSE stats

-----------------------------------------------------------------------------
(* sift_down(0): the new root entry sinks along the smaller children.       *)

Parent(i) == (i - 1) \div 2

\* Mutant: the right child is compared with the root, not with the smaller of the two.
SinksRight(heap, i) ==
  LET free(j) == IF j = i THEN heap[0].free_at ELSE heap[j].free_at
      left    == 2 * i + 1
      right   == 2 * i + 2
  IN  IF right < Mshrs /\ free(right) < free(i) THEN right
      ELSE IF left < Mshrs /\ free(left) < free(i) THEN left ELSE i

\* Where the entry that started at the root goes from slot i: to the smaller
\* child that frees up before it, or nowhere (i itself).
SinksTo(heap, i) ==
  LET free(j)  == IF j = i THEN heap[0].free_at ELSE heap[j].free_at
      left     == 2 * i + 1
      right    == 2 * i + 2
      smaller  == IF left < Mshrs /\ free(left) < free(i) THEN left ELSE i
  IN  IF right < Mshrs /\ free(right) < free(smaller) THEN right ELSE smaller

SiftDown(heap) ==
  LET onPath[i \in Slots] ==
        IF i = 0 THEN TRUE ELSE onPath[Parent(i)] /\ SinksTo(heap, Parent(i)) = i
  IN  [i \in Slots |-> IF ~onPath[i] THEN heap[i]
                       ELSE IF SinksTo(heap, i) = i THEN heap[0]
                       ELSE heap[SinksTo(heap, i)]]

-----------------------------------------------------------------------------
(* Instructions.                                                            *)

\* Mutant: the cycles paid are not taken off the debt.
IssueKeepsDebt(cpu, instructions) ==
  LET debt  == (cpu.debt + instructions * CpiScaled) % WordSize
      whole == debt \div FractionOne
  IN  [stats |-> Add(Add(cpu.stats, instructions, {"instructions"}),
                     whole, {"cycles", "compute_cycles"}),
       debt  |-> debt,
       mshrs |-> cpu.mshrs]

\* issue: whole cycles of the accumulated debt are paid at once.  The product and
\* the sum wrap at the word size.
Issue(cpu, instructions) ==
  LET debt  == (cpu.debt + instructions * CpiScaled) % WordSize
      whole == debt \div FractionOne
  IN  [stats |-> Add(Add(cpu.stats, instructions, {"instructions"}),
                     whole, {"cycles", "compute_cycles"}),
       debt  |-> debt - whole * FractionOne,
       mshrs |-> cpu.mshrs]

\* The first half of access(): up to the call of the hierarchy.
BeginAccess(cpu, dependent) ==
  LET issued == Issue(cpu, 1)
  IN  [stats |-> Add(issued.stats, 1, {"memory_instructions"} \cup
                                      (IF dependent THEN {"dependent_loads"} ELSE {})),
       debt  |-> issued.debt,
       mshrs |-> issued.mshrs]

BucketOf(source) == IF source = "L2" THEN "l2" ELSE "dram"

\* The entry a miss occupies from the cycle at which it got one.
MissEntry(cycle, outcome) ==
  [free_at     |-> cycle + outcome.latency,
   bucket      |-> BucketOf(outcome.source),
   queue_delay |-> outcome.queue_delay,
   latency     |-> outcome.latency]

\* An L1 hit is exposed only to a dependent load.
FinishHit(cpu, outcome, dependent) ==
  LET counted == Add(cpu.stats, outcome.latency, {"access_latency_cycles"})
  IN  [stats |-> IF dependent THEN Stall(counted, outcome.latency, "l1") ELSE counted,
       debt  |-> cpu.debt,
       mshrs |-> cpu.mshrs]

\* Mutant: a dependent load is overlapped like any other miss.
MissOverlapped(cpu, outcome, dependent) ==
  LET counted == Add(cpu.stats, outcome.latency,
                     {"access_latency_cycles", "miss_latency_cycles"})
      started == WaitFor(counted, "mshr", cpu.mshrs[0])
  IN  [stats |-> started,
       debt  |-> cpu.debt,
       mshrs |-> SiftDown([cpu.mshrs EXCEPT ![0] = MissEntry(started["cycles"], outcome)])]

\* Mutant: the wait is split by the share of the miss that waits.
MissOwnShare(cpu, outcome, dependent) ==
  LET counted == Add(cpu.stats, outcome.latency,
                     {"access_latency_cycles", "miss_latency_cycles"})
      old     == cpu.mshrs[0]
      started == WaitFor(counted, "mshr", [MissEntry(0, outcome) EXCEPT !.free_at = old.free_at])
      entry   == MissEntry(started["cycles"], outcome)
  IN  [stats |-> IF dependent THEN StallSplit(started, outcome.latency, entry.bucket, entry)
                              ELSE started,
       debt  |-> cpu.debt,
       mshrs |-> SiftDown([cpu.mshrs EXCEPT ![0] = entry])]

\* A miss takes the MSHR that frees up soonest, waiting for it if it must; a
\* dependent load then waits for its own fill.
FinishMiss(cpu, outcome, dependent) ==
  LET counted == Add(cpu.stats, outcome.latency,
                     {"access_latency_cycles", "miss_latency_cycles"})
      started == WaitFor(counted, "mshr", cpu.mshrs[0])
      entry   == MissEntry(started["cycles"], outcome)
  IN  [stats |-> IF dependent THEN StallSplit(started, outcome.latency, entry.bucket, entry)
                              ELSE started,
       debt  |-> cpu.debt,
       mshrs |-> SiftDown([cpu.mshrs EXCEPT ![0] = entry])]

\* The second half of access(): what the outcome of the hierarchy costs.
FinishAccess(cpu, outcome, dependent) ==
  IF outcome.source = "L1" THEN FinishHit(cpu, outcome, dependent)
                           ELSE FinishMiss(cpu, outcome, dependent)

-----------------------------------------------------------------------------
(* drain: outstanding fills complete in order of completion, partial issue   *)
(* cycles are flushed.  std::sort may leave entries that complete together    *)
(* in any order, hence the choice of an order.                              *)

CompletionOrders(mshrs) ==
  {order \in [1 .. Mshrs -> Slots] :
     \A i, j \in 1 .. Mshrs : i < j => /\ order[i] # order[j]
                                       /\ mshrs[order[i]].free_at <= mshrs[order[j]].free_at}

\* Mutant: every tail is measured from the cycle at which drain was called.
TailStatsSummed(cpu, order) ==
  LET entry(n)  == cpu.mshrs[order[n]]
      after[n \in 0 .. Mshrs] ==
        IF n = 0 THEN cpu.stats
        ELSE IF entry(n).free_at > Cycles(cpu)
             THEN StallSplit(after[n-1], entry(n).free_at - Cycles(cpu), entry(n).bucket, entry(n))
             ELSE after[n-1]
  IN  after[Mshrs]

\* The tail of each fill is charged to the level that supplies it.
TailStats(cpu, order) ==
  LET after[n \in 0 .. Mshrs] ==
        IF n = 0 THEN cpu.stats
        ELSE WaitFor(after[n-1], cpu.mshrs[order[n]].bucket, cpu.mshrs[order[n]])
  IN  after[Mshrs]

Released(entry) == [free_at |-> 0, bucket |-> entry.bucket,
                    queue_delay |-> entry.queue_delay, latency |-> entry.latency]

Drain(cpu, order) ==
  LET tail == TailStats(cpu, order)
  IN  [stats |-> IF cpu.debt > 0 THEN Add(tail, 1, {"cycles", "compute_cycles"}) ELSE tail,
       debt  |-> 0,
       mshrs |-> [i \in Slots |-> Released(cpu.mshrs[order[i + 1]])]]

-----------------------------------------------------------------------------
(* What other modules ask of a CPU.                                         *)

Mshr == [free_at : Nat, bucket : {"l2", "dram"}, queue_delay : Nat, latency : Nat \ {0}]

CpuStats == [StatNames -> Nat]

CpuState == [stats : CpuStats, debt : 0 .. FractionOne-1, mshrs : [Slots -> Mshr]]

StallTotal(stats) ==
  stats["l1"] + stats["l2"] + stats["dram"] + stats["bandwidth"] + stats["mshr"]
=============================================================================
