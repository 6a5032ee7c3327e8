----------------------------- MODULE CpuOverlap -----------------------------
(***************************************************************************)
(* A Cpu next to one with fewer MSHRs that executes the same records and     *)
(* gets the same outcomes from the hierarchy.  The experiments sweep          *)
(* cpu.mshrs and read the difference as the effect of the parameter, and the   *)
(* verdict suggests to increase it (src/simulator.cpp:110-115).               *)
(***************************************************************************)
EXTENDS Cpu

CONSTANT FewMshrs      \* config.mshrs of the other CPU

ASSUME MshrsAssumption == FewMshrs \in 1 .. Mshrs

VARIABLE fewer         \* the other Cpu object

F == INSTANCE CpuOps WITH Mshrs <- FewMshrs

BothInit == Init /\ fewer = F!NewCpu

\* The same compute record in both.
BothCompute(n) == Compute(n) /\ fewer' = F!Issue(fewer, n)

\* The same load or store, which takes as long in both once it has started.
BothMemoryAccess(outcome, dependent) ==
  /\ MemoryAccess(outcome, dependent)
  /\ fewer' = F!FinishAccess(F!BeginAccess(fewer, dependent), outcome, dependent)

\* The end of the trace.  The order of fills that complete together changes no
\* total, so the other CPU takes them in one.
BothFinish ==
  /\ Finish
  /\ fewer' = F!Drain(fewer, CHOOSE order \in F!CompletionOrders(fewer.mshrs) : TRUE)

BothNext ==
  \/ \E n \in ComputeCounts : BothCompute(n)
  \/ \E outcome \in Outcomes, dependent \in BOOLEAN : BothMemoryAccess(outcome, dependent)
  \/ BothFinish

BothSpec == BothInit /\ [][BothNext]_<<vars, fewer>>

-----------------------------------------------------------------------------

\* More MSHRs never make the same misses take longer: at every record, and when both
\* have drained, the CPU that has more of them is not behind, and it has waited for
\* no more cycles in all (cpu.cpp:82-91, the suggestion of simulator.cpp:115).  One
\* miss that waits for an entry other than the earliest breaks it.
MoreMshrsNeverSlower ==
  /\ Cycles(cpu) <= Cycles(fewer)
  /\ StallTotal(cpu.stats) <= StallTotal(fewer.stats)
=============================================================================
