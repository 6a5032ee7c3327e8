------------------------------ MODULE CpuProofs ------------------------------
(***************************************************************************)
(* Theorems about Cpu: whatever the hierarchy answers, cycles are          *)
(* partitioned, the MSHRs stay a heap that implements the file of          *)
(* MshrFile, compute cycles are exact as long as the word holds the debt,  *)
(* a chain of dependent loads is serial, bandwidth stalls were queued for  *)
(* and overlap only helps; for any number of MSHRs, any CPI, any set of    *)
(* outcomes and traces of every length.  And about CpuOverlap: more MSHRs  *)
(* never make a run slower.                                                *)
(***************************************************************************)
EXTENDS CpuOverlap, CpuOpsProofs

\* No record makes the debt exceed its word: 2^64 in the build, where a compute record
\* of 2^32 instructions at a CPI of 1 is already too long.
NoWrap == \A n \in ComputeCounts \cup {1} : n * CpiScaled + FractionOne <= WordSize

\* The counters and the heap are proved together: the partition needs every stall to be
\* counted twice, the chain needs to know that no more loads are dependent than there
\* are accesses.
Inv == /\ TypeOK
       /\ StallPartition
       /\ NoWrap => IssueExact
       /\ HeapOrder
       /\ cpu.stats["dependent_loads"] <= cpu.stats["memory_instructions"]
       /\ DependentChainSerial

\* Init establishes the invariant.
LEMMA InitEstablishesInv == Init => Inv
<1> SUFFICES ASSUME Init PROVE Inv
  OBVIOUS
<1>1. /\ cpu = [stats |-> [k \in StatNames |-> 0], debt |-> 0, mshrs |-> [i \in Slots |-> IdleMshr]]
      /\ drained = FALSE /\ queued = 0
  BY DEF Init, NewCpu
<1>2. \A k \in StatNames : cpu.stats[k] = 0
  BY <1>1
<1>3. {"l1", "l2", "dram", "bandwidth", "mshr", "cycles", "compute_cycles", "instructions",
       "dependent_loads", "memory_instructions", "access_latency_cycles"} \subseteq StatNames
  BY DEF StatNames, Buckets
<1>4. cpu.debt = 0 /\ \A i \in Slots : cpu.mshrs[i] = IdleMshr
  BY <1>1
<1>5. IdleMshr \in Mshr /\ IdleMshr.free_at = 0
  BY DEF IdleMshr, Mshr
<1>6. TypeOK
  <2>1. [k \in StatNames |-> 0] \in CpuStats /\ 0 \in 0 .. FractionOne-1
    BY CpuAssumption DEF CpuStats
  <2>2. [i \in Slots |-> IdleMshr] \in [Slots -> Mshr]
    BY <1>5
  <2> QED
    BY <1>1, <2>1, <2>2 DEF TypeOK, CpuState
<1>7. StallTotal(cpu.stats) = 0
  BY <1>2, <1>3 DEF StallTotal
<1>8. StallPartition
  BY <1>2, <1>3, <1>7 DEF StallPartition, Cycles
<1>9. IssueExact
  BY <1>1, <1>2, <1>3, <1>4, CpuAssumption DEF IssueExact
<1>10. HeapOrder
  BY <1>4, <1>5, ParentIsAbove DEF HeapOrder
<1>11. DependentChainSerial
  BY <1>2, <1>3, <1>4, <1>5, <1>7 DEF DependentChainSerial, Cycles
<1> QED
  BY <1>2, <1>3, <1>6, <1>8, <1>9, <1>10, <1>11 DEF Inv

\* The names of the counters that are used below.
LEMMA Names ==
  /\ {"l1", "l2", "dram", "bandwidth", "mshr", "cycles", "compute_cycles", "instructions",
      "dependent_loads", "memory_instructions", "access_latency_cycles"} \subseteq StatNames
  /\ {"compute_cycles", "instructions", "dependent_loads", "memory_instructions"}
       \subseteq StatNames \ (Timing \cup Latencies)
  /\ {"instructions", "dependent_loads", "memory_instructions", "access_latency_cycles"}
       \subseteq StatNames \ (Timing \cup {"compute_cycles"})
  BY DEF StatNames, Timing, Latencies, Buckets

\* Payments and dues, with n instructions more and `whole` cycles more paid.
LEMMA PaysWhatIsDue ==
  ASSUME NEW paid \in Nat, NEW whole \in Nat, NEW executed \in Nat, NEW n \in Nat,
         NEW debt \in Nat, NEW left \in Nat,
         paid * FractionOne + debt = executed * CpiScaled,
         whole * FractionOne + left = debt + n * CpiScaled
  PROVE  (paid + whole) * FractionOne + left = (executed + n) * CpiScaled
<1>1. FractionOne \in Nat /\ CpiScaled \in Nat
  BY CpuAssumption
<1>2. /\ (paid + whole) * FractionOne = paid * FractionOne + whole * FractionOne
      /\ (executed + n) * CpiScaled = executed * CpiScaled + n * CpiScaled
  BY <1>1
<1>3. /\ paid * FractionOne \in Nat /\ whole * FractionOne \in Nat
      /\ executed * CpiScaled \in Nat /\ n * CpiScaled \in Nat
  BY <1>1
<1> QED
  BY <1>2, <1>3

\* A compute record pays for its instructions and touches no stall.
LEMMA ComputeKeepsInv ==
  ASSUME Inv, NEW n \in ComputeCounts, Compute(n)
  PROVE  Inv'
<1>1. /\ cpu \in CpuState /\ queued \in Nat /\ n \in Nat
      /\ cpu.stats \in CpuStats /\ cpu.debt \in 0 .. FractionOne-1
      /\ \A k \in StatNames : cpu.stats[k] \in Nat
      /\ FractionOne \in Nat
  BY DriverAssumption, CpuAssumption, StatsAreNumbers DEF Inv, TypeOK, CpuState
<1>2. /\ cpu' = Issue(cpu, n) /\ drained = FALSE /\ drained' = FALSE /\ queued' = queued
  BY DEF Compute, Running, Inv, TypeOK
<1>3. /\ Recounted(cpu, cpu', cpu'.debt)
      /\ \E whole \in Nat :
           /\ \A k \in StatNames :
                cpu'.stats[k] = IF k = "instructions" THEN cpu.stats[k] + n
                                ELSE IF k \in {"cycles", "compute_cycles"}
                                     THEN cpu.stats[k] + whole
                                ELSE cpu.stats[k]
           /\ cpu.debt + n * CpiScaled < WordSize =>
                whole * FractionOne + cpu'.debt = cpu.debt + n * CpiScaled
  BY <1>1, <1>2, IssueCorrect
<1>4. PICK whole \in Nat :
        /\ \A k \in StatNames :
             cpu'.stats[k] = IF k = "instructions" THEN cpu.stats[k] + n
                             ELSE IF k \in {"cycles", "compute_cycles"}
                                  THEN cpu.stats[k] + whole
                             ELSE cpu.stats[k]
        /\ cpu.debt + n * CpiScaled < WordSize =>
             whole * FractionOne + cpu'.debt = cpu.debt + n * CpiScaled
  BY <1>3
<1>5. cpu' \in CpuState /\ cpu'.mshrs = cpu.mshrs /\ cpu'.debt \in Nat
  BY <1>1, <1>3 DEF Recounted, CpuState
<1>6. TypeOK'
  BY <1>1, <1>2, <1>5 DEF TypeOK
<1>7. StallTotal(cpu'.stats) = StallTotal(cpu.stats)
  BY <1>4, Names DEF StallTotal
<1>8. StallPartition'
  <2>1. Cycles(cpu) = cpu.stats["compute_cycles"] + StallTotal(cpu.stats)
    BY DEF Inv, StallPartition
  <2>2. StallTotal(cpu.stats) \in Nat
    BY <1>1, StatsAreNumbers
  <2> QED
    BY <1>1, <1>4, <1>7, <2>1, <2>2, Names DEF StallPartition, Cycles
<1>9. ASSUME NoWrap PROVE IssueExact'
  <2>1. cpu.stats["compute_cycles"] * FractionOne + cpu.debt = cpu.stats["instructions"] * CpiScaled
    BY <1>2, <1>9 DEF Inv, IssueExact
  <2>2. cpu.debt + n * CpiScaled < WordSize
    <3>1. n * CpiScaled \in Nat /\ WordSize \in Nat /\ n * CpiScaled + FractionOne <= WordSize
      BY <1>1, <1>9, CpuAssumption DEF NoWrap
    <3> QED
      BY <1>1, <3>1
  <2>3. /\ cpu'.stats["compute_cycles"] = cpu.stats["compute_cycles"] + whole
        /\ cpu'.stats["instructions"] = cpu.stats["instructions"] + n
    BY <1>4, Names
  <2>4. (cpu.stats["compute_cycles"] + whole) * FractionOne + cpu'.debt
          = (cpu.stats["instructions"] + n) * CpiScaled
    <3>1. /\ cpu.stats["compute_cycles"] \in Nat /\ cpu.stats["instructions"] \in Nat
          /\ cpu.debt \in Nat /\ cpu'.debt \in Nat /\ n \in Nat
      BY <1>1, <1>5, Names
    <3>2. whole * FractionOne + cpu'.debt = cpu.debt + n * CpiScaled
      BY <1>4, <2>2
    <3> DEFINE paid == cpu.stats["compute_cycles"]
               executed == cpu.stats["instructions"]
               debt == cpu.debt
               left == cpu'.debt
    <3>3. /\ paid \in Nat /\ whole \in Nat /\ executed \in Nat /\ n \in Nat
          /\ debt \in Nat /\ left \in Nat
          /\ paid * FractionOne + debt = executed * CpiScaled
          /\ whole * FractionOne + left = debt + n * CpiScaled
      BY <2>1, <3>1, <3>2
    <3> HIDE DEF paid, executed, debt, left
    <3>4. (paid + whole) * FractionOne + left = (executed + n) * CpiScaled
      BY <3>3, PaysWhatIsDue
    <3> QED
      BY <3>4 DEF paid, executed, left
  <2> QED
    BY <1>2, <2>3, <2>4 DEF IssueExact
<1>10. HeapOrder'
  BY <1>5 DEF Inv, HeapOrder
<1>11. /\ cpu'.stats["dependent_loads"] = cpu.stats["dependent_loads"]
       /\ cpu'.stats["memory_instructions"] = cpu.stats["memory_instructions"]
       /\ cpu'.stats["mshr"] = cpu.stats["mshr"]
       /\ cpu'.stats["access_latency_cycles"] = cpu.stats["access_latency_cycles"]
       /\ cpu'.stats["cycles"] = cpu.stats["cycles"] + whole
  BY <1>4, Names
<1>12. DependentChainSerial'
  <2>1. \A i \in Slots : cpu.mshrs[i].free_at \in Nat
    BY <1>1 DEF CpuState, Mshr
  <2>2. ASSUME cpu'.stats["memory_instructions"] = cpu'.stats["dependent_loads"]
        PROVE  /\ cpu'.stats["mshr"] = 0
               /\ StallTotal(cpu'.stats) = cpu'.stats["access_latency_cycles"]
               /\ \A i \in Slots : cpu'.mshrs[i].free_at <= cpu'.stats["cycles"]
    <3>1. /\ cpu.stats["mshr"] = 0
          /\ StallTotal(cpu.stats) = cpu.stats["access_latency_cycles"]
          /\ \A i \in Slots : cpu.mshrs[i].free_at <= cpu.stats["cycles"]
      BY <1>11, <2>2 DEF Inv, DependentChainSerial, Cycles
    <3>2. cpu.stats["cycles"] \in Nat
      BY <1>1, Names
    <3> QED
      BY <1>5, <1>7, <1>11, <2>1, <3>1, <3>2
  <2> QED
    BY <2>2 DEF DependentChainSerial, Cycles
<1> QED
  BY <1>6, <1>8, <1>9, <1>10, <1>11, <1>12 DEF Inv

\* An access pays for one instruction, and then stalls.
LEMMA AccessKeepsInv ==
  ASSUME Inv, NEW o \in Outcomes, NEW dependent \in BOOLEAN, MemoryAccess(o, dependent)
  PROVE  Inv'
<1> DEFINE begun == BeginAccess(cpu, dependent)
           one   == IF dependent THEN 1 ELSE 0
<1>1. /\ cpu \in CpuState /\ queued \in Nat /\ o \in OutcomeOfAccess
      /\ cpu.stats \in CpuStats /\ cpu.debt \in 0 .. FractionOne-1
      /\ \A k \in StatNames : cpu.stats[k] \in Nat
      /\ FractionOne \in Nat
  BY DriverAssumption, CpuAssumption, StatsAreNumbers
     DEF Inv, TypeOK, CpuState, OutcomeOfAccess
<1>2. /\ cpu' = FinishAccess(begun, o, dependent) /\ drained = FALSE /\ drained' = FALSE
      /\ queued' = queued + o.queue_delay
  BY DEF MemoryAccess, Running, Inv, TypeOK
<1>3. /\ Recounted(cpu, begun, begun.debt)
      /\ \E whole \in Nat :
           /\ begun.stats["instructions"] = cpu.stats["instructions"] + 1
           /\ begun.stats["memory_instructions"] = cpu.stats["memory_instructions"] + 1
           /\ begun.stats["dependent_loads"] = cpu.stats["dependent_loads"] + one
           /\ begun.stats["cycles"] = cpu.stats["cycles"] + whole
           /\ begun.stats["compute_cycles"] = cpu.stats["compute_cycles"] + whole
           /\ \A k \in Buckets \cup {"access_latency_cycles"} : begun.stats[k] = cpu.stats[k]
           /\ cpu.debt + CpiScaled < WordSize =>
                whole * FractionOne + begun.debt = cpu.debt + CpiScaled
  <2> DEFINE once == {"memory_instructions"} \cup (IF dependent THEN {"dependent_loads"} ELSE {})
  <2>1. /\ Recounted(cpu, begun, begun.debt)
        /\ \E whole \in Nat :
             /\ \A k \in StatNames :
                  begun.stats[k] = IF k = "instructions" \/ k \in once THEN cpu.stats[k] + 1
                                   ELSE IF k \in {"cycles", "compute_cycles"}
                                        THEN cpu.stats[k] + whole
                                   ELSE cpu.stats[k]
             /\ cpu.debt + CpiScaled < WordSize =>
                  whole * FractionOne + begun.debt = cpu.debt + CpiScaled
    BY <1>1, BeginCorrect
  <2> HIDE DEF begun
  <2>2. PICK whole \in Nat :
          /\ \A k \in StatNames :
               begun.stats[k] = IF k = "instructions" \/ k \in once THEN cpu.stats[k] + 1
                                ELSE IF k \in {"cycles", "compute_cycles"}
                                     THEN cpu.stats[k] + whole
                                ELSE cpu.stats[k]
          /\ cpu.debt + CpiScaled < WordSize =>
               whole * FractionOne + begun.debt = cpu.debt + CpiScaled
    BY <2>1
  <2>3. /\ "memory_instructions" \in once
        /\ \A k \in once : k \in {"memory_instructions", "dependent_loads"}
        /\ "dependent_loads" \in once <=> dependent
    OBVIOUS
  <2> HIDE DEF once
  <2>4. /\ begun.stats["instructions"] = cpu.stats["instructions"] + 1
        /\ begun.stats["memory_instructions"] = cpu.stats["memory_instructions"] + 1
        /\ begun.stats["cycles"] = cpu.stats["cycles"] + whole
        /\ begun.stats["compute_cycles"] = cpu.stats["compute_cycles"] + whole
    BY <2>2, <2>3, Names
  <2>5. begun.stats["dependent_loads"] = cpu.stats["dependent_loads"] + one
    BY <1>1, <2>2, <2>3, Names
  <2>6. \A k \in Buckets \cup {"access_latency_cycles"} : begun.stats[k] = cpu.stats[k]
    BY <2>2, <2>3 DEF StatNames, Buckets
  <2> QED
    BY <2>1, <2>2, <2>4, <2>5, <2>6
<1> HIDE DEF begun
<1>4. PICK whole \in Nat :
        /\ begun.stats["instructions"] = cpu.stats["instructions"] + 1
        /\ begun.stats["memory_instructions"] = cpu.stats["memory_instructions"] + 1
        /\ begun.stats["dependent_loads"] = cpu.stats["dependent_loads"] + one
        /\ begun.stats["cycles"] = cpu.stats["cycles"] + whole
        /\ begun.stats["compute_cycles"] = cpu.stats["compute_cycles"] + whole
        /\ \A k \in Buckets \cup {"access_latency_cycles"} : begun.stats[k] = cpu.stats[k]
        /\ cpu.debt + CpiScaled < WordSize =>
             whole * FractionOne + begun.debt = cpu.debt + CpiScaled
  BY <1>3
<1>5. /\ begun \in CpuState /\ begun.mshrs = cpu.mshrs
      /\ begun.stats \in CpuStats /\ StallTotal(begun.stats) = StallTotal(cpu.stats)
      /\ HeapOrdered(begun.mshrs)
  <2>1. begun \in CpuState /\ begun.mshrs = cpu.mshrs
    BY <1>3 DEF Recounted
  <2>2. StallTotal(begun.stats) = StallTotal(cpu.stats)
    BY <1>4 DEF StallTotal, Buckets
  <2> QED
    BY <2>1, <2>2 DEF CpuState, Inv, HeapOrder, HeapOrdered
<1>6. \E stall \in Nat :
        /\ Accessed(begun, cpu', o.latency, stall)
        /\ HeapOrdered(cpu'.mshrs)
        /\ dependent /\ AllCompleted(begun) =>
             stall = o.latency /\ AllCompleted(cpu') /\ cpu'.stats["mshr"] = begun.stats["mshr"]
  <2>1. CASE o.source = "L1"
    <3> DEFINE stall == IF dependent THEN o.latency ELSE 0
    <3>1. cpu' = FinishHit(begun, o, dependent)
      BY <1>2, <2>1 DEF FinishAccess
    <3>2. /\ Accessed(begun, cpu', o.latency, stall)
          /\ cpu'.mshrs = begun.mshrs /\ cpu'.stats["mshr"] = begun.stats["mshr"]
      BY <1>1, <1>5, <3>1, HitCorrect
    <3>3. stall \in Nat /\ (dependent => stall = o.latency)
      BY <1>1 DEF OutcomeOfAccess
    <3> HIDE DEF stall
    <3>4. ASSUME AllCompleted(begun) PROVE AllCompleted(cpu')
      <4>1. /\ cpu'.stats["cycles"] = begun.stats["cycles"] + stall
            /\ begun.stats["cycles"] \in Nat
            /\ \A i \in Slots : begun.mshrs[i].free_at \in Nat
        BY <1>5, <3>2, StatsAreNumbers DEF Accessed, CpuState, Mshr
      <4> QED
        BY <3>2, <3>3, <3>4, <4>1 DEF AllCompleted
    <3> QED
      BY <1>5, <3>2, <3>3, <3>4
  <2>2. CASE o.source # "L1"
    <3>1. cpu' = FinishMiss(begun, o, dependent)
      BY <1>2, <2>2 DEF FinishAccess
    <3> QED
      BY <1>1, <1>5, <3>1, MissCorrect
  <2> QED
    BY <2>1, <2>2
<1>7. PICK stall \in Nat :
        /\ Accessed(begun, cpu', o.latency, stall)
        /\ HeapOrdered(cpu'.mshrs)
        /\ dependent /\ AllCompleted(begun) =>
             stall = o.latency /\ AllCompleted(cpu') /\ cpu'.stats["mshr"] = begun.stats["mshr"]
  BY <1>6
<1>8. /\ cpu' \in CpuState /\ cpu'.debt = begun.debt
      /\ cpu'.stats["cycles"] = cpu.stats["cycles"] + whole + stall
      /\ StallTotal(cpu'.stats) = StallTotal(cpu.stats) + stall
      /\ cpu'.stats["access_latency_cycles"] = cpu.stats["access_latency_cycles"] + o.latency
      /\ cpu'.stats["compute_cycles"] = cpu.stats["compute_cycles"] + whole
      /\ cpu'.stats["instructions"] = cpu.stats["instructions"] + 1
      /\ cpu'.stats["memory_instructions"] = cpu.stats["memory_instructions"] + 1
      /\ cpu'.stats["dependent_loads"] = cpu.stats["dependent_loads"] + one
  BY <1>4, <1>5, <1>7, Names DEF Accessed
<1>9. /\ cpu.stats["cycles"] \in Nat /\ cpu.stats["compute_cycles"] \in Nat
      /\ cpu.stats["instructions"] \in Nat /\ StallTotal(cpu.stats) \in Nat
      /\ cpu.stats["memory_instructions"] \in Nat /\ cpu.stats["dependent_loads"] \in Nat
      /\ o.latency \in Nat /\ o.queue_delay \in Nat /\ cpu.debt \in Nat /\ begun.debt \in Nat
  BY <1>1, <1>5, Names, StatsAreNumbers DEF OutcomeOfAccess, CpuState
<1>10. TypeOK'
  <2>1. queued' \in Nat
    BY <1>1, <1>2, <1>9
  <2>2. cpu' \in CpuState /\ drained' \in BOOLEAN
    BY <1>2, <1>8
  <2> QED
    BY <2>1, <2>2 DEF TypeOK
<1>11. StallPartition'
  <2>1. cpu.stats["cycles"] = cpu.stats["compute_cycles"] + StallTotal(cpu.stats)
    BY DEF Inv, StallPartition, Cycles
  <2> QED
    BY <1>8, <1>9, <2>1 DEF StallPartition, Cycles
<1>12. ASSUME NoWrap PROVE IssueExact'
  <2>1. cpu.stats["compute_cycles"] * FractionOne + cpu.debt = cpu.stats["instructions"] * CpiScaled
    BY <1>2, <1>12 DEF Inv, IssueExact
  <2>2. 1 * CpiScaled = CpiScaled /\ CpiScaled \in Nat /\ WordSize \in Nat
    BY CpuAssumption
  <2>3. cpu.debt + CpiScaled < WordSize
    <3>1. 1 * CpiScaled + FractionOne <= WordSize
      BY <1>12 DEF NoWrap
    <3> QED
      BY <1>1, <2>2, <3>1
  <2>4. whole * FractionOne + begun.debt = cpu.debt + 1 * CpiScaled
    BY <1>4, <2>2, <2>3
  <2>5. (cpu.stats["compute_cycles"] + whole) * FractionOne + begun.debt
          = (cpu.stats["instructions"] + 1) * CpiScaled
    <3> DEFINE paid == cpu.stats["compute_cycles"]
               executed == cpu.stats["instructions"]
               debt == cpu.debt
               left == begun.debt
    <3>1. /\ paid \in Nat /\ whole \in Nat /\ executed \in Nat /\ 1 \in Nat
          /\ debt \in Nat /\ left \in Nat
          /\ paid * FractionOne + debt = executed * CpiScaled
          /\ whole * FractionOne + left = debt + 1 * CpiScaled
      BY <1>9, <2>1, <2>4
    <3> HIDE DEF paid, executed, debt, left
    <3>2. (paid + whole) * FractionOne + left = (executed + 1) * CpiScaled
      BY <3>1, PaysWhatIsDue
    <3> QED
      BY <3>2 DEF paid, executed, left
  <2> QED
    BY <1>2, <1>8, <2>5 DEF IssueExact
<1>13. HeapOrder'
  BY <1>7 DEF HeapOrdered, HeapOrder
<1>14. cpu'.stats["dependent_loads"] <= cpu'.stats["memory_instructions"]
  BY <1>8, <1>9 DEF Inv
<1>15. ASSUME cpu'.stats["memory_instructions"] = cpu'.stats["dependent_loads"]
       PROVE  /\ cpu'.stats["mshr"] = 0
              /\ StallTotal(cpu'.stats) = cpu'.stats["access_latency_cycles"]
              /\ \A i \in Slots : cpu'.mshrs[i].free_at <= cpu'.stats["cycles"]
  <2>1. dependent /\ cpu.stats["memory_instructions"] = cpu.stats["dependent_loads"]
    <3>1. cpu.stats["dependent_loads"] <= cpu.stats["memory_instructions"]
      BY DEF Inv
    <3>2. cpu.stats["memory_instructions"] + 1 = cpu.stats["dependent_loads"] + one
      BY <1>8, <1>15
    <3>3. CASE dependent
      BY <1>9, <3>2, <3>3
    <3>4. CASE ~dependent
      BY <1>9, <3>1, <3>2, <3>4
    <3> QED
      BY <3>3, <3>4
  <2>2. /\ cpu.stats["mshr"] = 0
        /\ StallTotal(cpu.stats) = cpu.stats["access_latency_cycles"]
        /\ \A i \in Slots : cpu.mshrs[i].free_at <= cpu.stats["cycles"]
    BY <2>1 DEF Inv, DependentChainSerial, Cycles
  <2>3. AllCompleted(begun)
    <3>1. \A i \in Slots : cpu.mshrs[i].free_at \in Nat
      BY <1>1 DEF CpuState, Mshr
    <3> QED
      BY <1>4, <1>5, <1>9, <2>2, <3>1 DEF AllCompleted
  <2>4. begun.stats["mshr"] = cpu.stats["mshr"]
    BY <1>4 DEF Buckets
  <2> QED
    BY <1>7, <1>8, <2>1, <2>2, <2>3, <2>4 DEF AllCompleted
<1> QED
  BY <1>10, <1>11, <1>12, <1>13, <1>14, <1>15 DEF Inv, DependentChainSerial, Cycles

\* drain charges what is left, and pays the last fraction of a cycle.
LEMMA FinishKeepsInv == Inv /\ Finish => Inv'
<1> SUFFICES ASSUME Inv, Finish PROVE Inv'
  OBVIOUS
<1>1. PICK order \in CompletionOrders(cpu.mshrs) : cpu' = Drain(cpu, order)
  BY DEF Finish
<1>2. /\ cpu \in CpuState /\ queued \in Nat
      /\ cpu.stats \in CpuStats /\ cpu.debt \in 0 .. FractionOne-1 /\ FractionOne \in Nat
      /\ order \in [1 .. Mshrs -> Slots]
      /\ drained = FALSE /\ drained' = TRUE /\ queued' = queued
  BY CpuAssumption DEF Inv, TypeOK, CpuState, CompletionOrders, Finish
<1> DEFINE last == IF cpu.debt > 0 THEN 1 ELSE 0
<1>3. /\ cpu' \in CpuState
      /\ \A i \in Slots : cpu'.mshrs[i].free_at = 0
      /\ \E stall \in Nat :
           /\ cpu'.stats["cycles"] = cpu.stats["cycles"] + stall + last
           /\ StallTotal(cpu'.stats) = StallTotal(cpu.stats) + stall
           /\ cpu'.stats["compute_cycles"] = cpu.stats["compute_cycles"] + last
           /\ \A k \in StatNames \ (Timing \cup {"compute_cycles"}) :
                cpu'.stats[k] = cpu.stats[k]
           /\ AllCompleted(cpu) => stall = 0 /\ cpu'.stats["mshr"] = cpu.stats["mshr"]
  BY <1>1, <1>2, DrainCorrect
<1>4. PICK stall \in Nat :
        /\ cpu'.stats["cycles"] = cpu.stats["cycles"] + stall + last
        /\ StallTotal(cpu'.stats) = StallTotal(cpu.stats) + stall
        /\ cpu'.stats["compute_cycles"] = cpu.stats["compute_cycles"] + last
        /\ \A k \in StatNames \ (Timing \cup {"compute_cycles"}) : cpu'.stats[k] = cpu.stats[k]
        /\ AllCompleted(cpu) => stall = 0 /\ cpu'.stats["mshr"] = cpu.stats["mshr"]
  BY <1>3
<1>5. /\ cpu.stats["cycles"] \in Nat /\ cpu.stats["compute_cycles"] \in Nat
      /\ cpu.stats["instructions"] \in Nat /\ StallTotal(cpu.stats) \in Nat
      /\ cpu'.stats["cycles"] \in Nat
  BY <1>2, <1>3, Names, StatsAreNumbers DEF CpuState
<1>6. last \in Nat
  OBVIOUS
<1>7. /\ cpu'.stats["instructions"] = cpu.stats["instructions"]
      /\ cpu'.stats["memory_instructions"] = cpu.stats["memory_instructions"]
      /\ cpu'.stats["dependent_loads"] = cpu.stats["dependent_loads"]
      /\ cpu'.stats["access_latency_cycles"] = cpu.stats["access_latency_cycles"]
  BY <1>4, Names
<1>8. TypeOK'
  BY <1>2, <1>3 DEF TypeOK
<1>9. StallPartition'
  <2>1. cpu.stats["cycles"] = cpu.stats["compute_cycles"] + StallTotal(cpu.stats)
    BY DEF Inv, StallPartition, Cycles
  <2> HIDE DEF last
  <2> QED
    BY <1>4, <1>5, <1>6, <2>1 DEF StallPartition, Cycles
<1>10. ASSUME NoWrap PROVE IssueExact'
  <2> DEFINE paid == cpu.stats["compute_cycles"] * FractionOne
             due  == cpu.stats["instructions"] * CpiScaled
  <2>1. paid + cpu.debt = due
    BY <1>2, <1>10 DEF Inv, IssueExact
  <2>2. paid \in Nat /\ due \in Nat
    <3>1. FractionOne \in Nat /\ CpiScaled \in Nat
      BY CpuAssumption
    <3> QED
      BY <1>5, <3>1
  <2>3. (cpu.stats["compute_cycles"] + last) * FractionOne =
          IF cpu.debt > 0 THEN paid + FractionOne ELSE paid
    BY <1>2, <1>5
  <2> HIDE DEF paid, due
  <2>4. /\ due <= (cpu.stats["compute_cycles"] + last) * FractionOne
        /\ (cpu.stats["compute_cycles"] + last) * FractionOne < due + FractionOne
    BY <1>2, <2>1, <2>2, <2>3, CpuAssumption, SMTT(30)
  <2> HIDE DEF last
  <2> QED
    BY <1>2, <1>4, <1>7, <2>4 DEF IssueExact, due
<1>11. HeapOrder'
  BY <1>3, ParentIsAbove DEF HeapOrder
<1>12. cpu'.stats["dependent_loads"] <= cpu'.stats["memory_instructions"]
  BY <1>7 DEF Inv
<1>13. DependentChainSerial'
  <2>1. ASSUME cpu'.stats["memory_instructions"] = cpu'.stats["dependent_loads"]
        PROVE  /\ cpu'.stats["mshr"] = 0
               /\ StallTotal(cpu'.stats) = cpu'.stats["access_latency_cycles"]
    <3>1. /\ cpu.stats["mshr"] = 0
          /\ StallTotal(cpu.stats) = cpu.stats["access_latency_cycles"]
          /\ AllCompleted(cpu)
      BY <1>7, <2>1 DEF Inv, DependentChainSerial, Cycles, AllCompleted
    <3> QED
      BY <1>4, <1>5, <1>7, <3>1
  <2>2. \A i \in Slots : cpu'.mshrs[i].free_at <= cpu'.stats["cycles"]
    BY <1>3, <1>5
  <2> QED
    BY <2>1, <2>2 DEF DependentChainSerial, Cycles
<1> QED
  BY <1>8, <1>9, <1>10, <1>11, <1>12, <1>13 DEF Inv

\* Every step keeps the invariant.
LEMMA StepKeepsInv == Inv /\ [Next]_vars => Inv'
<1> SUFFICES ASSUME Inv, [Next]_vars PROVE Inv'
  OBVIOUS
<1>1. CASE UNCHANGED vars
  BY <1>1 DEF vars, Inv, TypeOK, StallPartition, IssueExact, HeapOrder, DependentChainSerial,
              Cycles
<1> QED
  BY <1>1, ComputeKeepsInv, AccessKeepsInv, FinishKeepsInv DEF Next

\* The invariant holds in every reachable state.
THEOREM Invariance == Spec => []Inv
<1> QED
  BY InitEstablishesInv, StepKeepsInv, PTL DEF Spec

\* Every cycle is a compute cycle or in one stall bucket (cpu.hpp:28-30).
THEOREM CyclesPartitioned == Spec => []StallPartition
<1>1. Inv => StallPartition
  BY DEF Inv
<1> QED
  BY <1>1, Invariance, PTL

\* Compute cycles are the instructions times the CPI, rounded up once, as long as no
\* record makes the debt wrap (cpu.hpp:76-81, cpu.cpp:51).
THEOREM IssueIsExact == Spec => [](NoWrap => IssueExact)
<1>1. Inv => (NoWrap => IssueExact)
  BY DEF Inv
<1> QED
  BY <1>1, Invariance, PTL

\* Slot 0 is the MSHR that frees up soonest, for every number of MSHRs, a sift of any
\* depth (cpu.hpp:94-97, cpu.cpp:35-47).
THEOREM HeapStaysOrdered == Spec => []HeapOrder
<1>1. Inv => HeapOrder
  BY DEF Inv
<1> QED
  BY <1>1, Invariance, PTL

\* A chain of dependent loads pays each latency once and overlaps nothing
\* (README.md:202-204).
THEOREM ChainIsSerial == Spec => []DependentChainSerial
<1>1. Inv => DependentChainSerial
  BY DEF Inv
<1> QED
  BY <1>1, Invariance, PTL

-----------------------------------------------------------------------------
(* What the waits cost.                                                     *)

\* What is charged to bandwidth, and may still be, was queued; no fill is further away
\* than its latency, so that no share of a wait exceeds the queue delay of its entry;
\* nothing ends later than it would one access after the other, and the latency of all
\* misses is time of the MSHRs.
Accounts == /\ WaitsForOwnMiss(cpu.mshrs, Cycles(cpu))
            /\ Charged(cpu) <= queued
            /\ Overlapped(cpu)
            /\ cpu.stats["miss_latency_cycles"] <= IF drained THEN Mshrs * Cycles(cpu)
                                                              ELSE FreeTotal(cpu.mshrs)

\* A new CPU has nothing to account for.
LEMMA InitEstablishesAccounts == Init => Accounts
<1> SUFFICES ASSUME Init PROVE Accounts
  OBVIOUS
<1>1. cpu.mshrs = [i \in Slots |-> IdleMshr] /\ drained = FALSE /\ queued = 0
  BY DEF Init, NewCpu
<1>2. \A k \in StatNames : cpu.stats[k] = 0
  BY DEF Init, NewCpu
<1>3. /\ Cycles(cpu) = 0 /\ Serial(cpu) = 0 /\ cpu.stats["bandwidth"] = 0
      /\ cpu.stats["miss_latency_cycles"] = 0
  BY <1>2 DEF Cycles, Serial, StatNames, Buckets
<1>4. /\ cpu.mshrs \in [Slots -> Mshr]
      /\ \A i \in Slots : /\ cpu.mshrs[i].free_at = 0 /\ cpu.mshrs[i].latency = 1
                          /\ cpu.mshrs[i].queue_delay = 0
  BY <1>1 DEF IdleMshr, Mshr
<1>5. WaitsForOwnMiss(cpu.mshrs, Cycles(cpu)) /\ Overlapped(cpu)
  BY <1>3, <1>4 DEF WaitsForOwnMiss, Overlapped
<1>6. PendingTotal(cpu.mshrs, 0) \in Nat /\ PendingTotal(cpu.mshrs, 0) <= 0
  <2> DEFINE f == [i \in Slots |-> Pending(cpu.mshrs[i], 0)]
  <2>1. \A i \in Slots : f[i] \in Nat /\ f[i] <= 0
    BY <1>4 DEF Pending
  <2>2. 0 \in Nat /\ Mshrs * 0 = 0
    BY CpuAssumption
  <2> HIDE DEF f
  <2>3. Sum(f, Slots) <= Cardinality(Slots) * 0 /\ Sum(f, Slots) \in Nat
    BY <2>1, <2>2, SlotsAreFinite, SumIsBounded, SumPick
  <2>4. Sum(f, Slots) <= 0 /\ Sum(f, Slots) \in Nat
    BY <2>2, <2>3, SlotsAreFinite
  <2> QED
    BY <2>4 DEF PendingTotal, f
<1>7. FreeTotal(cpu.mshrs) \in Nat
  BY <1>4, FreeTotalIsBounded
<1> QED
  BY <1>1, <1>3, <1>5, <1>6, <1>7 DEF Accounts, Charged

\* A compute record only lets time pass.
LEMMA ComputeKeepsAccounts ==
  ASSUME Inv, Accounts, NEW n \in ComputeCounts, Compute(n)
  PROVE  Accounts'
<1>1. /\ cpu \in CpuState /\ n \in Nat /\ queued \in Nat
      /\ cpu' = Issue(cpu, n) /\ drained = FALSE /\ drained' = FALSE /\ queued' = queued
      /\ WaitsForOwnMiss(cpu.mshrs, Cycles(cpu)) /\ Overlapped(cpu) /\ Charged(cpu) <= queued
      /\ cpu.stats["miss_latency_cycles"] <= FreeTotal(cpu.mshrs)
  BY DriverAssumption DEF Inv, TypeOK, Accounts, Compute, Running
<1>2. /\ cpu' \in CpuState /\ cpu'.mshrs = cpu.mshrs
      /\ WaitsForOwnMiss(cpu'.mshrs, Cycles(cpu'))
      /\ Charged(cpu') <= Charged(cpu)
      /\ Overlapped(cpu')
      /\ cpu'.stats["miss_latency_cycles"] = cpu.stats["miss_latency_cycles"]
  BY <1>1, IssueAccounts
<1>3. Charged(cpu) \in Nat /\ Charged(cpu') \in Nat
  BY <1>1, <1>2, ChargedIsNumber
<1> QED
  BY <1>1, <1>2, <1>3 DEF Accounts

\* An access begins as a compute record and ends as a hit or a miss.
LEMMA AccessKeepsAccounts ==
  ASSUME Inv, Accounts, NEW o \in Outcomes, NEW dependent \in BOOLEAN, MemoryAccess(o, dependent)
  PROVE  Accounts'
<1> DEFINE begun == BeginAccess(cpu, dependent)
<1>1. /\ cpu \in CpuState /\ o \in OutcomeOfAccess /\ queued \in Nat
      /\ o.latency \in Nat /\ o.queue_delay \in Nat
      /\ cpu' = FinishAccess(begun, o, dependent) /\ drained = FALSE /\ drained' = FALSE
      /\ queued' = queued + o.queue_delay
      /\ WaitsForOwnMiss(cpu.mshrs, Cycles(cpu)) /\ Overlapped(cpu) /\ Charged(cpu) <= queued
      /\ cpu.stats["miss_latency_cycles"] <= FreeTotal(cpu.mshrs)
      /\ HeapOrdered(cpu.mshrs)
  BY DriverAssumption
     DEF Inv, TypeOK, Accounts, MemoryAccess, Running, OutcomeOfAccess, HeapOrder, HeapOrdered
<1>2. /\ begun \in CpuState /\ begun.mshrs = cpu.mshrs
      /\ WaitsForOwnMiss(begun.mshrs, Cycles(begun))
      /\ Charged(begun) <= Charged(cpu)
      /\ Overlapped(begun)
      /\ begun.stats["miss_latency_cycles"] = cpu.stats["miss_latency_cycles"]
  BY <1>1, BeginAccounts
<1> HIDE DEF begun
<1>3. /\ cpu' \in CpuState
      /\ begun.stats["miss_latency_cycles"] \in Nat /\ FreeTotal(begun.mshrs) \in Nat
      /\ FreeTotal(cpu'.mshrs) \in Nat
  <2>1. cpu' \in CpuState
    BY <1>1, <1>2, HitCorrect, MissCorrect DEF FinishAccess, Accessed
  <2>2. begun.stats["miss_latency_cycles"] \in Nat
    BY <1>2, StatsAreNumbers DEF CpuState, StatNames
  <2> QED
    BY <1>2, <2>1, <2>2, FreeTotalIsNumber DEF CpuState
<1>4. /\ WaitsForOwnMiss(cpu'.mshrs, Cycles(cpu')) /\ Overlapped(cpu')
      /\ Charged(cpu') <= Charged(begun) + o.queue_delay
      /\ cpu'.stats["miss_latency_cycles"] <= FreeTotal(cpu'.mshrs)
  <2>1. CASE o.source = "L1"
    <3>1. cpu' = FinishHit(begun, o, dependent)
      BY <1>1, <2>1 DEF FinishAccess
    <3>2. /\ WaitsForOwnMiss(cpu'.mshrs, Cycles(cpu')) /\ Overlapped(cpu')
          /\ Charged(cpu') <= Charged(begun) /\ cpu'.mshrs = begun.mshrs
          /\ cpu'.stats["miss_latency_cycles"] = begun.stats["miss_latency_cycles"]
      BY <1>1, <1>2, <3>1, HitAccounts, HitCorrect
    <3>3. Charged(cpu') \in Nat /\ Charged(begun) \in Nat
      BY <1>2, <1>3, ChargedIsNumber
    <3> QED
      BY <1>1, <1>2, <3>2, <3>3
  <2>2. CASE o.source # "L1"
    <3>1. cpu' = FinishMiss(begun, o, dependent)
      BY <1>1, <2>2 DEF FinishAccess
    <3>2. /\ WaitsForOwnMiss(cpu'.mshrs, Cycles(cpu')) /\ Overlapped(cpu')
          /\ Charged(cpu') <= Charged(begun) + o.queue_delay
          /\ cpu'.stats["miss_latency_cycles"] = begun.stats["miss_latency_cycles"] + o.latency
          /\ FreeTotal(begun.mshrs) + o.latency <= FreeTotal(cpu'.mshrs)
      BY <1>1, <1>2, <3>1, MissAccounts
    <3> QED
      BY <1>1, <1>2, <1>3, <3>2
  <2> QED
    BY <2>1, <2>2
<1>5. Charged(cpu') <= queued'
  <2>1. Charged(cpu) \in Nat /\ Charged(begun) \in Nat /\ Charged(cpu') \in Nat
    BY <1>1, <1>2, <1>3, ChargedIsNumber
  <2> QED
    BY <1>1, <1>2, <1>4, <2>1
<1> QED
  BY <1>1, <1>4, <1>5 DEF Accounts

\* drain charges what is pending.
LEMMA FinishKeepsAccounts == Inv /\ Accounts /\ Finish => Accounts'
<1> SUFFICES ASSUME Inv, Accounts, Finish PROVE Accounts'
  OBVIOUS
<1>1. PICK order \in CompletionOrders(cpu.mshrs) : cpu' = Drain(cpu, order)
  BY DEF Finish
<1>2. /\ cpu \in CpuState /\ queued \in Nat
      /\ drained = FALSE /\ drained' = TRUE /\ queued' = queued
      /\ WaitsForOwnMiss(cpu.mshrs, Cycles(cpu)) /\ Overlapped(cpu) /\ Charged(cpu) <= queued
      /\ cpu.stats["miss_latency_cycles"] <= FreeTotal(cpu.mshrs)
  BY DEF Inv, TypeOK, Accounts, Finish
<1>3. cpu' \in CpuState
  BY <1>1, <1>2, DrainCorrect DEF CompletionOrders
<1>4. /\ WaitsForOwnMiss(cpu'.mshrs, Cycles(cpu')) /\ Overlapped(cpu')
      /\ Charged(cpu') <= Charged(cpu)
      /\ cpu'.stats["miss_latency_cycles"] = cpu.stats["miss_latency_cycles"]
      /\ FreeTotal(cpu.mshrs) <= Mshrs * Cycles(cpu')
  BY <1>1, <1>2, DrainAccounts
<1>5. Charged(cpu) \in Nat /\ Charged(cpu') \in Nat
  BY <1>2, <1>3, ChargedIsNumber
<1>6. cpu.stats["miss_latency_cycles"] <= Mshrs * Cycles(cpu')
  <2>1. /\ cpu.stats["miss_latency_cycles"] \in Nat /\ Cycles(cpu') \in Nat
        /\ FreeTotal(cpu.mshrs) \in Nat
    BY <1>2, <1>3, StatsAreNumbers, FreeTotalIsNumber DEF CpuState, StatNames, Cycles
  <2>2. Mshrs * Cycles(cpu') \in Nat
    BY <2>1, CpuAssumption
  <2> QED
    BY <1>2, <1>4, <2>1, <2>2
<1> QED
  BY <1>2, <1>4, <1>5, <1>6 DEF Accounts

\* The accounts are in order in every reachable state.
THEOREM AccountsInOrder == Spec => []Accounts
<1>1. Inv /\ Accounts /\ [Next]_vars => Accounts'
  <2>1. CASE UNCHANGED vars
    BY <2>1 DEF vars, Accounts
  <2> QED
    BY <2>1, ComputeKeepsAccounts, AccessKeepsAccounts, FinishKeepsAccounts DEF Next
<1> QED
  BY <1>1, InitEstablishesAccounts, Invariance, PTL DEF Spec

\* Bandwidth stalls are time that misses spent in the queue, and none of it twice
\* (cpu.cpp:27-33, 82-91).
THEOREM BandwidthWasQueued == Spec => []BandwidthIsQueueing
<1>1. Inv /\ Accounts => BandwidthIsQueueing
  <2> SUFFICES ASSUME Inv, Accounts PROVE BandwidthIsQueueing
    OBVIOUS
  <2>1. cpu.stats["bandwidth"] \in Nat /\ PendingTotal(cpu.mshrs, Cycles(cpu)) \in Nat
    BY StatsAreNumbers, PendingIsNumber DEF Inv, TypeOK, CpuState, StatNames, Buckets, Cycles
  <2>2. queued \in Nat /\ Charged(cpu) <= queued
    BY DEF Inv, TypeOK, Accounts
  <2> QED
    BY <2>1, <2>2 DEF BandwidthIsQueueing, Charged
<1> QED
  BY <1>1, AccountsInOrder, Invariance, PTL

\* Overlap never makes anything later, and never has more misses outstanding than there
\* are MSHRs (cpu.cpp:84-91, 111-116; simulator.cpp:45).
THEOREM OverlapHelps == Spec => []OverlapOnlyHelps
<1>1. Inv /\ Accounts => OverlapOnlyHelps
  <2> SUFFICES ASSUME Inv, Accounts PROVE OverlapOnlyHelps
    OBVIOUS
  <2>1. /\ cpu.stats["compute_cycles"] \in Nat /\ cpu.stats["access_latency_cycles"] \in Nat
        /\ StallTotal(cpu.stats) \in Nat
    BY StatsAreNumbers DEF Inv, TypeOK, CpuState, StatNames
  <2>2. Cycles(cpu) = cpu.stats["compute_cycles"] + StallTotal(cpu.stats)
    BY DEF Inv, StallPartition
  <2>3. StallTotal(cpu.stats) <= cpu.stats["access_latency_cycles"]
    BY <2>1, <2>2 DEF Accounts, Overlapped, Serial
  <2>4. \A i \in Slots : cpu.mshrs[i].free_at
                           <= cpu.stats["compute_cycles"] + cpu.stats["access_latency_cycles"]
    BY DEF Accounts, Overlapped, Serial
  <2>5. cpu.stats["miss_latency_cycles"]
          <= IF drained THEN Mshrs * Cycles(cpu)
             ELSE MapThenSumSet(LAMBDA i : cpu.mshrs[i].free_at, Slots)
    BY DEF Accounts, FreeTotal
  <2> QED
    BY <2>3, <2>4, <2>5 DEF OverlapOnlyHelps
<1> QED
  BY <1>1, AccountsInOrder, Invariance, PTL

-----------------------------------------------------------------------------
(* Two CPUs, one with fewer MSHRs.                                           *)

FP == INSTANCE CpuOpsProofs WITH Mshrs <- FewMshrs

\* The lemmas about CpuOps hold for the other CPU too.
LEMMA FewAssumption == FP!CpuAssumption
  BY CpuAssumption, MshrsAssumption DEF FP!CpuAssumption

\* The names of the instance mean what the names of the module mean.
LEMMA SameNames ==
  /\ FP!Mshr = Mshr /\ FP!CpuStats = CpuStats /\ FP!OutcomeOfAccess = OutcomeOfAccess
  /\ FP!CpuState = [stats : CpuStats, debt : 0 .. FractionOne-1, mshrs : [F!Slots -> Mshr]]
  /\ F!Slots = FP!Slots /\ F!NewCpu = FP!NewCpu
  /\ \A c : FP!Cycles(c) = Cycles(c)
  /\ \A stats : FP!StallTotal(stats) = StallTotal(stats) /\ FP!Unstalled(stats) = Unstalled(stats)
  /\ \A debt, n : FP!Paid(debt, n) = Paid(debt, n) /\ FP!StillOwed(debt, n) = StillOwed(debt, n)
  /\ \A cycle, o : FP!MissEntry(cycle, o) = MissEntry(cycle, o)
<1>1. FP!Mshr = Mshr /\ FP!OutcomeOfAccess = OutcomeOfAccess
  BY DEF FP!Mshr, Mshr, FP!OutcomeOfAccess, OutcomeOfAccess
<1>2. FP!CpuStats = CpuStats
  BY DEF FP!CpuStats, CpuStats, FP!StatNames, StatNames, FP!Buckets, Buckets
<1>3. F!Slots = FP!Slots
  BY DEF F!Slots, FP!Slots
<1>4. FP!CpuState = [stats : CpuStats, debt : 0 .. FractionOne-1, mshrs : [F!Slots -> Mshr]]
  BY <1>1, <1>2, <1>3 DEF FP!CpuState
<1>5. F!NewCpu = FP!NewCpu
  BY DEF F!NewCpu, FP!NewCpu, F!StatNames, FP!StatNames, F!Buckets, FP!Buckets, F!Slots,
         FP!Slots, F!IdleMshr, FP!IdleMshr
<1>6. \A c : FP!Cycles(c) = Cycles(c)
  BY DEF FP!Cycles, Cycles
<1>7. \A stats : FP!StallTotal(stats) = StallTotal(stats) /\ FP!Unstalled(stats) = Unstalled(stats)
  BY DEF FP!StallTotal, StallTotal, FP!Unstalled, Unstalled
<1>8. \A debt, n : FP!Paid(debt, n) = Paid(debt, n) /\ FP!StillOwed(debt, n) = StillOwed(debt, n)
  BY DEF FP!Paid, Paid, FP!StillOwed, StillOwed
<1>9. \A cycle, o : FP!MissEntry(cycle, o) = MissEntry(cycle, o)
  BY DEF FP!MissEntry, MissEntry, FP!BucketOf, BucketOf
<1> QED
  BY <1>1, <1>2, <1>3, <1>4, <1>5, <1>6, <1>7, <1>8, <1>9

\* The operations of both instances are the same.
LEMMA SameOperations ==
  /\ \A c, n : F!Issue(c, n) = FP!Issue(c, n)
  /\ \A c, dependent : F!BeginAccess(c, dependent) = FP!BeginAccess(c, dependent)
  /\ \A c, o, dependent : F!FinishAccess(c, o, dependent) = FP!FinishAccess(c, o, dependent)
  /\ \A mshrs : F!CompletionOrders(mshrs) = FP!CompletionOrders(mshrs)
  /\ \A c, order : F!Drain(c, order) = FP!Drain(c, order)
<1>1. \A stats, n, which : F!Add(stats, n, which) = FP!Add(stats, n, which)
  BY DEF F!Add, FP!Add, F!StatNames, FP!StatNames, F!Buckets, FP!Buckets
<1>2. \A c, n : F!Issue(c, n) = FP!Issue(c, n)
  BY <1>1 DEF F!Issue, FP!Issue
<1>3. \A c, dependent : F!BeginAccess(c, dependent) = FP!BeginAccess(c, dependent)
  BY <1>1, <1>2 DEF F!BeginAccess, FP!BeginAccess
<1>4. \A stats, cycles, bucket : F!Stall(stats, cycles, bucket) = FP!Stall(stats, cycles, bucket)
  BY <1>1 DEF F!Stall, FP!Stall
<1>5. \A stats, cycles, bucket, entry :
        F!StallSplit(stats, cycles, bucket, entry) = FP!StallSplit(stats, cycles, bucket, entry)
  BY <1>4 DEF F!StallSplit, FP!StallSplit, F!QueuedShare, FP!QueuedShare
<1>6. \A stats, bucket, entry : F!WaitFor(stats, bucket, entry) = FP!WaitFor(stats, bucket, entry)
  BY <1>5 DEF F!WaitFor, FP!WaitFor
<1>7. \A heap : F!SiftDown(heap) = FP!SiftDown(heap)
  BY DEF F!SiftDown, FP!SiftDown, F!SinksTo, FP!SinksTo, F!Parent, FP!Parent, F!Slots, FP!Slots
<1>8. \A c, o, dependent : F!FinishHit(c, o, dependent) = FP!FinishHit(c, o, dependent)
  BY <1>1, <1>4 DEF F!FinishHit, FP!FinishHit
<1>9. \A c, o, dependent : F!FinishMiss(c, o, dependent) = FP!FinishMiss(c, o, dependent)
  BY <1>1, <1>5, <1>6, <1>7
     DEF F!FinishMiss, FP!FinishMiss, F!MissEntry, FP!MissEntry, F!BucketOf, FP!BucketOf
<1>10. \A c, o, dependent : F!FinishAccess(c, o, dependent) = FP!FinishAccess(c, o, dependent)
  BY <1>8, <1>9 DEF F!FinishAccess, FP!FinishAccess
<1>11. \A mshrs : F!CompletionOrders(mshrs) = FP!CompletionOrders(mshrs)
  BY DEF F!CompletionOrders, FP!CompletionOrders, F!Slots, FP!Slots
<1>12. \A c, order : F!TailStats(c, order) = FP!TailStats(c, order)
  BY DEF F!TailStats, FP!TailStats, F!WaitFor, FP!WaitFor, F!StallSplit, FP!StallSplit,
         F!QueuedShare, FP!QueuedShare, F!Stall, FP!Stall, F!Add, FP!Add, F!StatNames,
         FP!StatNames, F!Buckets, FP!Buckets
<1>13. \A c, order : F!Drain(c, order) = FP!Drain(c, order)
  BY <1>1, <1>12 DEF F!Drain, FP!Drain, F!Released, FP!Released, F!Slots, FP!Slots
<1> QED
  BY <1>2, <1>3, <1>10, <1>11, <1>13

\* Each MSHR of the smaller file has one of its own in the larger that frees up no later.
OneEarlierEach(more, few) ==
  \E g \in [FP!Slots -> Slots] :
    /\ \A i, j \in FP!Slots : g[i] = g[j] => i = j
    /\ \A i \in FP!Slots : more[g[i]].free_at <= few[i].free_at

\* No fill of the larger file completes after all of the smaller.
NoneIsLast(more, few) ==
  \A i \in Slots : \E j \in FP!Slots : more[i].free_at <= few[j].free_at

\* The CPU with more MSHRs is not behind.
Ahead(c, f) == /\ c \in CpuState /\ f \in FP!CpuState
               /\ HeapOrdered(c.mshrs) /\ FP!HeapOrdered(f.mshrs)
               /\ c.debt = f.debt
               /\ Unstalled(c.stats) = Unstalled(f.stats)
               /\ Cycles(c) <= Cycles(f)
               /\ OneEarlierEach(c.mshrs, f.mshrs)
               /\ NoneIsLast(c.mshrs, f.mshrs)

\* The slots of the smaller file are slots of the larger, and both have a first.
LEMMA FewSlots == /\ FP!Slots \subseteq Slots /\ 0 \in FP!Slots /\ 0 \in Slots
                  /\ IsFiniteSet(FP!Slots)
<1>1. FewMshrs \in Nat \ {0} /\ Mshrs \in Nat /\ FewMshrs <= Mshrs
  BY MshrsAssumption, CpuAssumption
<1>2. FP!Slots = 0 .. FewMshrs-1
  BY DEF FP!Slots
<1> QED
  BY <1>1, <1>2, SlotsAreFinite, FS_Interval DEF Slots

\* The first entry of the larger file is no later than that of the smaller.
LEMMA RootIsEarlier ==
  ASSUME NEW more \in [Slots -> Mshr], NEW few \in [FP!Slots -> Mshr],
         HeapOrdered(more), OneEarlierEach(more, few)
  PROVE  more[0].free_at <= few[0].free_at
<1>1. PICK g \in [FP!Slots -> Slots] : \A i \in FP!Slots : more[g[i]].free_at <= few[i].free_at
  BY DEF OneEarlierEach
<1>2. g[0] \in Slots /\ more[g[0]].free_at <= few[0].free_at
  BY <1>1, FewSlots
<1>3. more[0].free_at <= more[g[0]].free_at
  BY <1>2, RootIsLeast
<1>4. more[0] \in Mshr /\ more[g[0]] \in Mshr /\ few[0] \in Mshr
  BY <1>2, FewSlots
<1> QED
  BY <1>2, <1>3, <1>4 DEF Mshr

\* Both take a miss in the entry that frees up soonest.
LEMMA MissKeepsEarlier ==
  ASSUME NEW more \in [Slots -> Mshr], NEW few \in [FP!Slots -> Mshr],
         HeapOrdered(more), FP!HeapOrdered(few),
         OneEarlierEach(more, few), NEW a \in Mshr, NEW b \in Mshr, a.free_at <= b.free_at
  PROVE  OneEarlierEach([more EXCEPT ![0] = a], [few EXCEPT ![0] = b])
<1> DEFINE newMore == [more EXCEPT ![0] = a]
           newFew  == [few EXCEPT ![0] = b]
<1>1. PICK g \in [FP!Slots -> Slots] :
        /\ \A i, j \in FP!Slots : g[i] = g[j] => i = j
        /\ \A i \in FP!Slots : more[g[i]].free_at <= few[i].free_at
  BY DEF OneEarlierEach
<1> DEFINE h == [i \in FP!Slots |-> IF i = 0 THEN 0 ELSE IF g[i] = 0 THEN g[0] ELSE g[i]]
<1>2. h \in [FP!Slots -> Slots]
  BY <1>1, FewSlots
<1>3. \A i, j \in FP!Slots : h[i] = h[j] => i = j
  BY <1>1, FewSlots
<1>4. /\ newMore[0] = a /\ newFew[0] = b
      /\ \A i \in Slots : i # 0 => newMore[i] = more[i]
      /\ \A i \in FP!Slots : i # 0 => newFew[i] = few[i]
  BY FewSlots
<1>5. \A i \in FP!Slots : few[0].free_at <= few[i].free_at
  <2>1. few \in [FP!Slots -> FP!Mshr]
    BY SameNames
  <2> QED
    BY <2>1, FewAssumption, FP!RootIsLeast
<1>6. /\ \A i \in Slots : more[i].free_at \in Nat
      /\ \A i \in FP!Slots : few[i].free_at \in Nat
  BY DEF Mshr
<1> HIDE DEF newMore, newFew
<1>7. ASSUME NEW i \in FP!Slots PROVE newMore[h[i]].free_at <= newFew[i].free_at
  <2>1. CASE i = 0
    BY <1>4, <2>1, FewSlots
  <2>2. CASE i # 0 /\ g[i] = 0
    <3>1. h[i] = g[0] /\ g[0] # 0 /\ g[0] \in Slots
      BY <1>1, <2>2, FewSlots
    <3>2. more[g[0]].free_at <= few[0].free_at /\ few[0].free_at <= few[i].free_at
      BY <1>1, <1>5, FewSlots
    <3>3. more[g[0]].free_at <= few[i].free_at
      BY <1>6, <3>1, <3>2, FewSlots
    <3> QED
      BY <1>4, <2>2, <3>1, <3>3
  <2>3. CASE i # 0 /\ g[i] # 0
    BY <1>1, <1>4, <2>3
  <2> QED
    BY <2>1, <2>2, <2>3
<1> HIDE DEF h
<1>8. OneEarlierEach(newMore, newFew)
  BY <1>2, <1>3, <1>7 DEF OneEarlierEach
<1> QED
  BY <1>8 DEF newMore, newFew

\* The fill of the CPU with more MSHRs is not the last, nor is any other.
LEMMA MissKeepsLast ==
  ASSUME NEW more \in [Slots -> Mshr], NEW few \in [FP!Slots -> Mshr],
         NoneIsLast(more, few), NEW a \in Mshr, NEW b \in Mshr,
         a.free_at <= b.free_at, few[0].free_at <= b.free_at
  PROVE  NoneIsLast([more EXCEPT ![0] = a], [few EXCEPT ![0] = b])
<1> DEFINE newMore == [more EXCEPT ![0] = a]
           newFew  == [few EXCEPT ![0] = b]
<1>1. /\ newMore[0] = a /\ newFew[0] = b
      /\ \A i \in Slots : i # 0 => newMore[i] = more[i]
      /\ \A i \in FP!Slots : i # 0 => newFew[i] = few[i]
  BY FewSlots
<1>2. /\ \A i \in Slots : more[i].free_at \in Nat
      /\ \A i \in FP!Slots : few[i].free_at \in Nat
      /\ a.free_at \in Nat /\ b.free_at \in Nat
  BY DEF Mshr
<1> HIDE DEF newMore, newFew
<1>3. ASSUME NEW i \in Slots PROVE \E j \in FP!Slots : newMore[i].free_at <= newFew[j].free_at
  <2>1. CASE i = 0
    BY <1>1, <2>1, FewSlots
  <2>2. CASE i # 0
    <3>1. PICK j \in FP!Slots : more[i].free_at <= few[j].free_at
      BY DEF NoneIsLast
    <3>2. CASE j = 0
      <4>1. newMore[i].free_at <= newFew[0].free_at
        BY <1>1, <1>2, <2>2, <3>1, <3>2, FewSlots
      <4> QED
        BY <4>1, FewSlots
    <3>3. CASE j # 0
      BY <1>1, <2>2, <3>1, <3>3
    <3> QED
      BY <3>2, <3>3
  <2> QED
    BY <2>1, <2>2
<1> QED
  BY <1>3 DEF NoneIsLast, newMore, newFew

\* The order of the entries does not matter.
LEMMA PermutedIsEarlier ==
  ASSUME NEW more, NEW few, NEW moreFile, NEW fewFile,
         Permuted(more, moreFile), FP!Permuted(few, fewFile)
  PROVE  /\ OneEarlierEach(moreFile, fewFile) => OneEarlierEach(more, few)
         /\ NoneIsLast(moreFile, fewFile) => NoneIsLast(more, few)
<1>1. PICK p \in [Slots -> Slots] : /\ \A i, j \in Slots : p[i] = p[j] => i = j
                                    /\ more = [i \in Slots |-> moreFile[p[i]]]
  BY DEF Permuted
<1>2. PICK q \in [FP!Slots -> FP!Slots] : /\ \A i, j \in FP!Slots : q[i] = q[j] => i = j
                                          /\ few = [i \in FP!Slots |-> fewFile[q[i]]]
  BY DEF FP!Permuted
<1>3. \A s \in Slots : \E i \in Slots : p[i] = s
  <2>1. p \in Injection(Slots, Slots)
    BY <1>1 DEF Injection, IsInjective
  <2>2. p \in Surjection(Slots, Slots)
    BY <2>1, SlotsAreFinite, FS_Injection
  <2> QED
    BY <2>2 DEF Surjection
<1>4. \A s \in FP!Slots : \E i \in FP!Slots : q[i] = s
  <2>1. q \in Injection(FP!Slots, FP!Slots)
    BY <1>2 DEF Injection, IsInjective
  <2>2. q \in Surjection(FP!Slots, FP!Slots)
    BY <2>1, FewSlots, FS_Injection
  <2> QED
    BY <2>2 DEF Surjection
<1>5. ASSUME OneEarlierEach(moreFile, fewFile) PROVE OneEarlierEach(more, few)
  <2>1. PICK g \in [FP!Slots -> Slots] :
          /\ \A i, j \in FP!Slots : g[i] = g[j] => i = j
          /\ \A i \in FP!Slots : moreFile[g[i]].free_at <= fewFile[i].free_at
    BY <1>5 DEF OneEarlierEach
  <2> DEFINE h == [i \in FP!Slots |-> CHOOSE s \in Slots : p[s] = g[q[i]]]
  <2>2. \A i \in FP!Slots : h[i] \in Slots /\ p[h[i]] = g[q[i]]
    BY <1>2, <1>3, <2>1
  <2>3. h \in [FP!Slots -> Slots]
    BY <2>2
  <2> HIDE DEF h
  <2>4. \A i, j \in FP!Slots : h[i] = h[j] => i = j
    BY <1>2, <2>1, <2>2
  <2>5. \A i \in FP!Slots : more[h[i]].free_at <= few[i].free_at
    BY <1>1, <1>2, <2>1, <2>2
  <2> QED
    BY <2>3, <2>4, <2>5 DEF OneEarlierEach
<1>6. ASSUME NoneIsLast(moreFile, fewFile) PROVE NoneIsLast(more, few)
  <2>1. ASSUME NEW i \in Slots PROVE \E j \in FP!Slots : more[i].free_at <= few[j].free_at
    <3>1. PICK j \in FP!Slots : moreFile[p[i]].free_at <= fewFile[j].free_at
      BY <1>1, <1>6 DEF NoneIsLast
    <3>2. PICK k \in FP!Slots : q[k] = j
      BY <1>4
    <3>3. more[i].free_at <= few[k].free_at
      BY <1>1, <1>2, <3>1, <3>2
    <3> QED
      BY <3>3
  <2> QED
    BY <2>1 DEF NoneIsLast
<1> QED
  BY <1>5, <1>6

\* The numbers of a comparison.
LEMMA NumbersOf ==
  /\ \A c \in CpuState : /\ Cycles(c) \in Nat /\ Unstalled(c.stats) \in Int
                         /\ c.debt \in Nat /\ c.mshrs \in [Slots -> Mshr]
                         /\ c.stats["cycles"] = Cycles(c)
                         /\ Unstalled(c.stats) = Cycles(c) - StallTotal(c.stats)
                         /\ StallTotal(c.stats) \in Nat
  /\ \A f \in FP!CpuState : /\ Cycles(f) \in Nat /\ Unstalled(f.stats) \in Int
                            /\ f.debt \in Nat /\ f.mshrs \in [FP!Slots -> Mshr]
                            /\ f.stats["cycles"] = Cycles(f)
                            /\ Unstalled(f.stats) = Cycles(f) - StallTotal(f.stats)
                            /\ StallTotal(f.stats) \in Nat
<1>1. ASSUME NEW stats \in CpuStats
      PROVE  stats["cycles"] \in Nat /\ StallTotal(stats) \in Nat
  BY StatsAreNumbers
<1>2. CpuAssumption
  BY CpuAssumption
<1> QED
  BY <1>1, SameNames DEF CpuState, Cycles, Unstalled

\* Both issue the same.
LEMMA PaymentKeepsAhead ==
  ASSUME NEW c, NEW f, Ahead(c, f), NEW paid \in Nat,
         NEW newC \in CpuState, NEW newF \in FP!CpuState,
         newC.mshrs = c.mshrs, newF.mshrs = f.mshrs, newC.debt = newF.debt,
         Cycles(newC) = Cycles(c) + paid, Cycles(newF) = Cycles(f) + paid,
         Unstalled(newC.stats) = Unstalled(c.stats) + paid,
         Unstalled(newF.stats) = Unstalled(f.stats) + paid
  PROVE  Ahead(newC, newF)
<1>1. /\ Cycles(c) \in Nat /\ Cycles(f) \in Nat
  BY NumbersOf DEF Ahead
<1> QED
  BY <1>1 DEF Ahead

\* A compute record.
LEMMA IssueKeepsAhead ==
  ASSUME NEW c, NEW f, Ahead(c, f), NEW n \in Nat
  PROVE  Ahead(Issue(c, n), F!Issue(f, n))
<1> DEFINE r == Issue(c, n)
           q == F!Issue(f, n)
           paid == Paid(c.debt, n)
<1>1. /\ r \in CpuState /\ r.mshrs = c.mshrs
      /\ r.debt = StillOwed(c.debt, n) /\ paid \in Nat
      /\ r.stats["cycles"] = c.stats["cycles"] + paid
      /\ Unstalled(r.stats) = Unstalled(c.stats) + paid
  BY IssuePays DEF Ahead
<1>2. /\ FP!Issue(f, n) \in FP!CpuState /\ FP!Issue(f, n).mshrs = f.mshrs
      /\ FP!Issue(f, n).debt = FP!StillOwed(f.debt, n)
      /\ FP!Paid(f.debt, n) \in Nat
      /\ FP!Issue(f, n).stats["cycles"] = f.stats["cycles"] + FP!Paid(f.debt, n)
      /\ FP!Unstalled(FP!Issue(f, n).stats) = FP!Unstalled(f.stats) + FP!Paid(f.debt, n)
  BY FewAssumption, FP!IssuePays DEF Ahead
<1>3. q = FP!Issue(f, n) /\ c.debt = f.debt
  BY SameOperations DEF Ahead
<1> HIDE DEF r, q
<1>4. /\ q \in FP!CpuState /\ q.mshrs = f.mshrs /\ q.debt = StillOwed(c.debt, n)
      /\ q.stats["cycles"] = f.stats["cycles"] + paid
      /\ Unstalled(q.stats) = Unstalled(f.stats) + paid
  BY <1>2, <1>3, SameNames
<1> HIDE DEF paid
<1>5. Ahead(r, q)
  BY <1>1, <1>4, PaymentKeepsAhead DEF Cycles
<1> QED
  BY <1>5 DEF r, q

\* The instruction of an access.
LEMMA BeginKeepsAhead ==
  ASSUME NEW c, NEW f, Ahead(c, f), NEW dependent \in BOOLEAN
  PROVE  Ahead(BeginAccess(c, dependent), F!BeginAccess(f, dependent))
<1> DEFINE r == BeginAccess(c, dependent)
           q == F!BeginAccess(f, dependent)
           fq == FP!BeginAccess(f, dependent)
           paid == Paid(c.debt, 1)
<1>1. /\ r \in CpuState /\ r.mshrs = c.mshrs
      /\ r.debt = StillOwed(c.debt, 1) /\ paid \in Nat
      /\ r.stats["cycles"] = c.stats["cycles"] + paid
      /\ Unstalled(r.stats) = Unstalled(c.stats) + paid
  BY BeginPays DEF Ahead
<1>2. /\ fq \in FP!CpuState /\ fq.mshrs = f.mshrs
      /\ fq.debt = FP!StillOwed(f.debt, 1)
      /\ FP!Paid(f.debt, 1) \in Nat
      /\ fq.stats["cycles"] = f.stats["cycles"] + FP!Paid(f.debt, 1)
      /\ FP!Unstalled(fq.stats) = FP!Unstalled(f.stats) + FP!Paid(f.debt, 1)
  BY FewAssumption, FP!BeginPays DEF Ahead
<1>3. q = fq /\ c.debt = f.debt
  BY SameOperations DEF Ahead
<1> HIDE DEF r, q, fq
<1>4. /\ q \in FP!CpuState /\ q.mshrs = f.mshrs /\ q.debt = StillOwed(c.debt, 1)
      /\ q.stats["cycles"] = f.stats["cycles"] + paid
      /\ Unstalled(q.stats) = Unstalled(f.stats) + paid
  BY <1>2, <1>3, SameNames
<1> HIDE DEF paid
<1>5. Ahead(r, q)
  BY <1>1, <1>4, PaymentKeepsAhead DEF Cycles
<1> QED
  BY <1>5 DEF r, q

\* A hit costs both the same.
LEMMA HitKeepsAhead ==
  ASSUME NEW c, NEW f, Ahead(c, f), NEW o \in OutcomeOfAccess, NEW dependent \in BOOLEAN
  PROVE  Ahead(FinishHit(c, o, dependent), FP!FinishHit(f, o, dependent))
<1> DEFINE r == FinishHit(c, o, dependent)
           q == FP!FinishHit(f, o, dependent)
           stall == IF dependent THEN o.latency ELSE 0
<1>1. /\ Accessed(c, r, o.latency, stall) /\ r.mshrs = c.mshrs
      /\ r.stats["mshr"] = c.stats["mshr"]
  BY HitCorrect DEF Ahead
<1>2. /\ FP!Accessed(f, q, o.latency, stall) /\ q.mshrs = f.mshrs
      /\ q.stats["mshr"] = f.stats["mshr"]
  BY FewAssumption, SameNames, FP!HitCorrect DEF Ahead
<1>3. stall \in Nat
  BY DEF OutcomeOfAccess
<1> HIDE DEF r, q, stall
<1>4. /\ r \in CpuState /\ r.debt = c.debt /\ Cycles(r) = Cycles(c) + stall
      /\ StallTotal(r.stats) = StallTotal(c.stats) + stall
  BY <1>1 DEF Accessed, Cycles
<1>5. /\ q \in FP!CpuState /\ q.debt = f.debt /\ Cycles(q) = Cycles(f) + stall
      /\ StallTotal(q.stats) = StallTotal(f.stats) + stall
  BY <1>2, SameNames DEF FP!Accessed, Cycles
<1>6. /\ Cycles(c) \in Nat /\ Cycles(f) \in Nat
      /\ Unstalled(c.stats) = Cycles(c) - StallTotal(c.stats)
      /\ Unstalled(f.stats) = Cycles(f) - StallTotal(f.stats)
      /\ StallTotal(c.stats) \in Nat /\ StallTotal(f.stats) \in Nat
      /\ Unstalled(r.stats) = Cycles(r) - StallTotal(r.stats)
      /\ Unstalled(q.stats) = Cycles(q) - StallTotal(q.stats)
  BY <1>4, <1>5, NumbersOf DEF Ahead
<1>7. Unstalled(r.stats) = Unstalled(c.stats) /\ Unstalled(q.stats) = Unstalled(f.stats)
  BY <1>3, <1>4, <1>5, <1>6
<1>8. Cycles(r) <= Cycles(q)
  BY <1>3, <1>4, <1>5, <1>6 DEF Ahead
<1>9. Ahead(r, q)
  BY <1>1, <1>2, <1>4, <1>5, <1>7, <1>8 DEF Ahead
<1> QED
  BY <1>9 DEF r, q

\* A miss starts no later in the CPU with more MSHRs.
LEMMA MissKeepsAhead ==
  ASSUME NEW c, NEW f, Ahead(c, f), NEW o \in OutcomeOfAccess, NEW dependent \in BOOLEAN
  PROVE  Ahead(FinishMiss(c, o, dependent), FP!FinishMiss(f, o, dependent))
<1> DEFINE r == FinishMiss(c, o, dependent)
           q == FP!FinishMiss(f, o, dependent)
           exposed == IF dependent THEN o.latency ELSE 0
           start == MissStart(c)
           startF == FP!MissStart(f)
           entry == MissEntry(start, o)
           entryF == MissEntry(startF, o)
           file  == [c.mshrs EXCEPT ![0] = entry]
           fileF == [f.mshrs EXCEPT ![0] = entryF]
<1>1. /\ c \in CpuState /\ f \in FP!CpuState /\ HeapOrdered(c.mshrs) /\ FP!HeapOrdered(f.mshrs)
      /\ c.mshrs \in [Slots -> Mshr] /\ f.mshrs \in [FP!Slots -> Mshr]
      /\ Cycles(c) \in Nat /\ Cycles(f) \in Nat /\ Cycles(c) <= Cycles(f)
      /\ c.debt = f.debt /\ Unstalled(c.stats) = Unstalled(f.stats)
      /\ OneEarlierEach(c.mshrs, f.mshrs) /\ NoneIsLast(c.mshrs, f.mshrs)
      /\ o \in FP!OutcomeOfAccess
  BY NumbersOf, SameNames DEF Ahead
<1>2. \E stall \in Nat : Accessed(c, r, o.latency, stall)
  BY <1>1, MissCorrect
<1>3. HeapOrdered(r.mshrs)
  BY <1>1, MissCorrect
<1>4. \E stall \in Nat : FP!Accessed(f, q, o.latency, stall)
  BY <1>1, FewAssumption, FP!MissCorrect
<1>5. FP!HeapOrdered(q.mshrs)
  BY <1>1, FewAssumption, FP!MissCorrect
<1>6. /\ entry \in Mshr /\ Permuted(r.mshrs, file)
      /\ Cycles(r) = start + exposed
  BY <1>1, MissChanges
<1>7. /\ FP!MissEntry(startF, o) \in FP!Mshr
      /\ FP!Permuted(q.mshrs, [f.mshrs EXCEPT ![0] = FP!MissEntry(startF, o)])
      /\ FP!Cycles(q) = startF + exposed
  BY <1>1, FewAssumption, FP!MissChanges
<1>8. /\ entryF \in Mshr /\ FP!Permuted(q.mshrs, fileF) /\ Cycles(q) = startF + exposed
  BY <1>7, SameNames
<1>9. c.mshrs[0].free_at <= f.mshrs[0].free_at
  BY <1>1, RootIsEarlier
<1>10. c.mshrs[0].free_at \in Nat /\ f.mshrs[0].free_at \in Nat
  BY <1>1, FewSlots DEF Mshr
<1>11. /\ start = IF c.mshrs[0].free_at > Cycles(c) THEN c.mshrs[0].free_at ELSE Cycles(c)
       /\ startF = IF f.mshrs[0].free_at > Cycles(f) THEN f.mshrs[0].free_at ELSE Cycles(f)
  BY SameNames DEF MissStart, FP!MissStart
<1> HIDE DEF start, startF
<1>12. /\ start \in Nat /\ startF \in Nat /\ start <= startF
       /\ f.mshrs[0].free_at <= startF
  BY <1>1, <1>9, <1>10, <1>11
<1>13. /\ o.latency \in Nat /\ exposed \in Nat
  BY DEF OutcomeOfAccess
<1>14. /\ entry.free_at <= entryF.free_at /\ f.mshrs[0].free_at <= entryF.free_at
  BY <1>10, <1>12, <1>13 DEF MissEntry
<1> HIDE DEF entry, entryF, r, q, exposed
<1>15. OneEarlierEach(file, fileF)
  BY <1>1, <1>6, <1>8, <1>14, MissKeepsEarlier
<1>16. NoneIsLast(file, fileF)
  BY <1>1, <1>6, <1>8, <1>14, MissKeepsLast
<1> HIDE DEF file, fileF
<1>17. OneEarlierEach(r.mshrs, q.mshrs) /\ NoneIsLast(r.mshrs, q.mshrs)
  BY <1>6, <1>8, <1>15, <1>16, PermutedIsEarlier
<1>18. Cycles(r) <= Cycles(q)
  BY <1>6, <1>8, <1>12, <1>13
<1>19. r \in CpuState /\ r.debt = c.debt /\ Unstalled(r.stats) = Unstalled(c.stats)
  <2>1. PICK stall \in Nat : Accessed(c, r, o.latency, stall)
    BY <1>2
  <2>2. /\ r \in CpuState /\ r.debt = c.debt /\ Cycles(r) = Cycles(c) + stall
        /\ StallTotal(r.stats) = StallTotal(c.stats) + stall
    BY <2>1 DEF Accessed, Cycles
  <2>3. /\ Unstalled(r.stats) = Cycles(r) - StallTotal(r.stats)
        /\ Unstalled(c.stats) = Cycles(c) - StallTotal(c.stats)
        /\ StallTotal(c.stats) \in Nat
    BY <1>1, <2>2, NumbersOf
  <2> QED
    BY <1>1, <2>2, <2>3
<1>20. q \in FP!CpuState /\ q.debt = f.debt /\ Unstalled(q.stats) = Unstalled(f.stats)
  <2>1. PICK stall \in Nat : FP!Accessed(f, q, o.latency, stall)
    BY <1>4
  <2>2. /\ q \in FP!CpuState /\ q.debt = f.debt /\ Cycles(q) = Cycles(f) + stall
        /\ StallTotal(q.stats) = StallTotal(f.stats) + stall
    BY <2>1, SameNames DEF FP!Accessed, Cycles
  <2>3. /\ Unstalled(q.stats) = Cycles(q) - StallTotal(q.stats)
        /\ Unstalled(f.stats) = Cycles(f) - StallTotal(f.stats)
        /\ StallTotal(f.stats) \in Nat
    BY <1>1, <2>2, NumbersOf
  <2> QED
    BY <1>1, <2>2, <2>3
<1>21. Ahead(r, q)
  BY <1>1, <1>3, <1>5, <1>17, <1>18, <1>19, <1>20 DEF Ahead
<1> QED
  BY <1>21 DEF r, q

\* Both drain; the last fill of the CPU with more MSHRs is not the later one.
LEMMA DrainKeepsAhead ==
  ASSUME NEW c, NEW f, Ahead(c, f),
         NEW order \in CompletionOrders(c.mshrs), NEW orderF \in FP!CompletionOrders(f.mshrs)
  PROVE  Ahead(Drain(c, order), FP!Drain(f, orderF))
<1> DEFINE r == Drain(c, order)
           q == FP!Drain(f, orderF)
           owed == IF c.debt > 0 THEN 1 ELSE 0
           end == Cycles(q) - owed
<1>1. /\ c \in CpuState /\ f \in FP!CpuState
      /\ c.mshrs \in [Slots -> Mshr] /\ f.mshrs \in [FP!Slots -> Mshr]
      /\ Cycles(c) \in Nat /\ Cycles(f) \in Nat /\ Cycles(c) <= Cycles(f)
      /\ c.debt = f.debt /\ Unstalled(c.stats) = Unstalled(f.stats)
      /\ NoneIsLast(c.mshrs, f.mshrs)
  BY NumbersOf DEF Ahead
<1>2. /\ r \in CpuState /\ r.debt = 0 /\ \A i \in Slots : r.mshrs[i].free_at = 0
      /\ \A last \in Nat : /\ Cycles(c) <= last
                           /\ \A i \in Slots : c.mshrs[i].free_at <= last
                           => Cycles(r) <= last + owed
      /\ Unstalled(r.stats) = Unstalled(c.stats) + owed
  BY <1>1, DrainPays
<1>3. /\ q \in FP!CpuState /\ q.debt = 0 /\ \A i \in FP!Slots : q.mshrs[i].free_at = 0
      /\ FP!Cycles(q) - (IF f.debt > 0 THEN 1 ELSE 0) \in Nat
      /\ FP!Cycles(f) <= FP!Cycles(q) - (IF f.debt > 0 THEN 1 ELSE 0)
      /\ \A i \in FP!Slots : f.mshrs[i].free_at <= FP!Cycles(q) - (IF f.debt > 0 THEN 1 ELSE 0)
      /\ FP!Unstalled(q.stats) = FP!Unstalled(f.stats) + (IF f.debt > 0 THEN 1 ELSE 0)
  BY <1>1, FewAssumption, FP!DrainPays
<1>4. /\ end \in Nat /\ Cycles(f) <= end /\ \A i \in FP!Slots : f.mshrs[i].free_at <= end
      /\ Unstalled(q.stats) = Unstalled(f.stats) + owed
  BY <1>1, <1>3, SameNames
<1>5. owed \in {0, 1} /\ Cycles(q) \in Nat /\ Cycles(r) \in Nat
  BY <1>2, <1>3, NumbersOf
<1> HIDE DEF r, q, owed
<1>6. Cycles(q) = end + owed
  BY <1>5
<1> HIDE DEF end
<1>7. /\ \A i \in Slots : c.mshrs[i].free_at \in Nat
      /\ \A i \in FP!Slots : f.mshrs[i].free_at \in Nat
  BY <1>1 DEF Mshr
<1>8. \A i \in Slots : c.mshrs[i].free_at <= end
  BY <1>1, <1>4, <1>7 DEF NoneIsLast
<1>9. Cycles(c) <= end
  BY <1>1, <1>4
<1>10. Cycles(r) <= Cycles(q)
  BY <1>2, <1>4, <1>6, <1>8, <1>9
<1>11. HeapOrdered(r.mshrs) /\ FP!HeapOrdered(q.mshrs)
  <2>1. HeapOrdered(r.mshrs)
    BY <1>2, ParentIsAbove DEF HeapOrdered
  <2>2. \A i \in FP!Slots \ {0} : FP!Parent(i) \in FP!Slots
    BY FewAssumption, FP!ParentIsAbove
  <2> QED
    BY <1>3, <2>1, <2>2 DEF FP!HeapOrdered
<1>12. NoneIsLast(r.mshrs, q.mshrs)
  <2>1. \A i \in Slots : r.mshrs[i].free_at <= q.mshrs[0].free_at
    BY <1>2, <1>3, FewSlots
  <2> QED
    BY <2>1, FewSlots DEF NoneIsLast
<1>13. OneEarlierEach(r.mshrs, q.mshrs)
  <2> DEFINE g == [i \in FP!Slots |-> i]
  <2>1. g \in [FP!Slots -> Slots] /\ \A i \in FP!Slots : g[i] = i /\ i \in Slots
    BY FewSlots
  <2> HIDE DEF g
  <2>2. \A i \in FP!Slots : r.mshrs[g[i]].free_at <= q.mshrs[i].free_at
    BY <1>2, <1>3, <2>1
  <2> QED
    BY <2>1, <2>2 DEF OneEarlierEach
<1>14. Ahead(r, q)
  BY <1>1, <1>2, <1>3, <1>4, <1>10, <1>11, <1>12, <1>13 DEF Ahead
<1> QED
  BY <1>14 DEF r, q

\* Every step of both keeps the CPU with more MSHRs ahead.
LEMMA BothStepKeepsAhead ==
  Inv /\ Ahead(cpu, fewer) /\ [BothNext]_<<vars, fewer>> => Ahead(cpu, fewer)'
<1> SUFFICES ASSUME Inv, Ahead(cpu, fewer), [BothNext]_<<vars, fewer>>
             PROVE  Ahead(cpu', fewer')
  OBVIOUS
<1>1. ASSUME NEW n \in ComputeCounts, BothCompute(n) PROVE Ahead(cpu', fewer')
  <2>1. n \in Nat /\ cpu' = Issue(cpu, n) /\ fewer' = F!Issue(fewer, n)
    BY <1>1, DriverAssumption DEF BothCompute, Compute
  <2> QED
    BY <2>1, IssueKeepsAhead
<1>2. ASSUME NEW o \in Outcomes, NEW dependent \in BOOLEAN, BothMemoryAccess(o, dependent)
      PROVE  Ahead(cpu', fewer')
  <2> DEFINE c == BeginAccess(cpu, dependent)
             f == F!BeginAccess(fewer, dependent)
  <2>1. /\ o \in OutcomeOfAccess
        /\ cpu' = FinishAccess(c, o, dependent) /\ fewer' = F!FinishAccess(f, o, dependent)
    BY <1>2, DriverAssumption DEF BothMemoryAccess, MemoryAccess, OutcomeOfAccess
  <2>2. Ahead(c, f)
    BY BeginKeepsAhead
  <2> HIDE DEF c, f
  <2>3. fewer' = FP!FinishAccess(f, o, dependent)
    BY <2>1, SameOperations
  <2>4. CASE o.source = "L1"
    <3>1. cpu' = FinishHit(c, o, dependent) /\ fewer' = FP!FinishHit(f, o, dependent)
      BY <2>1, <2>3, <2>4 DEF FinishAccess, FP!FinishAccess
    <3> QED
      BY <2>1, <2>2, <3>1, HitKeepsAhead
  <2>5. CASE o.source # "L1"
    <3>1. cpu' = FinishMiss(c, o, dependent) /\ fewer' = FP!FinishMiss(f, o, dependent)
      BY <2>1, <2>3, <2>5 DEF FinishAccess, FP!FinishAccess
    <3> QED
      BY <2>1, <2>2, <3>1, MissKeepsAhead
  <2> QED
    BY <2>4, <2>5
<1>3. ASSUME BothFinish PROVE Ahead(cpu', fewer')
  <2> DEFINE orderF == CHOOSE order \in F!CompletionOrders(fewer.mshrs) : TRUE
  <2>1. PICK order \in CompletionOrders(cpu.mshrs) : cpu' = Drain(cpu, order)
    BY <1>3 DEF BothFinish, Finish
  <2>2. fewer' = F!Drain(fewer, orderF)
    BY <1>3 DEF BothFinish
  <2>3. fewer.mshrs \in [FP!Slots -> FP!Mshr]
    BY NumbersOf, SameNames DEF Ahead
  <2>4. FP!CompletionOrders(fewer.mshrs) # {}
    BY <2>3, FewAssumption, FP!OrderExists
  <2>5. orderF \in FP!CompletionOrders(fewer.mshrs)
    BY <2>4, SameOperations
  <2> HIDE DEF orderF
  <2>6. fewer' = FP!Drain(fewer, orderF)
    BY <2>2, SameOperations
  <2> QED
    BY <2>1, <2>5, <2>6, DrainKeepsAhead
<1>4. CASE UNCHANGED <<vars, fewer>>
  BY <1>4 DEF vars
<1> QED
  BY <1>1, <1>2, <1>3, <1>4 DEF BothNext

\* A CPU with more MSHRs is never behind one with fewer that executes the same records,
\* whatever their number and the latencies of the misses (cpu.cpp:82-91,
\* simulator.cpp:110-115).
THEOREM MoreMshrsHelp == BothSpec => []MoreMshrsNeverSlower
<1>1. BothInit => Inv /\ Ahead(cpu, fewer)
  <2> SUFFICES ASSUME BothInit PROVE Inv /\ Ahead(cpu, fewer)
    OBVIOUS
  <2>1. Inv /\ cpu = NewCpu /\ fewer = FP!NewCpu
    BY InitEstablishesInv, SameNames DEF BothInit, Init
  <2>2. /\ cpu.stats = [k \in StatNames |-> 0] /\ cpu.debt = 0
        /\ cpu.mshrs = [i \in Slots |-> IdleMshr]
        /\ fewer.stats = cpu.stats /\ fewer.debt = 0
        /\ fewer.mshrs = [i \in FP!Slots |-> IdleMshr]
    BY <2>1 DEF NewCpu, FP!NewCpu, FP!StatNames, StatNames, FP!Buckets, Buckets, FP!IdleMshr,
                IdleMshr
  <2>3. IdleMshr \in Mshr /\ IdleMshr.free_at = 0
    BY DEF IdleMshr, Mshr
  <2>4. cpu \in CpuState /\ HeapOrdered(cpu.mshrs)
    BY <2>1 DEF Inv, TypeOK, HeapOrder, HeapOrdered
  <2>5. fewer \in FP!CpuState
    <3>1. fewer = [stats |-> fewer.stats, debt |-> fewer.debt, mshrs |-> fewer.mshrs]
      BY <2>1 DEF FP!NewCpu
    <3>2. fewer.stats \in CpuStats /\ fewer.debt \in 0 .. FractionOne-1
      BY <2>2, <2>4 DEF CpuState
    <3>3. fewer.mshrs \in [FP!Slots -> Mshr]
      BY <2>2, <2>3
    <3> QED
      BY <3>1, <3>2, <3>3, SameNames
  <2>6. \A i \in FP!Slots \ {0} : FP!Parent(i) \in FP!Slots
    BY FewAssumption, FP!ParentIsAbove
  <2>7. FP!HeapOrdered(fewer.mshrs)
    BY <2>2, <2>3, <2>6 DEF FP!HeapOrdered
  <2>8. Cycles(cpu) <= Cycles(fewer)
    BY <2>2 DEF Cycles, StatNames
  <2>9. NoneIsLast(cpu.mshrs, fewer.mshrs)
    BY <2>2, <2>3, FewSlots DEF NoneIsLast
  <2>10. OneEarlierEach(cpu.mshrs, fewer.mshrs)
    <3> DEFINE g == [i \in FP!Slots |-> i]
    <3>1. g \in [FP!Slots -> Slots] /\ \A i \in FP!Slots : g[i] = i /\ i \in Slots
      BY FewSlots
    <3> HIDE DEF g
    <3>2. \A i \in FP!Slots : cpu.mshrs[g[i]].free_at <= fewer.mshrs[i].free_at
      BY <2>2, <2>3, <3>1
    <3> QED
      BY <3>1, <3>2 DEF OneEarlierEach
  <2> QED
    BY <2>1, <2>2, <2>4, <2>5, <2>7, <2>8, <2>9, <2>10 DEF Ahead
<1>2. Inv /\ [BothNext]_<<vars, fewer>> => Inv'
  <2>1. [BothNext]_<<vars, fewer>> => [Next]_vars
    BY DEF BothNext, BothCompute, BothMemoryAccess, BothFinish, Next, vars
  <2> QED
    BY <2>1, StepKeepsInv
<1>3. Ahead(cpu, fewer) => MoreMshrsNeverSlower
  <2> SUFFICES ASSUME Ahead(cpu, fewer) PROVE MoreMshrsNeverSlower
    OBVIOUS
  <2>1. /\ cpu \in CpuState /\ fewer \in FP!CpuState
        /\ Cycles(cpu) <= Cycles(fewer)
        /\ Unstalled(cpu.stats) = Unstalled(fewer.stats)
    BY DEF Ahead
  <2>2. /\ Cycles(cpu) \in Nat /\ Unstalled(cpu.stats) = Cycles(cpu) - StallTotal(cpu.stats)
        /\ StallTotal(cpu.stats) \in Nat
        /\ Cycles(fewer) \in Nat
        /\ Unstalled(fewer.stats) = Cycles(fewer) - StallTotal(fewer.stats)
        /\ StallTotal(fewer.stats) \in Nat
    BY <2>1, NumbersOf
  <2>3. \A a, b, s, t \in Nat : a <= b /\ a - s = b - t => s <= t
    OBVIOUS
  <2>4. StallTotal(cpu.stats) <= StallTotal(fewer.stats)
    BY <2>1, <2>2, <2>3
  <2> QED
    BY <2>1, <2>4 DEF MoreMshrsNeverSlower
<1> QED
  BY <1>1, <1>2, <1>3, BothStepKeepsAhead, PTL DEF BothSpec

-----------------------------------------------------------------------------
(* Bags of entries.                                                         *)

\* The bag of entries of a heap, and the slots that hold one of them.
EntryOf(m)          == [free_at |-> m.free_at, label |-> Label(m)]
Holding(heap, e, S) == {i \in S : EntryOf(heap[i]) = e}
Held(heap, S)       == {EntryOf(heap[i]) : i \in S}
BagOver(heap, S)    == [e \in Held(heap, S) |-> Cardinality(Holding(heap, e, S))]

\* What is counted is finite, and an entry is in the bag if some slot holds it.
LEMMA CountsAreNumbers ==
  ASSUME NEW heap, NEW e, NEW S \in SUBSET Slots
  PROVE  /\ IsFiniteSet(Holding(heap, e, S)) /\ Cardinality(Holding(heap, e, S)) \in Nat
         /\ e \in Held(heap, S) <=> Cardinality(Holding(heap, e, S)) > 0
<1>1. IsFiniteSet(Holding(heap, e, S))
  <2>1. Holding(heap, e, S) \subseteq Slots
    BY DEF Holding
  <2> QED
    BY <2>1, SlotsAreFinite, FS_Subset
<1>2. Cardinality(Holding(heap, e, S)) \in Nat
  BY <1>1, FS_CardinalityType
<1>3. Holding(heap, e, S) = {} <=> Cardinality(Holding(heap, e, S)) = 0
  BY <1>1, FS_EmptySet
<1>4. e \in Held(heap, S) <=> Holding(heap, e, S) # {}
  BY DEF Held, Holding
<1> QED
  BY <1>1, <1>2, <1>3, <1>4

\* The order of the entries makes no difference to the bag.
LEMMA PermutedIsSameBag ==
  ASSUME NEW heap, NEW file, Permuted(heap, file)
  PROVE  BagOver(heap, Slots) = BagOver(file, Slots)
<1>1. PICK p \in [Slots -> Slots] : /\ \A i, j \in Slots : p[i] = p[j] => i = j
                                    /\ heap = [i \in Slots |-> file[p[i]]]
  BY DEF Permuted
<1>2. \A j \in Slots : \E i \in Slots : p[i] = j
  <2>1. p \in Injection(Slots, Slots)
    BY <1>1 DEF Injection, IsInjective
  <2>2. p \in Surjection(Slots, Slots)
    BY <2>1, SlotsAreFinite, FS_Injection
  <2> QED
    BY <2>2 DEF Surjection
<1>3. Held(heap, Slots) = Held(file, Slots)
  <2>1. \A i \in Slots : heap[i] = file[p[i]] /\ p[i] \in Slots
    BY <1>1
  <2> QED
    BY <1>2, <2>1 DEF Held
<1>4. ASSUME NEW e
      PROVE  Cardinality(Holding(heap, e, Slots)) = Cardinality(Holding(file, e, Slots))
  <2> DEFINE A == Holding(heap, e, Slots)
             B == Holding(file, e, Slots)
             q == [i \in A |-> p[i]]
  <2>1. /\ \A i \in Slots : i \in A <=> EntryOf(file[p[i]]) = e
        /\ \A j \in Slots : j \in B <=> EntryOf(file[j]) = e
        /\ A \subseteq Slots /\ B \subseteq Slots
    BY <1>1 DEF Holding
  <2>2. IsFiniteSet(A)
    BY CountsAreNumbers
  <2> HIDE DEF A, B
  <2>3. q \in [A -> B] /\ \A i, j \in A : q[i] = q[j] => i = j
    BY <1>1, <2>1
  <2>4. \A j \in B : \E i \in A : q[i] = j
    <3> SUFFICES ASSUME NEW j \in B PROVE \E i \in A : q[i] = j
      OBVIOUS
    <3>1. PICK i \in Slots : p[i] = j
      BY <1>2, <2>1
    <3>2. i \in A
      BY <2>1, <3>1
    <3> QED
      BY <3>1, <3>2
  <2>5. q \in Bijection(A, B)
    BY <2>3, <2>4 DEF Bijection, Injection, IsInjective, Surjection
  <2>6. Cardinality(A) = Cardinality(B)
    BY <2>2, <2>5, FS_Bijection DEF ExistsBijection
  <2> QED
    BY <2>6 DEF A, B
<1> QED
  BY <1>3, <1>4 DEF BagOver

\* The bag of all slots is that of the others and the entry at the root.
LEMMA RootIsOneMore ==
  ASSUME NEW heap, NEW e
  PROVE  Cardinality(Holding(heap, e, Slots)) =
           Cardinality(Holding(heap, e, Slots \ {0})) + (IF EntryOf(heap[0]) = e THEN 1 ELSE 0)
<1> DEFINE rest == Holding(heap, e, Slots \ {0})
<1>1. IsFiniteSet(rest) /\ Cardinality(rest) \in Nat
  BY CountsAreNumbers
<1>2. CASE EntryOf(heap[0]) = e
  <2>1. Holding(heap, e, Slots) = rest \cup {0} /\ 0 \notin rest
    BY <1>2, SlotsAreFinite DEF Holding
  <2>2. Cardinality(rest \cup {0}) = Cardinality(rest) + 1
    BY <1>1, <2>1, FS_AddElement
  <2> QED
    BY <1>2, <2>1, <2>2
<1>3. CASE EntryOf(heap[0]) # e
  <2>1. Holding(heap, e, Slots) = rest
    BY <1>3 DEF Holding
  <2> QED
    BY <1>1, <1>3, <2>1
<1> QED
  BY <1>2, <1>3

\* A bag is known by how often it has what it has.
LEMMA BagIsCounts ==
  ASSUME NEW heap, NEW S \in SUBSET Slots, NEW D, NEW f, f = [e \in D |-> f[e]],
         \A e : /\ e \in D <=> e \in Held(heap, S)
                /\ e \in D => f[e] = Cardinality(Holding(heap, e, S))
  PROVE  f = BagOver(heap, S)
<1>1. D = Held(heap, S)
  OBVIOUS
<1>2. [e \in D |-> f[e]] = [e \in Held(heap, S) |-> Cardinality(Holding(heap, e, S))]
  BY <1>1
<1> QED
  BY <1>2 DEF BagOver

\* The root entry is replaced: one is removed from the bag, and one added.
LEMMA ReplacedInBag ==
  ASSUME NEW heap \in [Slots -> Mshr], NEW m
  PROVE  BagOver([heap EXCEPT ![0] = m], Slots) =
           File!BagAdd(File!BagRemove(BagOver(heap, Slots), EntryOf(heap[0])), EntryOf(m))
<1> DEFINE new   == [heap EXCEPT ![0] = m]
           rest  == Slots \ {0}
           old   == EntryOf(heap[0])
           added == EntryOf(m)
           B     == BagOver(heap, Slots)
           R     == BagOver(heap, rest)
<1>1. rest \in SUBSET Slots /\ Slots \in SUBSET Slots /\ 0 \in Slots
  BY SlotsAreFinite
<1>2. /\ DOMAIN B = Held(heap, Slots) /\ B = [e \in DOMAIN B |-> B[e]]
      /\ \A e \in DOMAIN B : B[e] = Cardinality(Holding(heap, e, Slots))
  BY DEF BagOver
<1>3. old \in DOMAIN B
  BY <1>1, <1>2 DEF Held
<1>4. \A e : /\ Cardinality(Holding(heap, e, rest)) \in Nat
             /\ e \in Held(heap, rest) <=> Cardinality(Holding(heap, e, rest)) > 0
             /\ e \in Held(heap, Slots) <=> Cardinality(Holding(heap, e, Slots)) > 0
             /\ Cardinality(Holding(heap, e, Slots)) =
                  Cardinality(Holding(heap, e, rest)) + (IF old = e THEN 1 ELSE 0)
  BY <1>1, CountsAreNumbers, RootIsOneMore
<1>5. File!BagRemove(B, old) = R
  <2> HIDE DEF B, old, rest
  <2>1. CASE B[old] = 1
    <3> DEFINE D == DOMAIN B \ {old}
               f == [e \in D |-> B[e]]
    <3>1. \A e : /\ e \in D <=> e \in Held(heap, rest)
                 /\ e \in D => f[e] = Cardinality(Holding(heap, e, rest))
      BY <1>2, <1>3, <1>4, <2>1
    <3>2. f = R
      <4>1. f = [e \in D |-> f[e]]
        OBVIOUS
      <4> HIDE DEF f, D
      <4> QED
        BY <1>1, <3>1, <4>1, BagIsCounts
    <3> QED
      BY <1>3, <2>1, <3>2 DEF File!BagRemove
  <2>2. CASE B[old] # 1
    <3> DEFINE D == DOMAIN B
               f == [e \in D |-> IF e = old THEN B[e] - 1 ELSE B[e]]
    <3>1. \A e : /\ e \in D <=> e \in Held(heap, rest)
                 /\ e \in D => f[e] = Cardinality(Holding(heap, e, rest))
      BY <1>2, <1>3, <1>4, <2>2
    <3>2. f = R
      <4>1. f = [e \in D |-> f[e]]
        OBVIOUS
      <4> HIDE DEF f, D
      <4> QED
        BY <1>1, <3>1, <4>1, BagIsCounts
    <3> QED
      BY <1>3, <2>2, <3>2 DEF File!BagRemove
  <2> QED
    BY <2>1, <2>2
<1>6. /\ \A e : Holding(new, e, rest) = Holding(heap, e, rest)
      /\ Held(new, rest) = Held(heap, rest)
      /\ EntryOf(new[0]) = added
  <2>1. \A i \in rest : new[i] = heap[i]
    OBVIOUS
  <2>2. new[0] = m
    BY <1>1
  <2> HIDE DEF new
  <2> QED
    BY <2>1, <2>2 DEF Holding, Held
<1>7. \A e : /\ e \in Held(new, Slots) <=> Cardinality(Holding(new, e, Slots)) > 0
             /\ Cardinality(Holding(new, e, Slots)) =
                  Cardinality(Holding(heap, e, rest)) + (IF added = e THEN 1 ELSE 0)
  <2>1. \A e : /\ e \in Held(new, Slots) <=> Cardinality(Holding(new, e, Slots)) > 0
               /\ Cardinality(Holding(new, e, Slots)) =
                    Cardinality(Holding(new, e, rest)) + (IF EntryOf(new[0]) = e THEN 1 ELSE 0)
    <3> HIDE DEF new
    <3> QED
      BY <1>1, CountsAreNumbers, RootIsOneMore
  <2> QED
    BY <1>6, <2>1
<1>8. /\ DOMAIN R = Held(heap, rest) /\ R = [e \in DOMAIN R |-> R[e]]
      /\ \A e \in DOMAIN R : R[e] = Cardinality(Holding(heap, e, rest))
  BY DEF BagOver
<1>9. File!BagAdd(R, added) = BagOver(new, Slots)
  <2> HIDE DEF R, added, rest, new
  <2>1. CASE added \in DOMAIN R
    <3> DEFINE D == DOMAIN R
               f == [e \in D |-> IF e = added THEN R[e] + 1 ELSE R[e]]
    <3>1. \A e : /\ e \in D <=> e \in Held(new, Slots)
                 /\ e \in D => f[e] = Cardinality(Holding(new, e, Slots))
      BY <1>4, <1>7, <1>8, <2>1
    <3>2. f = BagOver(new, Slots)
      <4>1. f = [e \in D |-> f[e]]
        OBVIOUS
      <4> HIDE DEF f, D
      <4> QED
        BY <1>1, <3>1, <4>1, BagIsCounts
    <3> QED
      BY <2>1, <3>2 DEF File!BagAdd
  <2>2. CASE added \notin DOMAIN R
    <3> DEFINE D == DOMAIN R \cup {added}
               f == [e \in D |-> IF e = added THEN 1 ELSE R[e]]
    <3>1. \A e : /\ e \in D <=> e \in Held(new, Slots)
                 /\ e \in D => f[e] = Cardinality(Holding(new, e, Slots))
      BY <1>4, <1>7, <1>8, <2>2
    <3>2. f = BagOver(new, Slots)
      <4>1. f = [e \in D |-> f[e]]
        OBVIOUS
      <4> HIDE DEF f, D
      <4> QED
        BY <1>1, <3>1, <4>1, BagIsCounts
    <3> QED
      BY <2>2, <3>2 DEF File!BagAdd
  <2> QED
    BY <2>1, <2>2
<1> QED
  BY <1>5, <1>9

-----------------------------------------------------------------------------
(* What a record pays.                                                      *)

\* While the word holds the debt, issue pays the whole cycles of what is due and
\* owes the rest.
LEMMA PaymentIsExact ==
  ASSUME NoWrap, NEW c \in CpuState, NEW n \in ComputeCounts \cup {1}
  PROVE  LET due == c.debt + n * CpiScaled
         IN  /\ Paid(c.debt, n) = due \div FractionOne
             /\ StillOwed(c.debt, n) = due % FractionOne
<1> DEFINE x   == n * CpiScaled
           due == c.debt + x
<1>1. /\ c.debt \in Nat /\ c.debt < FractionOne /\ FractionOne \in Nat \ {0}
      /\ WordSize \in Nat \ {0} /\ CpiScaled \in Nat /\ n \in Nat
  BY CpuAssumption, DriverAssumption DEF CpuState
<1>2. x \in Nat /\ x + FractionOne <= WordSize
  BY <1>1 DEF NoWrap
<1> HIDE DEF x
<1>3. due \in Nat /\ due < WordSize
  BY <1>1, <1>2
<1>4. due % WordSize = due
  <2> HIDE DEF due
  <2> QED
    BY <1>1, <1>3
<1>5. due - (due \div FractionOne) * FractionOne = due % FractionOne
  <2> HIDE DEF due
  <2> QED
    BY <1>1, <1>3
<1> QED
  BY <1>4, <1>5 DEF Paid, StillOwed, due, x

-----------------------------------------------------------------------------
(* The heap implements the file.                                            *)

\* The file of the abstract specification.
LEMMA FileIsBag == FileOf = BagOver(cpu.mshrs, Slots)
BY DEF FileOf, BagOver, Held, Holding, EntryOf, Entry

LEMMA FileIsBagNext == FileOf' = BagOver(cpu'.mshrs, Slots)
BY DEF FileOf, BagOver, Held, Holding, EntryOf, Entry

\* The entries of the file are those of the slots.
LEMMA BagHasSlots ==
  ASSUME NEW heap
  PROVE  /\ DOMAIN BagOver(heap, Slots) = Held(heap, Slots)
         /\ \A i \in Slots : EntryOf(heap[i]) \in Held(heap, Slots)
BY DEF BagOver, Held

\* At the start all MSHRs are idle.
LEMMA InitIsFileInit == Init => File!Init
<1> SUFFICES ASSUME Init PROVE File!Init
  OBVIOUS
<1>1. /\ cpu.mshrs = [i \in Slots |-> IdleMshr] /\ drained = FALSE /\ Cycles(cpu) = 0
      /\ cpu.debt = 0
  BY DEF Init, NewCpu, Cycles, StatNames
<1> DEFINE idle == EntryOf(IdleMshr)
<1>2. idle = File!Entry(0, Label(IdleMshr))
  BY DEF EntryOf, IdleMshr, File!Entry
<1>3. Held(cpu.mshrs, Slots) = {idle}
  BY <1>1, SlotsAreFinite DEF Held
<1>4. Holding(cpu.mshrs, idle, Slots) = Slots
  BY <1>1 DEF Holding
<1>5. BagOver(cpu.mshrs, Slots) = [e \in {idle} |-> Mshrs]
  <2>1. \A e \in {idle} : Cardinality(Holding(cpu.mshrs, e, Slots)) = Mshrs
    BY <1>4, SlotsAreFinite
  <2> HIDE DEF idle
  <2> QED
    BY <1>3, <2>1 DEF BagOver
<1> QED
  BY <1>1, <1>2, <1>5, FileIsBag DEF File!Init

\* Issue is issue.
LEMMA ComputeIsIssue ==
  ASSUME Inv, NoWrap, NEW n \in ComputeCounts, Compute(n)
  PROVE  File!Next
<1>1. /\ cpu \in CpuState /\ n \in Nat /\ n \in ComputeCounts \cup {1}
      /\ cpu' = Issue(cpu, n) /\ drained = FALSE /\ drained' = FALSE
  BY DriverAssumption DEF Inv, TypeOK, Compute, Running
<1>2. /\ cpu'.mshrs = cpu.mshrs /\ Cycles(cpu') = Cycles(cpu) + Paid(cpu.debt, n)
      /\ cpu'.debt = StillOwed(cpu.debt, n)
  BY <1>1, IssuePays DEF Cycles
<1>3. Cycles(cpu') = File!Issued(n) /\ cpu'.debt = File!Still(n)
  BY <1>1, <1>2, PaymentIsExact DEF File!Issued, File!Still
<1>4. FileOf' = FileOf
  BY <1>2, FileIsBag, FileIsBagNext
<1>5. File!Issue(n)
  BY <1>1, <1>3, <1>4 DEF File!Issue
<1> QED
  BY <1>5 DEF File!Next

\* An access that hits in L1 is a hit.
LEMMA HitIsHit ==
  ASSUME Inv, NoWrap, NEW o \in Outcomes, NEW dependent \in BOOLEAN,
         MemoryAccess(o, dependent), o.source = "L1"
  PROVE  File!Next
<1> DEFINE begun == BeginAccess(cpu, dependent)
<1>1. /\ cpu \in CpuState /\ o \in OutcomeOfAccess
      /\ cpu' = FinishHit(begun, o, dependent) /\ drained = FALSE /\ drained' = FALSE
  BY DriverAssumption DEF Inv, TypeOK, MemoryAccess, Running, FinishAccess, OutcomeOfAccess
<1>2. /\ begun \in CpuState /\ begun.mshrs = cpu.mshrs
      /\ Cycles(begun) = Cycles(cpu) + Paid(cpu.debt, 1)
      /\ begun.debt = StillOwed(cpu.debt, 1)
  BY <1>1, BeginPays DEF Cycles
<1>3. Cycles(begun) = File!Issued(1) /\ begun.debt = File!Still(1)
  BY <1>1, <1>2, PaymentIsExact DEF File!Issued, File!Still
<1>4. cpu'.debt = begun.debt
  BY <1>1 DEF FinishHit
<1> HIDE DEF begun
<1>5. /\ cpu'.mshrs = cpu.mshrs
      /\ Cycles(cpu') = Cycles(begun) + File!Exposed(o.latency, dependent)
  BY <1>1, <1>2, HitCorrect DEF Accessed, Cycles, File!Exposed
<1>6. FileOf' = FileOf
  BY <1>5, FileIsBag, FileIsBagNext
<1>7. File!Hit(o.latency, dependent)
  BY <1>1, <1>3, <1>4, <1>5, <1>6 DEF File!Hit
<1>8. o.latency \in {x.latency : x \in {y \in Outcomes : y.source = "L1"}}
  OBVIOUS
<1> QED
  BY <1>7, <1>8 DEF File!Next

\* A miss is a miss: it takes the root, which frees up soonest.
LEMMA MissIsMiss ==
  ASSUME Inv, NoWrap, NEW o \in Outcomes, NEW dependent \in BOOLEAN,
         MemoryAccess(o, dependent), o.source # "L1"
  PROVE  File!Next
<1> DEFINE begun == BeginAccess(cpu, dependent)
           start == MissStart(begun)
           taken == EntryOf(cpu.mshrs[0])
           miss  == [latency |-> o.latency, label |-> Label(MissEntry(0, o))]
           entry == MissEntry(start, o)
<1>1. /\ cpu \in CpuState /\ o \in OutcomeOfAccess /\ HeapOrdered(cpu.mshrs)
      /\ cpu' = FinishMiss(begun, o, dependent) /\ drained = FALSE /\ drained' = FALSE
  BY DriverAssumption DEF Inv, TypeOK, MemoryAccess, Running, FinishAccess, OutcomeOfAccess,
                          HeapOrder, HeapOrdered
<1>2. /\ begun \in CpuState /\ begun.mshrs = cpu.mshrs
      /\ Cycles(begun) = Cycles(cpu) + Paid(cpu.debt, 1)
      /\ begun.debt = StillOwed(cpu.debt, 1)
  BY <1>1, BeginPays DEF Cycles
<1>3. Cycles(begun) = File!Issued(1) /\ begun.debt = File!Still(1)
  BY <1>1, <1>2, PaymentIsExact DEF File!Issued, File!Still
<1>4. cpu'.debt = begun.debt
  BY <1>1 DEF FinishMiss
<1> HIDE DEF begun
<1>5. /\ Permuted(cpu'.mshrs, [cpu.mshrs EXCEPT ![0] = entry])
      /\ Cycles(cpu') = start + File!Exposed(o.latency, dependent)
  BY <1>1, <1>2, MissChanges DEF File!Exposed
<1>6. cpu.mshrs \in [Slots -> Mshr] /\ 0 \in Slots
  BY <1>1, SlotsAreFinite DEF CpuState
<1>7. File!Entry(start + o.latency, miss.label) = EntryOf(entry)
  BY DEF EntryOf, MissEntry, File!Entry, Label
<1>8. start = File!Later(File!Issued(1), taken.free_at)
  <2>1. taken.free_at = cpu.mshrs[0].free_at
    BY DEF EntryOf
  <2>2. cpu.mshrs[0].free_at \in Nat /\ Cycles(begun) \in Nat
    BY <1>2, <1>6, StatsAreNumbers DEF CpuState, Cycles, Mshr
  <2> QED
    BY <1>2, <1>3, <2>1, <2>2 DEF MissStart, File!Later
<1>9. FileOf' = File!BagAdd(File!BagRemove(FileOf, taken), EntryOf(entry))
  <2>1. BagOver(cpu'.mshrs, Slots) = BagOver([cpu.mshrs EXCEPT ![0] = entry], Slots)
    <3> HIDE DEF entry
    <3> QED
      BY <1>5, PermutedIsSameBag
  <2>2. BagOver([cpu.mshrs EXCEPT ![0] = entry], Slots) =
          File!BagAdd(File!BagRemove(BagOver(cpu.mshrs, Slots), taken), EntryOf(entry))
    <3> HIDE DEF entry
    <3> QED
      BY <1>6, ReplacedInBag
  <2> QED
    BY <2>1, <2>2, FileIsBag, FileIsBagNext
<1>10. taken \in File!Soonest
  <2>1. /\ DOMAIN FileOf = Held(cpu.mshrs, Slots)
        /\ taken \in Held(cpu.mshrs, Slots)
    BY <1>6, BagHasSlots, FileIsBag
  <2>2. ASSUME NEW f \in Held(cpu.mshrs, Slots)
        PROVE  taken.free_at <= f.free_at
    <3>1. PICK i \in Slots : f = EntryOf(cpu.mshrs[i])
      BY DEF Held
    <3>2. cpu.mshrs[0].free_at <= cpu.mshrs[i].free_at
      BY <1>1, <1>6, RootIsLeast
    <3> QED
      BY <3>1, <3>2 DEF EntryOf
  <2>3. (IF drained THEN [e \in {} |-> 0] ELSE FileOf) = FileOf
    BY <1>1
  <2> HIDE DEF taken
  <2> QED
    BY <2>1, <2>2, <2>3 DEF File!Soonest
<1>11. miss \in {[latency |-> x.latency, label |-> Label(MissEntry(0, x))] :
                   x \in {y \in Outcomes : y.source # "L1"}}
  OBVIOUS
<1>12. File!Miss(taken, miss, dependent)
  <2>1. miss.latency = o.latency
    OBVIOUS
  <2> HIDE DEF start, taken, miss, entry
  <2> QED
    BY <1>1, <1>3, <1>4, <1>5, <1>7, <1>8, <1>9, <2>1 DEF File!Miss
<1> HIDE DEF start, taken, miss, entry
<1> QED
  BY <1>10, <1>11, <1>12 DEF File!Next

\* drain ends with the last fill.
LEMMA DrainIsFinish ==
  ASSUME Inv, Finish
  PROVE  File!Next
<1>1. PICK order \in CompletionOrders(cpu.mshrs) : cpu' = Drain(cpu, order)
  BY DEF Finish
<1>2. cpu \in CpuState /\ drained = FALSE /\ drained' = TRUE /\ HeapOrdered(cpu.mshrs)
  BY DEF Inv, TypeOK, Finish, HeapOrder, HeapOrdered
<1> DEFINE owed  == IF cpu.debt > 0 THEN 1 ELSE 0
           total == Cycles(cpu')
<1>3. /\ total - owed \in Nat
      /\ Cycles(cpu) <= total - owed
      /\ \A i \in Slots : cpu.mshrs[i].free_at <= total - owed
      /\ \A last \in Nat : /\ Cycles(cpu) <= last
                           /\ \A i \in Slots : cpu.mshrs[i].free_at <= last
                           => total <= last + owed
      /\ cpu' \in CpuState /\ cpu'.debt = 0
  BY <1>1, <1>2, DrainPays
<1>4. /\ Cycles(cpu) \in Nat /\ total \in Nat
      /\ \A i \in Slots : cpu.mshrs[i].free_at \in Nat
  BY <1>2, <1>3, StatsAreNumbers DEF CpuState, Cycles, Mshr
<1>5. PICK k \in Slots : \A i \in Slots : cpu.mshrs[i].free_at <= cpu.mshrs[k].free_at
  <2>1. order \in [1 .. Mshrs -> Slots] /\ Mshrs \in 1 .. Mshrs
    BY CpuAssumption DEF CompletionOrders
  <2>2. ASSUME NEW i \in Slots PROVE cpu.mshrs[i].free_at <= cpu.mshrs[order[Mshrs]].free_at
    <3>1. PICK n \in 1 .. Mshrs : order[n] = i
      BY OrderIsComplete
    <3>2. n < Mshrs => cpu.mshrs[order[n]].free_at <= cpu.mshrs[order[Mshrs]].free_at
      BY <2>1, <3>1 DEF CompletionOrders
    <3>3. n = Mshrs \/ n < Mshrs
      BY CpuAssumption
    <3> QED
      BY <1>4, <3>1, <3>2, <3>3
  <2> QED
    BY <2>1, <2>2
<1> DEFINE last == EntryOf(cpu.mshrs[k])
<1>6. /\ last \in DOMAIN FileOf
      /\ \A e \in DOMAIN FileOf : e.free_at <= last.free_at
  <2>1. /\ DOMAIN FileOf = Held(cpu.mshrs, Slots)
        /\ last \in Held(cpu.mshrs, Slots)
    BY BagHasSlots, FileIsBag
  <2>2. ASSUME NEW e \in Held(cpu.mshrs, Slots) PROVE e.free_at <= last.free_at
    <3>1. PICK i \in Slots : e = EntryOf(cpu.mshrs[i])
      BY DEF Held
    <3> QED
      BY <1>5, <3>1 DEF EntryOf
  <2> QED
    BY <2>1, <2>2
<1>7. Cycles(cpu') = File!Later(Cycles(cpu), last.free_at) + owed
  <2> DEFINE now == Cycles(cpu)
             end == cpu.mshrs[k].free_at
             later == IF now > end THEN now ELSE end
  <2>1. now \in Nat /\ end \in Nat /\ later \in Nat /\ now <= later /\ end <= later
    BY <1>4
  <2>2. \A i \in Slots : cpu.mshrs[i].free_at <= later
    BY <1>4, <1>5, <2>1
  <2>3. total <= later + owed
    <3> HIDE DEF later
    <3> QED
      BY <1>3, <2>1, <2>2
  <2>4. later <= total - owed
    BY <1>3
  <2>5. owed \in Nat
    OBVIOUS
  <2>6. last.free_at = end
    BY DEF EntryOf
  <2>7. total = later + owed
    <3> HIDE DEF later, owed, total
    <3> QED
      BY <1>4, <2>1, <2>3, <2>4, <2>5
  <2> QED
    BY <2>6, <2>7 DEF File!Later
<1>8. [e \in {} |-> 0] = File!NoEntries
  BY DEF File!NoEntries
<1>9. File!Finish
  <2>1. /\ (IF drained THEN [e \in {} |-> 0] ELSE FileOf) = FileOf
        /\ (IF drained THEN [e \in {} |-> 0] ELSE FileOf)' = File!NoEntries
    BY <1>2, <1>8
  <2>2. Cycles(cpu)' = File!Later(Cycles(cpu), last.free_at) + owed
    BY <1>7 DEF Cycles
  <2>3. cpu.debt' = 0
    BY <1>3
  <2> HIDE DEF last
  <2> QED
    BY <1>2, <1>6, <2>1, <2>2, <2>3 DEF File!Finish
<1> QED
  BY <1>9 DEF File!Next

\* Heap, sifting and waiting are a fully associative file of MSHRs, cycle by cycle, for
\* every number of MSHRs and every hierarchy, as long as the word holds the debt (cpu.cpp:27-47, 49-91,
\* 105-124).
THEOREM HeapIsMshrFile ==
  ASSUME NoWrap
  PROVE  Spec => ImplementsMshrFile
<1>1. Init => File!Init
  BY InitIsFileInit
<1>2. Inv /\ [Next]_vars => [File!Next]_File!vars
  <2> SUFFICES ASSUME Inv, [Next]_vars PROVE [File!Next]_File!vars
    OBVIOUS
  <2>1. CASE \E n \in ComputeCounts : Compute(n)
    BY <2>1, ComputeIsIssue
  <2>2. CASE \E outcome \in Outcomes, dependent \in BOOLEAN : MemoryAccess(outcome, dependent)
    BY <2>2, HitIsHit, MissIsMiss
  <2>3. CASE Finish
    BY <2>3, DrainIsFinish
  <2>4. CASE UNCHANGED vars
    BY <2>4, FileIsBag, FileIsBagNext DEF vars, File!vars
  <2> QED
    BY <2>1, <2>2, <2>3, <2>4 DEF Next
<1> QED
  BY <1>1, <1>2, Invariance, PTL DEF Spec, ImplementsMshrFile, File!Spec
=============================================================================
