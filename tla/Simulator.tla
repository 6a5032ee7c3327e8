----------------------------- MODULE Simulator -----------------------------
(***************************************************************************)
(* The whole simulator (include/simulator.hpp, src/simulator.cpp): the CPU   *)
(* executes a trace against the memory hierarchy, one record after the      *)
(* other, then drains and classifies the bottleneck.  The trace is chosen   *)
(* record by record, so every trace over Records is a behaviour.            *)
(***************************************************************************)
EXTENDS CpuOps, HierarchyOps

CONSTANTS Records,          \* trace records [type, value] with type "N", "R", "W" or "L"
          MaxInstructions   \* bound on the instructions executed

ASSUME TraceAssumption ==
  /\ Records \subseteq [type : {"N"}, value : Nat]
                         \cup [type : {"R", "W", "L"}, value : 0 .. AddressSpace-1]
  /\ MaxInstructions \in Nat

VARIABLES cpu,         \* cpu_
          hierarchy,   \* hierarchy_
          bottleneck,  \* the verdict in the results, "" until there are results
          call,        \* history: cycle and outcome of the last hierarchy access
          queued       \* history: queue delay of every access so far

vars == <<cpu, hierarchy, bottleneck, call, queued>>

Init == /\ cpu        = NewCpu
        /\ \E hasL2 \in L2Options : hierarchy = NewHierarchy(hasL2)
        /\ bottleneck = ""
        /\ call       = [cycle |-> 0, outcome |-> AccessOutcome("L1", 0, 0)]
        /\ queued     = 0

Running == bottleneck = "" /\ cpu.stats["instructions"] < MaxInstructions

\* execute() of an N record.
Compute(record) ==
  /\ Running /\ record.type = "N"
  /\ cpu' = Issue(cpu, record.value)
  /\ UNCHANGED <<hierarchy, bottleneck, call, queued>>

\* Mutant: the hierarchy is asked again once the instruction has its MSHR.
MemoryTwice(record) ==
  LET dependent == record.type = "L"
      begun     == BeginAccess(cpu, dependent)
      r         == HierarchyAccess(hierarchy, record.value, record.type = "W", Cycles(begun))
      again     == HierarchyAccess(r.hierarchy, record.value, FALSE, Cycles(begun))
  IN  /\ Running /\ record.type # "N"
      /\ cpu'       = FinishAccess(begun, r.outcome, dependent)
      /\ hierarchy' = again.hierarchy
      /\ call'      = [cycle |-> Cycles(begun), outcome |-> r.outcome]
      /\ queued'    = queued + r.outcome.queue_delay
      /\ UNCHANGED bottleneck

\* execute() of the other three: only an L record is dependent, only a W record
\* writes, and the hierarchy is called at the cycle at which the instruction issues.
Memory(record) ==
  LET dependent == record.type = "L"
      begun     == BeginAccess(cpu, dependent)
      r         == HierarchyAccess(hierarchy, record.value, record.type = "W", Cycles(begun))
  IN  /\ Running /\ record.type # "N"
      /\ cpu'       = FinishAccess(begun, r.outcome, dependent)
      /\ hierarchy' = r.hierarchy
      /\ call'      = [cycle |-> Cycles(begun), outcome |-> r.outcome]
      /\ queued'    = queued + r.outcome.queue_delay
      /\ UNCHANGED bottleneck

-----------------------------------------------------------------------------
(* classify_bottleneck.  Both ratios are compared multiplied out:            *)
(* stall_fraction is StallTotal / cycles, and bandwidth_utilization, the     *)
(* bytes moved over the bytes the bus could have moved, is the bus time of   *)
(* all transfers over the time of the run.  A ratio over 0 cycles is 0.      *)

\* Mutant: a run of no cycles is not caught.
ComputeBoundNonEmpty(stats) == 4 * StallTotal(stats) < stats["cycles"]

ComputeBound(stats) == stats["cycles"] = 0 \/ 4 * StallTotal(stats) < stats["cycles"]

Saturated(stats, m) == 5 * Transfers(m) * TransferTicks >= 4 * stats["cycles"] * SubCycle

\* In the order of the source, the first of the largest.
WorstStall(stats) ==
  LET dram == stats["dram"] + stats["bandwidth"]
      cost == <<stats["l1"], stats["l2"], dram, stats["mshr"]>>
      name == <<"Dependent load latency", "L1 capacity", "DRAM latency",
                "Memory-level parallelism">>
  IN  name[CHOOSE i \in 1..4 : /\ \A j \in 1..4 : cost[j] <= cost[i]
                               /\ \A j \in 1..i-1 : cost[j] < cost[i]]

ClassifyBottleneck(stats, m) ==
  IF ComputeBound(stats) THEN "Compute"
  ELSE IF Saturated(stats, m) THEN "DRAM bandwidth"
  ELSE WorstStall(stats)

\* finish(): the trace may end after any record.
Finish ==
  /\ bottleneck = ""
  /\ \E order \in CompletionOrders(cpu.mshrs) : cpu' = Drain(cpu, order)
  /\ bottleneck' = ClassifyBottleneck(cpu'.stats, hierarchy.memory)
  /\ UNCHANGED <<hierarchy, call, queued>>

Next == \/ \E record \in Records : Compute(record)
        \/ \E record \in Records : Memory(record)
        \/ Finish

Spec == Init /\ [][Next]_vars

-----------------------------------------------------------------------------

Finished == bottleneck # ""

\* The CPU's latency counter and the hierarchy's counters tell the same story:
\* every memory instruction pays L1, every L1 miss L2, every DRAM read the DRAM
\* latency, and the rest is queueing, of which only reads pay their part
\* (README.md:206-207, cpu.cpp:65-66, memory.cpp:62-86).
LatencyAccounted ==
  LET stats  == cpu.stats
      l1     == hierarchy.l1.stats
      m      == hierarchy.memory
      lookup == L1Latency * stats["memory_instructions"]
                  + (IF hierarchy.has_l2 THEN L2Latency * l1["misses"] ELSE 0)
                  + MemoryLatency * m.reads
  IN  /\ l1["accesses"] = stats["memory_instructions"]
      /\ stats["access_latency_cycles"] = lookup + queued
      /\ stats["miss_latency_cycles"] = stats["access_latency_cycles"]
                                          - L1Latency * l1["hits"]
      /\ queued <= m.queue_delay_cycles

\* Bandwidth limits what the CPU waits for: over a run the bus serves no more demand
\* reads than fit, however long the queue in front of it and however much of it is
\* write-backs, which nobody waits for (memory.hpp:27-31, README.md:187-191).
ReadsWithinBandwidth ==
  Finished => hierarchy.memory.reads * TransferTicks
                <= Cycles(cpu) * SubCycle + TransferTicks

\* The verdict names something that happened in the caches, not only in the stall
\* counters (simulator.cpp:65-133).
VerdictHasCause ==
  LET stats == cpu.stats
      m     == hierarchy.memory
  IN  CASE bottleneck = "Dependent load latency" ->
             stats["dependent_loads"] > 0 /\ hierarchy.l1.stats["hits"] > 0
        [] bottleneck = "L1 capacity" -> hierarchy.l2.stats["hits"] > 0
        [] bottleneck = "DRAM latency" -> m.reads > 0
        [] bottleneck = "Memory-level parallelism" -> hierarchy.l1.stats["misses"] > Mshrs
        [] bottleneck = "DRAM bandwidth" -> Transfers(m) > 0
        [] OTHER -> TRUE

-----------------------------------------------------------------------------
(* The simulator is one of the environments of Cpu, and one of those of      *)
(* Hierarchy, so what is shown of each of them alone holds here.            *)

CONSTANT MaxQueue   \* bound on the queue delay of one access

CpuAlone == INSTANCE Cpu WITH
  drained       <- Finished,
  ComputeCounts <- {r.value : r \in {x \in Records : x.type = "N"}},
  Outcomes      <- {AccessOutcome("L1", L1Latency, 0),
                    AccessOutcome("L2", L1Latency + L2Latency, 0)}
                     \cup {AccessOutcome("Memory", Lookup(NewHierarchy(hasL2)) + MemoryLatency + q, q) :
                             hasL2 \in L2Options, q \in 0 .. MaxQueue}

\* The hierarchy never returns an outcome Cpu does not allow for, and the CPU
\* changes in no other way than its own operations.
ImplementsCpu == CpuAlone!Spec

CONSTANT MaxGap     \* bound on the cycles between two accesses

Used == {r.value : r \in {x \in Records : x.type # "N"}}

HierarchyAlone == INSTANCE Hierarchy WITH
  outcome     <- call.outcome,
  now         <- call.cycle,
  stored      <- {a \in Used : DirtyInHierarchy(hierarchy, a)},
  Addresses   <- Used,
  Gaps        <- 0 .. MaxGap,
  MaxAccesses <- MaxInstructions

\* The CPU calls the hierarchy at cycles that never decrease.  (With one address
\* per line in Used, the dirty addresses are those stored to and not yet clean.)
ImplementsHierarchy == HierarchyAlone!Spec
=============================================================================
