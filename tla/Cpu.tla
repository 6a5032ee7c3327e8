-------------------------------- MODULE Cpu --------------------------------
(***************************************************************************)
(* The CPU executing any trace against any hierarchy: a memory record gets  *)
(* any outcome the hierarchy could return, so that the properties below     *)
(* hold whatever the caches and the bus do.  Simulator puts the real        *)
(* hierarchy in its place.                                                  *)
(***************************************************************************)
EXTENDS CpuOps, FiniteSetsExt

CONSTANTS Outcomes,         \* the outcomes the hierarchy may return
          ComputeCounts,    \* the values of compute records
          MaxInstructions   \* bound on the instructions executed

ASSUME DriverAssumption ==
  /\ Outcomes \subseteq [source : {"L1", "L2", "Memory"}, latency : Nat \ {0},
                         queue_delay : Nat]
  /\ \A o \in Outcomes : o.queue_delay < o.latency /\ (o.source # "Memory" => o.queue_delay = 0)
  /\ ComputeCounts \subseteq Nat
  /\ MaxInstructions \in Nat

VARIABLES cpu,       \* the Cpu object
          drained,   \* drain() has been called: the run is over
          queued     \* history: queue delay of every miss so far

vars == <<cpu, drained, queued>>

Init == cpu = NewCpu /\ drained = FALSE /\ queued = 0

Running == ~drained /\ cpu.stats["instructions"] < MaxInstructions

\* A compute record.
Compute(n) ==
  /\ Running
  /\ cpu' = Issue(cpu, n)
  /\ UNCHANGED <<drained, queued>>

\* A load or a store; only a load can be dependent, which the timing of the CPU
\* does not see.
MemoryAccess(outcome, dependent) ==
  /\ Running
  /\ cpu'    = FinishAccess(BeginAccess(cpu, dependent), outcome, dependent)
  /\ queued' = queued + outcome.queue_delay
  /\ UNCHANGED drained

\* The end of the trace, at any time.
Finish ==
  /\ ~drained
  /\ \E order \in CompletionOrders(cpu.mshrs) : cpu' = Drain(cpu, order)
  /\ drained' = TRUE
  /\ UNCHANGED queued

Next == \/ \E n \in ComputeCounts : Compute(n)
        \/ \E outcome \in Outcomes, dependent \in BOOLEAN : MemoryAccess(outcome, dependent)
        \/ Finish

Spec == Init /\ [][Next]_vars

-----------------------------------------------------------------------------

\* The values the members of the object may take.
TypeOK == cpu \in CpuState /\ drained \in BOOLEAN /\ queued \in Nat

\* Every cycle is either a compute cycle or in exactly one of the five stall
\* buckets (cpu.hpp:28-30, "a true partition" in README.md:218-219): splits,
\* roundings and the final drain lose and invent none.
StallPartition ==
  Cycles(cpu) = cpu.stats["compute_cycles"] + StallTotal(cpu.stats)

\* The fixed-point debt is exact (cpu.hpp:76-81): compute cycles are the
\* instructions times the CPI, with the fraction of a cycle still owed kept as
\* debt and rounded up once, by drain.
IssueExact ==
  LET paid == cpu.stats["compute_cycles"] * FractionOne
      due  == cpu.stats["instructions"] * CpiScaled
  IN  IF drained THEN due <= paid /\ paid < due + FractionOne
                 ELSE paid + cpu.debt = due

\* The heap order that lets every miss take slot 0 as "the entry that frees up
\* soonest" (cpu.hpp:94-97, cpu.cpp:35-47, 82-88).
HeapOrder ==
  \A i \in Slots \ {0} : cpu.mshrs[Parent(i)].free_at <= cpu.mshrs[i].free_at

\* Overlap only ever helps, and no further than there are MSHRs.  The stalls never
\* exceed the latency of all accesses, no fill completes later than on a machine
\* that waits for every access, and the latency of all misses fits in the MSHRs'
\* time, so that average_outstanding_misses (simulator.cpp:45) never exceeds
\* cpu.mshrs.  A wait or a tail charged twice or not at all would break it
\* (cpu.cpp:84-91, 111-116).
OverlapOnlyHelps ==
  /\ StallTotal(cpu.stats) <= cpu.stats["access_latency_cycles"]
  /\ \A i \in Slots : cpu.mshrs[i].free_at
                        <= cpu.stats["compute_cycles"] + cpu.stats["access_latency_cycles"]
  /\ cpu.stats["miss_latency_cycles"]
       <= IF drained THEN Mshrs * Cycles(cpu)
          ELSE MapThenSumSet(LAMBDA i : cpu.mshrs[i].free_at, Slots)

\* A chain of dependent loads never has two requests in flight and pays every one of
\* them exactly once: it never waits for an MSHR, whenever it executes an
\* instruction all fills have completed, and its stalls are the latencies of its
\* loads, with nothing left for drain to charge (README.md:202-204,
\* tests/test_cpu.cpp:152-153, cpu.cpp:91 and 111-116).
DependentChainSerial ==
  cpu.stats["memory_instructions"] = cpu.stats["dependent_loads"] =>
    /\ cpu.stats["mshr"] = 0
    /\ StallTotal(cpu.stats) = cpu.stats["access_latency_cycles"]
    /\ \A i \in Slots : cpu.mshrs[i].free_at <= Cycles(cpu)

\* Bandwidth stalls are queueing and nothing else: together they never exceed the
\* time the misses spent in the queue, so no entry's share is charged twice or
\* charged to another entry's wait (cpu.cpp:27-33, 82-91).
BandwidthIsQueueing == cpu.stats["bandwidth"] <= queued

-----------------------------------------------------------------------------
(* The heap is a bag of entries.                                            *)

Label(entry) == [bucket |-> entry.bucket, queue_delay |-> entry.queue_delay,
                 latency |-> entry.latency]

Entry(i) == [free_at |-> cpu.mshrs[i].free_at, label |-> Label(cpu.mshrs[i])]

FileOf == [e \in {Entry(i) : i \in Slots} |-> Cardinality({i \in Slots : Entry(i) = e})]

File == INSTANCE MshrFile WITH
  now       <- Cycles(cpu),
  owed      <- cpu.debt,
  file      <- IF drained THEN [e \in {} |-> 0] ELSE FileOf,
  Size      <- Mshrs,
  IdleLabel <- Label(IdleMshr),
  Misses    <- {[latency |-> o.latency, label |-> Label(MissEntry(0, o))] :
                  o \in {x \in Outcomes : x.source # "L1"}},
  Hits      <- {o.latency : o \in {x \in Outcomes : x.source = "L1"}},
  Counts    <- ComputeCounts,
  Cpi       <- CpiScaled,
  One       <- FractionOne

\* Heap, sifting and waiting implement the fully associative file: no fill is lost
\* or held twice, every miss starts at the very cycle at which it has issued and some
\* MSHR is free, and no record takes a cycle more or less than its CPI and its waits.
ImplementsMshrFile == File!Spec
=============================================================================
