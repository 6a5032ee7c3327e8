--------------------------- MODULE SimulatorProofs ---------------------------
(***************************************************************************)
(* Theorems about Simulator, the CPU and the hierarchy together: the two     *)
(* halves account for the same latency, the bus bounds what a run can read,   *)
(* the verdict names something that happened, and the CPU inside it is the    *)
(* one of Cpu; for every geometry, latency, bandwidth and number of MSHRs,    *)
(* every set of records and traces of every length.                          *)
(***************************************************************************)
EXTENDS Simulator, CpuOpsProofs

-----------------------------------------------------------------------------
(* What an access answers.                                                  *)

\* An access of L1 is counted once, as a hit or as a miss.
LEMMA L1AccessIsCounted ==
  ASSUME NEW c, NEW address, NEW isWrite
  PROVE  LET r == L1!Access(c, address, isWrite)
         IN  /\ r.cache.stats["accesses"] = c.stats["accesses"] + 1
             /\ r.cache.stats["hits"]   = IF r.result.hit THEN c.stats["hits"] + 1 ELSE c.stats["hits"]
             /\ r.cache.stats["misses"] = IF r.result.hit THEN c.stats["misses"] ELSE c.stats["misses"] + 1
             /\ r.result.hit => ~r.result.dirty_eviction
  BY DEF L1!Access, L1!Touch, L1!Replace, L1!Counted, L1!Count, L1!Counters, L1!HitResult

\* L2 counts the hits of demand accesses only.
LEMMA L2HitIsCounted ==
  ASSUME NEW c, NEW address
  PROVE  LET r == L2!Access(c, address, FALSE)
             w == L2!InstallWriteback(c, address)
         IN  /\ r.cache.stats["hits"] = IF r.result.hit THEN c.stats["hits"] + 1 ELSE c.stats["hits"]
             /\ w.cache.stats["hits"] = c.stats["hits"]
  BY DEF L2!Access, L2!InstallWriteback, L2!Touch, L2!Replace, L2!Counted, L2!Count, L2!Counters,
         L2!HitResult

\* The bus has carried every read so far.
Carried(m) == /\ m.bus_free \in Nat /\ m.reads \in Nat /\ m.writes \in Nat
              /\ m.queue_delay_cycles \in Nat
              /\ m.reads * TransferTicks <= m.bus_free

\* A memory after so many more reads, and at least so much more queueing.
ReadMore(m, n, reads, delay) == /\ Carried(n)
                                /\ n.reads = m.reads + reads
                                /\ m.queue_delay_cycles + delay <= n.queue_delay_cycles

\* Rounding to the nearest cycle loses less than a cycle.
LEMMA RoundingIsClose ==
  ASSUME NEW ticks \in Nat
  PROVE  /\ RoundToCycle(ticks) \in Nat
         /\ ticks <= (RoundToCycle(ticks) + 1) * SubCycle
<1> DEFINE s == SubCycle
           x == 2 * ticks + s
           d == 2 * s
           q == x \div d
<1>1. s \in Nat \ {0} /\ d \in Nat \ {0} /\ x \in Nat
  BY HierarchyAssumption
<1>2. q = RoundToCycle(ticks)
  BY DEF RoundToCycle
<1>3. q \in Nat /\ x < (q + 1) * d
  <2> HIDE DEF x, d
  <2> QED
    BY <1>1
<1> HIDE DEF q, s
<1>4. (q + 1) * d = 2 * ((q + 1) * s) /\ (q + 1) * s \in Nat
  BY <1>1, <1>3
<1>5. ticks <= (q + 1) * s
  BY <1>1, <1>3, <1>4
<1> QED
  BY <1>2, <1>3, <1>5 DEF s

\* A wait for the bus is as long as the bus is busy.
LEMMA WaitCoversBus ==
  ASSUME NEW m, Carried(m), NEW cycle \in Nat
  PROVE  /\ BusStart(m, cycle) \in Nat /\ m.bus_free <= BusStart(m, cycle)
         /\ QueueDelay(m, cycle) \in Nat
         /\ m.bus_free <= (cycle + QueueDelay(m, cycle) + 1) * SubCycle
<1> DEFINE start == BusStart(m, cycle)
           before == cycle * SubCycle
           wait == start - before
           delay == RoundToCycle(wait)
<1>1. before \in Nat /\ m.bus_free \in Nat
  BY HierarchyAssumption DEF Carried
<1>2. start \in Nat /\ m.bus_free <= start /\ before <= start
  BY <1>1 DEF BusStart
<1> HIDE DEF start, before
<1>3. wait \in Nat /\ start = before + wait
  BY <1>1, <1>2
<1>4. QueueDelay(m, cycle) = delay
  BY DEF QueueDelay, start, before
<1> HIDE DEF wait
<1>5. delay \in Nat /\ wait <= (delay + 1) * SubCycle
  BY <1>3, RoundingIsClose
<1> HIDE DEF delay
<1>6. (cycle + delay + 1) * SubCycle = before + (delay + 1) * SubCycle
  BY <1>5, HierarchyAssumption DEF before
<1>7. (delay + 1) * SubCycle \in Nat
  BY <1>5, HierarchyAssumption
<1> QED
  BY <1>1, <1>2, <1>3, <1>4, <1>5, <1>6, <1>7 DEF start

\* A transfer more.
LEMMA OneMoreTransfer ==
  ASSUME NEW k \in Nat
  PROVE  (k + 1) * TransferTicks = k * TransferTicks + TransferTicks
  BY HierarchyAssumption

\* A transfer adds its time and its wait.
LEMMA TransferIsCarried ==
  ASSUME NEW m, Carried(m), NEW cycle \in Nat
  PROVE  /\ ReadMore(m, MemoryRead(m, cycle).memory, 1, QueueDelay(m, cycle))
         /\ ReadMore(m, MemoryWrite(m, cycle), 0, 0)
<1> DEFINE r == MemoryRead(m, cycle).memory
           w == MemoryWrite(m, cycle)
           start == BusStart(m, cycle)
           delay == QueueDelay(m, cycle)
<1>1. /\ start \in Nat /\ m.bus_free <= start /\ delay \in Nat
      /\ m.bus_free \in Nat /\ m.reads \in Nat /\ m.writes \in Nat
      /\ m.queue_delay_cycles \in Nat /\ m.reads * TransferTicks <= m.bus_free
      /\ m.reads * TransferTicks \in Nat /\ TransferTicks \in Nat
  BY WaitCoversBus, HierarchyAssumption DEF Carried
<1>2. (m.reads + 1) * TransferTicks = m.reads * TransferTicks + TransferTicks
  BY <1>1, OneMoreTransfer
<1>3. /\ r.bus_free = start + TransferTicks /\ w.bus_free = start + TransferTicks
      /\ r.reads = m.reads + 1 /\ w.reads = m.reads + 0
      /\ r.writes = m.writes + 0 /\ w.writes = m.writes + 1
      /\ r.queue_delay_cycles = m.queue_delay_cycles + delay
      /\ w.queue_delay_cycles = m.queue_delay_cycles + delay
  BY DEF MemoryRead, MemoryWrite, CountTransfer, OccupyBus
<1> HIDE DEF r, w, start, delay
<1>4. Carried(r) /\ Carried(w)
  BY <1>1, <1>2, <1>3 DEF Carried
<1>5. /\ m.queue_delay_cycles + delay <= r.queue_delay_cycles
      /\ m.queue_delay_cycles + 0 <= w.queue_delay_cycles
  BY <1>1, <1>3
<1> QED
  BY <1>3, <1>4, <1>5 DEF ReadMore, r, w, delay

\* A write-back behind it adds no read.
LEMMA BehindIsCarried ==
  ASSUME NEW m, NEW n, NEW reads \in Nat, NEW delay \in Nat, Carried(m), ReadMore(m, n, reads, delay),
         NEW isDirty, NEW cycle \in Nat
  PROVE  ReadMore(m, WriteBehind(n, isDirty, cycle), reads, delay)
<1> DEFINE w == MemoryWrite(n, cycle)
<1>1. ReadMore(n, w, 0, 0)
  BY TransferIsCarried DEF ReadMore
<1>2. /\ n.reads \in Nat /\ n.queue_delay_cycles \in Nat /\ w.queue_delay_cycles \in Nat
      /\ m.queue_delay_cycles \in Nat
  BY <1>1 DEF ReadMore, Carried
<1> HIDE DEF w
<1>3. ReadMore(m, w, reads, delay)
  BY <1>1, <1>2 DEF ReadMore
<1> QED
  BY <1>3 DEF WriteBehind, w

\* The parts of a fill.
LEMMA FillIs ==
  ASSUME NEW b, NEW address, NEW cycle
  PROVE  LET r      == L2!Access(b.l2, address, FALSE)
             lookup == IF b.has_l2 THEN L1Latency + L2Latency ELSE L1Latency
             dram   == MemoryRead(b.memory, cycle + lookup)
             behind == WriteBehind(dram.memory, r.result.dirty_eviction, cycle)
             f      == Fill(b, address, cycle)
         IN  /\ f.below = IF ~b.has_l2
                          THEN Below(b.has_l2, b.l2, dram.memory)
                          ELSE Below(b.has_l2, r.cache, IF r.result.hit THEN b.memory ELSE behind)
             /\ f.outcome = IF b.has_l2 /\ r.result.hit
                            THEN AccessOutcome("L2", L1Latency + L2Latency, 0)
                            ELSE AccessOutcome("Memory", lookup + dram.latency, dram.queue_delay)
<1>1. CASE ~b.has_l2
  BY <1>1 DEF Fill, FillFromMemory
<1>2. CASE b.has_l2 /\ L2!Access(b.l2, address, FALSE).result.hit
  BY <1>2 DEF Fill
<1>3. CASE b.has_l2 /\ ~L2!Access(b.l2, address, FALSE).result.hit
  BY <1>3 DEF Fill, FillFromMemory, Below
<1> QED
  BY <1>1, <1>2, <1>3

\* The parts of a write-back.
LEMMA WritebackIs ==
  ASSUME NEW b, NEW address, NEW cycle
  PROVE  LET r == L2!InstallWriteback(b.l2, address)
         IN  WritebackFromL1(b, address, cycle) =
               IF b.has_l2
               THEN Below(b.has_l2, r.cache,
                          IF r.result.dirty_eviction THEN MemoryWrite(b.memory, cycle) ELSE b.memory)
               ELSE Below(b.has_l2, b.l2, MemoryWrite(b.memory, cycle))
  BY DEF WritebackFromL1, WriteBehind

\* What an L1 miss finds in L2, or brings from DRAM with the wait for the bus.
FoundInL2(b, n, o) == /\ b.has_l2
                      /\ o = AccessOutcome("L2", L1Latency + L2Latency, 0)
                      /\ n.l2.stats["hits"] = b.l2.stats["hits"] + 1
                      /\ ReadMore(b.memory, n.memory, 0, 0)

FoundInMemory(b, n, o, cycle) ==
  LET delay == QueueDelay(b.memory, cycle + Lookup(b))
  IN  /\ o = AccessOutcome("Memory", Lookup(b) + (MemoryLatency + delay), delay)
      /\ n.l2.stats["hits"] = b.l2.stats["hits"]
      /\ ReadMore(b.memory, n.memory, 1, delay)

\* A fill is one or the other.
LEMMA FillAnswers ==
  ASSUME NEW b, Carried(b.memory), NEW cycle \in Nat, NEW address
  PROVE  LET f == Fill(b, address, cycle)
         IN  /\ f.below.has_l2 = b.has_l2
             /\ \/ FoundInL2(b, f.below, f.outcome)
                \/ FoundInMemory(b, f.below, f.outcome, cycle)
<1> DEFINE r        == L2!Access(b.l2, address, FALSE)
           lookup   == IF b.has_l2 THEN L1Latency + L2Latency ELSE L1Latency
           dram     == MemoryRead(b.memory, cycle + lookup)
           delay    == QueueDelay(b.memory, cycle + lookup)
           behind   == WriteBehind(dram.memory, r.result.dirty_eviction, cycle)
           f        == Fill(b, address, cycle)
<1>1. /\ f.below = IF ~b.has_l2
                   THEN Below(b.has_l2, b.l2, dram.memory)
                   ELSE Below(b.has_l2, r.cache, IF r.result.hit THEN b.memory ELSE behind)
      /\ f.outcome = IF b.has_l2 /\ r.result.hit
                     THEN AccessOutcome("L2", L1Latency + L2Latency, 0)
                     ELSE AccessOutcome("Memory", lookup + dram.latency, dram.queue_delay)
  BY FillIs
<1>2. dram.latency = MemoryLatency + delay /\ dram.queue_delay = delay
  BY DEF MemoryRead
<1>3. lookup = Lookup(b) /\ cycle + lookup \in Nat
  BY HierarchyAssumption DEF Lookup
<1>4. ReadMore(b.memory, dram.memory, 1, delay) /\ delay \in Nat
  BY <1>3, TransferIsCarried, WaitCoversBus
<1>5. ReadMore(b.memory, behind, 1, delay)
  <2> HIDE DEF r, dram, delay
  <2> QED
    BY <1>4, BehindIsCarried
<1>6. ReadMore(b.memory, b.memory, 0, 0)
  BY DEF ReadMore, Carried
<1>7. r.cache.stats["hits"] = IF r.result.hit THEN b.l2.stats["hits"] + 1 ELSE b.l2.stats["hits"]
  BY L2HitIsCounted
<1>8. delay = QueueDelay(b.memory, cycle + Lookup(b))
  BY <1>3
<1> HIDE DEF f, r, dram, behind, lookup, delay
<1>9. CASE ~b.has_l2
  BY <1>1, <1>2, <1>3, <1>4, <1>8, <1>9 DEF f, Below, FoundInMemory
<1>10. CASE b.has_l2 /\ r.result.hit
  BY <1>1, <1>6, <1>7, <1>10 DEF f, Below, FoundInL2
<1>11. CASE b.has_l2 /\ ~r.result.hit
  BY <1>1, <1>2, <1>3, <1>5, <1>7, <1>8, <1>11 DEF f, Below, FoundInMemory
<1> QED
  BY <1>9, <1>10, <1>11

\* The write-back of an L1 victim reads nothing and hits nothing.
LEMMA WritebackAnswers ==
  ASSUME NEW b, Carried(b.memory), NEW cycle \in Nat, NEW address
  PROVE  LET n == WritebackFromL1(b, address, cycle)
         IN  /\ n.has_l2 = b.has_l2
             /\ n.l2.stats["hits"] = b.l2.stats["hits"]
             /\ ReadMore(b.memory, n.memory, 0, 0)
<1> DEFINE r       == L2!InstallWriteback(b.l2, address)
           written == MemoryWrite(b.memory, cycle)
           n       == WritebackFromL1(b, address, cycle)
<1>1. n = IF b.has_l2
          THEN Below(b.has_l2, r.cache,
                     IF r.result.dirty_eviction THEN written ELSE b.memory)
          ELSE Below(b.has_l2, b.l2, written)
  BY WritebackIs
<1>2. ReadMore(b.memory, written, 0, 0) /\ ReadMore(b.memory, b.memory, 0, 0)
  BY TransferIsCarried DEF ReadMore, Carried
<1>3. r.cache.stats["hits"] = b.l2.stats["hits"]
  BY L2HitIsCounted
<1> HIDE DEF n, r, written
<1> QED
  BY <1>1, <1>2, <1>3 DEF n, Below

\* An access that hits L1 reaches nothing below it.
FoundInL1(h, n, o) == /\ o = AccessOutcome("L1", L1Latency, 0)
                      /\ n.l1.stats["hits"]   = h.l1.stats["hits"] + 1
                      /\ n.l1.stats["misses"] = h.l1.stats["misses"]
                      /\ n.l2 = h.l2 /\ n.memory = h.memory

MissedL1(h, n) == /\ n.l1.stats["hits"]   = h.l1.stats["hits"]
                  /\ n.l1.stats["misses"] = h.l1.stats["misses"] + 1

\* What the hierarchy answers, and what its counters say of it.
LEMMA AccessAnswers ==
  ASSUME NEW h,
         h = [has_l2 |-> h.has_l2, l1 |-> h.l1, l2 |-> h.l2, memory |-> h.memory],
         Carried(h.memory), NEW cycle \in Nat, NEW address, NEW isWrite
  PROVE  LET a == HierarchyAccess(h, address, isWrite, cycle)
             n == a.hierarchy
             o == a.outcome
         IN  /\ n = [has_l2 |-> n.has_l2, l1 |-> n.l1, l2 |-> n.l2, memory |-> n.memory]
             /\ n.has_l2 = h.has_l2
             /\ n.l1.stats["accesses"] = h.l1.stats["accesses"] + 1
             /\ \/ FoundInL1(h, n, o)
                \/ MissedL1(h, n) /\ FoundInL2(h, n, o)
                \/ MissedL1(h, n) /\ FoundInMemory(h, n, o, cycle)
<1> DEFINE r       == L1!Access(h.l1, address, isWrite)
           a       == HierarchyAccess(h, address, isWrite, cycle)
           n       == a.hierarchy
           o       == a.outcome
           b       == Below(h.has_l2, h.l2, h.memory)
           filled  == Fill(b, address, cycle)
           written == WritebackFromL1(filled.below, r.result.evicted_address, cycle)
           below   == IF r.result.dirty_eviction THEN written ELSE filled.below
<1>1. /\ b.memory = h.memory /\ b.l2 = h.l2 /\ b.has_l2 = h.has_l2
  BY DEF Below
<1>2. /\ n = IF r.result.hit
             THEN [h EXCEPT !.l1 = r.cache]
             ELSE [has_l2 |-> h.has_l2, l1 |-> r.cache, l2 |-> below.l2, memory |-> below.memory]
      /\ o = IF r.result.hit THEN AccessOutcome("L1", L1Latency, 0) ELSE filled.outcome
  BY DEF HierarchyAccess
<1>3. /\ r.cache.stats["accesses"] = h.l1.stats["accesses"] + 1
      /\ r.cache.stats["hits"] =
           IF r.result.hit THEN h.l1.stats["hits"] + 1 ELSE h.l1.stats["hits"]
      /\ r.cache.stats["misses"] =
           IF r.result.hit THEN h.l1.stats["misses"] ELSE h.l1.stats["misses"] + 1
  BY L1AccessIsCounted
<1> HIDE DEF r, a, n, o, b
<1>4. CASE r.result.hit
  <2>1. n = [has_l2 |-> h.has_l2, l1 |-> r.cache, l2 |-> h.l2, memory |-> h.memory]
    BY <1>2, <1>4
  <2>2. FoundInL1(h, n, o)
    BY <1>2, <1>3, <1>4, <2>1 DEF FoundInL1
  <2> QED
    BY <1>3, <2>1, <2>2 DEF n, o, a
<1>5. CASE ~r.result.hit
  <2> DEFINE f == filled.below
  <2>1. /\ f.has_l2 = b.has_l2
        /\ \/ FoundInL2(b, f, filled.outcome)
           \/ FoundInMemory(b, f, filled.outcome, cycle)
    BY <1>1, FillAnswers
  <2> HIDE DEF filled, f
  <2>2. Carried(f.memory)
    BY <2>1 DEF FoundInL2, FoundInMemory, ReadMore
  <2>3. /\ written.has_l2 = f.has_l2
        /\ written.l2.stats["hits"] = f.l2.stats["hits"]
        /\ ReadMore(f.memory, written.memory, 0, 0)
    BY <2>1, <2>2, WritebackAnswers DEF f
  <2> HIDE DEF written
  <2>4. /\ below.l2.stats["hits"] = f.l2.stats["hits"]
        /\ ReadMore(f.memory, below.memory, 0, 0)
    <3>1. ReadMore(f.memory, f.memory, 0, 0)
      BY <2>2 DEF ReadMore, Carried
    <3> QED
      BY <2>3, <3>1 DEF f
  <2> HIDE DEF below
  <2>5. /\ n = [has_l2 |-> h.has_l2, l1 |-> r.cache, l2 |-> below.l2, memory |-> below.memory]
        /\ o = filled.outcome
    BY <1>2, <1>5
  <2>6. MissedL1(h, n)
    BY <1>3, <1>5, <2>5 DEF MissedL1
  <2>7. ASSUME NEW reads \in Nat, NEW delay \in Nat, ReadMore(h.memory, f.memory, reads, delay)
        PROVE  ReadMore(h.memory, n.memory, reads, delay)
    <3>1. n.memory = below.memory
      BY <2>5
    <3>2. /\ below.memory.reads = f.memory.reads + 0 /\ Carried(below.memory)
          /\ f.memory.queue_delay_cycles + 0 <= below.memory.queue_delay_cycles
          /\ f.memory.reads = h.memory.reads + reads
          /\ h.memory.queue_delay_cycles + delay <= f.memory.queue_delay_cycles
      BY <2>4, <2>7 DEF ReadMore
    <3>3. /\ h.memory.reads \in Nat /\ f.memory.reads \in Nat
          /\ h.memory.queue_delay_cycles \in Nat /\ f.memory.queue_delay_cycles \in Nat
          /\ below.memory.queue_delay_cycles \in Nat
      BY <2>2, <3>2 DEF Carried
    <3> QED
      BY <3>1, <3>2, <3>3 DEF ReadMore
  <2>8. CASE FoundInL2(b, f, filled.outcome)
    <3>1. ReadMore(h.memory, n.memory, 0, 0)
      BY <1>1, <2>7, <2>8 DEF FoundInL2
    <3>2. FoundInL2(h, n, o)
      BY <1>1, <2>4, <2>5, <2>8, <3>1 DEF FoundInL2
    <3> QED
      BY <1>3, <2>5, <2>6, <3>2 DEF n, o, a
  <2>9. CASE FoundInMemory(b, f, filled.outcome, cycle)
    <3> DEFINE delay == QueueDelay(h.memory, cycle + Lookup(h))
    <3>1. delay \in Nat
      <4>1. cycle + Lookup(h) \in Nat
        BY HierarchyAssumption DEF Lookup
      <4> QED
        BY <4>1, WaitCoversBus
    <3>2. Lookup(b) = Lookup(h) /\ QueueDelay(b.memory, cycle + Lookup(b)) = delay
      BY <1>1 DEF Lookup
    <3> HIDE DEF delay
    <3>3. ReadMore(h.memory, n.memory, 1, delay)
      BY <1>1, <2>7, <2>9, <3>1, <3>2 DEF FoundInMemory
    <3>4. FoundInMemory(h, n, o, cycle)
      BY <1>1, <2>4, <2>5, <2>9, <3>2, <3>3 DEF FoundInMemory, delay
    <3> QED
      BY <1>3, <2>5, <2>6, <3>4 DEF n, o, a
  <2> QED
    BY <2>1, <2>8, <2>9
<1> QED
  BY <1>4, <1>5

-----------------------------------------------------------------------------
(* The verdict.                                                             *)

\* A verdict on caused stalls has a cause.
LEMMA VerdictIsCaused ==
  ASSUME NEW c \in CpuState, NEW m, Carried(m),
         NEW hits \in Nat, NEW l2Hits \in Nat, NEW misses \in Nat,
         Caused(c, hits, l2Hits, m.reads, misses)
  PROVE  LET verdict == ClassifyBottleneck(c.stats, m)
         IN  /\ verdict # ""
             /\ verdict = "Dependent load latency" => c.stats["dependent_loads"] > 0 /\ hits > 0
             /\ verdict = "L1 capacity" => l2Hits > 0
             /\ verdict = "DRAM latency" => m.reads > 0
             /\ verdict = "Memory-level parallelism" => misses > Mshrs
             /\ verdict = "DRAM bandwidth" => Transfers(m) > 0
<1> DEFINE stats   == c.stats
           verdict == ClassifyBottleneck(stats, m)
           dram    == stats["dram"] + stats["bandwidth"]
           cost    == <<stats["l1"], stats["l2"], dram, stats["mshr"]>>
           name    == <<"Dependent load latency", "L1 capacity", "DRAM latency",
                        "Memory-level parallelism">>
           Worst(i) == /\ \A j \in 1..4 : cost[j] <= cost[i]
                       /\ \A j \in 1..i-1 : cost[j] < cost[i]
<1>1. /\ stats["l1"] \in Nat /\ stats["l2"] \in Nat /\ stats["dram"] \in Nat
      /\ stats["bandwidth"] \in Nat /\ stats["mshr"] \in Nat /\ stats["cycles"] \in Nat
  BY StatsAreNumbers DEF CpuState, StatNames, Buckets
<1>2. StallTotal(stats) = stats["l1"] + stats["l2"] + stats["dram"] + stats["bandwidth"] + stats["mshr"]
  BY DEF StallTotal
<1>3. /\ stats["l1"] > 0 => stats["dependent_loads"] > 0 /\ hits > 0
      /\ stats["l2"] > 0 => l2Hits > 0
      /\ stats["dram"] > 0 => m.reads > 0
      /\ stats["bandwidth"] > 0 => m.reads > 0
      /\ stats["mshr"] > 0 => misses > Mshrs
  BY DEF Caused
<1>4. /\ cost[1] = stats["l1"] /\ cost[2] = stats["l2"] /\ cost[3] = dram /\ cost[4] = stats["mshr"]
      /\ name[1] = "Dependent load latency" /\ name[2] = "L1 capacity"
      /\ name[3] = "DRAM latency" /\ name[4] = "Memory-level parallelism"
  OBVIOUS
<1> DEFINE worst == CHOOSE i \in 1..4 : Worst(i)
<1>5. worst \in 1..4 /\ Worst(worst)
  <2>1. \A j \in 1..4 : cost[j] \in Nat
    BY <1>1, <1>4
  <2> HIDE DEF cost, dram, stats
  <2>2. CASE \A j \in 1..4 : cost[j] <= cost[1]
    <3>1. Worst(1)
      BY <2>2
    <3> QED
      BY <3>1
  <2>3. CASE /\ \A j \in 1..4 : cost[j] <= cost[2]
             /\ cost[1] < cost[2]
    <3>1. Worst(2)
      BY <2>3
    <3> QED
      BY <3>1
  <2>4. CASE /\ \A j \in 1..4 : cost[j] <= cost[3]
             /\ cost[1] < cost[3] /\ cost[2] < cost[3]
    <3>1. Worst(3)
      BY <2>4
    <3> QED
      BY <3>1
  <2>5. CASE /\ cost[1] < cost[4] /\ cost[2] < cost[4] /\ cost[3] < cost[4]
    <3>1. Worst(4)
      BY <2>1, <2>5
    <3> QED
      BY <3>1
  <2>6. /\ cost[1] \in Nat /\ cost[2] \in Nat /\ cost[3] \in Nat /\ cost[4] \in Nat
    BY <2>1
  <2>7. \/ cost[2] <= cost[1] /\ cost[3] <= cost[1] /\ cost[4] <= cost[1]
        \/ cost[1] < cost[2] /\ cost[3] <= cost[2] /\ cost[4] <= cost[2]
        \/ cost[1] < cost[3] /\ cost[2] < cost[3] /\ cost[4] <= cost[3]
        \/ cost[1] < cost[4] /\ cost[2] < cost[4] /\ cost[3] < cost[4]
    BY <2>6
  <2>8. \A j \in 1..4 : j = 1 \/ j = 2 \/ j = 3 \/ j = 4
    OBVIOUS
  <2> QED
    BY <2>1, <2>2, <2>3, <2>4, <2>5, <2>6, <2>7, <2>8
<1>6. WorstStall(stats) = name[worst]
  BY DEF WorstStall
<1> HIDE DEF worst
<1>7. verdict = IF ComputeBound(stats) THEN "Compute"
                ELSE IF Saturated(stats, m) THEN "DRAM bandwidth" ELSE name[worst]
  BY <1>6 DEF ClassifyBottleneck
<1>8. ASSUME ~ComputeBound(stats) PROVE StallTotal(stats) > 0 /\ stats["cycles"] > 0
  <2>1. StallTotal(stats) \in Nat /\ stats["cycles"] \in Nat
    BY <1>1, <1>2
  <2>2. stats["cycles"] # 0 /\ ~(4 * StallTotal(stats) < stats["cycles"])
    BY <1>8 DEF ComputeBound
  <2> HIDE DEF stats
  <2> QED
    BY <2>1, <2>2
<1>9. ASSUME ~ComputeBound(stats) PROVE cost[worst] > 0
  <2>1. /\ cost[1] <= cost[worst] /\ cost[2] <= cost[worst] /\ cost[3] <= cost[worst]
        /\ cost[4] <= cost[worst]
    BY <1>5
  <2>2. cost[worst] \in Nat
    BY <1>1, <1>4, <1>5
  <2>3. cost[1] + cost[2] + cost[3] + cost[4] > 0
    BY <1>1, <1>2, <1>4, <1>8, <1>9
  <2>4. cost[1] \in Nat /\ cost[2] \in Nat /\ cost[3] \in Nat /\ cost[4] \in Nat
    BY <1>1, <1>4
  <2> HIDE DEF cost
  <2> QED
    BY <2>1, <2>2, <2>3, <2>4, SMTT(30)
<1>10. ASSUME ~ComputeBound(stats), Saturated(stats, m) PROVE Transfers(m) > 0
  <2>1. Transfers(m) \in Nat
    BY DEF Transfers, Carried
  <2>2. SUFFICES ASSUME Transfers(m) = 0 PROVE FALSE
    BY <2>1
  <2>3. 5 * 0 * TransferTicks = 0
    BY HierarchyAssumption
  <2>4. 4 * stats["cycles"] * SubCycle > 0
    <3>1. stats["cycles"] \in Nat \ {0} /\ SubCycle \in Nat \ {0}
      BY <1>1, <1>8, <1>10, HierarchyAssumption
    <3> HIDE DEF stats
    <3>2. stats["cycles"] * SubCycle \in Nat \ {0}
      BY <3>1
    <3>3. 4 * stats["cycles"] * SubCycle = 4 * (stats["cycles"] * SubCycle)
      BY <3>1
    <3> QED
      BY <3>2, <3>3
  <2> HIDE DEF stats
  <2> DEFINE moved == 5 * 0 * TransferTicks
             room  == 4 * stats["cycles"] * SubCycle
  <2>5. 5 * Transfers(m) * TransferTicks >= room
    BY <1>10 DEF Saturated
  <2>6. moved = 0 /\ moved >= room /\ room > 0 /\ room \in Nat
    <3>1. stats["cycles"] \in Nat /\ SubCycle \in Nat
      BY <1>1, HierarchyAssumption
    <3> QED
      BY <2>2, <2>3, <2>4, <2>5, <3>1
  <2> HIDE DEF moved, room
  <2> QED
    BY <2>6
<1> HIDE DEF cost, name
<1>11. ASSUME ~ComputeBound(stats)
       PROVE  \/ worst = 1 /\ stats["l1"] > 0
              \/ worst = 2 /\ stats["l2"] > 0
              \/ worst = 3 /\ dram > 0
              \/ worst = 4 /\ stats["mshr"] > 0
  <2>1. cost[worst] > 0
    BY <1>9, <1>11
  <2>2. worst = 1 \/ worst = 2 \/ worst = 3 \/ worst = 4
    BY <1>5
  <2> HIDE DEF dram, stats
  <2> QED
    BY <1>4, <2>1, <2>2
<1>12. dram > 0 => stats["dram"] > 0 \/ stats["bandwidth"] > 0
  BY <1>1
<1> HIDE DEF dram, verdict, stats
<1>13. /\ verdict # ""
       /\ verdict = "Dependent load latency" => stats["dependent_loads"] > 0 /\ hits > 0
       /\ verdict = "L1 capacity" => l2Hits > 0
       /\ verdict = "DRAM latency" => m.reads > 0
       /\ verdict = "Memory-level parallelism" => misses > Mshrs
       /\ verdict = "DRAM bandwidth" => Transfers(m) > 0
  <2>1. CASE ComputeBound(stats)
    BY <1>7, <2>1
  <2>2. CASE ~ComputeBound(stats) /\ Saturated(stats, m)
    BY <1>7, <1>10, <2>2
  <2>3. CASE ~ComputeBound(stats) /\ ~Saturated(stats, m)
    BY <1>3, <1>4, <1>7, <1>11, <1>12, <2>3
  <2> QED
    BY <2>1, <2>2, <2>3
<1> QED
  BY <1>13 DEF verdict, stats

-----------------------------------------------------------------------------
(* One memory access of the CPU.                                            *)

\* An access begins as an instruction: it is counted, time passes, nothing stalls.
LEMMA BeginIs ==
  ASSUME NEW c \in CpuState, NEW dependent \in BOOLEAN
  PROVE  LET r == BeginAccess(c, dependent)
         IN  /\ r \in CpuState /\ r.mshrs = c.mshrs
             /\ Cycles(c) <= Cycles(r)
             /\ r.stats["memory_instructions"] = c.stats["memory_instructions"] + 1
             /\ c.stats["dependent_loads"] <= r.stats["dependent_loads"]
             /\ dependent => r.stats["dependent_loads"] > 0
             /\ \A k \in Buckets \cup Latencies : r.stats[k] = c.stats[k]
<1> DEFINE r    == BeginAccess(c, dependent)
           once == {"memory_instructions"} \cup (IF dependent THEN {"dependent_loads"} ELSE {})
<1>1. \A k \in StatNames : c.stats[k] \in Nat
  BY StatsAreNumbers DEF CpuState
<1>2. /\ Recounted(c, r, r.debt)
      /\ \E whole \in Nat :
           \A k \in StatNames :
             r.stats[k] = IF k = "instructions" \/ k \in once THEN c.stats[k] + 1
                          ELSE IF k \in {"cycles", "compute_cycles"} THEN c.stats[k] + whole
                          ELSE c.stats[k]
  BY BeginCorrect
<1> HIDE DEF r
<1>3. PICK whole \in Nat :
        \A k \in StatNames :
          r.stats[k] = IF k = "instructions" \/ k \in once THEN c.stats[k] + 1
                       ELSE IF k \in {"cycles", "compute_cycles"} THEN c.stats[k] + whole
                       ELSE c.stats[k]
  BY <1>2
<1>4. /\ "memory_instructions" \in once
      /\ \A k \in once : k \in {"memory_instructions", "dependent_loads"}
      /\ "dependent_loads" \in once <=> dependent
  OBVIOUS
<1> HIDE DEF once
<1>5. /\ {"cycles", "dependent_loads", "memory_instructions"} \subseteq StatNames
      /\ Buckets \cup Latencies \subseteq StatNames
      /\ \A k \in Buckets \cup Latencies :
           k \notin {"instructions", "cycles", "compute_cycles", "memory_instructions",
                    "dependent_loads"}
  BY DEF StatNames, Buckets, Latencies
<1>6. /\ r.stats["cycles"] = c.stats["cycles"] + whole
      /\ r.stats["memory_instructions"] = c.stats["memory_instructions"] + 1
      /\ r.stats["dependent_loads"] = IF dependent THEN c.stats["dependent_loads"] + 1
                                      ELSE c.stats["dependent_loads"]
      /\ \A k \in Buckets \cup Latencies : r.stats[k] = c.stats[k]
  BY <1>3, <1>4, <1>5
<1>7. c.stats["cycles"] \in Nat /\ c.stats["dependent_loads"] \in Nat
  BY <1>1, <1>5
<1> QED
  BY <1>2, <1>6, <1>7 DEF r, Recounted, Cycles

\* What an access costs once the hierarchy has answered.
LEMMA FinishIs ==
  ASSUME NEW c \in CpuState, HeapOrdered(c.mshrs),
         NEW o \in OutcomeOfAccess, NEW dependent \in BOOLEAN
  PROVE  LET r == FinishAccess(c, o, dependent)
         IN  /\ r \in CpuState /\ HeapOrdered(r.mshrs)
             /\ Cycles(c) <= Cycles(r)
             /\ r.stats["memory_instructions"] = c.stats["memory_instructions"]
             /\ r.stats["access_latency_cycles"] = c.stats["access_latency_cycles"] + o.latency
             /\ r.stats["miss_latency_cycles"] =
                  IF o.source = "L1" THEN c.stats["miss_latency_cycles"]
                                     ELSE c.stats["miss_latency_cycles"] + o.latency
<1> DEFINE r == FinishAccess(c, o, dependent)
<1>1. /\ {"cycles", "miss_latency_cycles"} \subseteq StatNames
      /\ "memory_instructions" \in StatNames \ (Timing \cup Latencies)
      /\ c.stats["cycles"] \in Nat
  BY StatsAreNumbers DEF CpuState, StatNames, Timing, Latencies, Buckets
<1>2. CASE o.source = "L1"
  <2>1. r = FinishHit(c, o, dependent)
    BY <1>2 DEF FinishAccess
  <2>2. r.stats["miss_latency_cycles"] = c.stats["miss_latency_cycles"]
    BY <2>1 DEF FinishHit, Stall, Add, StatNames, CpuState, CpuStats
  <2>3. /\ Accessed(c, r, o.latency, IF dependent THEN o.latency ELSE 0)
        /\ r.mshrs = c.mshrs
    BY <2>1, HitCorrect
  <2>4. o.latency \in Nat
    BY DEF OutcomeOfAccess
  <2> HIDE DEF r
  <2> QED
    BY <1>1, <1>2, <2>2, <2>3, <2>4 DEF r, Accessed, Cycles
<1>3. CASE o.source # "L1"
  <2>1. r = FinishMiss(c, o, dependent)
    BY <1>3 DEF FinishAccess
  <2>2. r.stats["miss_latency_cycles"] = c.stats["miss_latency_cycles"] + o.latency
    BY <2>1, MissChanges
  <2>3. /\ \E stall \in Nat : Accessed(c, r, o.latency, stall)
        /\ HeapOrdered(r.mshrs)
    BY <2>1, MissCorrect
  <2> HIDE DEF r
  <2>4. PICK stall \in Nat : Accessed(c, r, o.latency, stall)
    BY <2>3
  <2> QED
    BY <1>1, <1>3, <2>2, <2>3, <2>4 DEF r, Accessed, Cycles
<1> QED
  BY <1>2, <1>3

-----------------------------------------------------------------------------
(* The inductive invariant.                                                 *)

\* The demand reads fit on the bus up to a cycle that the run reaches, at the latest
\* when the outstanding fills have completed.
ReadsFit(c, m) ==
  \E x \in Nat : Reaches(c, x) /\ m.reads * TransferTicks <= x * SubCycle + TransferTicks

IsHierarchy(h) ==
  /\ h = [has_l2 |-> h.has_l2, l1 |-> h.l1, l2 |-> h.l2, memory |-> h.memory]
  /\ h.l1.stats["hits"] \in Nat /\ h.l1.stats["misses"] \in Nat /\ h.l2.stats["hits"] \in Nat
  /\ Carried(h.memory)

\* LatencyAccounted, of any CPU and hierarchy.
Accounted(c, h, delays) ==
  LET lookup == L1Latency * c.stats["memory_instructions"]
                  + (IF h.has_l2 THEN L2Latency * h.l1.stats["misses"] ELSE 0)
                  + MemoryLatency * h.memory.reads
  IN  /\ h.l1.stats["accesses"] = c.stats["memory_instructions"]
      /\ c.stats["access_latency_cycles"] = lookup + delays
      /\ c.stats["miss_latency_cycles"] = c.stats["access_latency_cycles"]
                                            - L1Latency * h.l1.stats["hits"]
      /\ delays <= h.memory.queue_delay_cycles

Together(c, h, delays) ==
  /\ c \in CpuState /\ HeapOrdered(c.mshrs) /\ IsHierarchy(h) /\ delays \in Nat
  /\ Accounted(c, h, delays)
  /\ ReadsFit(c, h.memory)
  /\ Caused(c, h.l1.stats["hits"], h.l2.stats["hits"], h.memory.reads, h.l1.stats["misses"])

Inv == /\ Together(cpu, hierarchy, queued)
       /\ hierarchy.has_l2 \in L2Options
       /\ ReadsWithinBandwidth
       /\ VerdictHasCause

-----------------------------------------------------------------------------
(* One memory access of the CPU and the hierarchy.                          *)

\* One factor more.
LEMMA OneMore ==
  ASSUME NEW k \in Nat, NEW n \in Nat
  PROVE  k * (n + 1) = k * n + k /\ k * n \in Nat
OBVIOUS

\* The latency of an access is accounted for by the counter of the level that supplied it.
LEMMA AccessIsAccounted ==
  ASSUME NEW c, NEW r, NEW h, NEW n, NEW o, NEW delays \in Nat, NEW cycle \in Nat,
         IsHierarchy(h), Accounted(c, h, delays),
         c.stats["memory_instructions"] \in Nat,
         r.stats["memory_instructions"] = c.stats["memory_instructions"] + 1,
         r.stats["access_latency_cycles"] = c.stats["access_latency_cycles"] + o.latency,
         r.stats["miss_latency_cycles"] =
           IF o.source = "L1" THEN c.stats["miss_latency_cycles"]
                              ELSE c.stats["miss_latency_cycles"] + o.latency,
         n.has_l2 = h.has_l2,
         n.l1.stats["accesses"] = h.l1.stats["accesses"] + 1,
         \/ FoundInL1(h, n, o)
         \/ MissedL1(h, n) /\ FoundInL2(h, n, o)
         \/ MissedL1(h, n) /\ FoundInMemory(h, n, o, cycle)
  PROVE  Accounted(r, n, delays + o.queue_delay)
<1> DEFINE executed == c.stats["memory_instructions"]
           hits     == h.l1.stats["hits"]
           misses   == h.l1.stats["misses"]
           reads    == h.memory.reads
           waits    == h.memory.queue_delay_cycles
           delay    == QueueDelay(h.memory, cycle + Lookup(h))
           all      == c.stats["access_latency_cycles"]
           missed   == c.stats["miss_latency_cycles"]
<1>1. /\ executed \in Nat /\ hits \in Nat /\ misses \in Nat /\ reads \in Nat /\ waits \in Nat
      /\ L1Latency \in Nat /\ L2Latency \in Nat /\ MemoryLatency \in Nat
  BY HierarchyAssumption DEF IsHierarchy, Carried
<1>2. /\ L1Latency * (executed + 1) = L1Latency * executed + L1Latency
      /\ L1Latency * (hits + 1) = L1Latency * hits + L1Latency
      /\ L2Latency * (misses + 1) = L2Latency * misses + L2Latency
      /\ MemoryLatency * (reads + 1) = MemoryLatency * reads + MemoryLatency
      /\ L1Latency * executed \in Nat /\ L1Latency * hits \in Nat
      /\ L2Latency * misses \in Nat /\ MemoryLatency * reads \in Nat
  <2> HIDE DEF executed, hits, misses, reads
  <2> QED
    BY <1>1, OneMore
<1>3. delay \in Nat
  <2>1. cycle + Lookup(h) \in Nat
    BY <1>1 DEF Lookup
  <2> QED
    BY <2>1, WaitCoversBus DEF IsHierarchy
<1>4. /\ h.l1.stats["accesses"] = executed
      /\ all = L1Latency * executed + (IF h.has_l2 THEN L2Latency * misses ELSE 0)
                 + MemoryLatency * reads + delays
      /\ missed = all - L1Latency * hits
      /\ delays <= waits
  BY DEF Accounted
<1>5. CASE FoundInL1(h, n, o)
  <2>1. /\ o.source = "L1" /\ o.latency = L1Latency /\ o.queue_delay = 0
        /\ n.l1.stats["hits"] = hits + 1 /\ n.l1.stats["misses"] = misses
        /\ n.memory.reads = reads /\ n.memory.queue_delay_cycles = waits
    BY <1>5 DEF FoundInL1, AccessOutcome
  <2>2. /\ r.stats["memory_instructions"] = executed + 1
        /\ r.stats["access_latency_cycles"] = all + L1Latency
        /\ r.stats["miss_latency_cycles"] = missed
    BY <2>1
  <2> HIDE DEF executed, hits, misses, reads, waits, all, missed
  <2>3. Accounted(r, n, delays + 0)
    BY <1>1, <1>2, <1>4, <2>1, <2>2 DEF Accounted
  <2> QED
    BY <2>1, <2>3
<1>6. CASE MissedL1(h, n) /\ FoundInL2(h, n, o)
  <2>1. /\ o.source # "L1" /\ o.latency = L1Latency + L2Latency /\ o.queue_delay = 0
        /\ n.l1.stats["hits"] = hits /\ n.l1.stats["misses"] = misses + 1
        /\ n.memory.reads = reads /\ waits <= n.memory.queue_delay_cycles
        /\ n.memory.queue_delay_cycles \in Nat
        /\ h.has_l2
    BY <1>1, <1>6 DEF MissedL1, FoundInL2, AccessOutcome, ReadMore, Carried
  <2>2. /\ r.stats["memory_instructions"] = executed + 1
        /\ r.stats["access_latency_cycles"] = all + (L1Latency + L2Latency)
        /\ r.stats["miss_latency_cycles"] = missed + (L1Latency + L2Latency)
    BY <2>1
  <2> HIDE DEF executed, hits, misses, reads, waits, all, missed
  <2>3. Accounted(r, n, delays + 0)
    BY <1>1, <1>2, <1>4, <2>1, <2>2 DEF Accounted
  <2> QED
    BY <2>1, <2>3
<1>7. CASE MissedL1(h, n) /\ FoundInMemory(h, n, o, cycle)
  <2>1. /\ o.source # "L1" /\ o.latency = Lookup(h) + (MemoryLatency + delay)
        /\ o.queue_delay = delay
        /\ n.l1.stats["hits"] = hits /\ n.l1.stats["misses"] = misses + 1
        /\ n.memory.reads = reads + 1 /\ waits + delay <= n.memory.queue_delay_cycles
        /\ n.memory.queue_delay_cycles \in Nat
    BY <1>1, <1>3, <1>7 DEF MissedL1, FoundInMemory, AccessOutcome, ReadMore, Carried
  <2>2. /\ r.stats["memory_instructions"] = executed + 1
        /\ r.stats["access_latency_cycles"] = all + (Lookup(h) + (MemoryLatency + delay))
        /\ r.stats["miss_latency_cycles"] = missed + (Lookup(h) + (MemoryLatency + delay))
    BY <2>1
  <2> HIDE DEF executed, hits, misses, reads, waits, all, missed, delay
  <2>3. Accounted(r, n, delays + delay)
    <3>1. CASE h.has_l2
      BY <1>1, <1>2, <1>3, <1>4, <2>1, <2>2, <3>1 DEF Accounted, Lookup
    <3>2. CASE ~h.has_l2
      BY <1>1, <1>2, <1>3, <1>4, <2>1, <2>2, <3>2 DEF Accounted, Lookup
    <3> QED
      BY <3>1, <3>2
  <2> QED
    BY <2>1, <2>3
<1> QED
  BY <1>5, <1>6, <1>7

\* A read has waited for all the reads before it, and the CPU, or an MSHR, waits for it.
LEMMA ReadReachesBus ==
  ASSUME NEW m, Carried(m), NEW cycle \in Nat, NEW ahead \in Nat, NEW latency \in Nat,
         ahead + QueueDelay(m, cycle + ahead) + 1 <= latency
  PROVE  (m.reads + 1) * TransferTicks <= (cycle + latency) * SubCycle + TransferTicks
<1> DEFINE delay == QueueDelay(m, cycle + ahead)
           from  == cycle + ahead + delay + 1
           carried == m.reads * TransferTicks
<1>1. /\ m.reads \in Nat /\ m.bus_free \in Nat /\ carried <= m.bus_free
      /\ TransferTicks \in Nat /\ SubCycle \in Nat
  BY HierarchyAssumption DEF Carried
<1>2. delay \in Nat /\ m.bus_free <= from * SubCycle
  <2>1. cycle + ahead \in Nat
    OBVIOUS
  <2> QED
    BY <2>1, WaitCoversBus
<1>3. (m.reads + 1) * TransferTicks = carried + TransferTicks /\ carried \in Nat
  BY <1>1
<1>4. from * SubCycle <= (cycle + latency) * SubCycle
  <2>1. from \in Nat /\ cycle + latency \in Nat /\ from <= cycle + latency
    BY <1>2
  <2> HIDE DEF from
  <2> QED
    BY <1>1, <2>1, ProductIsMonotone
<1>5. from * SubCycle \in Nat /\ (cycle + latency) * SubCycle \in Nat
  BY <1>1, <1>2
<1> DEFINE near == from * SubCycle
           far  == (cycle + latency) * SubCycle
<1> HIDE DEF carried, delay, near, far
<1>6. carried + TransferTicks <= far + TransferTicks
  <2>1. carried <= m.bus_free /\ m.bus_free <= near /\ near <= far /\ near \in Nat /\ far \in Nat
    BY <1>1, <1>2, <1>4, <1>5 DEF near, far
  <2> QED
    BY <1>1, <1>3, <2>1
<1> QED
  BY <1>3, <1>6 DEF far

\* The answers of the hierarchy are outcomes the CPU can charge.
LEMMA AnswerIsOutcome ==
  ASSUME NEW h, NEW n, NEW o, NEW cycle \in Nat, IsHierarchy(h),
         \/ FoundInL1(h, n, o)
         \/ FoundInL2(h, n, o)
         \/ FoundInMemory(h, n, o, cycle)
  PROVE  o \in OutcomeOfAccess
<1>1. /\ L1Latency \in Nat \ {0} /\ L2Latency \in Nat \ {0} /\ MemoryLatency \in Nat \ {0}
      /\ Lookup(h) \in Nat /\ cycle + Lookup(h) \in Nat
  BY HierarchyAssumption DEF Lookup
<1>2. QueueDelay(h.memory, cycle + Lookup(h)) \in Nat
  BY <1>1, WaitCoversBus DEF IsHierarchy
<1> QED
  BY <1>1, <1>2 DEF FoundInL1, FoundInL2, FoundInMemory, AccessOutcome, OutcomeOfAccess

\* An access keeps the CPU and the hierarchy together.
LEMMA AccessKeepsTogether ==
  ASSUME NEW c, NEW h, NEW delays, Together(c, h, delays),
         NEW dependent \in BOOLEAN, NEW address, NEW isWrite
  PROVE  LET begun == BeginAccess(c, dependent)
             a     == HierarchyAccess(h, address, isWrite, Cycles(begun))
         IN  /\ Together(FinishAccess(begun, a.outcome, dependent), a.hierarchy,
                         delays + a.outcome.queue_delay)
             /\ a.hierarchy.has_l2 = h.has_l2
<1> DEFINE begun == BeginAccess(c, dependent)
           cycle == Cycles(begun)
           a     == HierarchyAccess(h, address, isWrite, cycle)
           n     == a.hierarchy
           o     == a.outcome
           r     == FinishAccess(begun, o, dependent)
<1>1. /\ c \in CpuState /\ HeapOrdered(c.mshrs) /\ IsHierarchy(h) /\ delays \in Nat
      /\ Accounted(c, h, delays) /\ ReadsFit(c, h.memory)
      /\ Caused(c, h.l1.stats["hits"], h.l2.stats["hits"], h.memory.reads, h.l1.stats["misses"])
  BY DEF Together
<1>2. /\ begun \in CpuState /\ begun.mshrs = c.mshrs /\ Cycles(c) <= Cycles(begun)
      /\ begun.stats["memory_instructions"] = c.stats["memory_instructions"] + 1
      /\ c.stats["dependent_loads"] <= begun.stats["dependent_loads"]
      /\ dependent => begun.stats["dependent_loads"] > 0
      /\ \A k \in Buckets \cup Latencies : begun.stats[k] = c.stats[k]
  BY <1>1, BeginIs
<1> HIDE DEF begun
<1>3. cycle \in Nat /\ c.stats["memory_instructions"] \in Nat /\ c.stats["dependent_loads"] \in Nat
  BY <1>1, <1>2, StatsAreNumbers DEF CpuState, Cycles, StatNames
<1> HIDE DEF cycle
<1>4. /\ n = [has_l2 |-> n.has_l2, l1 |-> n.l1, l2 |-> n.l2, memory |-> n.memory]
      /\ n.has_l2 = h.has_l2
      /\ n.l1.stats["accesses"] = h.l1.stats["accesses"] + 1
      /\ \/ FoundInL1(h, n, o)
         \/ MissedL1(h, n) /\ FoundInL2(h, n, o)
         \/ MissedL1(h, n) /\ FoundInMemory(h, n, o, cycle)
  BY <1>1, <1>3, AccessAnswers DEF IsHierarchy
<1> HIDE DEF a, n, o
<1>5. o \in OutcomeOfAccess
  BY <1>1, <1>3, <1>4, AnswerIsOutcome
<1>6. HeapOrdered(begun.mshrs)
  BY <1>1, <1>2
<1>7. /\ r \in CpuState /\ HeapOrdered(r.mshrs)
      /\ r.stats["memory_instructions"] = begun.stats["memory_instructions"]
      /\ r.stats["access_latency_cycles"] = begun.stats["access_latency_cycles"] + o.latency
      /\ r.stats["miss_latency_cycles"] =
           IF o.source = "L1" THEN begun.stats["miss_latency_cycles"]
                              ELSE begun.stats["miss_latency_cycles"] + o.latency
      /\ Cycles(begun) <= Cycles(r)
  BY <1>2, <1>5, <1>6, FinishIs
<1> HIDE DEF r
<1>8. IsHierarchy(n)
  BY <1>1, <1>4 DEF IsHierarchy, FoundInL1, MissedL1, FoundInL2, FoundInMemory, ReadMore
<1>9. Accounted(r, n, delays + o.queue_delay)
  <2>1. /\ begun.stats["access_latency_cycles"] = c.stats["access_latency_cycles"]
        /\ begun.stats["miss_latency_cycles"] = c.stats["miss_latency_cycles"]
    BY <1>2 DEF Latencies
  <2> QED
    BY <1>1, <1>2, <1>3, <1>4, <1>7, <2>1, AccessIsAccounted
<1>10. delays + o.queue_delay \in Nat
  BY <1>1, <1>5 DEF OutcomeOfAccess
<1>11. Caused(begun, h.l1.stats["hits"], h.l2.stats["hits"], h.memory.reads, h.l1.stats["misses"])
  <2>1. \A k \in {"l1", "l2", "dram", "bandwidth", "mshr"} : begun.stats[k] = c.stats[k]
    BY <1>2 DEF Buckets
  <2>2. c.stats["dependent_loads"] > 0 => begun.stats["dependent_loads"] > 0
    <3>1. begun.stats["dependent_loads"] \in Nat
      BY <1>2, StatsAreNumbers DEF CpuState, StatNames
    <3> QED
      BY <1>2, <1>3, <3>1
  <2> QED
    BY <1>1, <1>2, <2>1, <2>2 DEF Caused
<1>12. PICK x \in Nat : /\ Reaches(c, x)
                        /\ h.memory.reads * TransferTicks <= x * SubCycle + TransferTicks
  BY <1>1 DEF ReadsFit
<1>13. Reaches(begun, x)
  BY <1>1, <1>2, <1>12, TimeReaches
<1>14. ASSUME FoundInL1(h, n, o)
       PROVE  Together(r, n, delays + o.queue_delay)
  <2>1. r = FinishHit(begun, o, dependent)
    BY <1>14 DEF FinishAccess, FoundInL1, AccessOutcome, r
  <2>2. Caused(r, h.l1.stats["hits"] + 1, h.l2.stats["hits"], h.memory.reads, h.l1.stats["misses"])
    BY <1>1, <1>2, <1>5, <1>11, <2>1, HitIsCaused DEF IsHierarchy
  <2>3. Reaches(r, x)
    <3>1. r.mshrs = begun.mshrs
      BY <2>1 DEF FinishHit
    <3> QED
      BY <1>2, <1>7, <1>13, <3>1, TimeReaches
  <2>4. ReadsFit(r, n.memory)
    BY <1>12, <1>14, <2>3 DEF ReadsFit, FoundInL1
  <2>5. Caused(r, n.l1.stats["hits"], n.l2.stats["hits"], n.memory.reads, n.l1.stats["misses"])
    BY <1>14, <2>2 DEF FoundInL1
  <2> QED
    BY <1>7, <1>8, <1>9, <1>10, <2>4, <2>5 DEF Together
<1>15. ASSUME MissedL1(h, n), FoundInL2(h, n, o) \/ FoundInMemory(h, n, o, cycle)
       PROVE  Together(r, n, delays + o.queue_delay)
  <2>1. r = FinishMiss(begun, o, dependent)
    BY <1>15 DEF FinishAccess, FoundInL2, FoundInMemory, AccessOutcome, r
  <2>2. /\ h.l1.stats["hits"] \in Nat /\ h.l1.stats["misses"] \in Nat
        /\ h.l2.stats["hits"] \in Nat /\ h.memory.reads \in Nat
    BY <1>1 DEF IsHierarchy, Carried
  <2>3. /\ n.l2.stats["hits"] \in Nat /\ h.l2.stats["hits"] <= n.l2.stats["hits"]
        /\ n.memory.reads \in Nat /\ h.memory.reads <= n.memory.reads
        /\ o.source = "L2" => n.l2.stats["hits"] > 0 /\ o.queue_delay = 0
        /\ o.source # "L2" => n.memory.reads > 0
    BY <1>15, <2>2 DEF FoundInL2, FoundInMemory, AccessOutcome, ReadMore, Carried
  <2>4. Caused(r, h.l1.stats["hits"], n.l2.stats["hits"], n.memory.reads,
               h.l1.stats["misses"] + 1)
    BY <1>2, <1>5, <1>6, <1>11, <2>1, <2>2, <2>3, MissIsCaused
  <2>5. Caused(r, n.l1.stats["hits"], n.l2.stats["hits"], n.memory.reads, n.l1.stats["misses"])
    BY <1>15, <2>4 DEF MissedL1
  <2>6. \A y \in Nat : /\ Reaches(begun, y) => Reaches(r, y)
                       /\ y <= Cycles(begun) + o.latency => Reaches(r, y)
    BY <1>2, <1>5, <1>6, <2>1, MissReaches
  <2>7. ReadsFit(r, n.memory)
    <3>1. CASE FoundInL2(h, n, o)
      <4>1. n.memory.reads = h.memory.reads
        BY <2>2, <3>1 DEF FoundInL2, ReadMore
      <4> QED
        BY <1>12, <1>13, <2>6, <4>1 DEF ReadsFit
    <3>2. CASE FoundInMemory(h, n, o, cycle)
      <4> DEFINE y == cycle + o.latency
      <4>1. n.memory.reads = h.memory.reads + 1
        BY <3>2 DEF FoundInMemory, ReadMore
      <4>2. /\ o.latency \in Nat /\ Lookup(h) \in Nat
            /\ QueueDelay(h.memory, cycle + Lookup(h)) \in Nat
            /\ Lookup(h) + QueueDelay(h.memory, cycle + Lookup(h)) + 1 <= o.latency
        <5>1. Lookup(h) \in Nat /\ MemoryLatency \in Nat \ {0}
          BY HierarchyAssumption DEF Lookup
        <5>2. cycle + Lookup(h) \in Nat
          BY <1>3, <5>1
        <5>3. QueueDelay(h.memory, cycle + Lookup(h)) \in Nat
          BY <1>1, <5>2, WaitCoversBus DEF IsHierarchy
        <5>4. o.latency = Lookup(h) + (MemoryLatency + QueueDelay(h.memory, cycle + Lookup(h)))
          BY <3>2 DEF FoundInMemory, AccessOutcome
        <5> QED
          BY <5>1, <5>3, <5>4
      <4>3. (h.memory.reads + 1) * TransferTicks <= y * SubCycle + TransferTicks
        BY <1>1, <1>3, <4>2, ReadReachesBus DEF IsHierarchy
      <4>4. y \in Nat /\ Reaches(r, y)
        BY <1>3, <2>6, <4>2 DEF cycle
      <4> QED
        BY <4>1, <4>3, <4>4 DEF ReadsFit
    <3> QED
      BY <1>15, <3>1, <3>2
  <2> QED
    BY <1>7, <1>8, <1>9, <1>10, <2>5, <2>7 DEF Together
<1>16. Together(r, n, delays + o.queue_delay)
  BY <1>4, <1>14, <1>15
<1> QED
  BY <1>4, <1>16 DEF r, n, o, a, cycle, begun

\* A compute record and drain leave the hierarchy, and what is counted of it, alone.
LEMMA IssueKeepsTogether ==
  ASSUME NEW c, NEW h, NEW delays, Together(c, h, delays), NEW n \in Nat
  PROVE  Together(Issue(c, n), h, delays)
<1> DEFINE r == Issue(c, n)
<1>1. /\ c \in CpuState /\ HeapOrdered(c.mshrs) /\ IsHierarchy(h) /\ delays \in Nat
      /\ Accounted(c, h, delays) /\ ReadsFit(c, h.memory)
      /\ Caused(c, h.l1.stats["hits"], h.l2.stats["hits"], h.memory.reads, h.l1.stats["misses"])
      /\ \A k \in StatNames : c.stats[k] \in Nat
  BY StatsAreNumbers DEF Together, CpuState
<1>2. /\ Recounted(c, r, r.debt)
      /\ \E whole \in Nat :
           \A k \in StatNames :
             r.stats[k] = IF k = "instructions" THEN c.stats[k] + n
                          ELSE IF k \in {"cycles", "compute_cycles"} THEN c.stats[k] + whole
                          ELSE c.stats[k]
  BY <1>1, IssueCorrect
<1> HIDE DEF r
<1>3. PICK whole \in Nat :
        \A k \in StatNames :
          r.stats[k] = IF k = "instructions" THEN c.stats[k] + n
                       ELSE IF k \in {"cycles", "compute_cycles"} THEN c.stats[k] + whole
                       ELSE c.stats[k]
  BY <1>2
<1>4. /\ r.stats["cycles"] = c.stats["cycles"] + whole /\ c.stats["cycles"] \in Nat
      /\ \A k \in Buckets \cup Latencies \cup {"memory_instructions", "dependent_loads"} :
           r.stats[k] = c.stats[k]
  BY <1>1, <1>3 DEF StatNames, Buckets, Latencies
<1>5. r \in CpuState /\ r.mshrs = c.mshrs /\ Cycles(c) <= Cycles(r)
  BY <1>2, <1>4 DEF Recounted, Cycles
<1>6. ReadsFit(r, h.memory)
  <2>1. \A x \in Nat : Reaches(c, x) => Reaches(r, x)
    BY <1>1, <1>5, TimeReaches
  <2> QED
    BY <1>1, <2>1 DEF ReadsFit
<1>7. Accounted(r, h, delays)
  BY <1>1, <1>4 DEF Accounted, Latencies
<1>8. Caused(r, h.l1.stats["hits"], h.l2.stats["hits"], h.memory.reads, h.l1.stats["misses"])
  BY <1>1, <1>4, <1>5 DEF Caused, Buckets
<1> QED
  BY <1>1, <1>5, <1>6, <1>7, <1>8 DEF Together, r

\* At the end of the trace the counters of both still agree, and the bus has caught up
\* with the clock but for one transfer (cpu.cpp:104-123).
LEMMA DrainKeepsTogether ==
  ASSUME NEW c, NEW h, NEW delays, Together(c, h, delays), NEW order \in CompletionOrders(c.mshrs)
  PROVE  LET r == Drain(c, order)
         IN  /\ Together(r, h, delays)
             /\ h.memory.reads * TransferTicks <= Cycles(r) * SubCycle + TransferTicks
<1> DEFINE r == Drain(c, order)
           last == IF c.debt > 0 THEN 1 ELSE 0
<1>1. /\ c \in CpuState /\ HeapOrdered(c.mshrs) /\ IsHierarchy(h) /\ delays \in Nat
      /\ Accounted(c, h, delays) /\ ReadsFit(c, h.memory)
      /\ Caused(c, h.l1.stats["hits"], h.l2.stats["hits"], h.memory.reads, h.l1.stats["misses"])
      /\ h.l1.stats["misses"] \in Nat
  BY DEF Together, IsHierarchy
<1>2. /\ Caused(r, h.l1.stats["hits"], h.l2.stats["hits"], h.memory.reads, h.l1.stats["misses"])
      /\ \A x \in Nat : Reaches(c, x) => x <= Cycles(r)
  BY <1>1, DrainIsCaused
<1>3. /\ r \in CpuState
      /\ \A i \in Slots : r.mshrs[i].free_at = 0
      /\ \A k \in StatNames \ (Timing \cup {"compute_cycles"}) : r.stats[k] = c.stats[k]
  BY <1>1, DrainCorrect DEF CompletionOrders
<1> HIDE DEF r
<1>4. HeapOrdered(r.mshrs)
  BY <1>3, ParentIsAbove DEF HeapOrdered
<1>5. PICK x \in Nat : /\ Reaches(c, x)
                       /\ h.memory.reads * TransferTicks <= x * SubCycle + TransferTicks
  BY <1>1 DEF ReadsFit
<1>6. x <= Cycles(r) /\ Cycles(r) \in Nat
  BY <1>2, <1>3, <1>5, StatsAreNumbers DEF CpuState, Cycles
<1>7. h.memory.reads * TransferTicks <= Cycles(r) * SubCycle + TransferTicks
  <2> DEFINE cycles  == Cycles(r)
             carried == h.memory.reads * TransferTicks
             near    == x * SubCycle
             far     == cycles * SubCycle
  <2>1. SubCycle \in Nat /\ TransferTicks \in Nat
    BY HierarchyAssumption
  <2>2. near <= far /\ near \in Nat /\ far \in Nat
    <3> HIDE DEF cycles
    <3> QED
      BY <1>6, <2>1, ProductIsMonotone DEF cycles
  <2>3. carried \in Nat /\ carried <= near + TransferTicks
    BY <1>1, <1>5, <2>1 DEF IsHierarchy, Carried
  <2> HIDE DEF cycles, carried, near, far
  <2>4. carried <= far + TransferTicks
    BY <2>1, <2>2, <2>3
  <2> QED
    BY <2>4 DEF carried, far, cycles
<1>8. ReadsFit(r, h.memory)
  BY <1>5, <1>6 DEF ReadsFit, Reaches
<1>9. Accounted(r, h, delays)
  <2>1. \A k \in {"memory_instructions", "access_latency_cycles", "miss_latency_cycles"} :
          r.stats[k] = c.stats[k]
    BY <1>3 DEF StatNames, Timing, Buckets
  <2> QED
    BY <1>1, <2>1 DEF Accounted
<1> QED
  BY <1>1, <1>2, <1>3, <1>4, <1>7, <1>8, <1>9 DEF Together, r

-----------------------------------------------------------------------------
(* The theorems.                                                            *)

\* A new simulator: every counter is zero.
LEMMA InitIsInv == Init => Inv
<1> SUFFICES ASSUME Init PROVE Inv
  OBVIOUS
<1>1. PICK hasL2 \in L2Options : hierarchy = NewHierarchy(hasL2)
  BY DEF Init
<1>2. cpu = NewCpu /\ bottleneck = "" /\ queued = 0
  BY DEF Init
<1>3. /\ cpu \in CpuState
      /\ \A i \in Slots : cpu.mshrs[i].free_at = 0
      /\ \A k \in StatNames : cpu.stats[k] = 0
  <2>1. IdleMshr \in Mshr /\ IdleMshr.free_at = 0
    BY DEF IdleMshr, Mshr
  <2>2. cpu = [stats |-> [k \in StatNames |-> 0], debt |-> 0, mshrs |-> [i \in Slots |-> IdleMshr]]
    BY <1>2 DEF NewCpu
  <2>3. [k \in StatNames |-> 0] \in CpuStats /\ 0 \in 0 .. FractionOne-1
    BY CpuAssumption DEF CpuStats
  <2>4. [i \in Slots |-> IdleMshr] \in [Slots -> Mshr]
    BY <2>1
  <2>5. cpu \in CpuState
    BY <2>2, <2>3, <2>4 DEF CpuState
  <2> QED
    BY <2>1, <2>2, <2>5
<1>4. HeapOrdered(cpu.mshrs)
  BY <1>3, ParentIsAbove DEF HeapOrdered
<1>5. /\ hierarchy = [has_l2 |-> hierarchy.has_l2, l1 |-> hierarchy.l1, l2 |-> hierarchy.l2,
                      memory |-> hierarchy.memory]
      /\ hierarchy.l1.stats["accesses"] = 0
      /\ hierarchy.l1.stats["hits"] = 0 /\ hierarchy.l1.stats["misses"] = 0
      /\ hierarchy.l2.stats["hits"] = 0 /\ hierarchy.memory = NewMemory
  BY <1>1 DEF NewHierarchy, L1!NewCache, L2!NewCache, L1!Counters, L2!Counters
<1>6. 0 * TransferTicks = 0 /\ 0 * SubCycle = 0 /\ 0 + TransferTicks >= 0
  BY HierarchyAssumption
<1>7. Carried(hierarchy.memory) /\ hierarchy.memory.reads = 0
      /\ hierarchy.memory.queue_delay_cycles = 0
  BY <1>5, <1>6 DEF Carried, NewMemory
<1>8. Accounted(cpu, hierarchy, queued)
  <2>1. /\ L1Latency * 0 = 0 /\ L2Latency * 0 = 0 /\ MemoryLatency * 0 = 0
    BY HierarchyAssumption
  <2>2. /\ cpu.stats["memory_instructions"] = 0 /\ cpu.stats["access_latency_cycles"] = 0
        /\ cpu.stats["miss_latency_cycles"] = 0
    BY <1>3 DEF StatNames
  <2>3. (IF hierarchy.has_l2 THEN L2Latency * hierarchy.l1.stats["misses"] ELSE 0) = 0
    BY <1>5, <2>1
  <2>4. /\ L1Latency * cpu.stats["memory_instructions"] = 0
        /\ L1Latency * hierarchy.l1.stats["hits"] = 0
        /\ MemoryLatency * hierarchy.memory.reads = 0
    BY <1>5, <1>7, <2>1, <2>2
  <2> QED
    <3> DEFINE beyond == IF hierarchy.has_l2 THEN L2Latency * hierarchy.l1.stats["misses"] ELSE 0
               first  == L1Latency * cpu.stats["memory_instructions"]
               dram   == MemoryLatency * hierarchy.memory.reads
               hits   == L1Latency * hierarchy.l1.stats["hits"]
    <3>1. beyond = 0 /\ first = 0 /\ dram = 0 /\ hits = 0
      BY <2>3, <2>4
    <3> HIDE DEF beyond, first, dram, hits
    <3>2. /\ cpu.stats["access_latency_cycles"] = first + beyond + dram + queued
          /\ cpu.stats["miss_latency_cycles"] = cpu.stats["access_latency_cycles"] - hits
          /\ hierarchy.l1.stats["accesses"] = cpu.stats["memory_instructions"]
          /\ queued <= hierarchy.memory.queue_delay_cycles
      <4>1. queued = 0 /\ hierarchy.l1.stats["accesses"] = 0
            /\ hierarchy.memory.queue_delay_cycles = 0
        BY <1>2, <1>5, <1>7
      <4> QED
        BY <2>2, <3>1, <4>1
    <3> QED
      BY <3>2 DEF Accounted, beyond, first, dram, hits
<1>9. ReadsFit(cpu, hierarchy.memory)
  <2>1. Cycles(cpu) = 0
    BY <1>3 DEF Cycles, StatNames
  <2>2. Reaches(cpu, 0)
    BY <2>1 DEF Reaches
  <2> QED
    BY <1>6, <1>7, <2>2 DEF ReadsFit
<1>10. Caused(cpu, 0, 0, 0, 0)
  <2>1. Busy(cpu.mshrs) = {}
    <3>1. \A i \in Slots : ~(cpu.mshrs[i].free_at > 0)
      BY <1>3
    <3> QED
      BY <3>1, Zenon DEF Busy
  <2>2. Cardinality(Busy(cpu.mshrs)) = 0
    BY <2>1, FS_EmptySet
  <2>3. \A k \in Buckets : cpu.stats[k] = 0
    BY <1>3 DEF StatNames
  <2> QED
    BY <2>1, <2>2, <2>3 DEF Caused, Buckets
<1>11. Together(cpu, hierarchy, queued)
  <2>1. IsHierarchy(hierarchy)
    BY <1>5, <1>7 DEF IsHierarchy
  <2>2. Caused(cpu, hierarchy.l1.stats["hits"], hierarchy.l2.stats["hits"],
               hierarchy.memory.reads, hierarchy.l1.stats["misses"])
    BY <1>5, <1>7, <1>10
  <2> QED
    BY <1>2, <1>3, <1>4, <1>8, <1>9, <2>1, <2>2 DEF Together
<1>12. ReadsWithinBandwidth /\ VerdictHasCause
  BY <1>2 DEF ReadsWithinBandwidth, VerdictHasCause, Finished
<1>13. hierarchy.has_l2 \in L2Options
  BY <1>1 DEF NewHierarchy
<1> QED
  BY <1>11, <1>12, <1>13 DEF Inv

\* The run goes on: there are no results yet.
LEMMA OngoingIsInv ==
  ASSUME Together(cpu', hierarchy', queued'), hierarchy'.has_l2 \in L2Options, bottleneck' = ""
  PROVE  Inv'
BY DEF Inv, ReadsWithinBandwidth, VerdictHasCause, Finished

\* Every record and the end of the trace keep the invariant.
LEMMA NextKeepsInv ==
  ASSUME Inv, [Next]_vars
  PROVE  Inv'
<1>1. ASSUME NEW record \in Records, Compute(record)
      PROVE  Inv'
  <2>1. /\ cpu' = Issue(cpu, record.value) /\ hierarchy' = hierarchy /\ queued' = queued
        /\ bottleneck' = ""
    BY <1>1 DEF Compute, Running
  <2>2. record.value \in Nat
    BY <1>1, TraceAssumption DEF Compute
  <2>3. Together(cpu', hierarchy', queued')
    BY <2>1, <2>2, IssueKeepsTogether DEF Inv
  <2> QED
    BY <2>1, <2>3, OngoingIsInv DEF Inv
<1>2. ASSUME NEW record \in Records, Memory(record)
      PROVE  Inv'
  <2> DEFINE dependent == record.type = "L"
             begun     == BeginAccess(cpu, dependent)
             isWrite   == record.type = "W"
             a         == HierarchyAccess(hierarchy, record.value, isWrite, Cycles(begun))
  <2>1. /\ cpu' = FinishAccess(begun, a.outcome, dependent) /\ hierarchy' = a.hierarchy
        /\ queued' = queued + a.outcome.queue_delay /\ bottleneck' = ""
    BY <1>2 DEF Memory, Running
  <2>2. dependent \in BOOLEAN
    OBVIOUS
  <2>3. Together(cpu', hierarchy', queued') /\ hierarchy'.has_l2 = hierarchy.has_l2
    <3> HIDE DEF dependent, isWrite
    <3> QED
      <4>1. /\ Together(FinishAccess(begun, a.outcome, dependent), a.hierarchy,
                        queued + a.outcome.queue_delay)
            /\ a.hierarchy.has_l2 = hierarchy.has_l2
        BY <2>2, AccessKeepsTogether DEF Inv
      <4> QED
        BY <2>1, <4>1
  <2> QED
    BY <2>1, <2>3, OngoingIsInv DEF Inv
<1>3. ASSUME Finish
      PROVE  Inv'
  <2>1. PICK order \in CompletionOrders(cpu.mshrs) : cpu' = Drain(cpu, order)
    BY <1>3 DEF Finish
  <2>2. /\ hierarchy' = hierarchy /\ queued' = queued
        /\ bottleneck' = ClassifyBottleneck(cpu'.stats, hierarchy.memory)
    BY <1>3 DEF Finish
  <2>3. /\ Together(cpu', hierarchy, queued)
        /\ hierarchy.memory.reads * TransferTicks <= Cycles(cpu') * SubCycle + TransferTicks
    BY <2>1, DrainKeepsTogether DEF Inv
  <2>4. ReadsWithinBandwidth'
    BY <2>2, <2>3 DEF ReadsWithinBandwidth
  <2>5. VerdictHasCause'
    <3> DEFINE hits   == hierarchy.l1.stats["hits"]
               l2Hits == hierarchy.l2.stats["hits"]
               misses == hierarchy.l1.stats["misses"]
               m      == hierarchy.memory
    <3>1. /\ cpu' \in CpuState /\ Carried(m) /\ hits \in Nat /\ l2Hits \in Nat /\ misses \in Nat
          /\ Caused(cpu', hits, l2Hits, m.reads, misses)
      BY <2>3 DEF Together, IsHierarchy
    <3>2. /\ bottleneck' = "Dependent load latency" =>
               cpu'.stats["dependent_loads"] > 0 /\ hits > 0
          /\ bottleneck' = "L1 capacity" => l2Hits > 0
          /\ bottleneck' = "DRAM latency" => m.reads > 0
          /\ bottleneck' = "Memory-level parallelism" => misses > Mshrs
          /\ bottleneck' = "DRAM bandwidth" => Transfers(m) > 0
      <4> HIDE DEF hits, l2Hits, misses, m
      <4> QED
        BY <2>2, <3>1, VerdictIsCaused DEF m
    <3> QED
      BY <2>2, <3>2 DEF VerdictHasCause
  <2> QED
    BY <2>2, <2>3, <2>4, <2>5 DEF Inv
<1>4. ASSUME UNCHANGED vars
      PROVE  Inv'
  BY <1>4 DEF vars, Inv, ReadsWithinBandwidth, VerdictHasCause, Finished
<1> QED
  BY <1>1, <1>2, <1>3, <1>4 DEF Next

\* The inductive invariant, for every trace, geometry and number of MSHRs.
THEOREM Invariant == Spec => []Inv
BY InitIsInv, NextKeepsInv, PTL DEF Spec

\* Whatever the trace, the latency the CPU counts is what the caches and DRAM count
\* (cpu.cpp:65-66, memory.cpp:62-86).
THEOREM LatencyIsAccounted == Spec => []LatencyAccounted
<1>1. Inv => LatencyAccounted
  BY DEF Inv, Together, Accounted, LatencyAccounted
<1> QED
  BY <1>1, Invariant, PTL

\* Whatever the trace, the bus serves no more demand reads than fit into the run
\* (memory.hpp:27-31).
THEOREM ReadsFitBandwidth == Spec => []ReadsWithinBandwidth
<1>1. Inv => ReadsWithinBandwidth
  BY DEF Inv
<1> QED
  BY <1>1, Invariant, PTL

\* Whatever the trace, a verdict names something that happened in the caches
\* (simulator.cpp:65-133).
THEOREM VerdictIsFounded == Spec => []VerdictHasCause
<1>1. Inv => VerdictHasCause
  BY DEF Inv
<1> QED
  BY <1>1, Invariant, PTL

-----------------------------------------------------------------------------
(* The CPU of the simulator is the CPU of Cpu.                              *)

\* The operations of the one are those of the other.
LEMMA SameInstructions ==
  ASSUME NEW c, NEW n, NEW dependent
  PROVE  /\ CpuAlone!Issue(c, n) = Issue(c, n)
         /\ CpuAlone!BeginAccess(c, dependent) = BeginAccess(c, dependent)
BY DEF CpuAlone!Issue, CpuAlone!BeginAccess, CpuAlone!Add, CpuAlone!StatNames, CpuAlone!Buckets,
       Issue, BeginAccess, Add, StatNames, Buckets

\* Stalls of the one are those of the other.
LEMMA SameStalls ==
  ASSUME NEW stats, NEW cycles, NEW bucket, NEW entry
  PROVE  /\ CpuAlone!Stall(stats, cycles, bucket) = Stall(stats, cycles, bucket)
         /\ CpuAlone!StallSplit(stats, cycles, bucket, entry) =
              StallSplit(stats, cycles, bucket, entry)
         /\ CpuAlone!WaitFor(stats, bucket, entry) = WaitFor(stats, bucket, entry)
BY DEF CpuAlone!WaitFor, CpuAlone!StallSplit, CpuAlone!Stall, CpuAlone!Add, CpuAlone!QueuedShare,
       CpuAlone!StatNames, CpuAlone!Buckets, WaitFor, StallSplit, Stall, Add, QueuedShare,
       StatNames, Buckets

\* So are the heaps.
LEMMA SameHeap ==
  ASSUME NEW heap
  PROVE  /\ CpuAlone!SiftDown(heap) = SiftDown(heap)
         /\ CpuAlone!CompletionOrders(heap) = CompletionOrders(heap)
BY DEF CpuAlone!SiftDown, CpuAlone!SinksTo, CpuAlone!Parent, CpuAlone!Slots, SiftDown, SinksTo,
       Parent, Slots, CpuAlone!CompletionOrders, CompletionOrders

\* So is what becomes of an access.
LEMMA SameAccess ==
  ASSUME NEW c, NEW o, NEW dependent
  PROVE  CpuAlone!FinishAccess(c, o, dependent) = FinishAccess(c, o, dependent)
<1>1. CpuAlone!FinishHit(c, o, dependent) = FinishHit(c, o, dependent)
  BY DEF CpuAlone!FinishHit, CpuAlone!Stall, CpuAlone!Add, CpuAlone!StatNames, CpuAlone!Buckets,
         FinishHit, Stall, Add, StatNames, Buckets
<1>2. CpuAlone!FinishMiss(c, o, dependent) = FinishMiss(c, o, dependent)
  <2>1. \A cycle : CpuAlone!MissEntry(cycle, o) = MissEntry(cycle, o)
    BY DEF CpuAlone!MissEntry, CpuAlone!BucketOf, MissEntry, BucketOf
  <2>2. \A stats, n, which : CpuAlone!Add(stats, n, which) = Add(stats, n, which)
    BY DEF CpuAlone!Add, CpuAlone!StatNames, CpuAlone!Buckets, Add, StatNames, Buckets
  <2> QED
    BY <2>1, <2>2, SameStalls, SameHeap DEF CpuAlone!FinishMiss, FinishMiss
<1> QED
  BY <1>1, <1>2 DEF CpuAlone!FinishAccess, FinishAccess

\* And the end of the run.
LEMMA SameDrain ==
  ASSUME NEW c, NEW order
  PROVE  CpuAlone!Drain(c, order) = Drain(c, order)
<1>1. CpuAlone!TailStats(c, order) = TailStats(c, order)
  BY DEF CpuAlone!TailStats, CpuAlone!WaitFor, CpuAlone!StallSplit, CpuAlone!Stall, CpuAlone!Add,
         CpuAlone!QueuedShare, CpuAlone!StatNames, CpuAlone!Buckets, TailStats, WaitFor,
         StallSplit, Stall, Add, QueuedShare, StatNames, Buckets
<1>2. \A stats, n, which : CpuAlone!Add(stats, n, which) = Add(stats, n, which)
  BY DEF CpuAlone!Add, CpuAlone!StatNames, CpuAlone!Buckets, Add, StatNames, Buckets
<1> QED
  BY <1>1, <1>2 DEF CpuAlone!Drain, CpuAlone!Released, CpuAlone!Slots, Drain, Released, Slots

\* The bound under which the outcomes of Cpu are enumerated.
QueueBounded == call.outcome.queue_delay \in 0 .. MaxQueue

\* What the hierarchy answers.
Answered(h, n, o, cycle) == /\ n.has_l2 = h.has_l2
                            /\ \/ FoundInL1(h, n, o)
                               \/ FoundInL2(h, n, o)
                               \/ FoundInMemory(h, n, o, cycle)

\* The hierarchy answers an access with the outcome of the level that has the line
\* (memory.cpp:62-86).
LEMMA AccessIsAnswered ==
  ASSUME NEW h, IsHierarchy(h), NEW cycle \in Nat, NEW address, NEW isWrite
  PROVE  LET a == HierarchyAccess(h, address, isWrite, cycle)
         IN  Answered(h, a.hierarchy, a.outcome, cycle)
<1> DEFINE a == HierarchyAccess(h, address, isWrite, cycle)
           n == a.hierarchy
           o == a.outcome
<1>1. /\ n = [has_l2 |-> n.has_l2, l1 |-> n.l1, l2 |-> n.l2, memory |-> n.memory]
      /\ n.has_l2 = h.has_l2
      /\ n.l1.stats["accesses"] = h.l1.stats["accesses"] + 1
      /\ \/ FoundInL1(h, n, o)
         \/ MissedL1(h, n) /\ FoundInL2(h, n, o)
         \/ MissedL1(h, n) /\ FoundInMemory(h, n, o, cycle)
  BY AccessAnswers DEF IsHierarchy
<1> HIDE DEF a, n, o
<1>2. Answered(h, n, o, cycle)
  BY <1>1 DEF Answered
<1> QED
  BY <1>2 DEF n, o, a

\* Every step of the simulator is a step of the CPU on its own, whatever the hierarchy
\* answers within the bound on queues.
LEMMA StepIsCpuStep ==
  ASSUME Inv, [Next]_vars, QueueBounded'
  PROVE  [CpuAlone!Next]_(CpuAlone!vars)
<1>1. ASSUME NEW record \in Records, Compute(record)
      PROVE  CpuAlone!Next
  <2> DEFINE n == record.value
  <2>1. /\ cpu' = Issue(cpu, n) /\ bottleneck = "" /\ bottleneck' = bottleneck
        /\ queued' = queued /\ cpu.stats["instructions"] < MaxInstructions
        /\ record.type = "N"
    BY <1>1 DEF Compute, Running
  <2>2. n \in {r.value : r \in {x \in Records : x.type = "N"}}
    BY <2>1
  <2>3. CpuAlone!Compute(n)
    BY <2>1, SameInstructions DEF CpuAlone!Compute, CpuAlone!Running, Finished
  <2> QED
    BY <2>2, <2>3 DEF CpuAlone!Next
<1>2. ASSUME NEW record \in Records, Memory(record)
      PROVE  CpuAlone!Next
  <2> DEFINE dependent == record.type = "L"
             begun     == BeginAccess(cpu, dependent)
             isWrite   == record.type = "W"
             cycle     == Cycles(begun)
             a         == HierarchyAccess(hierarchy, record.value, isWrite, cycle)
             o         == a.outcome
  <2>1. /\ cpu' = FinishAccess(begun, o, dependent) /\ bottleneck = "" /\ bottleneck' = bottleneck
        /\ queued' = queued + o.queue_delay /\ cpu.stats["instructions"] < MaxInstructions
        /\ call'.outcome = o
    BY <1>2 DEF Memory, Running
  <2>2. cpu \in CpuState /\ IsHierarchy(hierarchy)
    BY DEF Inv, Together
  <2>3. cycle \in Nat
    <3>1. begun \in CpuState
      BY <2>2, BeginIs
    <3> QED
      BY <3>1, StatsAreNumbers DEF CpuState, Cycles
  <2>4. /\ a.hierarchy.has_l2 = hierarchy.has_l2
        /\ \/ FoundInL1(hierarchy, a.hierarchy, o)
           \/ FoundInL2(hierarchy, a.hierarchy, o)
           \/ FoundInMemory(hierarchy, a.hierarchy, o, cycle)
    <3>1. Answered(hierarchy, a.hierarchy, o, cycle)
      <4> HIDE DEF cycle, isWrite
      <4> QED
        BY <2>2, <2>3, AccessIsAnswered
    <3> QED
      BY <3>1 DEF Answered
  <2>5. o.queue_delay \in 0 .. MaxQueue
    BY <2>1 DEF QueueBounded
  <2>6. hierarchy.has_l2 \in L2Options
    BY DEF Inv
  <2> DEFINE allowed == {AccessOutcome("L1", L1Latency, 0),
                         AccessOutcome("L2", L1Latency + L2Latency, 0)}
                          \cup {AccessOutcome("Memory", Lookup(NewHierarchy(hasL2)) + MemoryLatency + q, q) :
                                  hasL2 \in L2Options, q \in 0 .. MaxQueue}
  <2>7. o \in allowed
    <3> HIDE DEF a, o, cycle
    <3>1. CASE FoundInL1(hierarchy, a.hierarchy, o) \/ FoundInL2(hierarchy, a.hierarchy, o)
      BY <3>1 DEF FoundInL1, FoundInL2
    <3>2. CASE FoundInMemory(hierarchy, a.hierarchy, o, cycle)
      <4> DEFINE q == o.queue_delay
                 hasL2 == hierarchy.has_l2
      <4>1. Lookup(NewHierarchy(hasL2)) = Lookup(hierarchy)
        BY DEF Lookup, NewHierarchy
      <4>2. o = AccessOutcome("Memory", Lookup(hierarchy) + (MemoryLatency + q), q)
        BY <3>2 DEF FoundInMemory, AccessOutcome
      <4>3. Lookup(hierarchy) + (MemoryLatency + q) = Lookup(hierarchy) + MemoryLatency + q
        <5>1. Lookup(hierarchy) \in Nat /\ MemoryLatency \in Nat /\ q \in Int
          BY <2>5, HierarchyAssumption DEF Lookup
        <5> QED
          BY <5>1
      <4> HIDE DEF q, hasL2
      <4>4. o = AccessOutcome("Memory", Lookup(NewHierarchy(hasL2)) + MemoryLatency + q, q)
        BY <4>1, <4>2, <4>3
      <4>5. hasL2 \in L2Options /\ q \in 0 .. MaxQueue
        BY <2>5, <2>6 DEF q, hasL2
      <4> QED
        BY <4>4, <4>5
    <3> QED
      BY <2>4, <3>1, <3>2
  <2>8. dependent \in BOOLEAN
    OBVIOUS
  <2>9. CpuAlone!MemoryAccess(o, dependent)
    <3> HIDE DEF a, o, dependent
    <3> QED
      BY <2>1, SameInstructions, SameAccess DEF CpuAlone!MemoryAccess, CpuAlone!Running, Finished
  <2> HIDE DEF o, dependent
  <2> QED
    BY <2>7, <2>8, <2>9 DEF CpuAlone!Next
<1>3. ASSUME Finish
      PROVE  CpuAlone!Next
  <2>1. PICK order \in CompletionOrders(cpu.mshrs) : cpu' = Drain(cpu, order)
    BY <1>3 DEF Finish
  <2>2. /\ queued' = queued /\ bottleneck = ""
        /\ bottleneck' = ClassifyBottleneck(cpu'.stats, hierarchy.memory)
    BY <1>3 DEF Finish
  <2>3. Together(cpu', hierarchy, queued)
    BY <2>1, DrainKeepsTogether DEF Inv
  <2>4. bottleneck' # ""
    <3> DEFINE hits   == hierarchy.l1.stats["hits"]
               l2Hits == hierarchy.l2.stats["hits"]
               misses == hierarchy.l1.stats["misses"]
               m      == hierarchy.memory
    <3>1. /\ cpu' \in CpuState /\ Carried(m) /\ hits \in Nat /\ l2Hits \in Nat /\ misses \in Nat
          /\ Caused(cpu', hits, l2Hits, m.reads, misses)
      BY <2>3 DEF Together, IsHierarchy
    <3> HIDE DEF hits, l2Hits, misses, m
    <3> QED
      BY <2>2, <3>1, VerdictIsCaused DEF m
  <2>5. CpuAlone!Finish
    BY <2>1, <2>2, <2>4, SameHeap, SameDrain DEF CpuAlone!Finish, Finished
  <2> QED
    BY <2>5 DEF CpuAlone!Next
<1>4. ASSUME UNCHANGED vars
      PROVE  UNCHANGED CpuAlone!vars
  BY <1>4 DEF vars, CpuAlone!vars, Finished
<1> QED
  BY <1>1, <1>2, <1>3, <1>4 DEF Next

\* The simulator drives the CPU as Cpu says, with no outcome Cpu does not allow for,
\* as long as no access queues longer than the longest queue Cpu is given.
THEOREM SimulatorImplementsCpu == Spec /\ []QueueBounded => ImplementsCpu
<1>1. Init => CpuAlone!Init
  BY DEF Init, CpuAlone!Init, CpuAlone!NewCpu, CpuAlone!Slots, CpuAlone!StatNames,
         CpuAlone!Buckets, CpuAlone!IdleMshr, NewCpu, Slots, StatNames, Buckets, IdleMshr, Finished
<1> QED
  BY <1>1, Invariant, StepIsCpuStep, PTL DEF Spec, ImplementsCpu, CpuAlone!Spec
=============================================================================
