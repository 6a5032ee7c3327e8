---------------------------- MODULE HierarchyOps ----------------------------
(***************************************************************************)
(* The memory hierarchy under the CPU (include/memory.hpp, src/memory.cpp): *)
(* L1, an optional L2 and a DRAM whose bus carries one line at a time.  As   *)
(* in CacheOps a component is a value and its operations are operators:     *)
(*                                                                         *)
(*   memory     [bus_free, reads, writes, queue_delay_cycles]               *)
(*   hierarchy  [has_l2, l1, l2, memory], has_l2 for l2_.has_value()        *)
(*                                                                         *)
(* bus_free_cycle_ and transfer_cycles_ are doubles: here they are whole     *)
(* multiples of 1/SubCycle of a cycle, so that a transfer may take a         *)
(* fraction of a cycle.  bytes_read and bytes_written are reads and writes   *)
(* times transfer_bytes and are left out.                                   *)
(***************************************************************************)
EXTENDS Integers

CONSTANTS L1LineSize, L1SetCount, L1Associativity, L1Latency,
          L2Options,       \* the values of l2.enabled looked at
          L2LineSize, L2SetCount, L2Associativity, L2Latency,
          AddressSpace,
          MemoryLatency,   \* memory.latency_cycles
          SubCycle,        \* ticks of the bus clock per cycle
          TransferTicks    \* ticks one line occupies the bus

\* What the configuration reader guarantees (config.cpp:73-157).
ASSUME HierarchyAssumption ==
  /\ L1LineSize \in Nat /\ L1LineSize >= 4
  /\ L2LineSize \in Nat /\ L2LineSize >= 4
  /\ L1SetCount \in Nat \ {0} /\ L1Associativity \in Nat \ {0}
  /\ L2SetCount \in Nat \ {0} /\ L2Associativity \in Nat \ {0}
  /\ AddressSpace \in Nat /\ AddressSpace >= 2
  /\ L1Latency \in Nat \ {0} /\ L2Latency \in Nat \ {0} /\ MemoryLatency \in Nat \ {0}
  /\ L2Options \subseteq BOOLEAN
  /\ SubCycle \in Nat \ {0} /\ TransferTicks \in Nat \ {0}

L1 == INSTANCE CacheOps WITH LineSize <- L1LineSize, SetCount <- L1SetCount,
                             Associativity <- L1Associativity
L2 == INSTANCE CacheOps WITH LineSize <- L2LineSize, SetCount <- L2SetCount,
                             Associativity <- L2Associativity

-----------------------------------------------------------------------------
(* DRAM: fixed latency, and a bus that is busy until bus_free.              *)

NewMemory == [bus_free |-> 0, reads |-> 0, writes |-> 0, queue_delay_cycles |-> 0]

\* llround: to the nearest cycle, halves up.
RoundToCycle(ticks) == (2 * ticks + SubCycle) \div (2 * SubCycle)

\* Mutant: a transfer does not wait for the one before.
BusStartAtOnce(m, cycle) == cycle * SubCycle

BusStart(m, cycle) == IF m.bus_free > cycle * SubCycle THEN m.bus_free ELSE cycle * SubCycle

QueueDelay(m, cycle) == RoundToCycle(BusStart(m, cycle) - cycle * SubCycle)

\* One transfer: it starts when it arrives or when the bus is free, whichever
\* is later, and the wait is added to the statistics.
OccupyBus(m, cycle) ==
  [bus_free           |-> BusStart(m, cycle) + TransferTicks,
   reads              |-> m.reads,
   writes             |-> m.writes,
   queue_delay_cycles |-> m.queue_delay_cycles + QueueDelay(m, cycle)]

CountTransfer(m, reads, writes) ==
  [bus_free           |-> m.bus_free,
   reads              |-> m.reads + reads,
   writes             |-> m.writes + writes,
   queue_delay_cycles |-> m.queue_delay_cycles]

\* Mutant: the wait for the bus is counted but not paid.
MemoryReadUnpaid(m, cycle) ==
  [memory      |-> CountTransfer(OccupyBus(m, cycle), 1, 0),
   latency     |-> MemoryLatency,
   queue_delay |-> QueueDelay(m, cycle)]

MemoryRead(m, cycle) ==
  [memory      |-> CountTransfer(OccupyBus(m, cycle), 1, 0),
   latency     |-> MemoryLatency + QueueDelay(m, cycle),
   queue_delay |-> QueueDelay(m, cycle)]

\* A write-back occupies the bus but nobody waits for it.
MemoryWrite(m, cycle) == CountTransfer(OccupyBus(m, cycle), 0, 1)

-----------------------------------------------------------------------------
(* The hierarchy, and what there is of it below L1.                         *)

Below(hasL2, l2, memory) == [has_l2 |-> hasL2, l2 |-> l2, memory |-> memory]

NewHierarchy(hasL2) ==
  [has_l2 |-> hasL2, l1 |-> L1!NewCache, l2 |-> L2!NewCache, memory |-> NewMemory]

AccessOutcome(source, latency, queueDelay) ==
  [source |-> source, latency |-> latency, queue_delay |-> queueDelay]

\* DRAM takes a line, if there is one to take.
WriteBehind(memory, isDirty, cycle) == IF isDirty THEN MemoryWrite(memory, cycle) ELSE memory

\* Mutant: the dirty line that the installed one evicts from L2 is dropped.
WritebackOneLevel(below, address, cycle) ==
  IF below.has_l2
  THEN Below(below.has_l2, L2!InstallWriteback(below.l2, address).cache, below.memory)
  ELSE Below(below.has_l2, below.l2, MemoryWrite(below.memory, cycle))

\* A dirty L1 line goes to L2, which may have to evict a dirty line of its own.
WritebackFromL1(below, address, cycle) ==
  LET r == L2!InstallWriteback(below.l2, address)
  IN  IF below.has_l2
      THEN Below(below.has_l2, r.cache, WriteBehind(below.memory, r.result.dirty_eviction, cycle))
      ELSE Below(below.has_l2, below.l2, MemoryWrite(below.memory, cycle))

\* Mutant: the lookups on the way down are free.
FillFreeLookup(below, cycle, lookup) ==
  LET dram == MemoryRead(below.memory, cycle + lookup)
  IN  [below   |-> Below(below.has_l2, below.l2, dram.memory),
       outcome |-> AccessOutcome("Memory", dram.latency, dram.queue_delay)]

FillFromMemory(below, cycle, lookup) ==
  LET dram == MemoryRead(below.memory, cycle + lookup)
  IN  [below   |-> Below(below.has_l2, below.l2, dram.memory),
       outcome |-> AccessOutcome("Memory", lookup + dram.latency, dram.queue_delay)]

\* Mutant: a dirty victim of a demand fill of L2 is dropped.
FillDropsVictim(below, address, cycle) ==
  LET r        == L2!Access(below.l2, address, FALSE)
      lookedUp == Below(below.has_l2, r.cache, below.memory)
  IN  IF ~below.has_l2 THEN FillFromMemory(below, cycle, L1Latency)
      ELSE IF r.result.hit
      THEN [below |-> lookedUp, outcome |-> AccessOutcome("L2", L1Latency + L2Latency, 0)]
      ELSE FillFromMemory(lookedUp, cycle, L1Latency + L2Latency)

\* An L1 miss: L2 is looked up, then DRAM.  The fill is a read whatever the CPU
\* was doing, and a dirty L2 victim is written back behind the read.
Fill(below, address, cycle) ==
  LET r        == L2!Access(below.l2, address, FALSE)
      lookedUp == Below(below.has_l2, r.cache, below.memory)
      missed   == FillFromMemory(lookedUp, cycle, L1Latency + L2Latency)
  IN  IF ~below.has_l2 THEN FillFromMemory(below, cycle, L1Latency)
      ELSE IF r.result.hit
      THEN [below |-> lookedUp, outcome |-> AccessOutcome("L2", L1Latency + L2Latency, 0)]
      ELSE [below   |-> Below(below.has_l2, r.cache,
                              WriteBehind(missed.below.memory, r.result.dirty_eviction, cycle)),
            outcome |-> missed.outcome]

\* MemoryHierarchy::access: L1, then the fill, then the write-back of L1's victim.
HierarchyAccess(h, address, isWrite, cycle) ==
  LET r      == L1!Access(h.l1, address, isWrite)
      filled == Fill(Below(h.has_l2, h.l2, h.memory), address, cycle)
      below  == IF r.result.dirty_eviction
                THEN WritebackFromL1(filled.below, r.result.evicted_address, cycle)
                ELSE filled.below
  IN  IF r.result.hit
      THEN [hierarchy |-> [h EXCEPT !.l1 = r.cache],
            outcome   |-> AccessOutcome("L1", L1Latency, 0)]
      ELSE [hierarchy |-> [has_l2 |-> h.has_l2, l1 |-> r.cache, l2 |-> below.l2,
                           memory |-> below.memory],
            outcome   |-> filled.outcome]

-----------------------------------------------------------------------------
(* What other modules ask of a hierarchy.                                   *)

Outcomes == [source : {"L1", "L2", "Memory"}, latency : Nat, queue_delay : Nat]

Transfers(m) == m.reads + m.writes

\* The lookups before DRAM is reached.
Lookup(h) == IF h.has_l2 THEN L1Latency + L2Latency ELSE L1Latency

\* The line in which DRAM sees an address.
MemoryLine(h, address) ==
  IF h.has_l2 THEN L2!LineAddress(address) ELSE L1!LineAddress(address)

\* Some cache still owes the bytes at this address to the level below.  (Without an
\* L2 the l2 of the record stays empty.)
DirtyInHierarchy(h, address) ==
  \/ L1!HoldsDirty(h.l1, L1!LineAddress(address))
  \/ L2!HoldsDirty(h.l2, L2!LineAddress(address))
=============================================================================
