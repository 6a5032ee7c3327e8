-------------------------- MODULE HierarchyProofs --------------------------
(***************************************************************************)
(* Theorems about Hierarchy: what one level sends the next receives, the bus  *)
(* carries one line at a time, and no store is lost on its way down, for      *)
(* every geometry of both levels (the last: for L2 lines that hold whole L1   *)
(* lines), every latency and bandwidth, and runs of every length.            *)
(***************************************************************************)
EXTENDS Hierarchy, FiniteSetTheorems, TLAPS

-----------------------------------------------------------------------------
(* What an operation of a cache adds to its statistics, whatever it holds.   *)

\* An access of L1 is a hit or a miss, and only a miss may evict a dirty line.
LEMMA L1AccessCounts ==
  ASSUME NEW c, NEW address, NEW isWrite
  PROVE  LET r == L1!Access(c, address, isWrite)
         IN  /\ r.result.hit =>
                  /\ ~r.result.dirty_eviction
                  /\ r.cache.stats["misses"]     = c.stats["misses"]
                  /\ r.cache.stats["writebacks"] = c.stats["writebacks"]
             /\ ~r.result.hit =>
                  /\ r.cache.stats["misses"]     = c.stats["misses"] + 1
                  /\ r.cache.stats["writebacks"] =
                       IF r.result.dirty_eviction THEN c.stats["writebacks"] + 1
                                                  ELSE c.stats["writebacks"]
  BY DEF L1!Access, L1!Touch, L1!Replace, L1!Counted, L1!Count, L1!Counters, L1!HitResult

\* The same of the demand access L2 receives, which is a read.
LEMMA L2AccessCounts ==
  ASSUME NEW c, NEW address
  PROVE  LET r == L2!Access(c, address, FALSE)
         IN  /\ r.cache.stats["accesses"]      = c.stats["accesses"] + 1
             /\ r.cache.stats["writebacks_in"] = c.stats["writebacks_in"]
             /\ r.result.hit =>
                  /\ ~r.result.dirty_eviction
                  /\ r.cache.stats["misses"]     = c.stats["misses"]
                  /\ r.cache.stats["writebacks"] = c.stats["writebacks"]
             /\ ~r.result.hit =>
                  /\ r.cache.stats["misses"]     = c.stats["misses"] + 1
                  /\ r.cache.stats["writebacks"] =
                       IF r.result.dirty_eviction THEN c.stats["writebacks"] + 1
                                                  ELSE c.stats["writebacks"]
  BY DEF L2!Access, L2!Touch, L2!Replace, L2!Counted, L2!Count, L2!Counters, L2!HitResult

\* An incoming write-back is no demand access, and may evict a dirty line in turn.
LEMMA L2InstallCounts ==
  ASSUME NEW c, NEW address
  PROVE  LET r == L2!InstallWriteback(c, address)
         IN  /\ r.cache.stats["accesses"]      = c.stats["accesses"]
             /\ r.cache.stats["writebacks_in"] = c.stats["writebacks_in"] + 1
             /\ r.cache.stats["misses"]        = c.stats["misses"]
             /\ r.cache.stats["writebacks"] =
                  IF r.result.dirty_eviction THEN c.stats["writebacks"] + 1
                                             ELSE c.stats["writebacks"]
  BY DEF L2!InstallWriteback, L2!Touch, L2!Replace, L2!Counted, L2!Count, L2!Counters,
         L2!HitResult

-----------------------------------------------------------------------------
(* What a transfer does to the bus.                                         *)

\* The bus has carried its transfers one after the other, and none of them started
\* after `last`.
Serialised(m, last) == /\ m.bus_free \in Nat /\ m.reads \in Nat /\ m.writes \in Nat
                       /\ Transfers(m) * TransferTicks <= m.bus_free
                       /\ m.bus_free <= last + Transfers(m) * TransferTicks

\* A transfer more.
LEMMA OneMoreTransfer ==
  ASSUME NEW k \in Nat
  PROVE  (k + 1) * TransferTicks = k * TransferTicks + TransferTicks
  BY HierarchyAssumption

\* A read occupies the bus after what occupies it already, and is counted.
LEMMA ReadSerialised ==
  ASSUME NEW m, NEW last \in Nat, Serialised(m, last),
         NEW cycle \in Nat, cycle * SubCycle <= last
  PROVE  LET r == MemoryRead(m, cycle).memory
         IN  Serialised(r, last) /\ r.reads = m.reads + 1 /\ r.writes = m.writes
<1> DEFINE r == MemoryRead(m, cycle).memory
<1>1. /\ BusStart(m, cycle) \in Nat
      /\ m.bus_free <= BusStart(m, cycle)
      /\ BusStart(m, cycle) <= last \/ BusStart(m, cycle) = m.bus_free
  BY HierarchyAssumption DEF BusStart, Serialised
<1>2. /\ r.bus_free = BusStart(m, cycle) + TransferTicks
      /\ r.reads = m.reads + 1 /\ r.writes = m.writes
  BY HierarchyAssumption DEF MemoryRead, CountTransfer, OccupyBus, Serialised
<1> HIDE DEF r
<1>3. Transfers(m) \in Nat /\ Transfers(r) = Transfers(m) + 1
  BY <1>2 DEF Transfers, Serialised
<1>4. Transfers(r) * TransferTicks = Transfers(m) * TransferTicks + TransferTicks
  BY <1>3, OneMoreTransfer
<1>5. Transfers(m) * TransferTicks \in Nat /\ TransferTicks \in Nat
  BY <1>3, HierarchyAssumption
<1> QED
  BY <1>1, <1>2, <1>4, <1>5 DEF Serialised, r

\* So does a write-back.
LEMMA WriteSerialised ==
  ASSUME NEW m, NEW last \in Nat, Serialised(m, last),
         NEW cycle \in Nat, cycle * SubCycle <= last
  PROVE  LET r == MemoryWrite(m, cycle)
         IN  Serialised(r, last) /\ r.reads = m.reads /\ r.writes = m.writes + 1
<1> DEFINE r == MemoryWrite(m, cycle)
<1>1. /\ BusStart(m, cycle) \in Nat
      /\ m.bus_free <= BusStart(m, cycle)
      /\ BusStart(m, cycle) <= last \/ BusStart(m, cycle) = m.bus_free
  BY HierarchyAssumption DEF BusStart, Serialised
<1>2. /\ r.bus_free = BusStart(m, cycle) + TransferTicks
      /\ r.reads = m.reads /\ r.writes = m.writes + 1
  BY HierarchyAssumption DEF MemoryWrite, CountTransfer, OccupyBus, Serialised
<1> HIDE DEF r
<1>3. Transfers(m) \in Nat /\ Transfers(r) = Transfers(m) + 1
  BY <1>2 DEF Transfers, Serialised
<1>4. Transfers(r) * TransferTicks = Transfers(m) * TransferTicks + TransferTicks
  BY <1>3, OneMoreTransfer
<1>5. Transfers(m) * TransferTicks \in Nat /\ TransferTicks \in Nat
  BY <1>3, HierarchyAssumption
<1> QED
  BY <1>1, <1>2, <1>4, <1>5 DEF Serialised, r

-----------------------------------------------------------------------------
(* What lies below L1, [has_l2, l2, memory].                                *)

\* What is below L1 has received so many demand accesses and so many write-backs,
\* and has passed on to DRAM what L2 did not hold and what L2 evicted.
Received(b, misses, writebacks) ==
  IF b.has_l2
  THEN /\ b.l2.stats["accesses"]      = misses
       /\ b.l2.stats["writebacks_in"] = writebacks
       /\ b.memory.reads              = b.l2.stats["misses"]
       /\ b.memory.writes             = b.l2.stats["writebacks"]
  ELSE /\ b.memory.reads              = misses
       /\ b.memory.writes             = writebacks

\* The cycles at which one access uses the bus.
InTime(cycle, last) ==
  /\ cycle * SubCycle <= last
  /\ (cycle + L1Latency) * SubCycle <= last
  /\ (cycle + (L1Latency + L2Latency)) * SubCycle <= last

\* The parts of a fill.
LEMMA FillIs ==
  ASSUME NEW b, NEW address, NEW cycle
  PROVE  LET r      == L2!Access(b.l2, address, FALSE)
             lookup == IF b.has_l2 THEN L1Latency + L2Latency ELSE L1Latency
             dram   == MemoryRead(b.memory, cycle + lookup)
             behind == WriteBehind(dram.memory, r.result.dirty_eviction, cycle)
             f      == Fill(b, address, cycle)
         IN  /\ f.below = IF ~b.has_l2
                          THEN Below(b.has_l2, b.l2, dram.memory)
                          ELSE Below(b.has_l2, r.cache, IF r.result.hit THEN b.memory ELSE behind)
             /\ f.outcome = IF b.has_l2 /\ r.result.hit
                            THEN AccessOutcome("L2", L1Latency + L2Latency, 0)
                            ELSE AccessOutcome("Memory", lookup + dram.latency, dram.queue_delay)
<1>1. CASE ~b.has_l2
  BY <1>1 DEF Fill, FillFromMemory
<1>2. CASE b.has_l2 /\ L2!Access(b.l2, address, FALSE).result.hit
  BY <1>2 DEF Fill
<1>3. CASE b.has_l2 /\ ~L2!Access(b.l2, address, FALSE).result.hit
  BY <1>3 DEF Fill, FillFromMemory, Below
<1> QED
  BY <1>1, <1>2, <1>3

\* The parts of a write-back.
LEMMA WritebackIs ==
  ASSUME NEW b, NEW address, NEW cycle
  PROVE  LET r == L2!InstallWriteback(b.l2, address)
         IN  WritebackFromL1(b, address, cycle) =
               IF b.has_l2
               THEN Below(b.has_l2, r.cache,
                          IF r.result.dirty_eviction THEN MemoryWrite(b.memory, cycle) ELSE b.memory)
               ELSE Below(b.has_l2, b.l2, MemoryWrite(b.memory, cycle))
  BY DEF WritebackFromL1, WriteBehind

\* The fill of an L1 miss is one demand access below, and at most one read of DRAM
\* with the write-back of a dirty L2 victim behind it.
LEMMA FillReceived ==
  ASSUME NEW b, NEW misses, NEW writebacks, Received(b, misses, writebacks),
         NEW last \in Nat, Serialised(b.memory, last),
         NEW cycle \in Nat, InTime(cycle, last), NEW address
  PROVE  LET f == Fill(b, address, cycle).below
         IN  /\ f.has_l2 = b.has_l2
             /\ Received(f, misses + 1, writebacks)
             /\ Serialised(f.memory, last)
<1> DEFINE r == L2!Access(b.l2, address, FALSE)
           f == Fill(b, address, cycle).below
           lookup == IF b.has_l2 THEN L1Latency + L2Latency ELSE L1Latency
           read == MemoryRead(b.memory, cycle + lookup).memory
           behind == WriteBehind(read, r.result.dirty_eviction, cycle)
<1>1. /\ Serialised(read, last)
      /\ read.reads = b.memory.reads + 1 /\ read.writes = b.memory.writes
  <2>1. cycle + lookup \in Nat /\ (cycle + lookup) * SubCycle <= last
    BY HierarchyAssumption DEF InTime
  <2> QED
    BY <2>1, ReadSerialised
<1>2. /\ Serialised(behind, last)
      /\ behind.reads = read.reads
      /\ behind.writes = IF r.result.dirty_eviction THEN read.writes + 1 ELSE read.writes
  <2> HIDE DEF r, read
  <2>1. LET w == MemoryWrite(read, cycle)
        IN  Serialised(w, last) /\ w.reads = read.reads /\ w.writes = read.writes + 1
    BY <1>1, WriteSerialised DEF InTime
  <2> QED
    BY <1>1, <2>1 DEF WriteBehind
<1>3. f = IF ~b.has_l2 THEN Below(b.has_l2, b.l2, read)
          ELSE Below(b.has_l2, r.cache, IF r.result.hit THEN b.memory ELSE behind)
  BY FillIs
<1>4. /\ r.cache.stats["accesses"]      = b.l2.stats["accesses"] + 1
      /\ r.cache.stats["writebacks_in"] = b.l2.stats["writebacks_in"]
      /\ r.result.hit =>
           /\ r.cache.stats["misses"]     = b.l2.stats["misses"]
           /\ r.cache.stats["writebacks"] = b.l2.stats["writebacks"]
      /\ ~r.result.hit =>
           /\ r.cache.stats["misses"]     = b.l2.stats["misses"] + 1
           /\ r.cache.stats["writebacks"] = IF r.result.dirty_eviction
                                            THEN b.l2.stats["writebacks"] + 1
                                            ELSE b.l2.stats["writebacks"]
  BY L2AccessCounts
<1> HIDE DEF r, f, lookup, read, behind
<1>5. CASE ~b.has_l2
  <2>1. f = Below(b.has_l2, b.l2, read)
    BY <1>3, <1>5
  <2> QED
    BY <1>1, <1>5, <2>1 DEF f, Below, Received
<1>6. CASE b.has_l2 /\ r.result.hit
  <2>1. f = Below(b.has_l2, r.cache, b.memory)
    BY <1>3, <1>6
  <2>2. /\ r.cache.stats["accesses"]      = b.l2.stats["accesses"] + 1
        /\ r.cache.stats["writebacks_in"] = b.l2.stats["writebacks_in"]
        /\ r.cache.stats["misses"]        = b.l2.stats["misses"]
        /\ r.cache.stats["writebacks"]    = b.l2.stats["writebacks"]
    BY <1>6, <1>4
  <2> QED
    BY <1>6, <2>1, <2>2 DEF f, Below, Received
<1>7. CASE b.has_l2 /\ ~r.result.hit
  <2>1. f = Below(b.has_l2, r.cache, behind)
    BY <1>3, <1>7
  <2>2. /\ r.cache.stats["accesses"]      = b.l2.stats["accesses"] + 1
        /\ r.cache.stats["writebacks_in"] = b.l2.stats["writebacks_in"]
        /\ r.cache.stats["misses"]        = b.l2.stats["misses"] + 1
        /\ r.cache.stats["writebacks"]    = IF r.result.dirty_eviction
                                            THEN b.l2.stats["writebacks"] + 1
                                            ELSE b.l2.stats["writebacks"]
    BY <1>7, <1>4
  <2> QED
    BY <1>1, <1>2, <1>7, <2>1, <2>2 DEF f, Below, Received
<1> QED
  BY <1>5, <1>6, <1>7

\* A dirty L1 victim is one incoming write-back below.
LEMMA WritebackReceived ==
  ASSUME NEW b, NEW misses, NEW writebacks, Received(b, misses, writebacks),
         NEW last \in Nat, Serialised(b.memory, last),
         NEW cycle \in Nat, InTime(cycle, last), NEW address
  PROVE  LET f == WritebackFromL1(b, address, cycle)
         IN  /\ f.has_l2 = b.has_l2
             /\ Received(f, misses, writebacks + 1)
             /\ Serialised(f.memory, last)
<1> DEFINE r == L2!InstallWriteback(b.l2, address)
           f == WritebackFromL1(b, address, cycle)
           written == MemoryWrite(b.memory, cycle)
<1>1. /\ Serialised(written, last)
      /\ written.reads = b.memory.reads /\ written.writes = b.memory.writes + 1
  BY WriteSerialised DEF InTime
<1>2. f = IF b.has_l2
          THEN Below(b.has_l2, r.cache,
                     IF r.result.dirty_eviction THEN written ELSE b.memory)
          ELSE Below(b.has_l2, b.l2, written)
  BY WritebackIs
<1>3. /\ r.cache.stats["accesses"]      = b.l2.stats["accesses"]
      /\ r.cache.stats["writebacks_in"] = b.l2.stats["writebacks_in"] + 1
      /\ r.cache.stats["misses"]        = b.l2.stats["misses"]
      /\ r.cache.stats["writebacks"]    = IF r.result.dirty_eviction
                                          THEN b.l2.stats["writebacks"] + 1
                                          ELSE b.l2.stats["writebacks"]
  BY L2InstallCounts
<1> HIDE DEF r, f, written
<1>4. CASE b.has_l2
  BY <1>1, <1>2, <1>3, <1>4 DEF f, Below, Received
<1>5. CASE ~b.has_l2
  BY <1>1, <1>2, <1>5 DEF f, Below, Received
<1> QED
  BY <1>4, <1>5

-----------------------------------------------------------------------------
(* The hierarchy.                                                           *)

Beneath(h) == Below(h.has_l2, h.l2, h.memory)

\* An access of the hierarchy passes a miss of L1, and then L1's dirty victim, to what
\* is below, and an access that hits L1 passes nothing.
LEMMA AccessReceived ==
  ASSUME NEW h,
         h = [has_l2 |-> h.has_l2, l1 |-> h.l1, l2 |-> h.l2, memory |-> h.memory],
         Received(Beneath(h), h.l1.stats["misses"], h.l1.stats["writebacks"]),
         NEW last \in Nat, Serialised(h.memory, last),
         NEW cycle \in Nat, InTime(cycle, last), NEW address, NEW isWrite
  PROVE  LET n == HierarchyAccess(h, address, isWrite, cycle).hierarchy
         IN  /\ n = [has_l2 |-> n.has_l2, l1 |-> n.l1, l2 |-> n.l2, memory |-> n.memory]
             /\ Received(Beneath(n), n.l1.stats["misses"], n.l1.stats["writebacks"])
             /\ Serialised(n.memory, last)
<1> DEFINE r == L1!Access(h.l1, address, isWrite)
           n == HierarchyAccess(h, address, isWrite, cycle).hierarchy
           b == Beneath(h)
           filled == Fill(b, address, cycle).below
           written == WritebackFromL1(filled, r.result.evicted_address, cycle)
           below == IF r.result.dirty_eviction THEN written ELSE filled
           misses == h.l1.stats["misses"]
           writebacks == h.l1.stats["writebacks"]
<1>1. /\ b.memory = h.memory /\ b.has_l2 = h.has_l2
      /\ Received(b, misses, writebacks)
  BY DEF Beneath, Below
<1>2. n = IF r.result.hit
          THEN [h EXCEPT !.l1 = r.cache]
          ELSE [has_l2 |-> h.has_l2, l1 |-> r.cache, l2 |-> below.l2, memory |-> below.memory]
  BY DEF HierarchyAccess, Beneath
<1> HIDE DEF r, n, b
<1>3. CASE r.result.hit
  <2>1. n = [has_l2 |-> h.has_l2, l1 |-> r.cache, l2 |-> h.l2, memory |-> h.memory]
    BY <1>2, <1>3
  <2>2. r.cache.stats["misses"] = misses /\ r.cache.stats["writebacks"] = writebacks
    BY <1>3, L1AccessCounts DEF r
  <2>3. Beneath(n) = b
    BY <2>1 DEF Beneath, b
  <2> QED
    BY <1>1, <2>1, <2>2, <2>3 DEF n
<1>4. CASE ~r.result.hit
  <2>1. /\ filled.has_l2 = b.has_l2
        /\ Received(filled, misses + 1, writebacks)
        /\ Serialised(filled.memory, last)
    BY <1>1, FillReceived
  <2> HIDE DEF filled
  <2>2. /\ written.has_l2 = filled.has_l2
        /\ Received(written, misses + 1, writebacks + 1)
        /\ Serialised(written.memory, last)
    BY <2>1, WritebackReceived
  <2> HIDE DEF written
  <2>3. /\ below.has_l2 = h.has_l2
        /\ Received(below, misses + 1,
                    IF r.result.dirty_eviction THEN writebacks + 1 ELSE writebacks)
        /\ Serialised(below.memory, last)
    BY <1>1, <2>1, <2>2
  <2> HIDE DEF below
  <2>4. n = [has_l2 |-> h.has_l2, l1 |-> r.cache, l2 |-> below.l2, memory |-> below.memory]
    BY <1>2, <1>4
  <2>5. /\ r.cache.stats["misses"] = misses + 1
        /\ r.cache.stats["writebacks"] =
             IF r.result.dirty_eviction THEN writebacks + 1 ELSE writebacks
    BY <1>4, L1AccessCounts DEF r
  <2>6. Received(Beneath(n), misses + 1,
                 IF r.result.dirty_eviction THEN writebacks + 1 ELSE writebacks)
    BY <2>3, <2>4 DEF Beneath, Below, Received
  <2> QED
    BY <2>3, <2>4, <2>5, <2>6 DEF n
<1> QED
  BY <1>3, <1>4

\* Time passes: what started in time before did so later too.
LEMMA LaterIsInTime ==
  ASSUME NEW before \in Nat, NEW gap \in Nat
  PROVE  LET last(t) == (t + L1Latency + L2Latency) * SubCycle
         IN  /\ last(before) \in Nat /\ last(before + gap) \in Nat
             /\ last(before) <= last(before + gap)
             /\ InTime(before + gap, last(before + gap))
<1> DEFINE last(t) == (t + L1Latency + L2Latency) * SubCycle
<1>1. ASSUME NEW x \in Nat, NEW y \in Nat PROVE x * SubCycle <= (x + y) * SubCycle
  <2>1. (x + y) * SubCycle = x * SubCycle + y * SubCycle
    BY HierarchyAssumption
  <2>2. x * SubCycle \in Nat /\ y * SubCycle \in Nat
    BY HierarchyAssumption
  <2> QED
    BY <2>1, <2>2
<1>2. L1Latency \in Nat /\ L2Latency \in Nat /\ SubCycle \in Nat
  BY HierarchyAssumption
<1>3. last(before) \in Nat /\ last(before + gap) \in Nat
  BY <1>2
<1>4. last(before) <= last(before + gap)
  <2>1. before + L1Latency + L2Latency + gap = before + gap + L1Latency + L2Latency
    BY <1>2
  <2> QED
    BY <1>1, <1>2, <2>1
<1>5. InTime(before + gap, last(before + gap))
  <2> DEFINE t == before + gap
  <2>1. t \in Nat /\ t + (L1Latency + L2Latency) = t + L1Latency + L2Latency
    BY <1>2
  <2>2. t * SubCycle <= (t + (L1Latency + L2Latency)) * SubCycle
    BY <1>1, <1>2, <2>1
  <2>3. (t + L1Latency) * SubCycle <= (t + L1Latency + L2Latency) * SubCycle
    BY <1>1, <1>2, <2>1
  <2>4. (t + L1Latency + L2Latency) * SubCycle <= (t + L1Latency + L2Latency) * SubCycle
    BY <1>3
  <2> HIDE DEF t
  <2> QED
    BY <2>1, <2>2, <2>3, <2>4 DEF InTime, t
<1> QED
  BY <1>3, <1>4, <1>5

-----------------------------------------------------------------------------
(* What is sent is received, and the bus carries it.                        *)

\* The invariant.  Neither statement is inductive without the shape of the object,
\* and the bus needs the counters to be numbers; no property of what the caches hold
\* is needed.
Inv ==
  /\ hierarchy = [has_l2 |-> hierarchy.has_l2, l1 |-> hierarchy.l1,
                  l2 |-> hierarchy.l2, memory |-> hierarchy.memory]
  /\ now \in Nat
  /\ Received(Beneath(hierarchy), hierarchy.l1.stats["misses"],
                                  hierarchy.l1.stats["writebacks"])
  /\ Serialised(hierarchy.memory, (now + L1Latency + L2Latency) * SubCycle)

\* Init establishes the invariant.
LEMMA InitEstablishesInv == Init => Inv
<1> SUFFICES ASSUME Init PROVE Inv
  OBVIOUS
<1>1. PICK hasL2 \in L2Options : hierarchy = NewHierarchy(hasL2)
  BY DEF Init
<1>2. /\ hierarchy = [has_l2 |-> hasL2, l1 |-> L1!NewCache, l2 |-> L2!NewCache,
                      memory |-> NewMemory]
      /\ now = 0
  BY <1>1 DEF Init, NewHierarchy
<1>3. /\ L1!NewCache.stats["misses"] = 0 /\ L1!NewCache.stats["writebacks"] = 0
      /\ \A k \in L2!Counters : L2!NewCache.stats[k] = 0
  BY DEF L1!NewCache, L1!Counters, L2!NewCache
<1>4. Received(Beneath(hierarchy), 0, 0)
  BY <1>2, <1>3 DEF Received, Beneath, Below, NewMemory, L2!Counters
<1>5. Serialised(NewMemory, (0 + L1Latency + L2Latency) * SubCycle)
  <2>1. (0 + L1Latency + L2Latency) * SubCycle \in Nat /\ 0 * TransferTicks = 0
    BY HierarchyAssumption
  <2> QED
    BY <2>1 DEF Serialised, Transfers, NewMemory
<1> QED
  BY <1>2, <1>3, <1>4, <1>5 DEF Inv

\* Every access keeps the invariant.
LEMMA StepKeepsInv == Inv /\ [Next]_vars => Inv'
<1> SUFFICES ASSUME Inv, [Next]_vars PROVE Inv'
  OBVIOUS
<1>1. ASSUME NEW address \in Addresses, NEW isWrite \in BOOLEAN, NEW gap \in Gaps,
             Access(address, isWrite, gap)
      PROVE  Inv'
  <2> DEFINE last(t) == (t + L1Latency + L2Latency) * SubCycle
  <2>1. now \in Nat /\ gap \in Nat
    BY DriverAssumption DEF Inv
  <2>2. /\ last(now) \in Nat /\ last(now + gap) \in Nat
        /\ last(now) <= last(now + gap)
        /\ InTime(now + gap, last(now + gap))
    BY <2>1, LaterIsInTime
  <2> HIDE DEF last
  <2>3. Serialised(hierarchy.memory, last(now + gap))
    <3>1. Serialised(hierarchy.memory, last(now))
      BY DEF Inv, last
    <3>2. Transfers(hierarchy.memory) * TransferTicks \in Nat
      BY <3>1, HierarchyAssumption DEF Serialised, Transfers
    <3> QED
      BY <2>2, <3>1, <3>2 DEF Serialised
  <2>4. /\ hierarchy' = HierarchyAccess(hierarchy, address, isWrite, now + gap).hierarchy
        /\ now' = now + gap
    BY <1>1 DEF Access
  <2>5. now + gap \in Nat
    BY <2>1
  <2>6. LET n == HierarchyAccess(hierarchy, address, isWrite, now + gap).hierarchy
        IN  /\ n = [has_l2 |-> n.has_l2, l1 |-> n.l1, l2 |-> n.l2, memory |-> n.memory]
            /\ Received(Beneath(n), n.l1.stats["misses"], n.l1.stats["writebacks"])
            /\ Serialised(n.memory, last(now + gap))
    BY <2>2, <2>3, <2>5, AccessReceived DEF Inv
  <2> QED
    BY <2>4, <2>5, <2>6 DEF Inv, last
<1>2. CASE UNCHANGED vars
  BY <1>2 DEF vars, Inv
<1> QED
  BY <1>1, <1>2 DEF Next

\* The invariant holds in every reachable state.
THEOREM Invariance == Spec => []Inv
<1> QED
  BY InitEstablishesInv, StepKeepsInv, PTL DEF Spec

\* What one level sends is what the next receives, whatever the two caches hold
\* (memory.cpp:49-90).
THEOREM TrafficBalances == Spec => []TrafficConserved
<1>1. Inv => TrafficConserved
  BY DEF Inv, Received, Beneath, Below, TrafficConserved
<1> QED
  BY <1>1, Invariance, PTL

\* The bus carries one line at a time, and is idle only until the last request that
\* found it idle (memory.cpp:15-23).
THEOREM BusCarriesOneLine == Spec => []BusSerialised
<1>1. Inv => BusSerialised
  BY DEF Inv, Serialised, BusSerialised
<1> QED
  BY <1>1, Invariance, PTL

-----------------------------------------------------------------------------
(* No store is lost.                                                        *)

\* The lemmas about caches, for the cache at each level.
C1 == INSTANCE CacheProofs WITH
        LineSize <- L1LineSize, SetCount <- L1SetCount, Associativity <- L1Associativity,
        FewWays <- L1Associativity, MaxTick <- MaxAccesses,
        cache <- hierarchy.l1, result <- outcome, smaller <- hierarchy.l1
C2 == INSTANCE CacheProofs WITH
        LineSize <- L2LineSize, SetCount <- L2SetCount, Associativity <- L2Associativity,
        FewWays <- L2Associativity, MaxTick <- MaxAccesses,
        cache <- hierarchy.l2, result <- outcome, smaller <- hierarchy.l2

\* Both caches are what those lemmas assume.
LEMMA BothAssumptions ==
  /\ C1!CacheAssumption /\ C1!DriverAssumption /\ C1!WaysAssumption
  /\ C2!CacheAssumption /\ C2!DriverAssumption /\ C2!WaysAssumption
  BY HierarchyAssumption, DriverAssumption
     DEF C1!CacheAssumption, C1!DriverAssumption, C1!WaysAssumption, C1!Address,
         C2!CacheAssumption, C2!DriverAssumption, C2!WaysAssumption, C2!Address

\* The operations of L1 are those the lemmas speak of.
LEMMA SameL1 ==
  /\ \A c, address, isWrite : C1!Access(c, address, isWrite) = L1!Access(c, address, isWrite)
  /\ \A c, line : C1!HoldsDirty(c, line) = L1!HoldsDirty(c, line)
  /\ \A address : C1!LineAddress(address) = L1!LineAddress(address)
  /\ C1!NewCache = L1!NewCache
<1>1. \A c, address, isWrite : C1!Access(c, address, isWrite) = L1!Access(c, address, isWrite)
  BY DEF C1!Access, C1!LineAddress, C1!SetIndex, C1!FindWay, C1!MatchingWays, C1!Ways, C1!Min,
         C1!Touch, C1!TouchWay, C1!HitResult, C1!Replace, C1!SelectVictim, C1!OldestWays,
         C1!MustWriteBack, C1!EmptyTag, C1!FillWay, C1!Counted, C1!Count, C1!Counters,
         L1!Access, L1!LineAddress, L1!SetIndex, L1!FindWay, L1!MatchingWays, L1!Ways, L1!Min,
         L1!Touch, L1!TouchWay, L1!HitResult, L1!Replace, L1!SelectVictim, L1!OldestWays,
         L1!MustWriteBack, L1!EmptyTag, L1!FillWay, L1!Counted, L1!Count, L1!Counters
<1>2. \A c, line : C1!HoldsDirty(c, line) = L1!HoldsDirty(c, line)
  BY DEF C1!HoldsDirty, C1!Ways, C1!SetIndex, L1!HoldsDirty, L1!Ways, L1!SetIndex
<1>3. \A address : C1!LineAddress(address) = L1!LineAddress(address)
  BY DEF C1!LineAddress, L1!LineAddress
<1>4. C1!NewCache = L1!NewCache
  BY DEF C1!NewCache, C1!Sets, C1!EmptyRow, C1!Ways, C1!EmptyTag, C1!Counters,
         L1!NewCache, L1!Sets, L1!EmptyRow, L1!Ways, L1!EmptyTag, L1!Counters
<1> QED
  BY <1>1, <1>2, <1>3, <1>4

\* So are those of L2.
LEMMA SameL2 ==
  /\ \A c, address, isWrite : C2!Access(c, address, isWrite) = L2!Access(c, address, isWrite)
  /\ \A c, address : C2!InstallWriteback(c, address) = L2!InstallWriteback(c, address)
  /\ \A c, line : C2!HoldsDirty(c, line) = L2!HoldsDirty(c, line)
  /\ \A address : C2!LineAddress(address) = L2!LineAddress(address)
  /\ C2!NewCache = L2!NewCache
<1>1. \A c, address, isWrite : C2!Access(c, address, isWrite) = L2!Access(c, address, isWrite)
  BY DEF C2!Access, C2!LineAddress, C2!SetIndex, C2!FindWay, C2!MatchingWays, C2!Ways, C2!Min,
         C2!Touch, C2!TouchWay, C2!HitResult, C2!Replace, C2!SelectVictim, C2!OldestWays,
         C2!MustWriteBack, C2!EmptyTag, C2!FillWay, C2!Counted, C2!Count, C2!Counters,
         L2!Access, L2!LineAddress, L2!SetIndex, L2!FindWay, L2!MatchingWays, L2!Ways, L2!Min,
         L2!Touch, L2!TouchWay, L2!HitResult, L2!Replace, L2!SelectVictim, L2!OldestWays,
         L2!MustWriteBack, L2!EmptyTag, L2!FillWay, L2!Counted, L2!Count, L2!Counters
<1>2. \A c, address : C2!InstallWriteback(c, address) = L2!InstallWriteback(c, address)
  BY DEF C2!InstallWriteback, C2!LineAddress, C2!SetIndex, C2!FindWay, C2!MatchingWays, C2!Ways,
         C2!Min, C2!Touch, C2!TouchWay, C2!HitResult, C2!Replace, C2!SelectVictim,
         C2!OldestWays, C2!MustWriteBack, C2!EmptyTag, C2!FillWay, C2!Counted, C2!Count,
         C2!Counters,
         L2!InstallWriteback, L2!LineAddress, L2!SetIndex, L2!FindWay, L2!MatchingWays, L2!Ways,
         L2!Min, L2!Touch, L2!TouchWay, L2!HitResult, L2!Replace, L2!SelectVictim,
         L2!OldestWays, L2!MustWriteBack, L2!EmptyTag, L2!FillWay, L2!Counted, L2!Count,
         L2!Counters
<1>3. \A c, line : C2!HoldsDirty(c, line) = L2!HoldsDirty(c, line)
  BY DEF C2!HoldsDirty, C2!Ways, C2!SetIndex, L2!HoldsDirty, L2!Ways, L2!SetIndex
<1>4. \A address : C2!LineAddress(address) = L2!LineAddress(address)
  BY DEF C2!LineAddress, L2!LineAddress
<1>5. C2!NewCache = L2!NewCache
  BY DEF C2!NewCache, C2!Sets, C2!EmptyRow, C2!Ways, C2!EmptyTag, C2!Counters,
         L2!NewCache, L2!Sets, L2!EmptyRow, L2!Ways, L2!EmptyTag, L2!Counters
<1> QED
  BY <1>1, <1>2, <1>3, <1>4, <1>5

Address == 0 .. AddressSpace - 1

\* The quotient is the number whose multiples enclose.
LEMMA QuotientIs ==
  ASSUME NEW x \in Nat, NEW s \in Nat, s > 0, NEW q \in Nat, q * s <= x, x < q * s + s
  PROVE  x \div s = q
<1> DEFINE d == x \div s
           m == x % s
<1>1. d \in Int /\ m \in 0 .. s - 1 /\ x = s * d + m
  OBVIOUS
<1> HIDE DEF d, m
<1>2. CASE d >= q + 1
  <2>1. s * d >= s * (q + 1)
    BY <1>1, <1>2
  <2>2. s * (q + 1) = q * s + s
    OBVIOUS
  <2> QED
    BY <1>1, <2>1, <2>2
<1>3. CASE d <= q - 1
  <2>1. s * d <= s * (q - 1)
    BY <1>1, <1>3
  <2>2. s * (q - 1) = q * s - s
    OBVIOUS
  <2> QED
    BY <1>1, <2>1, <2>2
<1>4. d = q
  BY <1>1, <1>2, <1>3
<1> QED
  BY <1>4 DEF d

\* When L2 lines hold whole L1 lines, an L1 line lies in the L2 line of any of its bytes.
LEMMA LineInLine ==
  ASSUME NEW k \in Nat, L2LineSize = k * L1LineSize, NEW a \in Nat
  PROVE  L2!LineAddress(L1!LineAddress(a) * L1LineSize) = L2!LineAddress(a)
<1> DEFINE s == L1LineSize
           t == L2LineSize
           m == a \div s
           q == a \div t
<1>1. s \in Nat /\ s > 0 /\ t \in Nat /\ t > 0
  BY HierarchyAssumption
<1>2. /\ m \in Nat /\ q \in Nat /\ m * s <= a /\ a < m * s + s
      /\ q * t <= a /\ a < q * t + t
  BY <1>1
<1>3. t = k * s
  OBVIOUS
<1> HIDE DEF s, t, m, q
<1>4. q * t = (q * k) * s
  BY <1>1, <1>2, <1>3
<1>5. q * k \in Nat
  BY <1>2
<1>6. q * k <= m
  <2> DEFINE p == q * k
  <2>1. SUFFICES ASSUME p >= m + 1 PROVE FALSE
    BY <1>2, <1>5
  <2>2. p \in Nat /\ p * s <= a
    BY <1>2, <1>4, <1>5
  <2> HIDE DEF p
  <2>3. p * s >= (m + 1) * s
    BY <1>1, <1>2, <2>1, <2>2
  <2>4. (m + 1) * s = m * s + s
    BY <1>1, <1>2
  <2> QED
    BY <1>1, <1>2, <2>2, <2>3, <2>4
<1>7. q * t <= m * s
  <2>1. (q * k) * s <= m * s
    BY <1>1, <1>2, <1>5, <1>6
  <2> QED
    BY <1>4, <2>1
<1>8. m * s \in Nat /\ m * s < q * t + t
  BY <1>1, <1>2
<1>9. (m * s) \div t = q
  BY <1>1, <1>2, <1>7, <1>8, QuotientIs
<1> QED
  BY <1>9 DEF L1!LineAddress, L2!LineAddress, m, q, s, t

-----------------------------------------------------------------------------
(* What becomes of stores.                                                  *)

\* The lines of L2.
Lines == 0 .. AddressSpace - 2

\* From c to n, L2 owes the level below at most count of its dirty lines no longer.
Leaves(c, n, gone, count) ==
  /\ IsFiniteSet(gone) /\ Cardinality(gone) <= count
  /\ \A line \in Lines : L2!HoldsDirty(c, line) => L2!HoldsDirty(n, line) \/ line \in gone

\* One line is evicted at a time.
LEMMA OneLineLeaves ==
  ASSUME NEW c, NEW r, C2!Preserves(c, r), r.result.dirty_eviction \in BOOLEAN
  PROVE  \E gone : Leaves(c, r.cache, gone, IF r.result.dirty_eviction THEN 1 ELSE 0)
<1> DEFINE e == r.result.evicted_address \div L2LineSize
           gone == IF r.result.dirty_eviction THEN {e} ELSE {}
<1>1. IsFiniteSet(gone) /\ Cardinality(gone) = IF r.result.dirty_eviction THEN 1 ELSE 0
  BY FS_EmptySet, FS_Singleton
<1>2. C2!Tag \ {C2!EmptyTag} = Lines
  BY HierarchyAssumption DEF C2!Tag, C2!EmptyTag, Lines
<1>3. ASSUME NEW line \in Lines, L2!HoldsDirty(c, line)
      PROVE  L2!HoldsDirty(r.cache, line) \/ line \in gone
  <2>1. \/ L2!HoldsDirty(r.cache, line)
        \/ r.result.dirty_eviction /\ r.result.evicted_address = line * L2LineSize
    BY <1>2, <1>3, SameL2 DEF C2!Preserves
  <2>2. line \in Nat /\ L2LineSize \in Nat /\ L2LineSize > 0
    BY HierarchyAssumption DEF Lines
  <2>3. (line * L2LineSize) \div L2LineSize = line
    <3>1. line * L2LineSize \in Nat
      BY <2>2
    <3> QED
      BY <2>2, <3>1, QuotientIs
  <2> QED
    BY <2>1, <2>3
<1>4. Leaves(c, r.cache, gone, IF r.result.dirty_eviction THEN 1 ELSE 0)
  <2> HIDE DEF gone
  <2> QED
    BY <1>1, <1>3 DEF Leaves
<1> QED
  BY <1>4

\* Two evictions, one after the other.
LEMMA TwoLinesLeave ==
  ASSUME NEW c, NEW n, NEW o, NEW gone, NEW more, NEW j \in Nat, NEW k \in Nat,
         Leaves(c, n, gone, j), Leaves(n, o, more, k)
  PROVE  Leaves(c, o, gone \cup more, j + k)
<1>1. /\ IsFiniteSet(gone \cup more)
      /\ Cardinality(gone) \in Nat /\ Cardinality(more) \in Nat
      /\ Cardinality(gone \cup more) \in Nat /\ Cardinality(gone \cap more) \in Nat
      /\ Cardinality(gone \cup more) =
           Cardinality(gone) + Cardinality(more) - Cardinality(gone \cap more)
  BY FS_Union, FS_Intersection, FS_CardinalityType DEF Leaves
<1>2. Cardinality(gone \cup more) <= j + k
  BY <1>1 DEF Leaves
<1> QED
  BY <1>1, <1>2 DEF Leaves

\* What is below L1: what DRAM has written pays for the lines that leave L2.
Pays(b, n, gone) == /\ C2!WellFormed(n.l2)
                    /\ b.memory.writes \in Nat /\ n.memory.writes \in Nat
                    /\ Leaves(b.l2, n.l2, gone, n.memory.writes - b.memory.writes)

\* The fill of a miss.
LEMMA FillPays ==
  ASSUME NEW b, b.has_l2, C2!WellFormed(b.l2), b.memory.writes \in Nat,
         NEW address \in Address, NEW cycle
  PROVE  LET f == Fill(b, address, cycle).below
         IN  f.has_l2 /\ \E gone : Pays(b, f, gone)
<1> DEFINE r     == L2!Access(b.l2, address, FALSE)
           f     == Fill(b, address, cycle).below
           dram  == MemoryRead(b.memory, cycle + (L1Latency + L2Latency))
           behind == WriteBehind(dram.memory, r.result.dirty_eviction, cycle)
<1>1. C2!WellFormed(r.cache) /\ r.result \in C2!CacheResult /\ C2!Preserves(b.l2, r)
      /\ (r.result.hit => ~r.result.dirty_eviction)
  <2>1. address \in C2!Address
    BY DEF Address, C2!Address
  <2> QED
    BY <2>1, C2!AccessCorrect, BothAssumptions, SameL2
<1>2. r.result.dirty_eviction \in BOOLEAN
  BY <1>1 DEF C2!CacheResult
<1>3. f = Below(b.has_l2, r.cache, IF r.result.hit THEN b.memory ELSE behind)
  BY FillIs
<1>4. behind.writes = b.memory.writes + IF r.result.dirty_eviction THEN 1 ELSE 0
  <2>1. dram.memory.writes = b.memory.writes
    BY DEF MemoryRead, CountTransfer, OccupyBus
  <2> DEFINE m == dram.memory
  <2>2. MemoryWrite(m, cycle).writes = m.writes + 1
    BY DEF MemoryWrite, CountTransfer, OccupyBus
  <2> HIDE DEF r, m
  <2>3. WriteBehind(m, r.result.dirty_eviction, cycle).writes
          = m.writes + IF r.result.dirty_eviction THEN 1 ELSE 0
    BY <1>2, <2>1, <2>2 DEF WriteBehind, m
  <2> QED
    BY <2>1, <2>3 DEF m
<1> HIDE DEF r, behind
<1>5. /\ f.has_l2 /\ f.l2 = r.cache
      /\ f.memory.writes = b.memory.writes + IF r.result.dirty_eviction THEN 1 ELSE 0
  BY <1>1, <1>3, <1>4 DEF Below
<1> HIDE DEF f
<1>6. PICK gone : Leaves(b.l2, r.cache, gone, IF r.result.dirty_eviction THEN 1 ELSE 0)
  BY <1>1, <1>2, OneLineLeaves
<1>7. f.memory.writes \in Nat
      /\ f.memory.writes - b.memory.writes = IF r.result.dirty_eviction THEN 1 ELSE 0
  BY <1>2, <1>5
<1>8. Pays(b, f, gone)
  BY <1>1, <1>5, <1>6, <1>7 DEF Pays
<1> QED
  BY <1>5, <1>8 DEF f

\* The write-back of an L1 line, which L2 then owes.
LEMMA WritebackPays ==
  ASSUME NEW b, b.has_l2, C2!WellFormed(b.l2), b.memory.writes \in Nat,
         NEW address \in Address, NEW cycle
  PROVE  LET f == WritebackFromL1(b, address, cycle)
         IN  /\ \E gone : Pays(b, f, gone)
             /\ L2!HoldsDirty(f.l2, L2!LineAddress(address))
<1> DEFINE r == L2!InstallWriteback(b.l2, address)
           f == WritebackFromL1(b, address, cycle)
<1>1. /\ C2!WellFormed(r.cache) /\ r.result \in C2!CacheResult /\ C2!Preserves(b.l2, r)
      /\ L2!HoldsDirty(r.cache, L2!LineAddress(address))
  <2>1. address \in C2!Address
    BY DEF Address, C2!Address
  <2> QED
    BY <2>1, C2!InstallCorrect, BothAssumptions, SameL2
<1>2. r.result.dirty_eviction \in BOOLEAN
  BY <1>1 DEF C2!CacheResult
<1>3. f = Below(b.has_l2, r.cache,
               IF r.result.dirty_eviction THEN MemoryWrite(b.memory, cycle) ELSE b.memory)
  BY WritebackIs
<1>4. MemoryWrite(b.memory, cycle).writes = b.memory.writes + 1
  BY DEF MemoryWrite, CountTransfer, OccupyBus
<1> HIDE DEF r
<1>5. /\ f.l2 = r.cache
      /\ f.memory.writes = b.memory.writes + IF r.result.dirty_eviction THEN 1 ELSE 0
  BY <1>2, <1>3, <1>4 DEF Below
<1> HIDE DEF f
<1>6. PICK gone : Leaves(b.l2, r.cache, gone, IF r.result.dirty_eviction THEN 1 ELSE 0)
  BY <1>1, <1>2, OneLineLeaves
<1>7. f.memory.writes \in Nat
      /\ f.memory.writes - b.memory.writes = IF r.result.dirty_eviction THEN 1 ELSE 0
  BY <1>2, <1>5
<1>8. Pays(b, f, gone)
  BY <1>1, <1>5, <1>6, <1>7 DEF Pays
<1> QED
  BY <1>1, <1>5, <1>8 DEF f

\* The hierarchy between two accesses.
Sound(h) == /\ h = [has_l2 |-> h.has_l2, l1 |-> h.l1, l2 |-> h.l2, memory |-> h.memory]
            /\ C1!WellFormed(h.l1) /\ C2!WellFormed(h.l2)
            /\ ~h.has_l2 => \A line \in Lines : ~L2!HoldsDirty(h.l2, line)
            /\ h.memory.writes \in Nat

\* L2 lines hold whole L1 lines.
Nested == \E k \in Nat : L2LineSize = k * L1LineSize

\* From h to n, what DRAM has written pays for the stores that n owes no longer.
StoresPaid(h, n) ==
  \E gone : /\ IsFiniteSet(gone) /\ Cardinality(gone) <= n.memory.writes - h.memory.writes
            /\ \A a \in Address :
                 DirtyInHierarchy(h, a) => DirtyInHierarchy(n, a) \/ MemoryLine(h, a) \in gone

\* An access of L1, its addresses and its lines.
LEMMA L1Keeps ==
  ASSUME NEW c, C1!WellFormed(c), NEW address \in Address, NEW isWrite \in BOOLEAN
  PROVE  LET r == L1!Access(c, address, isWrite)
         IN  /\ C1!WellFormed(r.cache)
             /\ r.result.hit \in BOOLEAN /\ r.result.dirty_eviction \in BOOLEAN
             /\ r.result.evicted_address \in Address
             /\ r.result.hit => ~r.result.dirty_eviction
             /\ isWrite => L1!HoldsDirty(r.cache, L1!LineAddress(address))
             /\ \A a \in Address :
                  LET line == L1!LineAddress(a)
                  IN  L1!HoldsDirty(c, line) =>
                        \/ L1!HoldsDirty(r.cache, line)
                        \/ /\ r.result.dirty_eviction
                           /\ r.result.evicted_address = line * L1LineSize
<1> DEFINE r == L1!Access(c, address, isWrite)
<1>1. Address = C1!Address
  BY DEF Address, C1!Address
<1>2. /\ C1!WellFormed(r.cache) /\ r.result \in C1!CacheResult /\ C1!Preserves(c, r)
      /\ r.result.hit => ~r.result.dirty_eviction
      /\ isWrite => L1!HoldsDirty(r.cache, L1!LineAddress(address))
  BY <1>1, C1!AccessCorrect, BothAssumptions, SameL1
<1> HIDE DEF r
<1>3. /\ r.result.hit \in BOOLEAN /\ r.result.dirty_eviction \in BOOLEAN
      /\ r.result.evicted_address \in Address
  BY <1>1, <1>2 DEF C1!CacheResult
<1>4. ASSUME NEW a \in Address, L1!HoldsDirty(c, L1!LineAddress(a))
      PROVE  \/ L1!HoldsDirty(r.cache, L1!LineAddress(a))
             \/ /\ r.result.dirty_eviction
                /\ r.result.evicted_address = L1!LineAddress(a) * L1LineSize
  <2>1. L1!LineAddress(a) \in C1!Tag \ {C1!EmptyTag}
    BY <1>1, C1!LineIsReal, BothAssumptions, SameL1
  <2> QED
    BY <1>2, <1>4, <2>1, SameL1 DEF C1!Preserves
<1> QED
  BY <1>2, <1>3, <1>4 DEF r

\* Every address lies in a line of L2.
LEMMA L2LineIsLine == \A a \in Address : L2!LineAddress(a) \in Lines
<1> SUFFICES ASSUME NEW a \in Address PROVE L2!LineAddress(a) \in Lines
  OBVIOUS
<1>1. a \in C2!Address
  BY DEF Address, C2!Address
<1>2. L2!LineAddress(a) \in C2!Tag /\ L2!LineAddress(a) # C2!EmptyTag
  BY <1>1, C2!LineIsReal, BothAssumptions, SameL2
<1> QED
  BY <1>2, HierarchyAssumption DEF C2!Tag, C2!EmptyTag, Lines

\* Every access pays for the stores that leave the caches.
LEMMA AccessPays ==
  ASSUME NEW h, Sound(h), h.has_l2 => Nested,
         NEW address \in Address, NEW isWrite \in BOOLEAN, NEW cycle
  PROVE  LET n == HierarchyAccess(h, address, isWrite, cycle).hierarchy
         IN  /\ Sound(n) /\ n.has_l2 = h.has_l2
             /\ isWrite => DirtyInHierarchy(n, address)
             /\ StoresPaid(h, n)
<1> DEFINE r == L1!Access(h.l1, address, isWrite)
           n == HierarchyAccess(h, address, isWrite, cycle).hierarchy
           b == Beneath(h)
           f == Fill(b, address, cycle).below
           w == WritebackFromL1(f, r.result.evicted_address, cycle)
           below == IF r.result.dirty_eviction THEN w ELSE f
           Kept(a) == \/ L1!HoldsDirty(r.cache, L1!LineAddress(a))
                      \/ /\ r.result.dirty_eviction
                         /\ r.result.evicted_address = L1!LineAddress(a) * L1LineSize
<1>1. /\ C1!WellFormed(r.cache)
      /\ r.result.hit \in BOOLEAN /\ r.result.dirty_eviction \in BOOLEAN
      /\ r.result.evicted_address \in Address
      /\ r.result.hit => ~r.result.dirty_eviction
      /\ isWrite => L1!HoldsDirty(r.cache, L1!LineAddress(address))
      /\ \A a \in Address : L1!HoldsDirty(h.l1, L1!LineAddress(a)) => Kept(a)
  BY L1Keeps DEF Sound
<1>2. n = IF r.result.hit
          THEN [h EXCEPT !.l1 = r.cache]
          ELSE [has_l2 |-> h.has_l2, l1 |-> r.cache, l2 |-> below.l2, memory |-> below.memory]
  BY DEF HierarchyAccess, Beneath
<1>3. /\ b.has_l2 = h.has_l2 /\ b.l2 = h.l2 /\ b.memory = h.memory
      /\ b.memory.writes \in Nat /\ C2!WellFormed(b.l2)
  BY DEF Beneath, Below, Sound
<1> HIDE DEF r, n, b
<1>4. isWrite => DirtyInHierarchy(n, address)
  <2>1. n.l1 = r.cache
    BY <1>2 DEF Sound
  <2> QED
    BY <1>1, <2>1 DEF DirtyInHierarchy
<1>5. CASE r.result.hit
  <2>1. n = [has_l2 |-> h.has_l2, l1 |-> r.cache, l2 |-> h.l2, memory |-> h.memory]
    BY <1>2, <1>5 DEF Sound
  <2>2. Sound(n) /\ n.has_l2 = h.has_l2
    BY <1>1, <2>1 DEF Sound
  <2>3. \A a \in Address : DirtyInHierarchy(h, a) => DirtyInHierarchy(n, a)
    BY <1>1, <1>5, <2>1 DEF DirtyInHierarchy
  <2>4. IsFiniteSet({}) /\ Cardinality({}) <= n.memory.writes - h.memory.writes
    <3>1. n.memory.writes - h.memory.writes = 0
      BY <2>1 DEF Sound
    <3> QED
      BY <3>1, FS_EmptySet
  <2>5. StoresPaid(h, n)
    BY <2>3, <2>4 DEF StoresPaid
  <2> QED
    BY <1>4, <2>2, <2>5 DEF n
<1>6. CASE ~r.result.hit /\ ~h.has_l2
  <2> DEFINE written == n.memory.writes - h.memory.writes
             gone == IF r.result.dirty_eviction
                     THEN {r.result.evicted_address \div L1LineSize} ELSE {}
  <2>1. /\ f.l2 = h.l2 /\ ~f.has_l2
        /\ f.memory.writes = h.memory.writes
    <3>1. f = Below(b.has_l2, b.l2, MemoryRead(b.memory, cycle + L1Latency).memory)
      BY <1>3, <1>6, FillIs
    <3> QED
      BY <1>3, <1>6, <3>1 DEF Below, MemoryRead, CountTransfer, OccupyBus
  <2> HIDE DEF f
  <2>2. /\ below.l2 = h.l2
        /\ below.memory.writes = h.memory.writes + IF r.result.dirty_eviction THEN 1 ELSE 0
    <3>1. w = Below(f.has_l2, f.l2, MemoryWrite(f.memory, cycle))
      BY <2>1, WritebackIs
    <3>2. w.l2 = h.l2 /\ w.memory.writes = h.memory.writes + 1
      BY <2>1, <3>1 DEF Below, MemoryWrite, CountTransfer, OccupyBus
    <3> HIDE DEF w
    <3>3. h.memory.writes \in Nat
      BY DEF Sound
    <3> QED
      BY <1>1, <2>1, <3>2, <3>3
  <2> HIDE DEF below
  <2>3. n = [has_l2 |-> h.has_l2, l1 |-> r.cache, l2 |-> h.l2, memory |-> below.memory]
    BY <1>2, <1>6, <2>2
  <2>4. n.memory.writes \in Nat /\ written = IF r.result.dirty_eviction THEN 1 ELSE 0
    BY <1>1, <2>2, <2>3 DEF Sound
  <2>5. Sound(n) /\ n.has_l2 = h.has_l2
    BY <1>1, <2>3, <2>4 DEF Sound
  <2>6. IsFiniteSet(gone) /\ Cardinality(gone) <= written
    <3>1. IsFiniteSet(gone) /\ Cardinality(gone) = IF r.result.dirty_eviction THEN 1 ELSE 0
      BY FS_EmptySet, FS_Singleton
    <3> HIDE DEF written, gone
    <3> QED
      BY <1>1, <2>4, <3>1
  <2>7. ASSUME NEW a \in Address, DirtyInHierarchy(h, a)
        PROVE  DirtyInHierarchy(n, a) \/ MemoryLine(h, a) \in gone
    <3>1. L1!HoldsDirty(h.l1, L1!LineAddress(a))
      BY <1>6, <2>7, L2LineIsLine DEF DirtyInHierarchy, Sound
    <3>2. Kept(a)
      BY <1>1, <3>1
    <3>3. L1!LineAddress(a) \in Nat /\ L1LineSize \in Nat /\ L1LineSize > 0
      BY HierarchyAssumption DEF L1!LineAddress, Address
    <3>4. (L1!LineAddress(a) * L1LineSize) \div L1LineSize = L1!LineAddress(a)
      <4>1. L1!LineAddress(a) * L1LineSize \in Nat
        BY <3>3
      <4> QED
        BY <3>3, <4>1, QuotientIs
    <3> QED
      BY <1>6, <2>3, <3>2, <3>4 DEF DirtyInHierarchy, MemoryLine
  <2>8. StoresPaid(h, n)
    <3> HIDE DEF gone
    <3> QED
      BY <2>6, <2>7 DEF StoresPaid
  <2> QED
    BY <1>4, <2>5, <2>8 DEF n
<1>7. CASE ~r.result.hit /\ h.has_l2
  <2>1. f.has_l2 /\ \E gone : Pays(b, f, gone)
    BY <1>3, <1>7, FillPays
  <2>2. PICK gone : Pays(b, f, gone)
    BY <2>1
  <2> HIDE DEF f
  <2>3. /\ \E more : Pays(f, w, more)
        /\ L2!HoldsDirty(w.l2, L2!LineAddress(r.result.evicted_address))
    BY <1>1, <2>1, <2>2, WritebackPays DEF Pays
  <2>4. PICK more : Pays(f, below, more)
    <3>1. CASE r.result.dirty_eviction
      BY <2>3, <3>1
    <3>2. CASE ~r.result.dirty_eviction
      <4>1. Leaves(f.l2, f.l2, {}, f.memory.writes - f.memory.writes)
        BY <2>2, FS_EmptySet DEF Leaves, Pays
      <4>2. Pays(f, f, {})
        BY <2>2, <4>1 DEF Pays
      <4> QED
        BY <3>2, <4>2
    <3> QED
      BY <3>1, <3>2
  <2>5. r.result.dirty_eviction =>
          L2!HoldsDirty(below.l2, L2!LineAddress(r.result.evicted_address))
    BY <2>3
  <2> HIDE DEF below
  <2>6. n = [has_l2 |-> h.has_l2, l1 |-> r.cache, l2 |-> below.l2, memory |-> below.memory]
    BY <1>2, <1>7
  <2>7. Sound(n) /\ n.has_l2 = h.has_l2
    BY <1>1, <1>7, <2>4, <2>6 DEF Sound, Pays
  <2> DEFINE j == f.memory.writes - b.memory.writes
             k == below.memory.writes - f.memory.writes
  <2>8. Leaves(h.l2, n.l2, gone \cup more, n.memory.writes - h.memory.writes)
    <3>1. /\ j \in Int /\ k \in Int
          /\ j + k = n.memory.writes - h.memory.writes
      BY <1>3, <2>2, <2>4, <2>6 DEF Pays
    <3>2. Leaves(h.l2, f.l2, gone, j) /\ Leaves(f.l2, n.l2, more, k)
      BY <1>3, <2>2, <2>4, <2>6 DEF Pays
    <3>3. Cardinality(gone) \in Nat /\ Cardinality(more) \in Nat
      BY <3>2, FS_CardinalityType DEF Leaves
    <3>4. j \in Nat /\ k \in Nat
      BY <3>1, <3>2, <3>3 DEF Leaves
    <3> HIDE DEF j, k
    <3>5. Leaves(h.l2, n.l2, gone \cup more, j + k)
      BY <3>2, <3>4, TwoLinesLeave
    <3> QED
      BY <3>1, <3>5
  <2>9. ASSUME NEW a \in Address, DirtyInHierarchy(h, a)
        PROVE  DirtyInHierarchy(n, a) \/ MemoryLine(h, a) \in gone \cup more
    <3>1. CASE L1!HoldsDirty(h.l1, L1!LineAddress(a))
      <4>1. Kept(a)
        BY <1>1, <3>1
      <4>2. PICK m \in Nat : L2LineSize = m * L1LineSize
        BY <1>7 DEF Nested
      <4>3. L2!LineAddress(L1!LineAddress(a) * L1LineSize) = L2!LineAddress(a)
        <5>1. a \in Nat
          BY HierarchyAssumption DEF Address
        <5> QED
          BY <4>2, <5>1, LineInLine
      <4> QED
        BY <2>5, <2>6, <4>1, <4>3 DEF DirtyInHierarchy
    <3>2. CASE L2!HoldsDirty(h.l2, L2!LineAddress(a))
      <4>1. L2!HoldsDirty(n.l2, L2!LineAddress(a)) \/ L2!LineAddress(a) \in gone \cup more
        BY <2>8, <3>2, L2LineIsLine DEF Leaves
      <4> QED
        BY <1>7, <4>1 DEF DirtyInHierarchy, MemoryLine
    <3> QED
      BY <2>9, <3>1, <3>2 DEF DirtyInHierarchy
  <2>10. StoresPaid(h, n)
    <3> DEFINE all == gone \cup more
    <3>1. /\ IsFiniteSet(all) /\ Cardinality(all) <= n.memory.writes - h.memory.writes
          /\ \A a \in Address : DirtyInHierarchy(h, a) =>
                                  DirtyInHierarchy(n, a) \/ MemoryLine(h, a) \in all
      BY <2>8, <2>9 DEF Leaves
    <3> HIDE DEF all
    <3> QED
      BY <3>1 DEF StoresPaid
  <2> QED
    BY <1>4, <2>7, <2>10 DEF n
<1> QED
  BY <1>1, <1>5, <1>6, <1>7

\* Every store that has not reached DRAM is owed by a cache.
Owed == /\ Sound(hierarchy) /\ hierarchy.has_l2 \in L2Options
        /\ \A a \in stored : a \in Address /\ DirtyInHierarchy(hierarchy, a)

\* A new hierarchy owes nothing.
LEMMA InitIsOwed == Init => Owed
<1> SUFFICES ASSUME Init PROVE Owed
  OBVIOUS
<1>1. PICK hasL2 \in L2Options : hierarchy = NewHierarchy(hasL2)
  BY DEF Init
<1>2. /\ hierarchy = [has_l2 |-> hasL2, l1 |-> L1!NewCache, l2 |-> L2!NewCache,
                      memory |-> NewMemory]
      /\ stored = {}
  BY <1>1 DEF Init, NewHierarchy
<1>3. C1!WellFormed(L1!NewCache) /\ C2!WellFormed(L2!NewCache)
  BY C1!NewCacheWellFormed, C2!NewCacheWellFormed, BothAssumptions, SameL1, SameL2
<1>4. \A line \in Lines : L2!SetIndex(line) \in L2!Sets
  BY HierarchyAssumption DEF L2!SetIndex, L2!Sets, Lines
<1>5. \A line \in Lines : ~L2!HoldsDirty(L2!NewCache, line)
  BY <1>4 DEF L2!HoldsDirty, L2!NewCache, L2!EmptyRow
<1>6. NewMemory.writes \in Nat
  BY DEF NewMemory
<1> QED
  BY <1>1, <1>2, <1>3, <1>5, <1>6 DEF Owed, Sound

\* Every access keeps it and pays for what is no longer owed.
LEMMA StepPays ==
  ASSUME Owed, TRUE \in L2Options => Nested,
         NEW address \in Addresses, NEW isWrite \in BOOLEAN, NEW gap \in Gaps,
         Access(address, isWrite, gap)
  PROVE  /\ Owed' /\ StoresPaid(hierarchy, hierarchy')
         /\ \A a \in stored' \ stored : DirtyInHierarchy(hierarchy', a)
<1> DEFINE n == HierarchyAccess(hierarchy, address, isWrite, now + gap).hierarchy
<1>1. /\ hierarchy' = n
      /\ stored' = {a \in stored : DirtyInHierarchy(n, a)} \cup (IF isWrite THEN {address} ELSE {})
  BY DEF Access
<1>2. address \in Address
  BY DriverAssumption DEF Address
<1>3. /\ Sound(n) /\ n.has_l2 = hierarchy.has_l2
      /\ isWrite => DirtyInHierarchy(n, address)
      /\ StoresPaid(hierarchy, n)
  <2>1. Sound(hierarchy) /\ (hierarchy.has_l2 => Nested)
    BY DEF Owed
  <2> QED
    BY <1>2, <2>1, AccessPays
<1> HIDE DEF n
<1>4. \A a \in stored' : a \in Address /\ DirtyInHierarchy(n, a)
  BY <1>1, <1>2, <1>3 DEF Owed
<1>5. Owed'
  BY <1>1, <1>3, <1>4 DEF Owed
<1> QED
  BY <1>1, <1>3, <1>4, <1>5

\* No store is lost between the levels, whatever L1 and L2 evict in between, as long as
\* an L2 line holds whole L1 lines (memory.cpp:49-90).
THEOREM StoresReachMemory ==
  ASSUME TRUE \in L2Options => Nested
  PROVE  Spec => NoStoreLost
<1> DEFINE Lost    == {a \in stored \cup stored' : ~DirtyInHierarchy(hierarchy', a)}
           Paid    == LET cleaned == {a \in stored \cup stored' : ~DirtyInHierarchy(hierarchy', a)}
                      IN  Cardinality({MemoryLine(hierarchy, a) : a \in cleaned})
                            <= hierarchy'.memory.writes - hierarchy.memory.writes
           Written == hierarchy'.memory.writes - hierarchy.memory.writes
<1>1. ASSUME Owed, [Next]_vars
      PROVE  Owed' /\ [Paid]_vars
  <2>1. CASE UNCHANGED vars
    BY <1>1, <2>1 DEF vars, Owed
  <2>2. ASSUME NEW address \in Addresses, NEW isWrite \in BOOLEAN, NEW gap \in Gaps,
               Access(address, isWrite, gap)
        PROVE  Owed' /\ Cardinality({MemoryLine(hierarchy, a) : a \in Lost}) <= Written
    <3>1. /\ Owed' /\ StoresPaid(hierarchy, hierarchy')
          /\ \A a \in stored' \ stored : DirtyInHierarchy(hierarchy', a)
      BY <1>1, <2>2, StepPays
    <3>2. PICK gone : 
            /\ IsFiniteSet(gone) /\ Cardinality(gone) <= Written
            /\ \A a \in Address : DirtyInHierarchy(hierarchy, a) =>
                 DirtyInHierarchy(hierarchy', a) \/ MemoryLine(hierarchy, a) \in gone
      BY <3>1 DEF StoresPaid
    <3>3. \A a \in Lost : MemoryLine(hierarchy, a) \in gone
      BY <1>1, <3>1, <3>2 DEF Owed
    <3>4. {MemoryLine(hierarchy, a) : a \in Lost} \subseteq gone
      BY <3>3
    <3>5. Written \in Int
      BY <1>1, <3>1 DEF Owed, Sound
    <3> DEFINE lines == {MemoryLine(hierarchy, a) : a \in Lost}
    <3> HIDE DEF lines, Lost, Written
    <3>6. Cardinality(lines) \in Nat /\ Cardinality(gone) \in Nat
          /\ Cardinality(lines) <= Cardinality(gone)
      BY <3>2, <3>4, FS_Subset, FS_CardinalityType DEF lines
    <3>7. Cardinality(lines) <= Written
      BY <3>2, <3>5, <3>6
    <3> QED
      BY <3>1, <3>7 DEF lines
  <2> QED
    BY <1>1, <2>1, <2>2 DEF Next
<1>2. Init => Owed
  BY InitIsOwed
<1> HIDE DEF Paid
<1>3. Spec => [][Paid]_vars
  BY <1>1, <1>2, PTL DEF Spec
<1> QED
  BY <1>3, PTL DEF NoStoreLost, Paid
=============================================================================
