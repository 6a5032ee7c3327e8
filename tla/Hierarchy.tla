----------------------------- MODULE Hierarchy -----------------------------
(***************************************************************************)
(* The memory hierarchy driven by any sequence of loads and stores at        *)
(* cycles that never decrease, which is how the CPU calls it.               *)
(***************************************************************************)
EXTENDS HierarchyOps, FiniteSetsExt

CONSTANTS Addresses,      \* the addresses the CPU uses
          Gaps,           \* how many cycles may pass between two accesses
          MaxAccesses     \* bound on the number of accesses

ASSUME DriverAssumption == /\ Addresses \subseteq 0 .. AddressSpace-1
                           /\ Gaps \subseteq Nat
                           /\ MaxAccesses \in Nat

VARIABLES hierarchy,      \* the MemoryHierarchy object
          outcome,        \* the AccessOutcome of the last access
          now,            \* the cycle of the last access
          stored          \* history: addresses stored to and not yet clean again

vars == <<hierarchy, outcome, now, stored>>

Init == /\ \E hasL2 \in L2Options : hierarchy = NewHierarchy(hasL2)
        /\ outcome   = AccessOutcome("L1", 0, 0)
        /\ now       = 0
        /\ stored    = {}

Access(address, isWrite, gap) ==
  LET r == HierarchyAccess(hierarchy, address, isWrite, now + gap)
  IN  /\ hierarchy.l1.stats["accesses"] < MaxAccesses
      /\ now'       = now + gap
      /\ hierarchy' = r.hierarchy
      /\ outcome'   = r.outcome
      /\ stored'    = {a \in stored : DirtyInHierarchy(r.hierarchy, a)}
                        \cup (IF isWrite THEN {address} ELSE {})

Next == \E address \in Addresses, isWrite \in BOOLEAN, gap \in Gaps :
          Access(address, isWrite, gap)

Spec == Init /\ [][Next]_vars

-----------------------------------------------------------------------------

\* What one level sends is what the next receives, event for event: each L1 miss
\* is one demand access below, each dirty L1 victim one incoming write-back, and
\* DRAM sees exactly the misses and the dirty victims of the last level
\* (memory.cpp:49-90).
TrafficConserved ==
  LET l1 == hierarchy.l1.stats
      l2 == hierarchy.l2.stats
      m  == hierarchy.memory
  IN  IF hierarchy.has_l2
      THEN /\ l2["accesses"]      = l1["misses"]
           /\ l2["writebacks_in"] = l1["writebacks"]
           /\ m.reads             = l2["misses"]
           /\ m.writes            = l2["writebacks"]
      ELSE /\ m.reads             = l1["misses"]
           /\ m.writes            = l1["writebacks"]

\* No store is forgotten: a store leaves its line dirty at once, and a line that
\* was stored to stops being dirty everywhere only by a DRAM write of its own,
\* whatever L1 and L2 evict in between and even when L2 has evicted a line that L1
\* still holds (memory.cpp:49-56, 60, 79, 88).
NoStoreLost ==
  [][LET cleaned == {a \in stored \cup stored' : ~DirtyInHierarchy(hierarchy', a)}
     IN  Cardinality({MemoryLine(hierarchy, a) : a \in cleaned})
           <= hierarchy'.memory.writes - hierarchy.memory.writes]_vars

\* The bus is never in two places: since the start it has carried every transfer
\* for its full duration, one after the other, and it is idle only until the last
\* request that found it idle (memory.cpp:15-23).
BusSerialised ==
  LET m == hierarchy.memory
      last == (now + L1Latency + L2Latency) * SubCycle
  IN  /\ Transfers(m) * TransferTicks <= m.bus_free
      /\ m.bus_free <= last + Transfers(m) * TransferTicks
=============================================================================
