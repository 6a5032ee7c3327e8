------------------------------- MODULE Cache -------------------------------
(***************************************************************************)
(* One level of cache driven by any sequence of demand accesses and         *)
(* incoming write-backs (class Cache).  The level above decides which       *)
(* operation comes next, so every order is a behaviour.                     *)
(***************************************************************************)
EXTENDS CacheOps

CONSTANTS Addresses,   \* the addresses the level above uses
          MaxTick      \* bound on tick_, that is on the length of the run

ASSUME DriverAssumption == Addresses \subseteq Address /\ MaxTick \in Nat

VARIABLES cache,       \* the Cache object
          result       \* the CacheResult of the last call

vars == <<cache, result>>

Init == /\ cache  = NewCache
        /\ result = [hit |-> FALSE, dirty_eviction |-> FALSE, evicted_address |-> 0]

Return(r) == cache' = r.cache /\ result' = r.result

DemandAccess(address, isWrite) ==
  /\ cache.tick < MaxTick
  /\ Return(Access(cache, address, isWrite))

IncomingWriteback(address) ==
  /\ cache.tick < MaxTick
  /\ Return(InstallWriteback(cache, address))

Next == \/ \E address \in Addresses, isWrite \in BOOLEAN : DemandAccess(address, isWrite)
        \/ \E address \in Addresses : IncomingWriteback(address)

Spec == Init /\ [][Next]_vars

-----------------------------------------------------------------------------

\* The values the members of the object may take.
TypeOK == cache \in CacheState /\ result \in CacheResult

\* A line is in at most one way, and only in the set its address selects:
\* find_way stops at the first match, so a second copy would be one that
\* writes no longer reach (cache.cpp:18-24).
UniqueResidency == UniqueLines(cache)

\* The claim of cache.hpp:63-65 and what makes "the oldest" one way: an empty
\* way is clean with timestamp 0, a filled one has a timestamp of its own in
\* 1..tick_, so no filled way is evicted while an empty one is left.
TimestampOrder == OrderedTimestamps(cache)

DirtyLines == {line \in Resident(cache) : HoldsDirty(cache, line)}

\* The statistics add up: every call is a hit, a miss or an incoming
\* write-back; no line is resident that was not filled; and each line written
\* back or still dirty was dirtied by a call of its own, so that eviction never
\* writes the same store back twice (cache.hpp:11-16, cache.cpp:39-51).
StatsAccount ==
  LET st == cache.stats
  IN  /\ st["accesses"] = st["hits"] + st["misses"]
      /\ cache.tick  = st["accesses"] + st["writebacks_in"]
      /\ Cardinality(Resident(cache)) <= st["misses"] + st["writebacks_in"]
      /\ st["writebacks"] + Cardinality(DirtyLines) <= cache.tick

\* A dirty line leaves the cache only by a write-back that names its address:
\* what the level below must receive (cache.cpp:39-51).
DirtyLeavesByWriteback ==
  [][\A line \in DirtyLines :
        \/ HoldsDirty(cache', line)
        \/ /\ result'.dirty_eviction
           /\ result'.evicted_address = line * LineSize
           /\ cache'.stats["writebacks"] = cache.stats["writebacks"] + 1]_vars

-----------------------------------------------------------------------------
(* The ways of a set, listed by decreasing timestamp, are the recency list  *)
(* of the abstract cache.                                                   *)

Filled(row) == {w \in Ways : row.tags[w] # EmptyTag}

NthRecent(row, n) ==
  CHOOSE w \in Filled(row) :
    Cardinality({v \in Filled(row) : row.used[v] > row.used[w]}) = n - 1

RecencyOf(row) ==
  [n \in 1 .. Cardinality(Filled(row)) |->
     LET w == NthRecent(row, n) IN [line |-> row.tags[w], dirty |-> row.dirty[w]]]

Lru == INSTANCE LruCache WITH recency <- [s \in Sets |-> RecencyOf(cache.rows[s])]

\* Ways, timestamps and the all-ones sentinel implement exact LRU replacement.
ImplementsLru == Lru!Spec
=============================================================================
