------------------------------ MODULE CacheOps ------------------------------
(***************************************************************************)
(* One level of cache (include/cache.hpp, src/cache.cpp) as a value and the *)
(* operations on it.  A cache is a record                                   *)
(*                                                                         *)
(*   rows   rows[s] is the slice [s * associativity, (s+1) * associativity) *)
(*          of the parallel arrays tags_, used_ and dirty_                  *)
(*   tick   tick_, the clock that timestamps every access                   *)
(*   stats  CacheStats                                                      *)
(*                                                                         *)
(* and an operation returns [cache |-> ..., result |-> ...], the cache after *)
(* the call and the CacheResult it returned.  Addresses are the words       *)
(* 0 .. AddressSpace-1, so that the all-ones tag is AddressSpace-1.         *)
(***************************************************************************)
EXTENDS Integers, FiniteSetsExt

CONSTANTS LineSize,       \* bytes per line (config.line_size)
          SetCount,       \* config.set_count()
          Associativity,  \* config.associativity
          AddressSpace    \* number of addresses: 2^64 in the build

\* What the configuration reader guarantees (config.cpp:73-103).  Neither a
\* power of two of sets nor one of lines is needed by what follows.
ASSUME CacheAssumption ==
  /\ LineSize \in Nat /\ LineSize >= 4
  /\ SetCount \in Nat \ {0}
  /\ Associativity \in Nat \ {0}
  /\ AddressSpace \in Nat /\ AddressSpace >= 2

Address  == 0 .. AddressSpace-1
Tag      == 0 .. AddressSpace-1
Sets     == 0 .. SetCount-1
Ways     == 0 .. Associativity-1

EmptyTag == AddressSpace-1

LineAddress(address) == address \div LineSize

\* The mask and the modulo of the source agree: the mask is used only when
\* SetCount is a power of two.
SetIndex(line) == line % SetCount

EmptyRow == [tags  |-> [w \in Ways |-> EmptyTag],
             used  |-> [w \in Ways |-> 0],
             dirty |-> [w \in Ways |-> FALSE]]

Counters == {"accesses", "hits", "misses", "writebacks", "writebacks_in"}

Count(stats, which) == [k \in Counters |-> IF k \in which THEN stats[k] + 1 ELSE stats[k]]

NewCache == [rows  |-> [s \in Sets |-> EmptyRow],
             tick  |-> 0,
             stats |-> [k \in Counters |-> 0]]

HitResult == [hit |-> TRUE, dirty_eviction |-> FALSE, evicted_address |-> 0]

-----------------------------------------------------------------------------
(* Lookup, victim and replacement within one set.                           *)

MatchingWays(row, line) == {w \in Ways : row.tags[w] = line}

\* Mutant: the search ends one way early.
FindWayShort(row, line) ==
  LET seen == MatchingWays(row, line) \ {Associativity-1}
  IN  IF seen = {} THEN -1 ELSE Min(seen)

\* The first way that holds the line; -1 when it is absent.
FindWay(row, line) ==
  IF MatchingWays(row, line) = {} THEN -1 ELSE Min(MatchingWays(row, line))

OldestWays(row) == {w \in Ways : \A v \in Ways : row.used[w] <= row.used[v]}

SelectVictim(row) == Min(OldestWays(row))

MustWriteBack(row, w) == row.tags[w] # EmptyTag /\ row.dirty[w]

\* Mutant: a fill keeps the timestamp of its victim.
FillWayStale(row, w, line, isDirty, now) ==
  [tags  |-> [row.tags  EXCEPT ![w] = line],
   used  |-> row.used,
   dirty |-> [row.dirty EXCEPT ![w] = isDirty]]

FillWay(row, w, line, isDirty, now) ==
  [tags  |-> [row.tags  EXCEPT ![w] = line],
   used  |-> [row.used  EXCEPT ![w] = now],
   dirty |-> [row.dirty EXCEPT ![w] = isDirty]]

\* Mutant: a hit does not refresh the timestamp (FIFO).
TouchWayFifo(row, w, makeDirty, now) ==
  [tags  |-> row.tags,
   used  |-> row.used,
   dirty |-> [row.dirty EXCEPT ![w] = @ \/ makeDirty]]

\* Mutant: a read that hits cleans the line.
TouchWayCleans(row, w, makeDirty, now) ==
  [tags  |-> row.tags,
   used  |-> [row.used  EXCEPT ![w] = now],
   dirty |-> [row.dirty EXCEPT ![w] = makeDirty]]

TouchWay(row, w, makeDirty, now) ==
  [tags  |-> row.tags,
   used  |-> [row.used  EXCEPT ![w] = now],
   dirty |-> [row.dirty EXCEPT ![w] = @ \/ makeDirty]]

\* The shared tail of both operations when the line is found.
Touch(c, s, w, makeDirty) ==
  [cache  |-> [rows  |-> [c.rows EXCEPT ![s] = TouchWay(@, w, makeDirty, c.tick)],
               tick  |-> c.tick,
               stats |-> c.stats],
   result |-> HitResult]

\* Mutant: the victim's address is reported even when the way was empty.
ReplaceUnguarded(c, s, line, isDirty) ==
  LET row    == c.rows[s]
      victim == SelectVictim(row)
      evict  == MustWriteBack(row, victim)
  IN  [cache  |-> [rows  |-> [c.rows EXCEPT ![s] = FillWay(row, victim, line, isDirty, c.tick)],
                   tick  |-> c.tick,
                   stats |-> IF evict THEN Count(c.stats, {"writebacks"}) ELSE c.stats],
       result |-> [hit             |-> FALSE,
                   dirty_eviction  |-> evict,
                   evicted_address |-> row.tags[victim] * LineSize]]

\* The shared tail of both operations when it is not.
Replace(c, s, line, isDirty) ==
  LET row    == c.rows[s]
      victim == SelectVictim(row)
      evict  == MustWriteBack(row, victim)
  IN  [cache  |-> [rows  |-> [c.rows EXCEPT ![s] = FillWay(row, victim, line, isDirty, c.tick)],
                   tick  |-> c.tick,
                   stats |-> IF evict THEN Count(c.stats, {"writebacks"}) ELSE c.stats],
       result |-> [hit             |-> FALSE,
                   dirty_eviction  |-> evict,
                   evicted_address |-> IF evict THEN row.tags[victim] * LineSize ELSE 0]]

-----------------------------------------------------------------------------
(* The two operations.                                                      *)

\* The clock advances and the call is counted before the lookup.
Counted(c, which) ==
  [rows |-> c.rows, tick |-> c.tick + 1, stats |-> Count(c.stats, which)]

\* A demand access: counted in the hit and miss statistics.
Access(c, address, isWrite) ==
  LET line == LineAddress(address)
      s    == SetIndex(line)
      way  == FindWay(c.rows[s], line)
  IN  IF way >= 0
      THEN Touch(Counted(c, {"accesses", "hits"}), s, way, isWrite)
      ELSE Replace(Counted(c, {"accesses", "misses"}), s, line, isWrite)

\* Mutant: an incoming write-back is counted as a demand access too.
InstallCountedTwice(c, address) ==
  LET line == LineAddress(address)
      s    == SetIndex(line)
      way  == FindWay(c.rows[s], line)
      cc   == Counted(c, {"writebacks_in", "accesses"})
  IN  IF way >= 0 THEN Touch(cc, s, way, TRUE) ELSE Replace(cc, s, line, TRUE)

\* A dirty line evicted from the level above: kept out of hits and misses.
InstallWriteback(c, address) ==
  LET line == LineAddress(address)
      s    == SetIndex(line)
      way  == FindWay(c.rows[s], line)
      cc   == Counted(c, {"writebacks_in"})
  IN  IF way >= 0 THEN Touch(cc, s, way, TRUE) ELSE Replace(cc, s, line, TRUE)

-----------------------------------------------------------------------------
(* What other modules ask of a cache.                                       *)

Row == [tags : [Ways -> Tag], used : [Ways -> Nat], dirty : [Ways -> BOOLEAN]]

CacheStats == [Counters -> Nat]

CacheState == [rows : [Sets -> Row], tick : Nat, stats : CacheStats]

CacheResult == [hit : BOOLEAN, dirty_eviction : BOOLEAN, evicted_address : Address]

Holds(c, line)      == \E w \in Ways : c.rows[SetIndex(line)].tags[w] = line
HoldsDirty(c, line) == \E w \in Ways : /\ c.rows[SetIndex(line)].tags[w] = line
                                       /\ c.rows[SetIndex(line)].dirty[w]

Resident(c) == {c.rows[s].tags[w] : s \in Sets, w \in Ways} \ {EmptyTag}

-----------------------------------------------------------------------------
(* What a cache is like between two calls.                                  *)

\* A line is in at most one way, in the set its address selects.
UniqueLines(c) ==
  \A s \in Sets : \A w \in Ways :
    LET tag == c.rows[s].tags[w]
    IN  tag # EmptyTag => /\ SetIndex(tag) = s
                          /\ \A v \in Ways \ {w} : c.rows[s].tags[v] # tag

\* An empty way is clean with timestamp 0; a filled one has a timestamp of its
\* own between 1 and the clock.
OrderedTimestamps(c) ==
  \A s \in Sets : \A w \in Ways :
    LET row == c.rows[s]
    IN  IF row.tags[w] = EmptyTag
        THEN row.used[w] = 0 /\ ~row.dirty[w]
        ELSE /\ row.used[w] \in 1 .. c.tick
             /\ \A t \in Sets : \A v \in Ways :
                  c.rows[t].used[v] = row.used[w] => t = s /\ v = w

\* Every tag but the sentinel is the line of some address.
RealLines(c) ==
  \A s \in Sets : \A w \in Ways :
    c.rows[s].tags[w] # EmptyTag => c.rows[s].tags[w] * LineSize \in Address
=============================================================================
