---------------------------- MODULE CacheProofs ----------------------------
(***************************************************************************)
(* Theorems about Cache: the invariants of one cache level and the action   *)
(* property the level below relies on, for every geometry, every set of     *)
(* addresses and runs of every length.  First, lemmas about the operations  *)
(* of CacheOps: what find_way and select_victim return, and that both       *)
(* operations keep a cache well formed, account for themselves in the       *)
(* statistics and drop no dirty line silently.  Then that the statistics    *)
(* account for every line there is; about CacheInclusion, that a cache with *)
(* more ways never holds less; and that a cache implements the exact LRU    *)
(* lists of LruCache.                                                       *)
(***************************************************************************)
EXTENDS CacheInclusion, WellFoundedInduction, FiniteSetTheorems, SequenceTheorems, TLAPS

WellFormed(c) == /\ c \in CacheState
                 /\ UniqueLines(c)
                 /\ OrderedTimestamps(c)
                 /\ RealLines(c)

\* The clock has just been advanced: no way carries its value yet.
FreshTick(c) == \A s \in Sets : \A w \in Ways : c.rows[s].used[w] < c.tick

-----------------------------------------------------------------------------
(* Least numbers: "the first way" is a Min in the model.                     *)

Less == {p \in Nat \X Nat : p[1] < p[2]}

\* The pairs of naturals in increasing order form a well-founded relation.
LEMMA LessIsWellFounded == IsWellFoundedOn(Less, Nat)
<1>1. Less = OpToRel(<, Nat)
  BY Zenon DEF Less, OpToRel
<1> QED
  BY <1>1, NatLessThanWellFounded, Zenon

\* Min returns the least element of a nonempty set of naturals.
LEMMA MinIsLeast ==
  ASSUME NEW T \in SUBSET Nat, T # {}
  PROVE  Min(T) \in T /\ \A x \in T : Min(T) <= x
<1>1. PICK x \in T : \A y \in T : <<y, x>> \notin Less
  BY LessIsWellFounded, WFMin
<1>2. ASSUME NEW y \in T PROVE x <= y
  <2>1. <<y, x>> \in Nat \X Nat /\ <<y, x>> \notin Less
    BY <1>1
  <2>2. ~(<<y, x>>[1] < <<y, x>>[2])
    BY <2>1, Zenon DEF Less
  <2> QED
    BY <2>2
<1> QED
  BY <1>2 DEF Min

-----------------------------------------------------------------------------
(* Addresses, lines and sets.                                               *)

\* The line of an address is never the sentinel (cache.hpp:51-54), and its
\* first byte is an address.
LEMMA LineIsReal ==
  ASSUME NEW a \in Address
  PROVE  /\ LineAddress(a) \in Tag
         /\ LineAddress(a) # EmptyTag
         /\ LineAddress(a) * LineSize \in Address
<1>1. a \in Nat /\ LineSize \in Nat /\ LineSize >= 4 /\ AddressSpace \in Nat
  BY CacheAssumption DEF Address
<1>2. /\ a \div LineSize \in Nat
      /\ (a \div LineSize) * LineSize <= a
      /\ (a \div LineSize) * LineSize \in Nat
      /\ 4 * (a \div LineSize) <= a
  BY <1>1
<1> QED
  BY <1>1, <1>2, CacheAssumption DEF Address, Tag, EmptyTag, LineAddress

\* Every line selects a set.
LEMMA SetIndexInRange == ASSUME NEW line \in Nat PROVE SetIndex(line) \in Sets
  BY CacheAssumption DEF SetIndex, Sets

\* find_way returns a way that holds the line, or -1 when none does.
LEMMA FindWayFinds ==
  ASSUME NEW row, NEW line
  PROVE  \/ FindWay(row, line) \in Ways /\ row.tags[FindWay(row, line)] = line
         \/ FindWay(row, line) = -1 /\ \A w \in Ways : row.tags[w] # line
<1>1. CASE MatchingWays(row, line) = {}
  BY <1>1 DEF FindWay, MatchingWays
<1>2. CASE MatchingWays(row, line) # {}
  <2>1. MatchingWays(row, line) \in SUBSET Nat
    BY CacheAssumption DEF MatchingWays, Ways
  <2>2. Min(MatchingWays(row, line)) \in MatchingWays(row, line)
    BY <1>2, <2>1, MinIsLeast
  <2> QED
    BY <1>2, <2>2 DEF FindWay, MatchingWays
<1> QED
  BY <1>1, <1>2

\* select_victim returns a way no other way of the set is older than.
LEMMA VictimIsOldest ==
  ASSUME NEW row \in Row
  PROVE  /\ SelectVictim(row) \in Ways
         /\ \A v \in Ways : row.used[SelectVictim(row)] <= row.used[v]
<1> DEFINE Stamps == {row.used[w] : w \in Ways}
<1>1. Stamps \in SUBSET Nat /\ Stamps # {}
  BY CacheAssumption DEF Row, Ways
<1>2. Min(Stamps) \in Stamps /\ \A x \in Stamps : Min(Stamps) <= x
  BY <1>1, MinIsLeast
<1>3. OldestWays(row) # {}
  <2>1. PICK w \in Ways : row.used[w] = Min(Stamps)
    BY <1>2
  <2>2. w \in OldestWays(row)
    BY <1>2, <2>1 DEF OldestWays
  <2> QED
    BY <2>2
<1>4. OldestWays(row) \in SUBSET Nat
  BY CacheAssumption DEF OldestWays, Ways
<1>5. Min(OldestWays(row)) \in OldestWays(row)
  BY <1>3, <1>4, MinIsLeast
<1> QED
  BY <1>5 DEF SelectVictim, OldestWays

-----------------------------------------------------------------------------
(* Counting.                                                                *)

\* Counting adds one to the counters named and keeps the others.
LEMMA CountType ==
  ASSUME NEW stats \in CacheStats, NEW which
  PROVE  /\ Count(stats, which) \in CacheStats
         /\ \A k \in Counters : Count(stats, which)[k] = IF k \in which THEN stats[k] + 1
                                                                        ELSE stats[k]
  BY DEF Count, CacheStats

-----------------------------------------------------------------------------
(* The two tails of an operation.  Both start from a cache whose clock has  *)
(* just advanced, and keep it well formed.                                  *)

\* A hit restamps one way and may dirty it.
LEMMA TouchKeepsWellFormed ==
  ASSUME NEW c, WellFormed(c), FreshTick(c),
         NEW s \in Sets, NEW way \in Ways, c.rows[s].tags[way] # EmptyTag,
         NEW d \in BOOLEAN
  PROVE  WellFormed(Touch(c, s, way, d).cache)
<1> DEFINE n == Touch(c, s, way, d).cache
           row == c.rows[s]
<1>1. c \in CacheState /\ c.tick \in Nat /\ row \in Row
  BY DEF WellFormed, CacheState
<1>2. n = [rows  |-> [c.rows EXCEPT ![s] = TouchWay(row, way, d, c.tick)],
           tick  |-> c.tick,
           stats |-> c.stats]
  BY DEF Touch
<1>3. TouchWay(row, way, d, c.tick) \in Row
  BY <1>1 DEF TouchWay, Row
<1>4. n \in CacheState
  BY <1>1, <1>2, <1>3 DEF CacheState
<1>5. /\ n.tick = c.tick
      /\ \A t \in Sets : t # s => n.rows[t] = c.rows[t]
      /\ n.rows[s] = TouchWay(row, way, d, c.tick)
  BY <1>1, <1>2 DEF CacheState
<1>6. \A t \in Sets : n.rows[t].tags = c.rows[t].tags
  BY <1>5 DEF TouchWay
<1>7. /\ n.rows[s].used[way] = c.tick
      /\ \A v \in Ways \ {way} : /\ n.rows[s].used[v] = row.used[v]
                                 /\ n.rows[s].dirty[v] = row.dirty[v]
  BY <1>1, <1>5 DEF TouchWay, Row
<1> HIDE DEF n
<1>8. UniqueLines(n)
  BY <1>6 DEF WellFormed, UniqueLines
<1>9. RealLines(n)
  BY <1>6 DEF WellFormed, RealLines
<1>10. OrderedTimestamps(n)
  <2>1. OrderedTimestamps(c) /\ FreshTick(c)
    BY DEF WellFormed
  <2>2. c.tick >= 1
    BY <1>1, <2>1 DEF FreshTick, Row
  <2> DEFINE Ordered(x, t, w) ==
               IF x.rows[t].tags[w] = EmptyTag
               THEN x.rows[t].used[w] = 0 /\ ~x.rows[t].dirty[w]
               ELSE /\ x.rows[t].used[w] \in 1 .. x.tick
                    /\ \A u \in Sets : \A y \in Ways :
                         x.rows[u].used[y] = x.rows[t].used[w] => u = t /\ y = w
  <2>3. ASSUME NEW t \in Sets, NEW w \in Ways
        PROVE  /\ Ordered(c, t, w)
               /\ c.rows[t].used[w] \in Nat /\ c.rows[t].used[w] < c.tick
    BY <1>1, <2>1 DEF OrderedTimestamps, FreshTick, CacheState, Row
  <2>4. ASSUME NEW t \in Sets, NEW w \in Ways, t # s \/ w # way
        PROVE  /\ n.rows[t].tags[w] = c.rows[t].tags[w]
               /\ n.rows[t].used[w] = c.rows[t].used[w]
               /\ n.rows[t].dirty[w] = c.rows[t].dirty[w]
    BY <1>5, <1>6, <1>7, <2>4
  <2>5. n.rows[s].tags[way] # EmptyTag /\ n.rows[s].used[way] = c.tick
    BY <1>6, <1>7
  <2>6. ASSUME NEW t \in Sets, NEW w \in Ways PROVE Ordered(n, t, w)
    <3>1. CASE t = s /\ w = way
      BY <1>1, <1>5, <2>2, <2>3, <2>4, <2>5, <3>1
    <3>2. CASE t # s \/ w # way
      BY <1>1, <1>5, <2>3, <2>4, <2>5, <3>2
    <3> QED
      BY <3>1, <3>2
  <2> QED
    BY <2>6 DEF OrderedTimestamps
<1> QED
  BY <1>4, <1>8, <1>9, <1>10 DEF WellFormed, n

\* A miss fills the victim with a line that no way holds yet.
LEMMA ReplaceKeepsWellFormed ==
  ASSUME NEW c, WellFormed(c), FreshTick(c),
         NEW line \in Tag, line # EmptyTag, line * LineSize \in Address,
         \A w \in Ways : c.rows[SetIndex(line)].tags[w] # line,
         NEW d \in BOOLEAN
  PROVE  /\ WellFormed(Replace(c, SetIndex(line), line, d).cache)
         /\ Replace(c, SetIndex(line), line, d).result \in CacheResult
<1> DEFINE s == SetIndex(line)
           row == c.rows[s]
           v == SelectVictim(row)
           n == Replace(c, s, line, d).cache
<1>1. c \in CacheState /\ c.tick \in Nat /\ s \in Sets /\ row \in Row
  BY SetIndexInRange DEF WellFormed, CacheState, Tag
<1>2. v \in Ways
  BY <1>1, VictimIsOldest
<1> HIDE DEF v
<1>3. n = [rows  |-> [c.rows EXCEPT ![s] = FillWay(row, v, line, d, c.tick)],
           tick  |-> c.tick,
           stats |-> IF MustWriteBack(row, v) THEN Count(c.stats, {"writebacks"})
                                              ELSE c.stats]
  BY DEF Replace, v
<1>4. FillWay(row, v, line, d, c.tick) \in Row
  BY <1>1, <1>2 DEF FillWay, Row
<1>5. n \in CacheState
  BY <1>1, <1>3, <1>4, CountType DEF CacheState
<1>6. /\ n.tick = c.tick
      /\ \A t \in Sets : t # s => n.rows[t] = c.rows[t]
      /\ n.rows[s] = FillWay(row, v, line, d, c.tick)
  BY <1>1, <1>3 DEF CacheState
<1>7. \A w \in Ways :
        /\ n.rows[s].tags[w]  = IF w = v THEN line ELSE row.tags[w]
        /\ n.rows[s].used[w]  = IF w = v THEN c.tick ELSE row.used[w]
        /\ n.rows[s].dirty[w] = IF w = v THEN d ELSE row.dirty[w]
  BY <1>1, <1>6 DEF FillWay, Row
<1> HIDE DEF n
<1>8. UniqueLines(n)
  BY <1>1, <1>6, <1>7 DEF WellFormed, UniqueLines
<1>9. RealLines(n)
  BY <1>1, <1>6, <1>7 DEF WellFormed, RealLines
<1>10. OrderedTimestamps(n)
  <2>1. OrderedTimestamps(c) /\ FreshTick(c)
    BY DEF WellFormed
  <2>2. c.tick >= 1
    BY <1>1, <1>2, <2>1 DEF FreshTick, Row
  <2> DEFINE Ordered(x, t, w) ==
               IF x.rows[t].tags[w] = EmptyTag
               THEN x.rows[t].used[w] = 0 /\ ~x.rows[t].dirty[w]
               ELSE /\ x.rows[t].used[w] \in 1 .. x.tick
                    /\ \A u \in Sets : \A y \in Ways :
                         x.rows[u].used[y] = x.rows[t].used[w] => u = t /\ y = w
  <2>3. ASSUME NEW t \in Sets, NEW w \in Ways
        PROVE  /\ Ordered(c, t, w)
               /\ c.rows[t].used[w] \in Nat /\ c.rows[t].used[w] < c.tick
    BY <1>1, <2>1 DEF OrderedTimestamps, FreshTick, CacheState, Row
  <2>4. ASSUME NEW t \in Sets, NEW w \in Ways, t # s \/ w # v
        PROVE  /\ n.rows[t].tags[w] = c.rows[t].tags[w]
               /\ n.rows[t].used[w] = c.rows[t].used[w]
               /\ n.rows[t].dirty[w] = c.rows[t].dirty[w]
    BY <1>1, <1>6, <1>7, <2>4
  <2>5. n.rows[s].tags[v] # EmptyTag /\ n.rows[s].used[v] = c.tick
    BY <1>2, <1>7
  <2>6. ASSUME NEW t \in Sets, NEW w \in Ways PROVE Ordered(n, t, w)
    <3>1. CASE t = s /\ w = v
      BY <1>1, <1>2, <1>6, <2>2, <2>3, <2>4, <2>5, <3>1
    <3>2. CASE t # s \/ w # v
      BY <1>1, <1>2, <1>6, <2>3, <2>4, <2>5, <3>2
    <3> QED
      BY <3>1, <3>2
  <2> QED
    BY <2>6 DEF OrderedTimestamps
<1>11. Replace(c, s, line, d).result \in CacheResult
  <2>1. MustWriteBack(row, v) => row.tags[v] * LineSize \in Address
    BY <1>1, <1>2 DEF WellFormed, RealLines, MustWriteBack
  <2>2. MustWriteBack(row, v) \in BOOLEAN /\ 0 \in Address
    BY <1>1, <1>2, CacheAssumption DEF MustWriteBack, Row, Address
  <2> QED
    BY <2>1, <2>2 DEF Replace, CacheResult, v
<1> QED
  BY <1>5, <1>8, <1>9, <1>10, <1>11 DEF WellFormed, n

-----------------------------------------------------------------------------
(* What a tail says of dirty lines and of the write-back counter.           *)

\* The dirty lines of a cache reach the level below or stay.
Preserves(c, r) ==
  \A line \in Tag \ {EmptyTag} :
    HoldsDirty(c, line) =>
      \/ HoldsDirty(r.cache, line)
      \/ r.result.dirty_eviction /\ r.result.evicted_address = line * LineSize

\* A hit loses no dirty line, and a writing one leaves its line dirty.
LEMMA TouchPreserves ==
  ASSUME NEW c \in CacheState,
         NEW s \in Sets, NEW way \in Ways, NEW d \in BOOLEAN,
         NEW line \in Tag, SetIndex(line) = s, c.rows[s].tags[way] = line
  PROVE  /\ Preserves(c, Touch(c, s, way, d))
         /\ d => HoldsDirty(Touch(c, s, way, d).cache, line)
         /\ Touch(c, s, way, d).cache.stats = c.stats
         /\ Touch(c, s, way, d).cache.tick = c.tick
         /\ Touch(c, s, way, d).result = HitResult
<1> DEFINE n == Touch(c, s, way, d).cache
           row == c.rows[s]
<1>1. row \in Row
  BY DEF CacheState
<1>2. /\ n = [rows  |-> [c.rows EXCEPT ![s] = TouchWay(row, way, d, c.tick)],
              tick  |-> c.tick,
              stats |-> c.stats]
      /\ Touch(c, s, way, d).result = HitResult
  BY DEF Touch
<1>3. /\ \A t \in Sets : t # s => n.rows[t] = c.rows[t]
      /\ n.rows[s] = TouchWay(row, way, d, c.tick)
      /\ n.stats = c.stats /\ n.tick = c.tick
  BY <1>2 DEF CacheState
<1>4. /\ n.rows[s].tags = row.tags
      /\ \A w \in Ways : row.dirty[w] => n.rows[s].dirty[w]
      /\ d => n.rows[s].dirty[way]
  BY <1>1, <1>3 DEF TouchWay, Row
<1>5. ASSUME NEW l \in Tag, HoldsDirty(c, l) PROVE HoldsDirty(n, l)
  <2>1. SetIndex(l) \in Sets
    BY SetIndexInRange DEF Tag
  <2> QED
    BY <1>3, <1>4, <1>5, <2>1 DEF HoldsDirty
<1>6. d => HoldsDirty(n, line)
  BY <1>4 DEF HoldsDirty
<1> QED
  BY <1>2, <1>3, <1>5, <1>6 DEF Preserves

\* A miss hands a dirty victim to the level below, counts it, and leaves the new
\* line dirty when it was written.
LEMMA ReplacePreserves ==
  ASSUME NEW c \in CacheState, NEW line \in Tag, NEW d \in BOOLEAN
  PROVE  LET r == Replace(c, SetIndex(line), line, d)
         IN  /\ Preserves(c, r)
             /\ d => HoldsDirty(r.cache, line)
             /\ r.cache.stats = IF r.result.dirty_eviction
                                THEN Count(c.stats, {"writebacks"}) ELSE c.stats
             /\ r.cache.tick = c.tick
             /\ ~r.result.hit
<1> DEFINE s == SetIndex(line)
           row == c.rows[s]
           v == SelectVictim(row)
           r == Replace(c, s, line, d)
           n == r.cache
<1>1. s \in Sets /\ row \in Row
  BY SetIndexInRange DEF CacheState, Tag
<1>2. v \in Ways
  BY <1>1, VictimIsOldest
<1> HIDE DEF v
<1>3. /\ n = [rows  |-> [c.rows EXCEPT ![s] = FillWay(row, v, line, d, c.tick)],
              tick  |-> c.tick,
              stats |-> IF MustWriteBack(row, v) THEN Count(c.stats, {"writebacks"})
                                                 ELSE c.stats]
      /\ r.result.dirty_eviction = MustWriteBack(row, v)
      /\ MustWriteBack(row, v) => r.result.evicted_address = row.tags[v] * LineSize
      /\ ~r.result.hit
  BY DEF Replace, v
<1> HIDE DEF r
<1>4. /\ \A t \in Sets : t # s => n.rows[t] = c.rows[t]
      /\ n.rows[s] = FillWay(row, v, line, d, c.tick)
      /\ n.tick = c.tick
      /\ n.stats = IF MustWriteBack(row, v) THEN Count(c.stats, {"writebacks"})
                                            ELSE c.stats
  BY <1>1, <1>3 DEF CacheState
<1>5. /\ n.rows[s].tags[v] = line /\ n.rows[s].dirty[v] = d
      /\ \A w \in Ways \ {v} : /\ n.rows[s].tags[w]  = row.tags[w]
                               /\ n.rows[s].dirty[w] = row.dirty[w]
  BY <1>1, <1>2, <1>4 DEF FillWay, Row
<1>6. Preserves(c, r)
  <2> SUFFICES ASSUME NEW l \in Tag \ {EmptyTag}, HoldsDirty(c, l), ~HoldsDirty(n, l)
               PROVE  r.result.dirty_eviction /\ r.result.evicted_address = l * LineSize
    BY DEF Preserves
  <2>1. SetIndex(l) \in Sets
    BY SetIndexInRange DEF Tag
  <2>2. PICK w \in Ways : /\ c.rows[SetIndex(l)].tags[w] = l
                          /\ c.rows[SetIndex(l)].dirty[w]
    BY DEF HoldsDirty
  <2>3. SetIndex(l) = s /\ w = v
    BY <1>4, <1>5, <2>1, <2>2 DEF HoldsDirty
  <2>4. MustWriteBack(row, v) /\ row.tags[v] = l
    BY <2>2, <2>3 DEF MustWriteBack
  <2> QED
    BY <1>3, <2>4
<1>7. d => HoldsDirty(n, line)
  BY <1>2, <1>5 DEF HoldsDirty
<1> QED
  BY <1>3, <1>4, <1>6, <1>7 DEF r

-----------------------------------------------------------------------------
(* The two operations.                                                      *)

\* Advancing the clock and counting keep a cache well formed, and the new clock
\* value is above every timestamp.
LEMMA CountedKeepsWellFormed ==
  ASSUME NEW c, WellFormed(c), NEW which
  PROVE  LET cc == Counted(c, which)
         IN  /\ WellFormed(cc) /\ FreshTick(cc)
             /\ cc.rows = c.rows /\ cc.tick = c.tick + 1 /\ cc.stats = Count(c.stats, which)
             /\ \A line : HoldsDirty(cc, line) <=> HoldsDirty(c, line)
<1> DEFINE cc == Counted(c, which)
<1>1. c \in CacheState
  BY DEF WellFormed
<1>2. cc.rows = c.rows /\ cc.tick = c.tick + 1 /\ cc.stats = Count(c.stats, which)
  BY DEF Counted
<1>3. cc \in CacheState
  BY <1>1, CountType DEF Counted, CacheState
<1> HIDE DEF cc
<1>4. UniqueLines(cc) /\ RealLines(cc)
  BY <1>2 DEF WellFormed, UniqueLines, RealLines
<1>5. OrderedTimestamps(cc)
  BY <1>1, <1>2 DEF WellFormed, OrderedTimestamps, CacheState
<1>6. FreshTick(cc)
  BY <1>1, <1>2 DEF WellFormed, OrderedTimestamps, FreshTick, CacheState, Row
<1>7. \A line : HoldsDirty(cc, line) <=> HoldsDirty(c, line)
  BY <1>2 DEF HoldsDirty
<1> QED
  BY <1>2, <1>3, <1>4, <1>5, <1>6, <1>7 DEF WellFormed, cc

\* What a demand access does to a well-formed cache.
LEMMA AccessCorrect ==
  ASSUME NEW c, WellFormed(c), NEW address \in Address, NEW isWrite \in BOOLEAN
  PROVE  LET r == Access(c, address, isWrite)
             counted == Count(c.stats, IF r.result.hit THEN {"accesses", "hits"}
                                                       ELSE {"accesses", "misses"})
         IN  /\ WellFormed(r.cache) /\ r.result \in CacheResult
             /\ r.cache.tick = c.tick + 1
             /\ r.cache.stats = IF r.result.dirty_eviction
                                THEN Count(counted, {"writebacks"}) ELSE counted
             /\ r.result.hit => ~r.result.dirty_eviction
             /\ Preserves(c, r)
             /\ isWrite => HoldsDirty(r.cache, LineAddress(address))
<1> DEFINE line == LineAddress(address)
           s    == SetIndex(line)
           way  == FindWay(c.rows[s], line)
<1>1. line \in Tag /\ line # EmptyTag /\ line * LineSize \in Address
  BY LineIsReal
<1>2. s \in Sets
  BY <1>1, SetIndexInRange DEF Tag
<1>3. \/ way \in Ways /\ c.rows[s].tags[way] = line
      \/ way = -1 /\ \A w \in Ways : c.rows[s].tags[w] # line
  BY FindWayFinds
<1>4. Ways \subseteq Nat
  BY CacheAssumption DEF Ways
<1>5. Access(c, address, isWrite) =
        IF way >= 0 THEN Touch(Counted(c, {"accesses", "hits"}), s, way, isWrite)
        ELSE Replace(Counted(c, {"accesses", "misses"}), s, line, isWrite)
  BY DEF Access
<1> HIDE DEF line, s, way
<1>6. CASE way \in Ways /\ c.rows[s].tags[way] = line
  <2> DEFINE cc == Counted(c, {"accesses", "hits"})
             r  == Touch(cc, s, way, isWrite)
  <2>1. /\ WellFormed(cc) /\ FreshTick(cc)
        /\ cc.rows = c.rows /\ cc.tick = c.tick + 1
        /\ cc.stats = Count(c.stats, {"accesses", "hits"})
        /\ \A l : HoldsDirty(cc, l) <=> HoldsDirty(c, l)
    BY CountedKeepsWellFormed
  <2> HIDE DEF cc
  <2>2. Access(c, address, isWrite) = r
    BY <1>4, <1>5, <1>6 DEF cc
  <2>3. WellFormed(r.cache)
    BY <1>1, <1>2, <1>6, <2>1, TouchKeepsWellFormed
  <2>4. /\ Preserves(cc, r)
        /\ isWrite => HoldsDirty(r.cache, line)
        /\ r.cache.stats = cc.stats
        /\ r.cache.tick = cc.tick
        /\ r.result = HitResult
    BY <1>1, <1>2, <1>6, <2>1, TouchPreserves DEF WellFormed, s
  <2>5. Preserves(c, r)
    BY <2>1, <2>4 DEF Preserves
  <2>6. HitResult \in CacheResult /\ HitResult.hit /\ ~HitResult.dirty_eviction
    BY CacheAssumption DEF HitResult, CacheResult, Address
  <2> HIDE DEF r
  <2> QED
    BY <2>1, <2>2, <2>3, <2>4, <2>5, <2>6 DEF line
<1>7. CASE way = -1 /\ \A w \in Ways : c.rows[s].tags[w] # line
  <2> DEFINE cc == Counted(c, {"accesses", "misses"})
             r  == Replace(cc, s, line, isWrite)
  <2>1. /\ WellFormed(cc) /\ FreshTick(cc)
        /\ cc.rows = c.rows /\ cc.tick = c.tick + 1
        /\ cc.stats = Count(c.stats, {"accesses", "misses"})
        /\ \A l : HoldsDirty(cc, l) <=> HoldsDirty(c, l)
    BY CountedKeepsWellFormed
  <2> HIDE DEF cc
  <2>2. Access(c, address, isWrite) = r
    BY <1>5, <1>7 DEF cc
  <2>3. WellFormed(r.cache) /\ r.result \in CacheResult
    BY <1>1, <1>7, <2>1, ReplaceKeepsWellFormed DEF s
  <2>4. /\ Preserves(cc, r)
        /\ isWrite => HoldsDirty(r.cache, line)
        /\ r.cache.stats = IF r.result.dirty_eviction
                           THEN Count(cc.stats, {"writebacks"}) ELSE cc.stats
        /\ r.cache.tick = cc.tick
        /\ ~r.result.hit
    BY <1>1, <2>1, ReplacePreserves DEF WellFormed, s
  <2>5. Preserves(c, r)
    BY <2>1, <2>4 DEF Preserves
  <2> HIDE DEF r
  <2> QED
    BY <2>1, <2>2, <2>3, <2>4, <2>5 DEF line
<1> QED
  BY <1>3, <1>6, <1>7

\* What an incoming write-back does to a well-formed cache.
LEMMA InstallCorrect ==
  ASSUME NEW c, WellFormed(c), NEW address \in Address
  PROVE  LET r == InstallWriteback(c, address)
             counted == Count(c.stats, {"writebacks_in"})
         IN  /\ WellFormed(r.cache) /\ r.result \in CacheResult
             /\ r.cache.tick = c.tick + 1
             /\ r.cache.stats = IF r.result.dirty_eviction
                                THEN Count(counted, {"writebacks"}) ELSE counted
             /\ Preserves(c, r)
             /\ HoldsDirty(r.cache, LineAddress(address))
<1> DEFINE line == LineAddress(address)
           s    == SetIndex(line)
           way  == FindWay(c.rows[s], line)
           cc   == Counted(c, {"writebacks_in"})
           d    == TRUE
<1>1. line \in Tag /\ line # EmptyTag /\ line * LineSize \in Address
  BY LineIsReal
<1>2. s \in Sets
  BY <1>1, SetIndexInRange DEF Tag
<1>3. \/ way \in Ways /\ c.rows[s].tags[way] = line
      \/ way = -1 /\ \A w \in Ways : c.rows[s].tags[w] # line
  BY FindWayFinds
<1>4. Ways \subseteq Nat
  BY CacheAssumption DEF Ways
<1>5. InstallWriteback(c, address) =
        IF way >= 0 THEN Touch(cc, s, way, d) ELSE Replace(cc, s, line, d)
  BY DEF InstallWriteback
<1>6. /\ WellFormed(cc) /\ FreshTick(cc)
      /\ cc.rows = c.rows /\ cc.tick = c.tick + 1
      /\ cc.stats = Count(c.stats, {"writebacks_in"})
      /\ \A l : HoldsDirty(cc, l) <=> HoldsDirty(c, l)
  BY CountedKeepsWellFormed
<1>7. d \in BOOLEAN /\ d
  OBVIOUS
<1> HIDE DEF line, s, way, cc, d
<1>8. CASE way \in Ways /\ c.rows[s].tags[way] = line
  <2> DEFINE r == Touch(cc, s, way, d)
  <2>1. InstallWriteback(c, address) = r
    <3>1. way >= 0
      BY <1>4, <1>8
    <3> QED
      BY <1>5, <3>1
  <2>2. WellFormed(r.cache)
    BY <1>1, <1>2, <1>6, <1>8, TouchKeepsWellFormed, <1>7
  <2>3. /\ Preserves(cc, r)
        /\ HoldsDirty(r.cache, line)
        /\ r.cache.stats = cc.stats
        /\ r.cache.tick = cc.tick
        /\ r.result = HitResult
    <3>1. cc \in CacheState /\ SetIndex(line) = s /\ cc.rows[s].tags[way] = line
      BY <1>6, <1>8 DEF WellFormed, s
    <3> QED
      BY <1>1, <1>2, <1>7, <1>8, <3>1, TouchPreserves
  <2>4. Preserves(c, r)
    BY <1>6, <2>3 DEF Preserves
  <2>5. HitResult \in CacheResult /\ HitResult.hit /\ ~HitResult.dirty_eviction
    BY CacheAssumption DEF HitResult, CacheResult, Address
  <2> HIDE DEF r
  <2> QED
    BY <1>6, <2>1, <2>2, <2>3, <2>4, <2>5 DEF line
<1>9. CASE way = -1 /\ \A w \in Ways : c.rows[s].tags[w] # line
  <2> DEFINE r == Replace(cc, s, line, d)
  <2>1. InstallWriteback(c, address) = r
    BY <1>5, <1>9
  <2>2. WellFormed(r.cache) /\ r.result \in CacheResult
    BY <1>1, <1>6, <1>9, ReplaceKeepsWellFormed, <1>7 DEF s
  <2>3. /\ Preserves(cc, r)
        /\ HoldsDirty(r.cache, line)
        /\ r.cache.stats = IF r.result.dirty_eviction
                           THEN Count(cc.stats, {"writebacks"}) ELSE cc.stats
        /\ r.cache.tick = cc.tick
    BY <1>1, <1>6, ReplacePreserves, <1>7 DEF WellFormed, s
  <2>4. Preserves(c, r)
    BY <1>6, <2>3 DEF Preserves
  <2> HIDE DEF r
  <2> QED
    BY <1>6, <2>1, <2>2, <2>3, <2>4 DEF line
<1> QED
  BY <1>3, <1>8, <1>9

\* An empty cache is well formed.
LEMMA NewCacheWellFormed == WellFormed(NewCache)
<1>1. NewCache \in CacheState
  BY CacheAssumption DEF NewCache, CacheState, Row, EmptyRow, CacheStats, EmptyTag, Tag
<1>2. UniqueLines(NewCache) /\ OrderedTimestamps(NewCache) /\ RealLines(NewCache)
  BY DEF NewCache, EmptyRow, UniqueLines, OrderedTimestamps, RealLines
<1> QED
  BY <1>1, <1>2 DEF WellFormed

-----------------------------------------------------------------------------
(* The cache over time.                                                     *)

\* The cache is well formed and the last result well typed.  The invariants are
\* proved together: a line stays unique because find_way looks at the one set
\* its address selects, timestamps stay unique because the clock is ahead of all
\* of them, and tags stay below the sentinel because they are lines of addresses.
Inv == WellFormed(cache) /\ result \in CacheResult

\* Every operation of the cache keeps the invariant.
LEMMA StepKeepsInv == Inv /\ [Next]_vars => Inv'
<1> SUFFICES ASSUME Inv, [Next]_vars PROVE Inv'
  OBVIOUS
<1> USE DEF Inv
<1>1. ASSUME NEW address \in Addresses, NEW isWrite \in BOOLEAN,
             DemandAccess(address, isWrite)
      PROVE  Inv'
  <2>1. address \in Address
    BY DriverAssumption
  <2> QED
    BY <1>1, <2>1, AccessCorrect DEF DemandAccess, Return
<1>2. ASSUME NEW address \in Addresses, IncomingWriteback(address)
      PROVE  Inv'
  <2>1. address \in Address
    BY DriverAssumption
  <2> QED
    BY <1>2, <2>1, InstallCorrect DEF IncomingWriteback, Return
<1>3. CASE UNCHANGED vars
  BY <1>3 DEF vars
<1> QED
  BY <1>1, <1>2, <1>3 DEF Next

\* Init establishes the invariant.
LEMMA InitEstablishesInv == Init => Inv
<1>1. [hit |-> FALSE, dirty_eviction |-> FALSE, evicted_address |-> 0] \in CacheResult
  BY CacheAssumption DEF CacheResult, Address
<1> QED
  BY <1>1, NewCacheWellFormed DEF Init, Inv

\* The invariant holds in every reachable state.
THEOREM Invariance == Spec => []Inv
<1> QED
  BY InitEstablishesInv, StepKeepsInv, PTL DEF Spec

\* The members of a Cache object keep their types (cache.hpp:69-78).
THEOREM TypeCorrect == Spec => []TypeOK
<1>1. Inv => TypeOK
  BY DEF Inv, WellFormed, TypeOK
<1> QED
  BY <1>1, Invariance, PTL

\* A line is in at most one way, in the set its address selects, so find_way's
\* first match is the only one (cache.cpp:18-24).
THEOREM ResidencyUnique == Spec => []UniqueResidency
<1>1. Inv => UniqueResidency
  BY DEF Inv, WellFormed, UniqueResidency
<1> QED
  BY <1>1, Invariance, PTL

\* Empty ways carry timestamp 0, below every real one, and the real ones are
\* distinct, so the oldest way is empty if any is (cache.hpp:63-65).
THEOREM TimestampsOrdered == Spec => []TimestampOrder
<1>1. Inv => TimestampOrder
  BY DEF Inv, WellFormed, TimestampOrder
<1> QED
  BY <1>1, Invariance, PTL

\* A dirty line leaves the cache only by a counted write-back that names it
\* (cache.cpp:39-51).
THEOREM DirtyNeverDropped == Spec => DirtyLeavesByWriteback
<1> DEFINE Kept == \A line \in DirtyLines :
                     \/ HoldsDirty(cache', line)
                     \/ /\ result'.dirty_eviction
                        /\ result'.evicted_address = line * LineSize
                        /\ cache'.stats["writebacks"] = cache.stats["writebacks"] + 1
<1>1. Inv => \A line \in DirtyLines : line \in Tag \ {EmptyTag} /\ HoldsDirty(cache, line)
  BY DEF Inv, WellFormed, CacheState, Row, DirtyLines, Resident
<1>2. ASSUME Inv, Next PROVE Kept
  <2>1. ASSUME NEW address \in Addresses, NEW isWrite \in BOOLEAN,
               DemandAccess(address, isWrite)
        PROVE  Kept
    <3> DEFINE r == Access(cache, address, isWrite)
               counted == Count(cache.stats, IF r.result.hit THEN {"accesses", "hits"}
                                                            ELSE {"accesses", "misses"})
    <3>1. address \in Address
      BY DriverAssumption
    <3>2. Preserves(cache, r)
      BY <1>2, <3>1, AccessCorrect DEF Inv
    <3>3. r.cache.stats = IF r.result.dirty_eviction THEN Count(counted, {"writebacks"})
                                                    ELSE counted
      BY <1>2, <3>1, AccessCorrect DEF Inv
    <3>4. cache.stats \in CacheStats /\ "writebacks" \in Counters
      BY <1>2 DEF Inv, WellFormed, CacheState, Counters
    <3>5. /\ counted \in CacheStats
          /\ counted["writebacks"] = cache.stats["writebacks"]
          /\ Count(counted, {"writebacks"})["writebacks"] = cache.stats["writebacks"] + 1
      BY <3>4, CountType
    <3>6. cache' = r.cache /\ result' = r.result
      BY <2>1 DEF DemandAccess, Return
    <3> HIDE DEF r, counted
    <3> QED
      BY <1>1, <1>2, <3>2, <3>3, <3>5, <3>6 DEF Preserves
  <2>2. ASSUME NEW address \in Addresses, IncomingWriteback(address)
        PROVE  Kept
    <3> DEFINE r == InstallWriteback(cache, address)
               counted == Count(cache.stats, {"writebacks_in"})
    <3>1. address \in Address
      BY DriverAssumption
    <3>2. Preserves(cache, r)
      BY <1>2, <3>1, InstallCorrect DEF Inv
    <3>3. r.cache.stats = IF r.result.dirty_eviction THEN Count(counted, {"writebacks"})
                                                    ELSE counted
      BY <1>2, <3>1, InstallCorrect DEF Inv
    <3>4. cache.stats \in CacheStats /\ "writebacks" \in Counters
      BY <1>2 DEF Inv, WellFormed, CacheState, Counters
    <3>5. /\ counted \in CacheStats
          /\ counted["writebacks"] = cache.stats["writebacks"]
          /\ Count(counted, {"writebacks"})["writebacks"] = cache.stats["writebacks"] + 1
      BY <3>4, CountType
    <3>6. cache' = r.cache /\ result' = r.result
      BY <2>2 DEF IncomingWriteback, Return
    <3> HIDE DEF r, counted
    <3> QED
      BY <1>1, <1>2, <3>2, <3>3, <3>5, <3>6 DEF Preserves
  <2> QED
    BY <1>2, <2>1, <2>2 DEF Next
<1>3. Inv /\ [Next]_vars => [Kept]_vars
  BY <1>2
<1> QED
  BY <1>3, Invariance, PTL DEF Spec, DirtyLeavesByWriteback

-----------------------------------------------------------------------------
(* What the statistics say of the lines that are resident and dirty.         *)

Dirty(c) == {line \in Resident(c) : HoldsDirty(c, line)}

\* The statistics of a cache account for its lines.
Accounted(c) ==
  /\ c.stats["accesses"] = c.stats["hits"] + c.stats["misses"]
  /\ c.tick = c.stats["accesses"] + c.stats["writebacks_in"]
  /\ IsFiniteSet(Resident(c))
  /\ Cardinality(Resident(c)) <= c.stats["misses"] + c.stats["writebacks_in"]
  /\ c.stats["writebacks"] + Cardinality(Dirty(c)) <= c.tick

\* A set with one element more, and one with one element more and one less.
LEMMA OneElementMore ==
  ASSUME NEW T, IsFiniteSet(T), NEW x, NEW U, U \subseteq T \cup {x}
  PROVE  /\ IsFiniteSet(U) /\ Cardinality(U) \in Nat /\ Cardinality(T) \in Nat
         /\ Cardinality(U) <= Cardinality(T) + 1
<1>1. \A V : IsFiniteSet(V) => /\ IsFiniteSet(V \cup {x}) /\ Cardinality(V) \in Nat
                               /\ Cardinality(V \cup {x}) <= Cardinality(V) + 1
  <2> SUFFICES ASSUME NEW V, IsFiniteSet(V)
               PROVE  /\ IsFiniteSet(V \cup {x}) /\ Cardinality(V) \in Nat
                      /\ Cardinality(V \cup {x}) <= Cardinality(V) + 1
    OBVIOUS
  <2>1. Cardinality(V) \in Nat
    BY FS_CardinalityType
  <2>2. /\ IsFiniteSet(V \cup {x})
        /\ Cardinality(V \cup {x}) = IF x \in V THEN Cardinality(V) ELSE Cardinality(V) + 1
    BY FS_AddElement
  <2> QED
    BY <2>1, <2>2
<1>2. \A V, W : IsFiniteSet(V) /\ W \subseteq V => /\ IsFiniteSet(W) /\ Cardinality(W) \in Nat
                                                  /\ Cardinality(W) <= Cardinality(V)
  BY FS_Subset, FS_CardinalityType
<1>3. IsFiniteSet(T \cup {x}) /\ Cardinality(T) \in Nat
      /\ Cardinality(T \cup {x}) <= Cardinality(T) + 1
  BY <1>1
<1>4. IsFiniteSet(U) /\ Cardinality(U) \in Nat /\ Cardinality(U) <= Cardinality(T \cup {x})
  BY <1>2, <1>3
<1>5. Cardinality(T \cup {x}) \in Nat
  BY <1>3, FS_CardinalityType
<1> QED
  BY <1>3, <1>4, <1>5

\* At most one more and one less: not more than before.
LEMMA OneInOneOut ==
  ASSUME NEW T, IsFiniteSet(T), NEW x, NEW y \in T, NEW U, U \subseteq (T \ {y}) \cup {x}
  PROVE  Cardinality(U) <= Cardinality(T)
<1> DEFINE V == T \ {y}
<1>1. IsFiniteSet(V) /\ Cardinality(V) = Cardinality(T) - 1 /\ Cardinality(T) \in Nat
  BY FS_RemoveElement, FS_CardinalityType
<1> HIDE DEF V
<1>2. /\ Cardinality(U) \in Nat /\ Cardinality(V) \in Nat
      /\ Cardinality(U) <= Cardinality(V) + 1
  BY <1>1, OneElementMore DEF V
<1> QED
  BY <1>1, <1>2

\* A hit changes no line, and makes at most its own dirty.
LEMMA TouchAccounts ==
  ASSUME NEW c, WellFormed(c), Accounted(c),
         NEW which \in {{"accesses", "hits"}, {"writebacks_in"}},
         NEW line, NEW s \in Sets, NEW way \in Ways, NEW d \in BOOLEAN,
         c.rows[s].tags[way] = line
  PROVE  Accounted(Touch(Counted(c, which), s, way, d).cache)
<1> DEFINE n   == Touch(Counted(c, which), s, way, d).cache
           row == c.rows[s]
<1>1. c \in CacheState /\ row \in Row
  BY DEF WellFormed, CacheState
<1>2. n = [rows  |-> [c.rows EXCEPT ![s] = TouchWay(row, way, d, c.tick + 1)],
           tick  |-> c.tick + 1,
           stats |-> Count(c.stats, which)]
  BY DEF Touch, Counted
<1>3. /\ n.tick = c.tick + 1 /\ n.stats = Count(c.stats, which)
      /\ \A t \in Sets : t # s => n.rows[t] = c.rows[t]
      /\ n.rows[s] = TouchWay(row, way, d, c.tick + 1)
  BY <1>1, <1>2 DEF CacheState
<1>4. \A w \in Ways : /\ n.rows[s].tags[w] = row.tags[w]
                      /\ w # way => n.rows[s].dirty[w] = row.dirty[w]
  BY <1>1, <1>3 DEF TouchWay, Row
<1> HIDE DEF n
<1>5. \A t \in Sets : \A w \in Ways :
        /\ n.rows[t].tags[w] = c.rows[t].tags[w]
        /\ t # s \/ w # way => n.rows[t].dirty[w] = c.rows[t].dirty[w]
  BY <1>3, <1>4
<1>6. Resident(n) = Resident(c)
  BY <1>5 DEF Resident
<1>7. Dirty(n) \subseteq Dirty(c) \cup {line}
  <2> SUFFICES ASSUME NEW l \in Dirty(n), l # line PROVE l \in Dirty(c)
    OBVIOUS
  <2>1. l \in Resident(c) /\ SetIndex(l) \in Sets
    <3>1. l \in Resident(c)
      BY <1>6 DEF Dirty
    <3>2. l \in Nat
      BY <1>1, <3>1, CacheAssumption DEF Resident, CacheState, Row, Tag
    <3> QED
      BY <3>1, <3>2, SetIndexInRange
  <2>2. PICK w \in Ways : n.rows[SetIndex(l)].tags[w] = l /\ n.rows[SetIndex(l)].dirty[w]
    BY DEF Dirty, HoldsDirty
  <2>3. c.rows[SetIndex(l)].tags[w] = l
    BY <1>5, <2>1, <2>2
  <2>4. SetIndex(l) # s \/ w # way
    BY <2>3
  <2>5. c.rows[SetIndex(l)].dirty[w]
    BY <1>5, <2>1, <2>2, <2>4
  <2> QED
    BY <2>1, <2>3, <2>5 DEF Dirty, HoldsDirty
<1>8. /\ \A k \in Counters : c.stats[k] \in Nat
      /\ \A k \in Counters : n.stats[k] = IF k \in which THEN c.stats[k] + 1 ELSE c.stats[k]
  BY <1>1, <1>3, CountType DEF CacheState, CacheStats
<1>9. IsFiniteSet(Dirty(c))
  <2>1. Dirty(c) \subseteq Resident(c)
    BY DEF Dirty
  <2> QED
    BY <2>1, FS_Subset DEF Accounted
<1>10. /\ Cardinality(Dirty(n)) \in Nat /\ Cardinality(Dirty(c)) \in Nat
       /\ Cardinality(Dirty(n)) <= Cardinality(Dirty(c)) + 1
  BY <1>7, <1>9, OneElementMore
<1>11. Cardinality(Resident(c)) \in Nat
  BY FS_CardinalityType DEF Accounted
<1>12. /\ {"accesses", "hits", "misses", "writebacks", "writebacks_in"} \subseteq Counters
       /\ c.tick \in Nat
  BY <1>1 DEF Counters, CacheState
<1>13. /\ n.stats["accesses"] = n.stats["hits"] + n.stats["misses"]
       /\ n.tick = n.stats["accesses"] + n.stats["writebacks_in"]
       /\ Cardinality(Resident(n)) <= n.stats["misses"] + n.stats["writebacks_in"]
  BY <1>3, <1>6, <1>8, <1>11, <1>12 DEF Accounted
<1>14. n.stats["writebacks"] + Cardinality(Dirty(n)) <= n.tick
  BY <1>3, <1>8, <1>10, <1>12 DEF Accounted
<1> QED
  BY <1>6, <1>13, <1>14 DEF Accounted, n

\* A miss brings in one line, and writes back one that was dirty when it says so.
LEMMA ReplaceAccounts ==
  ASSUME NEW c, WellFormed(c), Accounted(c),
         NEW which \in {{"accesses", "misses"}, {"writebacks_in"}},
         NEW line, NEW s \in Sets, NEW d \in BOOLEAN
  PROVE  Accounted(Replace(Counted(c, which), s, line, d).cache)
<1> DEFINE n     == Replace(Counted(c, which), s, line, d).cache
           row   == c.rows[s]
           v     == SelectVictim(row)
           old   == row.tags[v]
           evict == MustWriteBack(row, v)
           stats == Count(c.stats, which)
<1>1. c \in CacheState /\ row \in Row
  BY DEF WellFormed, CacheState
<1>2. v \in Ways
  BY <1>1, VictimIsOldest
<1>3. n = [rows  |-> [c.rows EXCEPT ![s] = FillWay(row, v, line, d, c.tick + 1)],
           tick  |-> c.tick + 1,
           stats |-> IF evict THEN Count(stats, {"writebacks"}) ELSE stats]
  BY DEF Replace, Counted
<1> HIDE DEF v
<1>4. /\ n.tick = c.tick + 1
      /\ n.stats = IF evict THEN Count(stats, {"writebacks"}) ELSE stats
      /\ \A t \in Sets : t # s => n.rows[t] = c.rows[t]
      /\ n.rows[s] = FillWay(row, v, line, d, c.tick + 1)
  BY <1>1, <1>3 DEF CacheState
<1>5. \A w \in Ways : w # v => /\ n.rows[s].tags[w] = row.tags[w]
                               /\ n.rows[s].dirty[w] = row.dirty[w]
  BY <1>1, <1>4 DEF FillWay, Row
<1>6. n.rows[s].tags[v] = line
  BY <1>1, <1>2, <1>4 DEF FillWay, Row
<1> HIDE DEF n
<1>7. \A t \in Sets : \A w \in Ways :
        t # s \/ w # v => /\ n.rows[t].tags[w] = c.rows[t].tags[w]
                          /\ n.rows[t].dirty[w] = c.rows[t].dirty[w]
  BY <1>4, <1>5
<1>8. Resident(n) \subseteq Resident(c) \cup {line}
  BY <1>6, <1>7 DEF Resident
<1>9. ASSUME NEW l \in Dirty(n), l # line
      PROVE  /\ l \in Dirty(c)
             /\ evict => l # old
  <2>1. l \in Resident(c) /\ SetIndex(l) \in Sets
    <3>1. l \in Resident(c)
      BY <1>8, <1>9 DEF Dirty
    <3>2. l \in Nat
      BY <1>1, <3>1, CacheAssumption DEF Resident, CacheState, Row, Tag
    <3> QED
      BY <3>1, <3>2, SetIndexInRange
  <2>2. PICK w \in Ways : n.rows[SetIndex(l)].tags[w] = l /\ n.rows[SetIndex(l)].dirty[w]
    BY DEF Dirty, HoldsDirty
  <2>3. SetIndex(l) # s \/ w # v
    BY <1>6, <1>9, <2>2
  <2>4. c.rows[SetIndex(l)].tags[w] = l /\ c.rows[SetIndex(l)].dirty[w]
    BY <1>7, <2>1, <2>2, <2>3
  <2>5. l \in Dirty(c)
    BY <2>1, <2>4 DEF Dirty, HoldsDirty
  <2>6. ASSUME l = old, evict PROVE FALSE
    <3>1. old # EmptyTag
      BY <2>6 DEF MustWriteBack
    <3>2. /\ SetIndex(old) = s
          /\ \A x \in Ways \ {v} : c.rows[s].tags[x] # old
      BY <1>2, <3>1 DEF WellFormed, UniqueLines
    <3> QED
      BY <2>3, <2>4, <2>6, <3>2
  <2> QED
    BY <2>5, <2>6
<1>10. evict => old \in Dirty(c)
  <2> SUFFICES ASSUME evict PROVE old \in Dirty(c)
    OBVIOUS
  <2>1. old # EmptyTag /\ row.dirty[v]
    BY DEF MustWriteBack
  <2>2. SetIndex(old) = s
    BY <1>2, <2>1 DEF WellFormed, UniqueLines
  <2>3. old \in Resident(c)
    BY <1>2, <2>1 DEF Resident
  <2>4. HoldsDirty(c, old)
    BY <1>2, <2>1, <2>2 DEF HoldsDirty
  <2> QED
    BY <2>3, <2>4 DEF Dirty
<1>11. /\ \A k \in Counters : c.stats[k] \in Nat
       /\ stats \in CacheStats
       /\ \A k \in Counters : stats[k] = IF k \in which THEN c.stats[k] + 1 ELSE c.stats[k]
       /\ \A k \in Counters : Count(stats, {"writebacks"})[k] =
                                IF k \in {"writebacks"} THEN stats[k] + 1 ELSE stats[k]
  BY <1>1, CountType DEF CacheState, CacheStats
<1>12. IsFiniteSet(Dirty(c))
  <2>1. Dirty(c) \subseteq Resident(c)
    BY DEF Dirty
  <2> QED
    BY <2>1, FS_Subset DEF Accounted
<1>13. /\ Dirty(n) \subseteq Dirty(c) \cup {line}
       /\ evict => Dirty(n) \subseteq (Dirty(c) \ {old}) \cup {line}
  BY <1>9
<1>14. /\ Cardinality(Dirty(n)) \in Nat /\ Cardinality(Dirty(c)) \in Nat
       /\ Cardinality(Dirty(n)) <= Cardinality(Dirty(c)) + 1
       /\ evict => Cardinality(Dirty(n)) <= Cardinality(Dirty(c))
  <2>1. /\ Cardinality(Dirty(n)) \in Nat /\ Cardinality(Dirty(c)) \in Nat
        /\ Cardinality(Dirty(n)) <= Cardinality(Dirty(c)) + 1
    BY <1>12, <1>13, OneElementMore
  <2>2. evict => Cardinality(Dirty(n)) <= Cardinality(Dirty(c))
    <3> HIDE DEF evict, old
    <3> QED
      BY <1>10, <1>12, <1>13, OneInOneOut, ZenonT(40)
  <2> QED
    BY <2>1, <2>2
<1>15. /\ IsFiniteSet(Resident(n)) /\ Cardinality(Resident(n)) \in Nat
       /\ Cardinality(Resident(c)) \in Nat
       /\ Cardinality(Resident(n)) <= Cardinality(Resident(c)) + 1
  BY <1>8, OneElementMore DEF Accounted
<1>16. /\ {"accesses", "hits", "misses", "writebacks", "writebacks_in"} \subseteq Counters
       /\ c.tick \in Nat
  BY <1>1 DEF Counters, CacheState
<1> HIDE DEF stats, evict
<1>17. /\ n.stats["writebacks"] = IF evict THEN c.stats["writebacks"] + 1 ELSE c.stats["writebacks"]
       /\ \A k \in Counters \ {"writebacks"} :
            n.stats[k] = IF k \in which THEN c.stats[k] + 1 ELSE c.stats[k]
  BY <1>4, <1>11, <1>16
<1>18. /\ n.stats["accesses"] = n.stats["hits"] + n.stats["misses"]
       /\ n.tick = n.stats["accesses"] + n.stats["writebacks_in"]
       /\ Cardinality(Resident(n)) <= n.stats["misses"] + n.stats["writebacks_in"]
  BY <1>4, <1>11, <1>15, <1>16, <1>17 DEF Accounted
<1>19. n.stats["writebacks"] + Cardinality(Dirty(n)) <= n.tick
  BY <1>4, <1>11, <1>14, <1>16, <1>17 DEF Accounted
<1> QED
  BY <1>15, <1>18, <1>19 DEF Accounted, n

\* Both operations keep the account.
LEMMA CallAccounts ==
  ASSUME NEW c, WellFormed(c), Accounted(c), NEW address \in Address
  PROVE  /\ \A isWrite \in BOOLEAN : Accounted(Access(c, address, isWrite).cache)
         /\ Accounted(InstallWriteback(c, address).cache)
<1> DEFINE line == LineAddress(address)
           s    == SetIndex(line)
           way  == FindWay(c.rows[s], line)
<1>1. s \in Sets
  BY LineIsReal, SetIndexInRange, CacheAssumption DEF Tag
<1>2. \/ way \in Ways /\ c.rows[s].tags[way] = line /\ way >= 0
      \/ ~(way >= 0)
  BY FindWayFinds, CacheAssumption DEF Ways
<1>3. ASSUME NEW isWrite \in BOOLEAN
      PROVE  Accounted(Access(c, address, isWrite).cache)
  <2>1. Access(c, address, isWrite) =
          IF way >= 0 THEN Touch(Counted(c, {"accesses", "hits"}), s, way, isWrite)
          ELSE Replace(Counted(c, {"accesses", "misses"}), s, line, isWrite)
    BY DEF Access
  <2> HIDE DEF line, s, way
  <2> QED
    BY <1>1, <1>2, <2>1, TouchAccounts, ReplaceAccounts
<1>4. Accounted(InstallWriteback(c, address).cache)
  <2>1. InstallWriteback(c, address) =
          IF way >= 0 THEN Touch(Counted(c, {"writebacks_in"}), s, way, TRUE)
          ELSE Replace(Counted(c, {"writebacks_in"}), s, line, TRUE)
    BY DEF InstallWriteback
  <2> HIDE DEF line, s, way
  <2> QED
    BY <1>1, <1>2, <2>1, TouchAccounts, ReplaceAccounts
<1> QED
  BY <1>3, <1>4

\* The statistics of a cache account for every line it holds or has written back
\* (cache.hpp:11-16, cache.cpp:39-51).
THEOREM StatisticsAccount == Spec => []StatsAccount
<1>1. Init => Accounted(cache)
  <2> SUFFICES ASSUME Init PROVE Accounted(cache)
    OBVIOUS
  <2>1. Resident(cache) = {} /\ Dirty(cache) = {}
    BY DEF Init, NewCache, EmptyRow, Resident, Dirty
  <2>2. IsFiniteSet({}) /\ Cardinality({}) = 0
    BY FS_EmptySet
  <2>3. cache.tick = 0 /\ \A k \in Counters : cache.stats[k] = 0
    BY DEF Init, NewCache
  <2> QED
    BY <2>1, <2>2, <2>3 DEF Accounted, Counters
<1>2. Inv /\ Accounted(cache) /\ [Next]_vars => Accounted(cache)'
  <2> SUFFICES ASSUME Inv, Accounted(cache), [Next]_vars PROVE Accounted(cache')
    OBVIOUS
  <2>1. Addresses \subseteq Address /\ WellFormed(cache)
    BY DriverAssumption DEF Inv
  <2>2. ASSUME NEW address \in Addresses, NEW isWrite \in BOOLEAN, DemandAccess(address, isWrite)
        PROVE  Accounted(cache')
    BY <2>1, <2>2, CallAccounts DEF DemandAccess, Return
  <2>3. ASSUME NEW address \in Addresses, IncomingWriteback(address)
        PROVE  Accounted(cache')
    BY <2>1, <2>3, CallAccounts DEF IncomingWriteback, Return
  <2>4. CASE UNCHANGED vars
    BY <2>4 DEF vars
  <2> QED
    BY <2>2, <2>3, <2>4 DEF Next
<1>3. Accounted(cache) => StatsAccount
  BY DEF Accounted, StatsAccount, Dirty, DirtyLines
<1> QED
  BY <1>1, <1>2, <1>3, Invariance, PTL DEF Spec

-----------------------------------------------------------------------------
(* Two caches, one with fewer ways.  What follows is said of the row of one  *)
(* set, for any set of ways.                                                *)

\* Empty ways have timestamp 0, filled ones have timestamps and tags of their own.
GoodRow(row, ways, now) ==
  /\ \A w \in ways : row.used[w] \in 0 .. now
  /\ \A w \in ways : row.tags[w] = EmptyTag <=> row.used[w] = 0
  /\ \A v, w \in ways : /\ row.tags[w] # EmptyTag
                        /\ row.tags[v] = row.tags[w] \/ row.used[v] = row.used[w]
                        => v = w

\* A reference to a line changes one way: the one that holds it or the oldest.
RowStep(row, new, ways, line, isDirty, now) ==
  \E w \in ways :
    /\ \A v \in ways \ {w} : /\ new.tags[v] = row.tags[v] /\ new.used[v] = row.used[v]
                             /\ new.dirty[v] = row.dirty[v]
    /\ new.tags[w] = line /\ new.used[w] = now
    /\ \/ row.tags[w] = line /\ (new.dirty[w] <=> row.dirty[w] \/ isDirty)
       \/ /\ \A v \in ways : row.tags[v] # line /\ row.used[w] <= row.used[v]
          /\ new.dirty[w] <=> isDirty

\* The larger row has all that the smaller row has, as recent and as dirty.
Covers(big, small) ==
  \A w \in S!Ways : small.tags[w] # EmptyTag =>
    \E v \in Ways : /\ big.tags[v] = small.tags[w] /\ big.used[v] = small.used[w]
                    /\ small.dirty[w] => big.dirty[v]

\* Until the smaller row is full, it has all that the larger one has.
Complete(big, small) ==
  \A w \in S!Ways : small.tags[w] = EmptyTag =>
    \A v \in Ways : big.tags[v] # EmptyTag => \E u \in S!Ways : small.tags[u] = big.tags[v]

\* A step keeps the row good.
LEMMA StepKeepsGoodRow ==
  ASSUME NEW row, NEW new, NEW ways, NEW line, line # EmptyTag, NEW d, NEW now \in Nat,
         GoodRow(row, ways, now), RowStep(row, new, ways, line, d, now + 1)
  PROVE  GoodRow(new, ways, now + 1)
<1>1. PICK w \in ways :
        /\ \A v \in ways \ {w} : new.tags[v] = row.tags[v] /\ new.used[v] = row.used[v]
        /\ new.tags[w] = line /\ new.used[w] = now + 1
        /\ row.tags[w] = line \/ \A v \in ways : row.tags[v] # line
  BY DEF RowStep
<1>2. /\ \A v \in ways : row.used[v] \in 0 .. now
      /\ \A v \in ways : row.tags[v] = EmptyTag <=> row.used[v] = 0
      /\ \A u, v \in ways : /\ row.tags[v] # EmptyTag
                            /\ row.tags[u] = row.tags[v] \/ row.used[u] = row.used[v]
                            => u = v
  BY DEF GoodRow
<1>3. \A v \in ways : new.used[v] \in 0 .. now + 1
  BY <1>1, <1>2
<1>4. \A v \in ways : new.tags[v] = EmptyTag <=> new.used[v] = 0
  BY <1>1, <1>2
<1>5. ASSUME NEW u \in ways, NEW v \in ways, new.tags[v] # EmptyTag,
             new.tags[u] = new.tags[v] \/ new.used[u] = new.used[v]
      PROVE  u = v
  <2>1. \A x \in ways \ {w} : row.tags[x] # line /\ new.tags[x] # line
    BY <1>1, <1>2
  <2>2. \A x \in ways \ {w} : new.used[x] # now + 1
    BY <1>1, <1>2
  <2>3. CASE u # w /\ v # w
    BY <1>1, <1>2, <1>5, <2>3
  <2>4. CASE u = w \/ v = w
    BY <1>1, <1>5, <2>1, <2>2, <2>4
  <2> QED
    BY <2>3, <2>4
<1> QED
  BY <1>3, <1>4, <1>5 DEF GoodRow

\* The larger row does not fit into the smaller one when a way of that one is free.
LEMMA RowDoesNotFit ==
  ASSUME NEW free \in S!Ways, NEW f \in [Ways -> S!Ways \ {free}]
  PROVE  \E u, v \in Ways : u # v /\ f[u] = f[v]
<1>1. /\ Associativity \in Nat /\ FewWays \in Nat /\ FewWays <= Associativity
      /\ Associativity > 0 /\ FewWays > 0
  BY CacheAssumption, WaysAssumption
<1>2. /\ IsFiniteSet(Ways) /\ Cardinality(Ways) = Associativity
  BY <1>1, FS_Interval DEF Ways
<1>3. /\ IsFiniteSet(S!Ways) /\ Cardinality(S!Ways) = FewWays
  BY <1>1, FS_Interval DEF S!Ways
<1>4. /\ IsFiniteSet(S!Ways \ {free}) /\ Cardinality(S!Ways \ {free}) = FewWays - 1
  BY <1>3, FS_RemoveElement
<1> QED
  BY <1>1, <1>2, <1>4, FS_PigeonHole

\* LRU is a stack algorithm: the same reference keeps the smaller row covered.
LEMMA StepKeepsCovers ==
  ASSUME NEW big, NEW small, NEW bigger, NEW smallest, NEW line, line # EmptyTag, NEW d,
         NEW now \in Nat, GoodRow(big, Ways, now), GoodRow(small, S!Ways, now),
         Covers(big, small), Complete(big, small),
         RowStep(big, bigger, Ways, line, d, now + 1),
         RowStep(small, smallest, S!Ways, line, d, now + 1)
  PROVE  Covers(bigger, smallest) /\ Complete(bigger, smallest)
<1> DEFINE HitAt(row, new, w) ==
             row.tags[w] = line /\ (new.dirty[w] <=> row.dirty[w] \/ d)
           MissAt(row, new, ways, w) ==
             /\ \A v \in ways : row.tags[v] # line /\ row.used[w] <= row.used[v]
             /\ new.dirty[w] <=> d
<1>1. PICK wb \in Ways :
        /\ \A v \in Ways \ {wb} : /\ bigger.tags[v] = big.tags[v] /\ bigger.used[v] = big.used[v]
                                  /\ bigger.dirty[v] = big.dirty[v]
        /\ bigger.tags[wb] = line /\ bigger.used[wb] = now + 1
        /\ HitAt(big, bigger, wb) \/ MissAt(big, bigger, Ways, wb)
  BY DEF RowStep
<1>2. PICK ws \in S!Ways :
        /\ \A v \in S!Ways \ {ws} :
             /\ smallest.tags[v] = small.tags[v] /\ smallest.used[v] = small.used[v]
             /\ smallest.dirty[v] = small.dirty[v]
        /\ smallest.tags[ws] = line /\ smallest.used[ws] = now + 1
        /\ HitAt(small, smallest, ws) \/ MissAt(small, smallest, S!Ways, ws)
  BY DEF RowStep
<1>3. /\ \A v \in Ways : big.used[v] \in 0 .. now
      /\ \A v \in Ways : big.tags[v] = EmptyTag <=> big.used[v] = 0
      /\ \A u, v \in Ways : /\ big.tags[v] # EmptyTag
                            /\ big.tags[u] = big.tags[v] \/ big.used[u] = big.used[v]
                            => u = v
  BY DEF GoodRow
<1>4. /\ \A v \in S!Ways : small.used[v] \in 0 .. now
      /\ \A v \in S!Ways : small.tags[v] = EmptyTag <=> small.used[v] = 0
      /\ \A u, v \in S!Ways : /\ small.tags[v] # EmptyTag
                              /\ small.tags[u] = small.tags[v] \/ small.used[u] = small.used[v]
                              => u = v
  BY DEF GoodRow
<1>5. \A w \in S!Ways : small.tags[w] # EmptyTag =>
        \E v \in Ways : /\ big.tags[v] = small.tags[w] /\ big.used[v] = small.used[w]
                        /\ small.dirty[w] => big.dirty[v]
  BY DEF Covers
<1>6. \A w \in S!Ways : small.tags[w] = EmptyTag =>
        \A v \in Ways : big.tags[v] # EmptyTag => \E u \in S!Ways : small.tags[u] = big.tags[v]
  BY DEF Complete
<1>7. ASSUME NEW w \in S!Ways, smallest.tags[w] # EmptyTag
      PROVE  \E v \in Ways : /\ bigger.tags[v] = smallest.tags[w]
                             /\ bigger.used[v] = smallest.used[w]
                             /\ smallest.dirty[w] => bigger.dirty[v]
  <2>1. CASE w = ws
    <3>1. bigger.tags[wb] = smallest.tags[w] /\ bigger.used[wb] = smallest.used[w]
      BY <1>1, <1>2, <2>1
    <3>2. smallest.dirty[w] => bigger.dirty[wb]
      <4>1. CASE MissAt(small, smallest, S!Ways, ws)
        BY <1>1, <2>1, <4>1
      <4>2. CASE HitAt(small, smallest, ws)
        <5>1. PICK v \in Ways : big.tags[v] = line /\ (small.dirty[ws] => big.dirty[v])
          BY <1>5, <4>2
        <5>2. HitAt(big, bigger, wb) /\ v = wb
          BY <1>1, <1>3, <5>1
        <5> QED
          BY <2>1, <4>2, <5>1, <5>2
      <4> QED
        BY <1>2, <4>1, <4>2
    <3> QED
      BY <3>1, <3>2
  <2>2. CASE w # ws
    <3>1. /\ smallest.tags[w] = small.tags[w] /\ smallest.used[w] = small.used[w]
          /\ smallest.dirty[w] = small.dirty[w]
      BY <1>2, <2>2
    <3>2. PICK v \in Ways : /\ big.tags[v] = small.tags[w] /\ big.used[v] = small.used[w]
                            /\ small.dirty[w] => big.dirty[v]
      BY <1>5, <1>7, <3>1
    <3>3. ASSUME v = wb PROVE FALSE
      <4>1. CASE HitAt(big, bigger, wb)
        <5>1. small.tags[w] = line
          BY <3>2, <3>3, <4>1
        <5>2. HitAt(small, smallest, ws)
          BY <1>2, <5>1
        <5> QED
          BY <1>4, <2>2, <5>1, <5>2
      <4>2. CASE MissAt(big, bigger, Ways, wb)
        <5>1. MissAt(small, smallest, S!Ways, ws)
          BY <1>2, <1>5, <4>2
        <5>2. small.used[ws] <= small.used[w]
          BY <5>1
        <5>3. CASE small.tags[ws] # EmptyTag
          <6>1. PICK u \in Ways : big.used[u] = small.used[ws]
            BY <1>5, <5>3
          <6>2. big.used[wb] <= big.used[u]
            BY <4>2
          <6>3. small.used[ws] = small.used[w]
            BY <1>4, <3>2, <3>3, <5>2, <6>1, <6>2
          <6> QED
            BY <1>4, <2>2, <5>3, <6>3
        <5>4. CASE small.tags[ws] = EmptyTag
          <6>1. \A u \in Ways : big.tags[u] # EmptyTag
            <7>1. big.used[wb] \in Nat /\ big.used[wb] # 0
              BY <1>3, <1>7, <3>1, <3>2, <3>3
            <7>2. \A u \in Ways : big.used[u] \in Nat /\ big.used[wb] <= big.used[u]
              BY <1>3, <4>2
            <7>3. \A u \in Ways : big.used[u] # 0
              BY <7>1, <7>2
            <7> QED
              BY <1>3, <7>3
          <6>2. \A u \in Ways : \E x \in S!Ways \ {ws} : small.tags[x] = big.tags[u]
            BY <1>6, <5>4, <6>1
          <6> DEFINE f == [u \in Ways |-> CHOOSE x \in S!Ways \ {ws} : small.tags[x] = big.tags[u]]
          <6>3. \A u \in Ways : f[u] \in S!Ways \ {ws} /\ small.tags[f[u]] = big.tags[u]
            BY <6>2
          <6>4. f \in [Ways -> S!Ways \ {ws}]
            BY <6>3
          <6> HIDE DEF f
          <6>5. PICK u, x \in Ways : u # x /\ f[u] = f[x]
            BY <6>4, RowDoesNotFit
          <6>6. big.tags[u] = big.tags[x]
            BY <6>3, <6>5
          <6> QED
            BY <1>3, <6>1, <6>5, <6>6
        <5> QED
          BY <5>3, <5>4
      <4> QED
        BY <1>1, <4>1, <4>2
    <3>4. /\ bigger.tags[v] = big.tags[v] /\ bigger.used[v] = big.used[v]
          /\ bigger.dirty[v] = big.dirty[v]
      BY <1>1, <3>3
    <3> QED
      BY <3>1, <3>2, <3>4
  <2> QED
    BY <2>1, <2>2
<1>8. ASSUME NEW free \in S!Ways, smallest.tags[free] = EmptyTag,
             NEW v \in Ways, bigger.tags[v] # EmptyTag
      PROVE  \E u \in S!Ways : smallest.tags[u] = bigger.tags[v]
  <2>1. free # ws /\ small.tags[free] = EmptyTag
    BY <1>2, <1>8
  <2>2. CASE v = wb
    BY <1>1, <1>2, <2>2
  <2>3. CASE v # wb
    <3>1. bigger.tags[v] = big.tags[v]
      BY <1>1, <2>3
    <3>2. PICK u \in S!Ways : small.tags[u] = big.tags[v]
      BY <1>6, <1>8, <2>1, <3>1
    <3>3. smallest.tags[u] = small.tags[u]
      <4>1. CASE u # ws
        BY <1>2, <4>1
      <4>2. CASE u = ws /\ HitAt(small, smallest, ws)
        BY <1>2, <4>2
      <4>3. CASE u = ws /\ MissAt(small, smallest, S!Ways, ws)
        <5>1. small.used[ws] <= small.used[free] /\ small.used[free] = 0
          BY <1>4, <2>1, <4>3
        <5>2. small.used[ws] \in Nat
          BY <1>4
        <5>3. small.tags[ws] = EmptyTag
          BY <1>4, <5>1, <5>2
        <5> QED
          BY <1>8, <3>1, <3>2, <4>3, <5>3
      <4> QED
        BY <1>2, <4>1, <4>2, <4>3
    <3> QED
      BY <3>1, <3>2, <3>3
  <2> QED
    BY <2>2, <2>3
<1> QED
  BY <1>7, <1>8 DEF Covers, Complete

-----------------------------------------------------------------------------
(* The operations take such steps, whatever the number of ways.              *)

RowOf(ways) == [tags : [ways -> Tag], used : [ways -> Nat], dirty : [ways -> BOOLEAN]]

\* A reference to a line changes the row of the set it selects.
Stepped(c, n, ways, line, d) ==
  /\ n.rows \in [Sets -> RowOf(ways)] /\ n.tick = c.tick + 1
  /\ \A s \in Sets : IF s = SetIndex(line)
                      THEN RowStep(c.rows[s], n.rows[s], ways, line, d, c.tick + 1)
                      ELSE n.rows[s] = c.rows[s]

\* A hit is such a step, in the way that holds the line.
LEMMA TouchSteps ==
  ASSUME NEW ways, NEW c, c.rows \in [Sets -> RowOf(ways)], c.tick \in Nat,
         NEW line \in Tag, NEW w \in ways, c.rows[SetIndex(line)].tags[w] = line,
         NEW d \in BOOLEAN, NEW n, n.tick = c.tick + 1,
         n.rows = [c.rows EXCEPT ![SetIndex(line)] = TouchWay(@, w, d, c.tick + 1)]
  PROVE  Stepped(c, n, ways, line, d)
<1> DEFINE s   == SetIndex(line)
           row == c.rows[s]
           new == TouchWay(row, w, d, c.tick + 1)
<1>1. s \in Sets /\ row \in RowOf(ways)
  BY SetIndexInRange, CacheAssumption DEF Tag
<1>2. new \in RowOf(ways)
  BY <1>1 DEF TouchWay, RowOf
<1>3. /\ \A v \in ways \ {w} : /\ new.tags[v] = row.tags[v] /\ new.used[v] = row.used[v]
                               /\ new.dirty[v] = row.dirty[v]
      /\ new.tags[w] = line /\ new.used[w] = c.tick + 1 /\ row.tags[w] = line
      /\ new.dirty[w] <=> row.dirty[w] \/ d
  BY <1>1 DEF TouchWay, RowOf
<1>4. n.rows = [c.rows EXCEPT ![s] = new]
  OBVIOUS
<1> HIDE DEF new, row, s
<1>5. RowStep(row, new, ways, line, d, c.tick + 1)
  BY <1>3 DEF RowStep
<1>6. /\ n.rows \in [Sets -> RowOf(ways)] /\ n.rows[s] = new
      /\ \A t \in Sets : t # s => n.rows[t] = c.rows[t]
  BY <1>1, <1>2, <1>4
<1> QED
  BY <1>5, <1>6 DEF Stepped, row, s

\* A miss is such a step, in an oldest way.
LEMMA FillSteps ==
  ASSUME NEW ways, NEW c, c.rows \in [Sets -> RowOf(ways)], c.tick \in Nat,
         NEW line \in Tag, NEW w \in ways,
         \A v \in ways : /\ c.rows[SetIndex(line)].tags[v] # line
                         /\ c.rows[SetIndex(line)].used[w] <= c.rows[SetIndex(line)].used[v],
         NEW d \in BOOLEAN, NEW n, n.tick = c.tick + 1,
         n.rows = [c.rows EXCEPT ![SetIndex(line)] = FillWay(@, w, line, d, c.tick + 1)]
  PROVE  Stepped(c, n, ways, line, d)
<1> DEFINE s   == SetIndex(line)
           row == c.rows[s]
           new == FillWay(row, w, line, d, c.tick + 1)
<1>1. s \in Sets /\ row \in RowOf(ways)
  BY SetIndexInRange, CacheAssumption DEF Tag
<1>2. new \in RowOf(ways)
  BY <1>1 DEF FillWay, RowOf
<1>3. /\ \A v \in ways \ {w} : /\ new.tags[v] = row.tags[v] /\ new.used[v] = row.used[v]
                               /\ new.dirty[v] = row.dirty[v]
      /\ new.tags[w] = line /\ new.used[w] = c.tick + 1 /\ new.dirty[w] = d
      /\ \A v \in ways : row.tags[v] # line /\ row.used[w] <= row.used[v]
  BY <1>1 DEF FillWay, RowOf
<1>4. n.rows = [c.rows EXCEPT ![s] = new]
  OBVIOUS
<1> HIDE DEF new, row, s
<1>5. RowStep(row, new, ways, line, d, c.tick + 1)
  BY <1>3 DEF RowStep
<1>6. /\ n.rows \in [Sets -> RowOf(ways)] /\ n.rows[s] = new
      /\ \A t \in Sets : t # s => n.rows[t] = c.rows[t]
  BY <1>1, <1>2, <1>4
<1> QED
  BY <1>5, <1>6 DEF Stepped, row, s

\* The two operations of the larger cache.
LEMMA LargerSteps ==
  ASSUME NEW c \in CacheState, NEW address \in Address
  PROVE  /\ \A d \in BOOLEAN : Stepped(c, Access(c, address, d).cache, Ways, LineAddress(address), d)
         /\ Stepped(c, InstallWriteback(c, address).cache, Ways, LineAddress(address), TRUE)
<1> DEFINE line == LineAddress(address)
           s    == SetIndex(line)
           row  == c.rows[s]
           way  == FindWay(row, line)
           v    == SelectVictim(row)
           Ending(d, which) == IF way >= 0 THEN Touch(Counted(c, which), s, way, d)
                                         ELSE Replace(Counted(c, which), s, line, d)
<1>1. /\ line \in Tag /\ s \in Sets /\ row \in Row /\ c.tick \in Nat
      /\ c.rows \in [Sets -> RowOf(Ways)]
  BY LineIsReal, SetIndexInRange, CacheAssumption DEF Tag, CacheState, Row, RowOf
<1>2. \/ way \in Ways /\ row.tags[way] = line /\ way >= 0
      \/ ~(way >= 0) /\ \A w \in Ways : row.tags[w] # line
  BY FindWayFinds, CacheAssumption DEF Ways
<1>3. v \in Ways /\ \A w \in Ways : row.used[v] <= row.used[w]
  BY <1>1, VictimIsOldest
<1>4. ASSUME NEW d \in BOOLEAN, NEW which
      PROVE  Stepped(c, Ending(d, which).cache, Ways, line, d)
  <2>1. CASE way >= 0
    <3> DEFINE n == Touch(Counted(c, which), s, way, d).cache
    <3>1. n.tick = c.tick + 1 /\ n.rows = [c.rows EXCEPT ![s] = TouchWay(@, way, d, c.tick + 1)]
      BY DEF Touch, Counted
    <3> HIDE DEF n
    <3>2. Stepped(c, n, Ways, line, d)
      <4> HIDE DEF line, way
      <4> QED
        BY <1>1, <1>2, <2>1, <3>1, TouchSteps
    <3> QED
      BY <2>1, <3>2 DEF n
  <2>2. CASE ~(way >= 0)
    <3> DEFINE n == Replace(Counted(c, which), s, line, d).cache
    <3>1. n.tick = c.tick + 1 /\ n.rows = [c.rows EXCEPT ![s] = FillWay(@, v, line, d, c.tick + 1)]
      BY DEF Replace, Counted
    <3> HIDE DEF n
    <3>2. \A w \in Ways : row.tags[w] # line /\ row.used[v] <= row.used[w]
      BY <1>2, <1>3, <2>2
    <3>3. Stepped(c, n, Ways, line, d)
      <4> HIDE DEF line, way, v
      <4> QED
        BY <1>1, <1>3, <3>1, <3>2, FillSteps, SMTT(30)
    <3> QED
      BY <2>2, <3>3 DEF n
  <2> QED
    BY <2>1, <2>2
<1>5. /\ \A d \in BOOLEAN : Access(c, address, d) =
                             IF way >= 0 THEN Ending(d, {"accesses", "hits"})
                                         ELSE Ending(d, {"accesses", "misses"})
      /\ InstallWriteback(c, address) = Ending(TRUE, {"writebacks_in"})
  BY DEF Access, InstallWriteback
<1> HIDE DEF line, way, Ending
<1> QED
  BY <1>4, <1>5 DEF line

\* The two operations of the smaller one.
LEMMA SmallerSteps ==
  ASSUME NEW c, c.rows \in [Sets -> RowOf(S!Ways)], c.tick \in Nat, NEW address \in Address
  PROVE  /\ \A d \in BOOLEAN :
              Stepped(c, S!Access(c, address, d).cache, S!Ways, LineAddress(address), d)
         /\ Stepped(c, S!InstallWriteback(c, address).cache, S!Ways, LineAddress(address), TRUE)
<1> DEFINE line == LineAddress(address)
           s    == SetIndex(line)
           row  == c.rows[s]
           way  == S!FindWay(row, line)
           v    == S!SelectVictim(row)
           Ending(d, which) == IF way >= 0 THEN S!Touch(S!Counted(c, which), s, way, d)
                                         ELSE S!Replace(S!Counted(c, which), s, line, d)
<1>1. /\ line \in Tag /\ s \in Sets /\ row \in RowOf(S!Ways)
      /\ S!Ways \subseteq Nat /\ 0 \in S!Ways
  BY LineIsReal, SetIndexInRange, CacheAssumption, WaysAssumption DEF Tag, S!Ways
<1>2. \A T : T \in SUBSET Nat /\ T # {} => S!Min(T) \in T
  <2>1. \A T : S!Min(T) = Min(T)
    BY DEF S!Min, Min
  <2> QED
    BY <2>1, MinIsLeast
<1>3. \/ way \in S!Ways /\ row.tags[way] = line /\ way >= 0
      \/ ~(way >= 0) /\ \A w \in S!Ways : row.tags[w] # line
  <2> DEFINE M == {w \in S!Ways : row.tags[w] = line}
  <2>1. way = IF M = {} THEN -1 ELSE S!Min(M)
    BY DEF S!FindWay, S!MatchingWays
  <2>2. M \in SUBSET Nat
    BY <1>1
  <2>3. M # {} => S!Min(M) \in M
    BY <1>2, <2>2
  <2> HIDE DEF way, row, line, s
  <2> QED
    BY <1>1, <2>1, <2>3
<1>4. v \in S!Ways /\ \A w \in S!Ways : row.used[v] <= row.used[w]
  <2> DEFINE O      == {w \in S!Ways : \A x \in S!Ways : row.used[w] <= row.used[x]}
             Stamps == {row.used[w] : w \in S!Ways}
  <2>1. v = S!Min(O)
    BY DEF S!SelectVictim, S!OldestWays
  <2>2. \A w \in S!Ways : row.used[w] \in Nat
    BY <1>1 DEF RowOf
  <2> HIDE DEF v, row
  <2>3. Stamps \in SUBSET Nat /\ Stamps # {}
    BY <1>1, <2>2
  <2>4. Min(Stamps) \in Stamps /\ \A x \in Stamps : Min(Stamps) <= x
    BY <2>3, MinIsLeast
  <2>5. PICK w \in S!Ways : row.used[w] = Min(Stamps)
    BY <2>4
  <2>6. w \in O
    BY <2>4, <2>5
  <2>7. S!Min(O) \in O
    BY <1>1, <1>2, <2>6
  <2> QED
    BY <2>1, <2>7
<1>5. ASSUME NEW d \in BOOLEAN, NEW which
      PROVE  Stepped(c, Ending(d, which).cache, S!Ways, line, d)
  <2>1. CASE way >= 0
    <3> DEFINE n == S!Touch(S!Counted(c, which), s, way, d).cache
    <3>1. n.tick = c.tick + 1 /\ n.rows = [c.rows EXCEPT ![s] = TouchWay(@, way, d, c.tick + 1)]
      BY DEF S!Touch, S!Counted, S!TouchWay, TouchWay
    <3> HIDE DEF n
    <3>2. Stepped(c, n, S!Ways, line, d)
      <4> HIDE DEF line, way
      <4> QED
        BY <1>1, <1>3, <2>1, <3>1, TouchSteps
    <3> QED
      BY <2>1, <3>2 DEF n
  <2>2. CASE ~(way >= 0)
    <3> DEFINE n == S!Replace(S!Counted(c, which), s, line, d).cache
    <3>1. n.tick = c.tick + 1 /\ n.rows = [c.rows EXCEPT ![s] = FillWay(@, v, line, d, c.tick + 1)]
      BY DEF S!Replace, S!Counted, S!FillWay, FillWay
    <3> HIDE DEF n
    <3>2. Stepped(c, n, S!Ways, line, d)
      <4> HIDE DEF line, way, v
      <4> QED
        BY <1>1, <1>3, <1>4, <2>2, <3>1, FillSteps
    <3> QED
      BY <2>2, <3>2 DEF n
  <2> QED
    BY <2>1, <2>2
<1>6. /\ \A d \in BOOLEAN : S!Access(c, address, d) =
                             IF way >= 0 THEN Ending(d, {"accesses", "hits"})
                                         ELSE Ending(d, {"accesses", "misses"})
      /\ S!InstallWriteback(c, address) = Ending(TRUE, {"writebacks_in"})
  BY DEF S!Access, S!InstallWriteback, S!LineAddress, S!SetIndex, LineAddress, SetIndex
<1> HIDE DEF line, way, Ending
<1> QED
  BY <1>5, <1>6 DEF line

-----------------------------------------------------------------------------
(* The two caches over time.                                                *)

\* The invariant that keeps the larger cache ahead.
BothInv ==
  /\ Inv
  /\ smaller.rows \in [Sets -> RowOf(S!Ways)] /\ smaller.tick = cache.tick
  /\ \A s \in Sets : /\ GoodRow(smaller.rows[s], S!Ways, cache.tick)
                      /\ Covers(cache.rows[s], smaller.rows[s])
                      /\ Complete(cache.rows[s], smaller.rows[s])

\* The rows of a well-formed cache are good.
LEMMA WellFormedRows ==
  ASSUME NEW c, WellFormed(c), NEW s \in Sets
  PROVE  GoodRow(c.rows[s], Ways, c.tick)
<1> DEFINE row == c.rows[s]
<1>1. c.tick \in Nat
  BY DEF WellFormed, CacheState
<1>2. \A w \in Ways :
        /\ row.tags[w] = EmptyTag => row.used[w] = 0
        /\ row.tags[w] # EmptyTag => /\ row.used[w] \in 1 .. c.tick
                                     /\ \A v \in Ways : row.used[v] = row.used[w] => v = w
  BY DEF WellFormed, OrderedTimestamps
<1>3. \A w \in Ways : row.tags[w] # EmptyTag =>
                        \A v \in Ways \ {w} : row.tags[v] # row.tags[w]
  BY DEF WellFormed, UniqueLines
<1> HIDE DEF row
<1>4. \A w \in Ways : row.used[w] \in 0 .. c.tick
  BY <1>1, <1>2
<1>5. \A w \in Ways : row.tags[w] = EmptyTag <=> row.used[w] = 0
  BY <1>1, <1>2
<1>6. \A v, w \in Ways : /\ row.tags[w] # EmptyTag
                         /\ row.tags[v] = row.tags[w] \/ row.used[v] = row.used[w]
                         => v = w
  BY <1>2, <1>3
<1>7. GoodRow(row, Ways, c.tick)
  BY <1>4, <1>5, <1>6 DEF GoodRow
<1> QED
  BY <1>7 DEF row

\* Time passes over a row.
LEMMA GoodRowAges ==
  ASSUME NEW row, NEW ways, NEW now \in Nat, GoodRow(row, ways, now)
  PROVE  GoodRow(row, ways, now + 1)
<1>1. \A w \in ways : row.used[w] \in 0 .. now + 1
  BY DEF GoodRow
<1> QED
  BY <1>1 DEF GoodRow

\* Two caches that take the same reference keep the invariant ...
LEMMA BothKeepInv ==
  ASSUME BothInv, Inv', NEW address \in Address, NEW d \in BOOLEAN,
         Stepped(cache, cache', Ways, LineAddress(address), d),
         Stepped(smaller, smaller', S!Ways, LineAddress(address), d)
  PROVE  BothInv'
<1> DEFINE line == LineAddress(address)
<1>1. line # EmptyTag
  BY LineIsReal
<1> HIDE DEF line
<1>2. /\ cache.tick \in Nat /\ WellFormed(cache)
      /\ smaller.tick = cache.tick /\ cache'.tick = cache.tick + 1
      /\ smaller'.tick = cache'.tick
      /\ smaller'.rows \in [Sets -> RowOf(S!Ways)]
  BY DEF BothInv, Inv, WellFormed, CacheState, Stepped
<1>3. ASSUME NEW s \in Sets
      PROVE  /\ GoodRow(smaller'.rows[s], S!Ways, cache'.tick)
             /\ Covers(cache'.rows[s], smaller'.rows[s])
             /\ Complete(cache'.rows[s], smaller'.rows[s])
  <2> DEFINE big      == cache.rows[s]
             small    == smaller.rows[s]
             bigger   == cache'.rows[s]
             smallest == smaller'.rows[s]
             now      == cache.tick
  <2>1. /\ GoodRow(big, Ways, now) /\ GoodRow(small, S!Ways, now)
        /\ Covers(big, small) /\ Complete(big, small)
    BY <1>2, WellFormedRows DEF BothInv
  <2>2. CASE s = SetIndex(line)
    <3>1. /\ RowStep(big, bigger, Ways, line, d, now + 1)
          /\ RowStep(small, smallest, S!Ways, line, d, now + 1)
      BY <1>2, <2>2 DEF Stepped, line
    <3> HIDE DEF big, small, bigger, smallest, now
    <3>2. GoodRow(smallest, S!Ways, now + 1)
      BY <1>1, <1>2, <2>1, <3>1, StepKeepsGoodRow DEF now
    <3>3. Covers(bigger, smallest) /\ Complete(bigger, smallest)
      BY <1>1, <1>2, <2>1, <3>1, StepKeepsCovers DEF now
    <3> QED
      BY <1>2, <3>2, <3>3 DEF now, bigger, smallest
  <2>3. CASE s # SetIndex(line)
    <3>1. bigger = big /\ smallest = small
      BY <2>3 DEF Stepped, line
    <3> HIDE DEF big, small, bigger, smallest
    <3>2. GoodRow(smallest, S!Ways, now + 1)
      BY <1>2, <2>1, <3>1, GoodRowAges
    <3>3. Covers(bigger, smallest) /\ Complete(bigger, smallest)
      BY <2>1, <3>1
    <3> QED
      BY <1>2, <3>2, <3>3 DEF bigger, smallest
  <2> QED
    BY <2>2, <2>3
<1> QED
  BY <1>2, <1>3 DEF BothInv

\* ... which every step of the pair is.
LEMMA BothStepKeepsInv == BothInv /\ [BothNext]_<<vars, smaller>> => BothInv'
<1> SUFFICES ASSUME BothInv, [BothNext]_<<vars, smaller>> PROVE BothInv'
  OBVIOUS
<1>1. /\ cache \in CacheState /\ Addresses \subseteq Address
      /\ smaller.rows \in [Sets -> RowOf(S!Ways)] /\ smaller.tick \in Nat
  BY DriverAssumption DEF BothInv, Inv, WellFormed, CacheState
<1>2. ASSUME NEW address \in Addresses, NEW d \in BOOLEAN, BothAccess(address, d)
      PROVE  BothInv'
  <2>1. address \in Address /\ DemandAccess(address, d)
    BY <1>1, <1>2 DEF BothAccess
  <2>2. Inv'
    BY <2>1, StepKeepsInv DEF BothInv, Next
  <2>3. Stepped(cache, cache', Ways, LineAddress(address), d)
    BY <1>1, <2>1, LargerSteps DEF DemandAccess, Return
  <2>4. Stepped(smaller, smaller', S!Ways, LineAddress(address), d)
    BY <1>1, <1>2, <2>1, SmallerSteps DEF BothAccess
  <2> QED
    BY <2>1, <2>2, <2>3, <2>4, BothKeepInv
<1>3. ASSUME NEW address \in Addresses, BothInstall(address)
      PROVE  BothInv'
  <2>1. address \in Address /\ IncomingWriteback(address)
    BY <1>1, <1>3 DEF BothInstall
  <2>2. Inv'
    BY <2>1, StepKeepsInv DEF BothInv, Next
  <2>3. Stepped(cache, cache', Ways, LineAddress(address), TRUE)
    BY <1>1, <2>1, LargerSteps DEF IncomingWriteback, Return
  <2>4. Stepped(smaller, smaller', S!Ways, LineAddress(address), TRUE)
    BY <1>1, <1>3, <2>1, SmallerSteps DEF BothInstall
  <2> QED
    BY <2>1, <2>2, <2>3, <2>4, BothKeepInv
<1>4. CASE UNCHANGED <<vars, smaller>>
  BY <1>4 DEF BothInv, Inv, vars
<1> QED
  BY <1>2, <1>3, <1>4 DEF BothNext

\* LRU never holds less, or cleaner lines, with more ways (cache.cpp:26-37).
THEOREM MoreWaysHoldMore == BothSpec => []Inclusion
<1>1. BothInit => BothInv
  <2> SUFFICES ASSUME BothInit PROVE BothInv
    OBVIOUS
  <2>1. Inv
    BY InitEstablishesInv DEF BothInit
  <2>2. cache.tick = 0 /\ \A s \in Sets : cache.rows[s] = EmptyRow
    BY DEF BothInit, Init, NewCache
  <2>3. /\ smaller.tick = 0 /\ smaller.rows = [s \in Sets |-> S!EmptyRow]
    BY DEF BothInit, S!NewCache, S!Sets, Sets
  <2>4. S!EmptyRow \in RowOf(S!Ways)
    BY CacheAssumption DEF S!EmptyRow, S!EmptyTag, RowOf, Tag
  <2>5. \A w \in S!Ways : S!EmptyRow.tags[w] = EmptyTag /\ S!EmptyRow.used[w] = 0
    BY DEF S!EmptyRow, S!EmptyTag, EmptyTag
  <2>6. \A w \in Ways : EmptyRow.tags[w] = EmptyTag
    BY DEF EmptyRow
  <2>7. /\ GoodRow(S!EmptyRow, S!Ways, 0)
        /\ Covers(EmptyRow, S!EmptyRow) /\ Complete(EmptyRow, S!EmptyRow)
    BY <2>5, <2>6 DEF GoodRow, Covers, Complete
  <2> QED
    BY <2>1, <2>2, <2>3, <2>4, <2>7 DEF BothInv
<1>2. BothInv => Inclusion
  <2> SUFFICES ASSUME BothInv, NEW line \in S!Resident(smaller)
               PROVE  /\ Holds(cache, line)
                      /\ S!HoldsDirty(smaller, line) => HoldsDirty(cache, line)
    BY DEF Inclusion
  <2>1. WellFormed(cache) /\ line # EmptyTag
    BY DEF BothInv, Inv, S!Resident, S!EmptyTag, EmptyTag
  <2>2. ASSUME NEW s \in Sets, NEW w \in S!Ways, smaller.rows[s].tags[w] = line
        PROVE  /\ s = SetIndex(line)
               /\ \E v \in Ways : /\ cache.rows[s].tags[v] = line
                                  /\ smaller.rows[s].dirty[w] => cache.rows[s].dirty[v]
    <3>1. PICK v \in Ways : /\ cache.rows[s].tags[v] = line
                            /\ smaller.rows[s].dirty[w] => cache.rows[s].dirty[v]
      BY <2>1, <2>2 DEF BothInv, Covers
    <3>2. SetIndex(line) = s
      BY <2>1, <3>1 DEF WellFormed, UniqueLines
    <3> QED
      BY <3>1, <3>2
  <2>3. PICK s \in Sets, w \in S!Ways : smaller.rows[s].tags[w] = line
    BY DEF S!Resident, S!Sets, Sets
  <2>4. Holds(cache, line) /\ s = SetIndex(line)
    BY <2>2, <2>3 DEF Holds
  <2>5. ASSUME S!HoldsDirty(smaller, line) PROVE HoldsDirty(cache, line)
    <3>1. PICK u \in S!Ways : /\ smaller.rows[SetIndex(line)].tags[u] = line
                              /\ smaller.rows[SetIndex(line)].dirty[u]
      BY <2>5 DEF S!HoldsDirty, S!SetIndex, SetIndex
    <3> QED
      BY <2>2, <2>4, <3>1 DEF HoldsDirty
  <2> QED
    BY <2>4, <2>5
<1> QED
  BY <1>1, <1>2, BothStepKeepsInv, PTL DEF BothSpec

-----------------------------------------------------------------------------
(* Exact LRU.  The ways of a row, counted from the most recent one.          *)

\* No two filled ways have the same timestamp.
Stamped(row) == /\ row \in Row
                /\ \A v, w \in Filled(row) : row.used[v] = row.used[w] => v = w

Newer(row, w) == {v \in Filled(row) : row.used[v] > row.used[w]}

Rank(row, w) == Cardinality(Newer(row, w)) + 1

\* There are no more filled ways than ways.
LEMMA FilledIsFinite ==
  ASSUME NEW row
  PROVE  /\ IsFiniteSet(Filled(row)) /\ Cardinality(Filled(row)) \in Nat
         /\ Cardinality(Filled(row)) <= Associativity
         /\ Cardinality(Filled(row)) = Associativity => Filled(row) = Ways
<1>1. IsFiniteSet(Ways) /\ Cardinality(Ways) = Associativity
  <2>1. 0 \in Int /\ Associativity - 1 \in Int /\ Associativity \in Nat /\ Associativity > 0
    BY CacheAssumption
  <2> QED
    BY <2>1, FS_Interval DEF Ways
<1>2. Filled(row) \in SUBSET Ways
  BY DEF Filled
<1> QED
  BY <1>1, <1>2, FS_Subset, FS_CardinalityType

\* The newer a way, the lower its rank.
LEMMA NewerIsLower ==
  ASSUME NEW row, Stamped(row), NEW v \in Filled(row), NEW w \in Filled(row),
         row.used[v] > row.used[w]
  PROVE  Rank(row, v) < Rank(row, w)
<1>1. /\ \A u \in Filled(row) : row.used[u] \in Nat
  BY DEF Stamped, Row, Filled
<1>2. Newer(row, v) \subseteq Newer(row, w) \ {v}
  BY <1>1 DEF Newer
<1>3. v \in Newer(row, w) /\ IsFiniteSet(Newer(row, w))
  <2>1. Newer(row, w) \in SUBSET Filled(row)
    BY DEF Newer
  <2> QED
    BY <2>1, FilledIsFinite, FS_Subset DEF Newer
<1>4. /\ Cardinality(Newer(row, w) \ {v}) = Cardinality(Newer(row, w)) - 1
      /\ IsFiniteSet(Newer(row, w) \ {v})
  BY <1>3, FS_RemoveElement
<1>5. Cardinality(Newer(row, v)) <= Cardinality(Newer(row, w) \ {v})
  BY <1>2, <1>4, FS_Subset
<1>6. IsFiniteSet(Newer(row, v))
  BY <1>2, <1>4, FS_Subset
<1>7. Cardinality(Newer(row, v)) \in Nat /\ Cardinality(Newer(row, w)) \in Nat
  BY <1>3, <1>6, FS_CardinalityType
<1> QED
  BY <1>4, <1>5, <1>7 DEF Rank

\* Ranks are the numbers from 1, each once.
LEMMA RanksAreNumbers ==
  ASSUME NEW row, Stamped(row)
  PROVE  /\ \A w \in Filled(row) : Rank(row, w) \in 1 .. Cardinality(Filled(row))
         /\ \A v, w \in Filled(row) : Rank(row, v) = Rank(row, w) => v = w
         /\ \A n \in 1 .. Cardinality(Filled(row)) : \E w \in Filled(row) : Rank(row, w) = n
<1> DEFINE filled == Filled(row)
           size   == Cardinality(filled)
           rank   == [w \in filled |-> Rank(row, w)]
<1>1. \A u \in filled : row.used[u] \in Nat
  BY DEF Stamped, Row, Filled
<1>2. IsFiniteSet(filled) /\ size \in Nat
  BY FilledIsFinite
<1>3. ASSUME NEW w \in filled PROVE Rank(row, w) \in 1 .. size
  <2>1. Newer(row, w) \subseteq filled \ {w}
    BY <1>1 DEF Newer
  <2>2. /\ IsFiniteSet(filled \ {w}) /\ Cardinality(filled \ {w}) = size - 1
    BY <1>2, FS_RemoveElement
  <2>3. IsFiniteSet(Newer(row, w)) /\ Cardinality(Newer(row, w)) <= size - 1
    BY <2>1, <2>2, FS_Subset
  <2>4. Cardinality(Newer(row, w)) \in Nat
    BY <2>3, FS_CardinalityType
  <2> HIDE DEF size
  <2> QED
    BY <1>2, <2>3, <2>4 DEF Rank
<1>4. ASSUME NEW v \in filled, NEW w \in filled, Rank(row, v) = Rank(row, w) PROVE v = w
  <2>1. /\ row.used[v] > row.used[w] => Rank(row, v) < Rank(row, w)
        /\ row.used[w] > row.used[v] => Rank(row, w) < Rank(row, v)
    BY NewerIsLower
  <2>2. Rank(row, v) \in Nat /\ Rank(row, w) \in Nat
    BY <1>2, <1>3
  <2>3. ~(row.used[v] > row.used[w]) /\ ~(row.used[w] > row.used[v])
    BY <1>4, <2>1, <2>2
  <2>4. row.used[v] = row.used[w]
    BY <1>1, <2>3
  <2> QED
    BY <2>4 DEF Stamped
<1>5. IsFiniteSet(1 .. size) /\ Cardinality(1 .. size) = size
  <2> HIDE DEF size
  <2>1. 1 \in Int /\ size \in Int
    BY <1>2
  <2>2. (IF 1 > size THEN 0 ELSE size - 1 + 1) = size
    BY <1>2
  <2> QED
    BY <2>1, <2>2, FS_Interval
<1>6. rank \in Injection(filled, 1 .. size)
  <2>1. rank \in [filled -> 1 .. size]
    BY <1>3
  <2>2. \A v, w \in filled : rank[v] = rank[w] => v = w
    BY <1>4
  <2> HIDE DEF rank, filled, size
  <2> QED
    BY <2>1, <2>2 DEF Injection, IsInjective
<1>7. rank \in Surjection(filled, 1 .. size)
  <2> HIDE DEF rank, filled, size
  <2> QED
    BY <1>2, <1>5, <1>6, FS_Injection DEF size
<1>8. \A n \in 1 .. size : \E w \in filled : rank[w] = n
  BY <1>7 DEF Surjection
<1> QED
  BY <1>3, <1>4, <1>8

\* The n-th most recent way is the one of rank n.
LEMMA NthHasRank ==
  ASSUME NEW row, Stamped(row)
  PROVE  /\ \A n \in 1 .. Cardinality(Filled(row)) :
              NthRecent(row, n) \in Filled(row) /\ Rank(row, NthRecent(row, n)) = n
         /\ \A w \in Filled(row) : NthRecent(row, Rank(row, w)) = w
<1> DEFINE size == Cardinality(Filled(row))
<1>1. size \in Nat
  BY FilledIsFinite
<1> HIDE DEF size
<1>2. ASSUME NEW n \in 1 .. size
      PROVE  NthRecent(row, n) \in Filled(row) /\ Rank(row, NthRecent(row, n)) = n
  <2>1. \A w \in Filled(row) : Cardinality(Newer(row, w)) \in Nat
    <3> SUFFICES ASSUME NEW w \in Filled(row) PROVE Cardinality(Newer(row, w)) \in Nat
      OBVIOUS
    <3>1. Newer(row, w) \in SUBSET Filled(row)
      BY DEF Newer
    <3> QED
      BY <3>1, FilledIsFinite, FS_Subset, FS_CardinalityType
  <2>2. PICK w \in Filled(row) : Rank(row, w) = n
    BY RanksAreNumbers DEF size
  <2>3. Cardinality(Newer(row, w)) = n - 1
    BY <1>1, <2>1, <2>2 DEF Rank
  <2>4. NthRecent(row, n) = CHOOSE u \in Filled(row) : Cardinality(Newer(row, u)) = n - 1
    BY DEF NthRecent, Newer
  <2>5. NthRecent(row, n) \in Filled(row) /\ Cardinality(Newer(row, NthRecent(row, n))) = n - 1
    BY <2>3, <2>4
  <2> QED
    BY <1>1, <2>5 DEF Rank
<1>3. ASSUME NEW w \in Filled(row) PROVE NthRecent(row, Rank(row, w)) = w
  <2>1. Rank(row, w) \in 1 .. size
    BY RanksAreNumbers DEF size
  <2>2. /\ NthRecent(row, Rank(row, w)) \in Filled(row)
        /\ Rank(row, NthRecent(row, Rank(row, w))) = Rank(row, w)
    BY <1>2, <2>1
  <2> QED
    BY <2>2, RanksAreNumbers
<1> QED
  BY <1>2, <1>3 DEF size

\* A way becomes the most recent one, with another line or with its own.
Renewed(row, new, w) ==
  /\ row \in Row /\ new \in Row /\ w \in Ways
  /\ new.tags[w] # EmptyTag
  /\ \A v \in Ways : row.used[v] < new.used[w]
  /\ \A v \in Ways \ {w} : /\ new.tags[v] = row.tags[v] /\ new.used[v] = row.used[v]
                           /\ new.dirty[v] = row.dirty[v]

\* What that does to the ranks.
LEMMA RenewedRanks ==
  ASSUME NEW row, NEW new, NEW w, Renewed(row, new, w), Stamped(row)
  PROVE  /\ Stamped(new)
         /\ Filled(new) = Filled(row) \cup {w}
         /\ Rank(new, w) = 1
         /\ \A v \in Filled(row) \ {w} :
              Rank(new, v) = IF w \in Newer(row, v) THEN Rank(row, v) ELSE Rank(row, v) + 1
<1>1. /\ \A v \in Ways : row.used[v] \in Nat /\ new.used[v] \in Nat
      /\ \A v \in Ways : row.used[v] < new.used[w]
  BY DEF Renewed, Row
<1>2. Filled(new) = Filled(row) \cup {w}
  BY DEF Filled, Renewed
<1>3. Stamped(new)
  <2> SUFFICES ASSUME NEW u \in Filled(new), NEW v \in Filled(new), new.used[u] = new.used[v]
               PROVE  u = v
    BY DEF Stamped, Renewed
  <2>1. CASE u = w \/ v = w
    BY <1>1, <2>1 DEF Renewed, Filled
  <2>2. CASE u # w /\ v # w
    BY <1>2, <2>2 DEF Renewed, Filled, Stamped
  <2> QED
    BY <2>1, <2>2
<1>4. Rank(new, w) = 1
  <2>1. Newer(new, w) = {}
    <3> SUFFICES ASSUME NEW v \in Filled(new), new.used[v] > new.used[w] PROVE FALSE
      BY DEF Newer
    <3>1. v \in Ways
      BY DEF Filled
    <3>2. CASE v = w
      BY <1>1, <3>1, <3>2
    <3>3. CASE v # w
      <4>1. new.used[v] = row.used[v]
        BY <3>1, <3>3 DEF Renewed
      <4> QED
        BY <1>1, <3>1, <4>1 DEF Renewed
    <3> QED
      BY <3>2, <3>3
  <2> QED
    BY <2>1, FS_EmptySet DEF Rank
<1>5. ASSUME NEW v \in Filled(row) \ {w}
      PROVE  Rank(new, v) = IF w \in Newer(row, v) THEN Rank(row, v) ELSE Rank(row, v) + 1
  <2>1. new.used[v] = row.used[v] /\ v \in Ways /\ new.used[w] > row.used[v]
    BY <1>1 DEF Renewed, Filled
  <2>2. Newer(new, v) = Newer(row, v) \cup {w}
    <3>1. ASSUME NEW u \in Ways
          PROVE  u \in Newer(new, v) <=> u \in Newer(row, v) \/ u = w
      <4>1. CASE u = w
        BY <1>2, <2>1, <4>1 DEF Newer
      <4>2. CASE u # w
        BY <1>2, <2>1, <4>2 DEF Newer, Renewed
      <4> QED
        BY <4>1, <4>2
    <3>2. Newer(new, v) \subseteq Ways /\ Newer(row, v) \subseteq Ways /\ w \in Ways
      BY DEF Newer, Filled, Renewed
    <3> QED
      BY <3>1, <3>2
  <2>3. IsFiniteSet(Newer(row, v)) /\ Cardinality(Newer(row, v)) \in Nat
    <3>1. Newer(row, v) \in SUBSET Filled(row)
      BY DEF Newer
    <3> QED
      BY <3>1, FilledIsFinite, FS_Subset, FS_CardinalityType
  <2>4. Cardinality(Newer(new, v)) = IF w \in Newer(row, v) THEN Cardinality(Newer(row, v))
                                     ELSE Cardinality(Newer(row, v)) + 1
    BY <2>2, <2>3, FS_AddElement
  <2> QED
    BY <2>3, <2>4 DEF Rank
<1> QED
  BY <1>2, <1>3, <1>4, <1>5

-----------------------------------------------------------------------------
(* The recency list.                                                        *)

EntryOf(row, w) == [line |-> row.tags[w], dirty |-> row.dirty[w]]

Entries == [line : Tag, dirty : BOOLEAN]

\* Every filled way is in the list, at its rank.
LEMMA RecencyIs ==
  ASSUME NEW row, Stamped(row)
  PROVE  LET lines == RecencyOf(row)
         IN  /\ lines \in Seq(Entries)
             /\ Len(lines) = Cardinality(Filled(row))
             /\ DOMAIN lines = 1 .. Cardinality(Filled(row))
             /\ \A n \in 1 .. Cardinality(Filled(row)) :
                   lines[n] = EntryOf(row, NthRecent(row, n))
             /\ \A w \in Filled(row) : lines[Rank(row, w)] = EntryOf(row, w)
<1> DEFINE size == Cardinality(Filled(row))
           lines == RecencyOf(row)
<1>1. size \in Nat
  BY FilledIsFinite
<1>2. /\ lines = [n \in 1 .. size |-> lines[n]]
      /\ \A n \in 1 .. size : lines[n] = EntryOf(row, NthRecent(row, n))
  BY DEF RecencyOf, EntryOf
<1>3. \A w \in Filled(row) : EntryOf(row, w) \in Entries
  BY DEF Stamped, Row, Filled, EntryOf, Entries
<1>4. \A n \in 1 .. size : NthRecent(row, n) \in Filled(row)
  BY NthHasRank
<1> HIDE DEF size, lines
<1>5. lines \in [1 .. size -> Entries]
  BY <1>2, <1>3, <1>4
<1>6. lines \in Seq(Entries) /\ Len(lines) = size
  BY <1>1, <1>5
<1>7. ASSUME NEW w \in Filled(row) PROVE lines[Rank(row, w)] = EntryOf(row, w)
  <2>1. Rank(row, w) \in 1 .. size /\ NthRecent(row, Rank(row, w)) = w
    BY RanksAreNumbers, NthHasRank DEF size
  <2> QED
    BY <1>2, <2>1
<1> QED
  BY <1>2, <1>5, <1>6, <1>7 DEF size, lines

\* And nothing else is a list of that length with every filled way at its rank.
LEMMA RecencyIsOnly ==
  ASSUME NEW row, Stamped(row), NEW lines \in Seq(Entries),
         Len(lines) = Cardinality(Filled(row)),
         \A w \in Filled(row) : lines[Rank(row, w)] = EntryOf(row, w)
  PROVE  RecencyOf(row) = lines
<1> DEFINE size == Cardinality(Filled(row))
           s == RecencyOf(row)
<1>1. /\ s \in Seq(Entries) /\ Len(s) = size
      /\ \A w \in Filled(row) : s[Rank(row, w)] = EntryOf(row, w)
  BY RecencyIs
<1>2. \A n \in 1 .. size : \E w \in Filled(row) : Rank(row, w) = n
  BY RanksAreNumbers
<1> HIDE DEF s
<1>3. \A n \in 1 .. Len(s) : s[n] = lines[n]
  BY <1>1, <1>2
<1>4. s = lines
  BY <1>1, <1>3, SeqEqual
<1> QED
  BY <1>4 DEF s

\* A renewed way moves to the front, and the ways before it one place back.
LEMMA MovesToFront ==
  ASSUME NEW row, NEW new, NEW w, Renewed(row, new, w), Stamped(row),
         NEW rest \in Seq(Entries),
         w \in Filled(row) =>
           /\ Len(rest) = Cardinality(Filled(row)) - 1
           /\ \A k \in 1 .. Cardinality(Filled(row)) - 1 :
                rest[k] = RecencyOf(row)[IF k < Rank(row, w) THEN k ELSE k + 1],
         w \notin Filled(row) => rest = RecencyOf(row)
  PROVE  RecencyOf(new) = <<EntryOf(new, w)>> \o rest
<1> DEFINE size == Cardinality(Filled(row))
           s == RecencyOf(row)
           first == <<EntryOf(new, w)>>
           t == first \o rest
<1>1. /\ Stamped(new)
      /\ Filled(new) = Filled(row) \cup {w}
      /\ Rank(new, w) = 1
      /\ \A v \in Filled(row) \ {w} :
           Rank(new, v) = IF w \in Newer(row, v) THEN Rank(row, v) ELSE Rank(row, v) + 1
  BY RenewedRanks
<1>2. /\ size \in Nat
      /\ Cardinality(Filled(new)) = IF w \in Filled(row) THEN size ELSE size + 1
  BY <1>1, FilledIsFinite, FS_AddElement
<1>3. /\ s \in Seq(Entries) /\ Len(s) = size
      /\ \A v \in Filled(row) : s[Rank(row, v)] = EntryOf(row, v) /\ Rank(row, v) \in 1 .. size
  BY RecencyIs, RanksAreNumbers
<1>4. EntryOf(new, w) \in Entries
  BY DEF Renewed, Row, EntryOf, Entries
<1>5. first \in Seq(Entries) /\ Len(first) = 1 /\ first[1] = EntryOf(new, w)
  BY <1>4
<1> HIDE DEF first
<1>6. /\ t \in Seq(Entries) /\ Len(t) = 1 + Len(rest)
      /\ \A i \in 1 .. 1 + Len(rest) : t[i] = IF i <= 1 THEN first[i] ELSE rest[i - 1]
  <2>1. first \in Seq(Entries) /\ rest \in Seq(Entries)
    BY <1>5
  <2>2. /\ t \in Seq(Entries) /\ Len(t) = Len(first) + Len(rest)
        /\ \A i \in 1 .. Len(first) + Len(rest) :
             t[i] = IF i <= Len(first) THEN first[i] ELSE rest[i - Len(first)]
    BY <2>1, ConcatProperties
  <2>3. Len(first) = 1
    BY <1>5
  <2> HIDE DEF t
  <2> QED
    BY <2>2, <2>3
<1> HIDE DEF t, s, size
<1>7. Len(rest) \in Nat /\ Len(t) = Cardinality(Filled(new))
  <2>1. Len(rest) \in Nat
    BY LenProperties
  <2>2. Len(rest) = IF w \in Filled(row) THEN size - 1 ELSE size
    BY <1>3 DEF s, size
  <2> QED
    BY <1>2, <1>6, <2>1, <2>2
<1>8. t[1] = EntryOf(new, w)
  BY <1>5, <1>6, <1>7
<1>9. ASSUME NEW v \in Filled(row) \ {w} PROVE t[Rank(new, v)] = EntryOf(new, v)
  <2> DEFINE k == Rank(row, v)
  <2>1. EntryOf(new, v) = EntryOf(row, v)
    BY DEF Filled, Renewed, EntryOf
  <2>2. k \in 1 .. size /\ s[k] = EntryOf(row, v)
    BY <1>3
  <2>3. Rank(new, v) = IF w \in Newer(row, v) THEN k ELSE k + 1
    BY <1>1
  <2> HIDE DEF k
  <2>4. CASE w \notin Filled(row)
    <3>1. rest = s /\ Rank(new, v) = k + 1
      BY <2>3, <2>4 DEF Newer, s
    <3>2. t[k + 1] = rest[k]
      BY <1>2, <1>3, <1>6, <2>2, <3>1
    <3> QED
      BY <2>1, <2>2, <3>1, <3>2
  <2>5. CASE w \in Filled(row)
    <3> DEFINE i == Rank(row, w)
    <3>1. i \in 1 .. size
      BY <1>3, <2>5
    <3>2. /\ Len(rest) = size - 1
          /\ \A j \in 1 .. size - 1 : rest[j] = s[IF j < i THEN j ELSE j + 1]
      BY <2>5 DEF s, size
    <3>3. /\ w \in Newer(row, v) => i < k
          /\ w \notin Newer(row, v) => k < i
      <4>1. row.used[v] # row.used[w] /\ row.used[v] \in Nat /\ row.used[w] \in Nat
        BY <2>5 DEF Stamped, Row, Filled
      <4>2. /\ row.used[w] > row.used[v] => i < k
            /\ row.used[v] > row.used[w] => k < i
        BY <2>5, NewerIsLower DEF k
      <4> QED
        BY <2>5, <4>1, <4>2 DEF Newer
    <3> HIDE DEF i
    <3>4. CASE w \in Newer(row, v)
      <4>1. k > 1 /\ t[k] = rest[k - 1]
        BY <1>2, <1>6, <2>2, <3>1, <3>2, <3>3, <3>4
      <4>2. rest[k - 1] = s[k]
        <5>1. k - 1 \in 1 .. size - 1 /\ ~(k - 1 < i) /\ k - 1 + 1 = k
          BY <1>2, <2>2, <3>1, <3>3, <3>4
        <5> QED
          BY <3>2, <5>1
      <4> QED
        BY <2>1, <2>2, <2>3, <3>4, <4>1, <4>2
    <3>5. CASE w \notin Newer(row, v)
      <4>1. k \in 1 .. size - 1 /\ k < i
        BY <1>2, <2>2, <3>1, <3>3, <3>5
      <4>2. rest[k] = s[k]
        BY <3>2, <4>1
      <4>3. t[k + 1] = rest[k]
        BY <1>2, <1>6, <3>2, <4>1
      <4> QED
        BY <2>1, <2>2, <2>3, <3>5, <4>2, <4>3
    <3> QED
      BY <3>4, <3>5
  <2> QED
    BY <2>4, <2>5
<1>10. \A v \in Filled(new) : t[Rank(new, v)] = EntryOf(new, v)
  BY <1>1, <1>8, <1>9
<1>11. RecencyOf(new) = t
  BY <1>1, <1>6, <1>7, <1>10, RecencyIsOnly
<1> QED
  BY <1>11 DEF t, first

-----------------------------------------------------------------------------
(* One reference, in the row of the set it selects.                          *)

\* A line is found in a way and promoted there.
Found(row, new, answer, w, line, d) ==
  /\ row.tags[w] = line /\ new.dirty[w] = (row.dirty[w] \/ d) /\ answer = HitResult

\* A line takes the place of the oldest one.
Replaced(row, new, answer, w, line, d) ==
  /\ \A v \in Ways : row.tags[v] # line /\ row.used[w] <= row.used[v]
  /\ new.dirty[w] = d
  /\ answer = Lru!Outcome(FALSE, MustWriteBack(row, w),
                          IF MustWriteBack(row, w) THEN row.tags[w] * LineSize ELSE 0)

\* What an exact LRU list does.
Promoted(s, t, answer, line, d) ==
  \E i \in DOMAIN s : /\ s[i].line = line
                      /\ answer = Lru!Outcome(TRUE, FALSE, 0)
                      /\ t = <<Lru!Entry(line, s[i].dirty \/ d)>> \o Lru!RemoveAt(s, i)

Grown(s, t, answer, line, d) ==
  /\ Len(s) < Associativity
  /\ answer = Lru!Outcome(FALSE, FALSE, 0)
  /\ t = <<Lru!Entry(line, d)>> \o s

Evicted(s, t, answer, line, d) ==
  LET oldest == Lru!Last(s)
  IN  /\ Len(s) = Associativity
      /\ answer = Lru!Outcome(FALSE, oldest.dirty,
                              IF oldest.dirty THEN oldest.line * LineSize ELSE 0)
      /\ t = <<Lru!Entry(line, d)>> \o Lru!Front(s)

\* A hit promotes.
LEMMA HitPromotes ==
  ASSUME NEW row, NEW new, NEW w, Renewed(row, new, w), Stamped(row),
         NEW line, line # EmptyTag, new.tags[w] = line, NEW d \in BOOLEAN,
         NEW answer, Found(row, new, answer, w, line, d)
  PROVE  Promoted(RecencyOf(row), RecencyOf(new), answer, line, d)
<1> DEFINE size == Cardinality(Filled(row))
           s == RecencyOf(row)
           i == Rank(row, w)
           rest == Lru!RemoveAt(s, i)
<1>1. w \in Filled(row)
  BY DEF Filled, Found, Renewed
<1>2. /\ s \in Seq(Entries) /\ Len(s) = size /\ DOMAIN s = 1 .. size /\ size \in Nat
      /\ i \in 1 .. size /\ s[i] = EntryOf(row, w)
  BY <1>1, RecencyIs, RanksAreNumbers, FilledIsFinite
<1> HIDE DEF s, size, i
<1>3. /\ rest \in Seq(Entries) /\ Len(rest) = size - 1
      /\ \A k \in 1 .. size - 1 : rest[k] = s[IF k < i THEN k ELSE k + 1]
  <2> DEFINE a == SubSeq(s, 1, i - 1)
             b == SubSeq(s, i + 1, Len(s))
  <2>1. \A j \in 1 .. size : s[j] \in Entries
    BY <1>2
  <2>2. /\ a \in Seq(Entries) /\ Len(a) = i - 1
        /\ \A j \in 1 .. i - 1 : a[j] = s[j]
    BY <1>2, <2>1
  <2>3. /\ b \in Seq(Entries) /\ Len(b) = size - i
        /\ \A j \in 1 .. size - i : b[j] = s[i + j]
    BY <1>2, <2>1
  <2> HIDE DEF a, b
  <2>4. /\ a \o b \in Seq(Entries) /\ Len(a \o b) = (i - 1) + (size - i)
        /\ \A j \in 1 .. (i - 1) + (size - i) :
             (a \o b)[j] = IF j <= i - 1 THEN a[j] ELSE b[j - (i - 1)]
    <3> DEFINE c == a \o b
    <3>1. /\ c \in Seq(Entries) /\ Len(c) = Len(a) + Len(b)
          /\ \A j \in 1 .. Len(a) + Len(b) :
               c[j] = IF j <= Len(a) THEN a[j] ELSE b[j - Len(a)]
      BY <2>2, <2>3, ConcatProperties
    <3>2. Len(a) = i - 1 /\ Len(b) = size - i
      BY <2>2, <2>3
    <3> HIDE DEF c
    <3>3. /\ c \in Seq(Entries) /\ Len(c) = (i - 1) + (size - i)
          /\ \A j \in 1 .. (i - 1) + (size - i) :
               c[j] = IF j <= i - 1 THEN a[j] ELSE b[j - (i - 1)]
      BY <3>1, <3>2
    <3> QED
      BY <3>3 DEF c
  <2>5. rest = a \o b
    BY DEF Lru!RemoveAt, a, b
  <2> HIDE DEF rest
  <2>6. ASSUME NEW k \in 1 .. size - 1
        PROVE  rest[k] = s[IF k < i THEN k ELSE k + 1]
    <3>1. CASE k < i
      BY <1>2, <2>2, <2>4, <2>5, <3>1
    <3>2. CASE ~(k < i)
      <4>1. rest[k] = b[k - (i - 1)]
        BY <1>2, <2>4, <2>5, <3>2
      <4>2. k - (i - 1) \in 1 .. size - i /\ i + (k - (i - 1)) = k + 1
        BY <1>2, <3>2
      <4>3. rest[k] = s[k + 1]
        BY <2>3, <4>1, <4>2
      <4> QED
        BY <3>2, <4>3
    <3> QED
      BY <3>1, <3>2
  <2>7. (i - 1) + (size - i) = size - 1
    BY <1>2
  <2> QED
    BY <2>4, <2>5, <2>6, <2>7
<1> HIDE DEF rest
<1>4. RecencyOf(new) = <<EntryOf(new, w)>> \o rest
  BY <1>1, <1>3, MovesToFront DEF s, size, i
<1>5. /\ s[i].line = line /\ EntryOf(new, w) = Lru!Entry(line, s[i].dirty \/ d)
  <2> DEFINE isDirty == s[i].dirty \/ d
  <2>1. s[i].line = row.tags[w] /\ s[i].dirty = row.dirty[w]
    BY <1>2 DEF EntryOf
  <2>2. new.dirty[w] = isDirty
    BY <2>1 DEF Found
  <2> HIDE DEF isDirty
  <2>3. EntryOf(new, w) = Lru!Entry(line, isDirty)
    BY <2>2 DEF EntryOf, Lru!Entry
  <2> QED
    BY <2>1, <2>3 DEF Found, isDirty
<1>6. answer = Lru!Outcome(TRUE, FALSE, 0)
  BY DEF Found, HitResult, Lru!Outcome
<1> QED
  BY <1>2, <1>4, <1>5, <1>6 DEF Promoted, s, rest

\* A miss fills a free place or the place of the oldest line.
LEMMA MissReplaces ==
  ASSUME NEW row, NEW new, NEW w, Renewed(row, new, w), Stamped(row),
         \A v \in Ways : row.tags[v] = EmptyTag => row.used[v] = 0 /\ ~row.dirty[v],
         \A v \in Ways : row.tags[v] # EmptyTag => row.used[v] > 0,
         NEW line, new.tags[w] = line, NEW d \in BOOLEAN,
         NEW answer, Replaced(row, new, answer, w, line, d)
  PROVE  /\ Lru!Absent(RecencyOf(row), line)
         /\ \/ Grown(RecencyOf(row), RecencyOf(new), answer, line, d)
            \/ Evicted(RecencyOf(row), RecencyOf(new), answer, line, d)
<1> DEFINE size == Cardinality(Filled(row))
           s == RecencyOf(row)
           i == Rank(row, w)
<1>1. /\ s \in Seq(Entries) /\ Len(s) = size /\ DOMAIN s = 1 .. size /\ size \in Nat
      /\ \A n \in 1 .. size : /\ s[n] = EntryOf(row, NthRecent(row, n))
                               /\ NthRecent(row, n) \in Filled(row)
      /\ \A v \in Filled(row) : s[Rank(row, v)] = EntryOf(row, v)
  BY RecencyIs, NthHasRank, FilledIsFinite
<1>2. /\ w \in Ways /\ row \in Row /\ row.dirty[w] \in BOOLEAN
      /\ \A v \in Ways : row.used[v] \in Nat
  BY DEF Renewed, Row
<1>3. EntryOf(new, w) = Lru!Entry(line, d)
  BY DEF EntryOf, Lru!Entry, Replaced
<1>4. Lru!Absent(s, line)
  <2>1. \A n \in 1 .. size : s[n].line # line
    BY <1>1 DEF EntryOf, Filled, Replaced
  <2>2. DOMAIN s = 1 .. size
    BY <1>1
  <2> HIDE DEF s
  <2> QED
    BY <2>1, <2>2 DEF Lru!Absent
<1> HIDE DEF s, size, i
<1>5. CASE w \notin Filled(row)
  <2>1. row.tags[w] = EmptyTag /\ ~MustWriteBack(row, w)
    BY <1>2, <1>5 DEF Filled, MustWriteBack
  <2>2. answer = Lru!Outcome(FALSE, FALSE, 0)
    <3> DEFINE evict == MustWriteBack(row, w)
    <3>1. answer = Lru!Outcome(FALSE, evict, IF evict THEN row.tags[w] * LineSize ELSE 0)
      BY DEF Replaced
    <3>2. evict = FALSE
      BY <2>1
    <3> HIDE DEF evict
    <3> QED
      BY <3>1, <3>2
  <2>3. size < Associativity
    BY <1>1, <1>2, <1>5, FilledIsFinite, CacheAssumption DEF size
  <2>4. RecencyOf(new) = <<EntryOf(new, w)>> \o s
    BY <1>1, <1>5, MovesToFront DEF s
  <2> QED
    BY <1>1, <1>3, <1>4, <2>2, <2>3, <2>4 DEF Grown, s
<1>6. CASE w \in Filled(row)
  <2>1. Filled(row) = Ways
    <3>1. \A v \in Ways : row.used[v] > 0
      <4>1. row.used[w] > 0
        BY <1>2, <1>6 DEF Filled
      <4>2. \A v \in Ways : row.used[w] <= row.used[v]
        BY DEF Replaced
      <4> QED
        BY <1>2, <4>1, <4>2
    <3> QED
      BY <1>2, <3>1 DEF Filled
  <2>2. size = Associativity /\ size > 0
    <3>1. Cardinality(Ways) = Associativity
      <4>1. 0 \in Int /\ Associativity - 1 \in Int /\ Associativity \in Nat /\ Associativity > 0
        BY CacheAssumption
      <4> QED
        BY <4>1, FS_Interval DEF Ways
    <3> QED
      BY <2>1, <3>1, CacheAssumption DEF size
  <2>3. i = size
    <3>1. i \in 1 .. size
      BY <1>6, RanksAreNumbers DEF i, size
    <3>2. PICK v \in Filled(row) : Rank(row, v) = size
      BY <1>1, <2>2, RanksAreNumbers DEF size
    <3>3. v # w => row.used[v] > row.used[w]
      BY <1>2, <1>6, <2>1 DEF Stamped, Replaced
    <3>4. v # w => size < i
      BY <1>6, <3>2, <3>3, NewerIsLower DEF i
    <3> QED
      BY <1>1, <3>1, <3>2, <3>4 DEF i
  <2> DEFINE rest == Lru!Front(s)
  <2>4. /\ rest \in Seq(Entries) /\ Len(rest) = size - 1
        /\ \A k \in 1 .. size - 1 : rest[k] = s[k]
    <3>1. \A j \in 1 .. size : s[j] \in Entries
      BY <1>1
    <3>2. rest = SubSeq(s, 1, size - 1)
      BY <1>1 DEF Lru!Front
    <3> HIDE DEF rest
    <3>3. 1 \in Int /\ size - 1 \in Int /\ \A j \in 1 .. size - 1 : s[j] \in Entries
      BY <1>1, <3>1
    <3>4. /\ rest \in Seq(Entries)
          /\ Len(rest) = IF 1 <= size - 1 THEN size - 1 - 1 + 1 ELSE 0
          /\ \A k \in 1 .. size - 1 - 1 + 1 : rest[k] = s[1 + k - 1]
      BY <3>2, <3>3, SubSeqProperties
    <3>5. Len(rest) = size - 1
      BY <1>1, <2>2, <3>4
    <3>6. \A k \in 1 .. size - 1 : rest[k] = s[k]
      BY <1>1, <3>4
    <3> QED
      BY <3>4, <3>5, <3>6
  <2>5. Lru!Last(s) = EntryOf(row, w)
    BY <1>1, <1>6, <2>3 DEF Lru!Last, i
  <2> HIDE DEF rest
  <2>6. RecencyOf(new) = <<EntryOf(new, w)>> \o rest
    <3>1. \A k \in 1 .. size - 1 : rest[k] = s[IF k < i THEN k ELSE k + 1]
      BY <1>1, <2>3, <2>4
    <3> QED
      BY <1>6, <2>4, <3>1, MovesToFront DEF s, size, i
  <2>7. MustWriteBack(row, w) = row.dirty[w]
    BY <1>2, <1>6 DEF MustWriteBack, Filled
  <2>8. /\ Lru!Last(s).dirty = row.dirty[w]
        /\ Lru!Last(s).line = row.tags[w]
    BY <2>5 DEF EntryOf
  <2>9. answer = Lru!Outcome(FALSE, row.dirty[w],
                            IF row.dirty[w] THEN row.tags[w] * LineSize ELSE 0)
    BY <2>7 DEF Replaced
  <2> QED
    BY <1>1, <1>3, <1>4, <2>2, <2>6, <2>8, <2>9 DEF Evicted, s, rest
<1> QED
  BY <1>5, <1>6

\* A call refers to a line: one way of its set is renewed, and nothing else changes.
Referred(c, r, line, d) ==
  LET s   == SetIndex(line)
      row == c.rows[s]
      new == r.cache.rows[s]
  IN  /\ r.cache.rows = [c.rows EXCEPT ![s] = new]
      /\ \E w \in Ways : /\ Renewed(row, new, w) /\ new.tags[w] = line
                         /\ \/ Found(row, new, r.result, w, line, d)
                            \/ Replaced(row, new, r.result, w, line, d)

\* So does a hit ...
LEMMA TouchRefers ==
  ASSUME NEW c, WellFormed(c), NEW line \in Tag, line # EmptyTag,
         NEW w \in Ways, c.rows[SetIndex(line)].tags[w] = line,
         NEW d \in BOOLEAN, NEW which
  PROVE  Referred(c, Touch(Counted(c, which), SetIndex(line), w, d), line, d)
<1> DEFINE s   == SetIndex(line)
           row == c.rows[s]
           now == c.tick + 1
           new == TouchWay(row, w, d, now)
           r   == Touch(Counted(c, which), s, w, d)
<1>1. s \in Sets /\ row \in Row /\ c.tick \in Nat /\ now \in Nat
  BY SetIndexInRange, CacheAssumption DEF Tag, WellFormed, CacheState
<1>2. \A v \in Ways : row.used[v] \in Nat /\ row.used[v] < now
  BY <1>1, WellFormedRows DEF GoodRow
<1>3. /\ r.cache.rows = [c.rows EXCEPT ![s] = new] /\ r.result = HitResult
      /\ c.rows \in [Sets -> Row]
  BY DEF Touch, Counted, WellFormed, CacheState
<1>4. r.cache.rows[s] = new
  BY <1>1, <1>3
<1> HIDE DEF r, now
<1>5. /\ new \in Row
      /\ \A v \in Ways \ {w} : /\ new.tags[v] = row.tags[v] /\ new.used[v] = row.used[v]
                               /\ new.dirty[v] = row.dirty[v]
      /\ new.tags[w] = line /\ new.used[w] = now /\ row.tags[w] = line
      /\ new.dirty[w] = (row.dirty[w] \/ d)
  BY <1>1 DEF TouchWay, Row
<1> HIDE DEF new, row, s
<1>6. Renewed(row, new, w) /\ Found(row, new, r.result, w, line, d)
  BY <1>1, <1>2, <1>3, <1>5 DEF Renewed, Found
<1> QED
  BY <1>3, <1>4, <1>5, <1>6 DEF Referred, row, s, r

\* ... and a miss, in an oldest way.
LEMMA ReplaceRefers ==
  ASSUME NEW c, WellFormed(c), NEW line \in Tag, line # EmptyTag,
         \A w \in Ways : c.rows[SetIndex(line)].tags[w] # line,
         NEW d \in BOOLEAN, NEW which
  PROVE  Referred(c, Replace(Counted(c, which), SetIndex(line), line, d), line, d)
<1> DEFINE s   == SetIndex(line)
           row == c.rows[s]
           now == c.tick + 1
           w   == SelectVictim(row)
           new == FillWay(row, w, line, d, now)
           r   == Replace(Counted(c, which), s, line, d)
<1>1. s \in Sets /\ row \in Row /\ c.tick \in Nat /\ now \in Nat
  BY SetIndexInRange, CacheAssumption DEF Tag, WellFormed, CacheState
<1>2. \A v \in Ways : row.used[v] \in Nat /\ row.used[v] < now
  BY <1>1, WellFormedRows DEF GoodRow
<1>3. w \in Ways /\ \A v \in Ways : row.used[w] <= row.used[v]
  BY <1>1, VictimIsOldest
<1>4. /\ r.cache.rows = [c.rows EXCEPT ![s] = new]
      /\ r.result = Lru!Outcome(FALSE, MustWriteBack(row, w),
                                IF MustWriteBack(row, w) THEN row.tags[w] * LineSize ELSE 0)
      /\ c.rows \in [Sets -> Row]
  BY DEF Replace, Counted, WellFormed, CacheState, Lru!Outcome
<1>5. r.cache.rows[s] = new
  BY <1>1, <1>4
<1> HIDE DEF r, now, w
<1>6. /\ new \in Row
      /\ \A v \in Ways \ {w} : /\ new.tags[v] = row.tags[v] /\ new.used[v] = row.used[v]
                               /\ new.dirty[v] = row.dirty[v]
      /\ new.tags[w] = line /\ new.used[w] = now /\ new.dirty[w] = d
  BY <1>1, <1>3 DEF FillWay, Row
<1>7. \A v \in Ways : row.tags[v] # line
  OBVIOUS
<1> HIDE DEF new, row, s
<1>8. Renewed(row, new, w) /\ Replaced(row, new, r.result, w, line, d)
  BY <1>1, <1>2, <1>3, <1>4, <1>6, <1>7 DEF Renewed, Replaced
<1> QED
  BY <1>3, <1>4, <1>5, <1>6, <1>8 DEF Referred, row, s, r

\* So do both operations.
LEMMA CallsRefer ==
  ASSUME NEW c, WellFormed(c), NEW address \in Address
  PROVE  /\ \A d \in BOOLEAN : Referred(c, Access(c, address, d), LineAddress(address), d)
         /\ Referred(c, InstallWriteback(c, address), LineAddress(address), TRUE)
<1> DEFINE line == LineAddress(address)
           s    == SetIndex(line)
           way  == FindWay(c.rows[s], line)
           Ending(d, hit, miss) == IF way >= 0 THEN Touch(Counted(c, hit), s, way, d)
                                             ELSE Replace(Counted(c, miss), s, line, d)
<1>1. line \in Tag /\ line # EmptyTag
  BY LineIsReal
<1>2. \/ way \in Ways /\ c.rows[s].tags[way] = line /\ way >= 0
      \/ ~(way >= 0) /\ \A w \in Ways : c.rows[s].tags[w] # line
  BY FindWayFinds, CacheAssumption DEF Ways
<1>3. /\ \A d \in BOOLEAN :
           Access(c, address, d) = Ending(d, {"accesses", "hits"}, {"accesses", "misses"})
      /\ InstallWriteback(c, address) = Ending(TRUE, {"writebacks_in"}, {"writebacks_in"})
  BY DEF Access, InstallWriteback
<1>4. ASSUME NEW d \in BOOLEAN, NEW hit, NEW miss
      PROVE  Referred(c, Ending(d, hit, miss), line, d)
  <2> HIDE DEF line, way
  <2>1. CASE way >= 0
    <3>1. Referred(c, Touch(Counted(c, hit), s, way, d), line, d)
      BY <1>1, <1>2, <2>1, TouchRefers
    <3> QED
      BY <2>1, <3>1
  <2>2. CASE ~(way >= 0)
    <3>1. Referred(c, Replace(Counted(c, miss), s, line, d), line, d)
      BY <1>1, <1>2, <2>2, ReplaceRefers
    <3> QED
      BY <2>2, <3>1
  <2> QED
    BY <2>1, <2>2
<1> HIDE DEF line, way, Ending
<1> QED
  BY <1>3, <1>4 DEF line

\* To refer to a line is a reference of the abstract cache.
LEMMA ReferredIsLru ==
  ASSUME NEW c, WellFormed(c), NEW r, NEW line \in Tag, line # EmptyTag, NEW d \in BOOLEAN,
         Referred(c, r, line, d)
  PROVE  LET s == SetIndex(line)
             old == RecencyOf(c.rows[s])
             new == RecencyOf(r.cache.rows[s])
         IN  /\ s \in Sets
             /\ [t \in Sets |-> RecencyOf(r.cache.rows[t])]
                  = [[t \in Sets |-> RecencyOf(c.rows[t])] EXCEPT ![s] = new]
             /\ \/ Promoted(old, new, r.result, line, d)
                \/ /\ Lru!Absent(old, line)
                   /\ Grown(old, new, r.result, line, d) \/ Evicted(old, new, r.result, line, d)
<1> DEFINE s   == SetIndex(line)
           row == c.rows[s]
           new == r.cache.rows[s]
<1>1. s \in Sets /\ row \in Row /\ c.rows \in [Sets -> Row]
  BY SetIndexInRange, CacheAssumption DEF Tag, WellFormed, CacheState
<1>2. GoodRow(row, Ways, c.tick) /\ \A v \in Ways : row.tags[v] = EmptyTag => ~row.dirty[v]
  BY <1>1, WellFormedRows DEF WellFormed, OrderedTimestamps
<1>3. /\ r.cache.rows = [c.rows EXCEPT ![s] = new]
      /\ \E w \in Ways : /\ Renewed(row, new, w) /\ new.tags[w] = line
                         /\ \/ Found(row, new, r.result, w, line, d)
                            \/ Replaced(row, new, r.result, w, line, d)
  BY DEF Referred
<1> HIDE DEF s, row
<1>4. [t \in Sets |-> RecencyOf(r.cache.rows[t])]
        = [[t \in Sets |-> RecencyOf(c.rows[t])] EXCEPT ![s] = RecencyOf(new)]
  <2> HIDE DEF new
  <2>1. \A t \in Sets : r.cache.rows[t] = IF t = s THEN new ELSE c.rows[t]
    BY <1>1, <1>3
  <2> QED
    BY <2>1
<1> HIDE DEF new
<1>5. /\ Stamped(row)
      /\ \A v \in Ways : row.tags[v] = EmptyTag => row.used[v] = 0 /\ ~row.dirty[v]
      /\ \A v \in Ways : row.tags[v] # EmptyTag => row.used[v] > 0
  BY <1>1, <1>2 DEF GoodRow, Stamped, Filled, Row
<1>6. PICK w \in Ways : /\ Renewed(row, new, w) /\ new.tags[w] = line
                       /\ \/ Found(row, new, r.result, w, line, d)
                          \/ Replaced(row, new, r.result, w, line, d)
  BY <1>3
<1>7. \/ Promoted(RecencyOf(row), RecencyOf(new), r.result, line, d)
      \/ /\ Lru!Absent(RecencyOf(row), line)
         /\ \/ Grown(RecencyOf(row), RecencyOf(new), r.result, line, d)
            \/ Evicted(RecencyOf(row), RecencyOf(new), r.result, line, d)
  BY <1>5, <1>6, HitPromotes, MissReplaces
<1> QED
  BY <1>1, <1>4, <1>7 DEF s, row, new

-----------------------------------------------------------------------------
(* The refinement.                                                          *)

\* A call maps to a reference.
LEMMA CallIsReference ==
  ASSUME Inv, NEW address \in Addresses, NEW d \in BOOLEAN, NEW r, Return(r),
         Referred(cache, r, LineAddress(address), d)
  PROVE  Lru!Reference(address, d)
<1> DEFINE line == LineAddress(address)
           s    == SetIndex(line)
           old  == RecencyOf(cache.rows[s])
           new  == RecencyOf(r.cache.rows[s])
<1>1. line \in Tag /\ line # EmptyTag
  BY LineIsReal, DriverAssumption
<1>2. /\ s \in Sets
      /\ [t \in Sets |-> RecencyOf(r.cache.rows[t])]
           = [[t \in Sets |-> RecencyOf(cache.rows[t])] EXCEPT ![s] = new]
      /\ \/ Promoted(old, new, r.result, line, d)
         \/ /\ Lru!Absent(old, line)
            /\ Grown(old, new, r.result, line, d) \/ Evicted(old, new, r.result, line, d)
  BY <1>1, ReferredIsLru DEF Inv
<1>3. [t \in Sets |-> RecencyOf(cache.rows[t])][s] = old
  BY <1>2
<1>4. line = address \div LineSize /\ s = line % SetCount
  BY DEF LineAddress, SetIndex
<1>5. cache' = r.cache /\ result' = r.result
  BY DEF Return
<1>6. \A outcome : r.result = outcome => Lru!Becomes(s, new, outcome)
  BY <1>2, <1>5 DEF Lru!Becomes
<1> HIDE DEF line, s, old, new
<1>7. CASE Promoted(old, new, r.result, line, d)
  <2>1. Lru!Promote(s, old, line, d)
    BY <1>6, <1>7 DEF Promoted, Lru!Promote
  <2> QED
    BY <1>3, <1>4, <2>1 DEF Lru!Reference
<1>8. CASE Lru!Absent(old, line) /\ Grown(old, new, r.result, line, d)
  <2>1. Lru!FillFree(s, old, line, d)
    BY <1>6, <1>8 DEF Grown, Lru!FillFree
  <2> QED
    BY <1>3, <1>4, <1>8, <2>1 DEF Lru!Reference
<1>9. CASE Lru!Absent(old, line) /\ Evicted(old, new, r.result, line, d)
  <2>1. Lru!EvictOldest(s, old, line, d)
    BY <1>6, <1>9 DEF Evicted, Lru!EvictOldest
  <2> QED
    BY <1>3, <1>4, <1>9, <2>1 DEF Lru!Reference
<1> QED
  BY <1>2, <1>7, <1>8, <1>9

\* Ways, timestamps and the all-ones sentinel implement exact LRU replacement, the first
\* line of cache.hpp: every call answers what a list in order of last use answers, hit or
\* miss, victim and whether it is written back, for every geometry and runs of every length.
THEOREM ImplementsExactLru == Spec => ImplementsLru
<1>1. Init => Lru!Init
  <2> SUFFICES ASSUME Init PROVE Lru!Init
    OBVIOUS
  <2>1. \A s \in Sets : RecencyOf(cache.rows[s]) = <<>>
    <3> SUFFICES ASSUME NEW s \in Sets PROVE RecencyOf(cache.rows[s]) = <<>>
      OBVIOUS
    <3>1. Filled(cache.rows[s]) = {}
      BY DEF Init, NewCache, EmptyRow, Filled
    <3>2. Cardinality(Filled(cache.rows[s])) = 0
      BY <3>1, FS_EmptySet
    <3>3. Stamped(cache.rows[s])
      BY <3>1, NewCacheWellFormed DEF Stamped, Init, WellFormed, CacheState
    <3>4. RecencyOf(cache.rows[s]) \in Seq(Entries) /\ Len(RecencyOf(cache.rows[s])) = 0
      BY <3>2, <3>3, RecencyIs
    <3> QED
      BY <3>4, EmptySeq
  <2> QED
    BY <2>1 DEF Init, Lru!Init, Lru!Outcome, Sets
<1>2. ASSUME Inv, [Next]_vars PROVE [Lru!Next]_(Lru!vars)
  <2>1. ASSUME NEW address \in Addresses, NEW isWrite \in BOOLEAN, DemandAccess(address, isWrite)
        PROVE  Lru!Next
    <3>1. Referred(cache, Access(cache, address, isWrite), LineAddress(address), isWrite)
      BY <1>2, CallsRefer, DriverAssumption DEF Inv
    <3>2. Lru!Reference(address, isWrite)
      BY <1>2, <2>1, <3>1, CallIsReference DEF DemandAccess
    <3> QED
      BY <3>2 DEF Lru!Next
  <2>2. ASSUME NEW address \in Addresses, IncomingWriteback(address)
        PROVE  Lru!Next
    <3>1. Referred(cache, InstallWriteback(cache, address), LineAddress(address), TRUE)
      BY <1>2, CallsRefer, DriverAssumption DEF Inv
    <3>2. Lru!Reference(address, TRUE)
      BY <1>2, <2>2, <3>1, CallIsReference DEF IncomingWriteback
    <3> QED
      BY <3>2 DEF Lru!Next
  <2>3. CASE UNCHANGED vars
    BY <2>3 DEF vars, Lru!vars
  <2> QED
    BY <1>2, <2>1, <2>2, <2>3 DEF Next
<1>3. Spec => Lru!Spec
  BY <1>1, <1>2, Invariance, PTL DEF Spec, Lru!Spec
<1> QED
  BY <1>3 DEF ImplementsLru
=============================================================================
