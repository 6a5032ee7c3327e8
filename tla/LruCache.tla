------------------------------ MODULE LruCache ------------------------------
(***************************************************************************)
(* What a set-associative, write-back, write-allocate cache with LRU        *)
(* replacement promises (the first line of include/cache.hpp), without ways, *)
(* timestamps or sentinels: every set is the list of its lines, the most    *)
(* recently used first, each with a flag saying whether it is dirty.        *)
(***************************************************************************)
EXTENDS Integers, SequencesExt

CONSTANTS LineSize, SetCount, Associativity,
          Addresses     \* the addresses referenced

VARIABLES recency,      \* recency[s]: the lines of set s, most recent first
          result        \* the result of the last reference

vars == <<recency, result>>

Entry(line, isDirty) == [line |-> line, dirty |-> isDirty]

Outcome(hit, evict, address) ==
  [hit |-> hit, dirty_eviction |-> evict, evicted_address |-> address]

Init == /\ recency = [s \in 0 .. SetCount-1 |-> <<>>]
        /\ result  = Outcome(FALSE, FALSE, 0)

\* The set becomes `lines` and the reference returns `outcome`.
Becomes(s, lines, outcome) ==
  result' = outcome /\ recency' = [recency EXCEPT ![s] = lines]

Promote(s, lines, line, makeDirty) ==
  \E i \in DOMAIN lines :
    /\ lines[i].line = line
    /\ Becomes(s, <<Entry(line, lines[i].dirty \/ makeDirty)>> \o RemoveAt(lines, i),
               Outcome(TRUE, FALSE, 0))

FillFree(s, lines, line, makeDirty) ==
  /\ Len(lines) < Associativity
  /\ Becomes(s, <<Entry(line, makeDirty)>> \o lines, Outcome(FALSE, FALSE, 0))

EvictOldest(s, lines, line, makeDirty) ==
  LET oldest == Last(lines)
  IN  /\ Len(lines) = Associativity
      /\ Becomes(s, <<Entry(line, makeDirty)>> \o Front(lines),
                 Outcome(FALSE, oldest.dirty,
                         IF oldest.dirty THEN oldest.line * LineSize ELSE 0))

Absent(lines, line) == \A i \in DOMAIN lines : lines[i].line # line

\* A reference to an address: it promotes the line, or fills a free place, or
\* replaces the line unused for longest.
Reference(address, makeDirty) ==
  LET line  == address \div LineSize
      s     == line % SetCount
      lines == recency[s]
  IN  \/ Promote(s, lines, line, makeDirty)
      \/ /\ Absent(lines, line)
         /\ \/ FillFree(s, lines, line, makeDirty)
            \/ EvictOldest(s, lines, line, makeDirty)

Next == \E address \in Addresses, makeDirty \in BOOLEAN : Reference(address, makeDirty)

Spec == Init /\ [][Next]_vars
=============================================================================
