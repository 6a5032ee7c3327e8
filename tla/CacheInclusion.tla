--------------------------- MODULE CacheInclusion ---------------------------
(***************************************************************************)
(* A Cache next to one with fewer ways that is given the same calls.        *)
(* The experiments sweep capacity and associativity and read the difference *)
(* as the effect of the parameter (experiments/run_experiments.py); LRU is  *)
(* a stack algorithm, so per set the larger cache must never do worse.      *)
(***************************************************************************)
EXTENDS Cache

CONSTANT FewWays       \* the associativity of the smaller cache

ASSUME WaysAssumption == FewWays \in 1 .. Associativity

VARIABLE smaller       \* the other Cache object

S == INSTANCE CacheOps WITH Associativity <- FewWays

BothInit == Init /\ smaller = S!NewCache

\* The same demand access in both.
BothAccess(address, isWrite) ==
  /\ DemandAccess(address, isWrite)
  /\ smaller' = S!Access(smaller, address, isWrite).cache

\* The same write-back from the level above arrives in both.
BothInstall(address) ==
  /\ IncomingWriteback(address)
  /\ smaller' = S!InstallWriteback(smaller, address).cache

BothNext == \/ \E address \in Addresses, isWrite \in BOOLEAN : BothAccess(address, isWrite)
            \/ \E address \in Addresses : BothInstall(address)

BothSpec == BothInit /\ [][BothNext]_<<vars, smaller>>

-----------------------------------------------------------------------------

\* Whatever the smaller cache holds the larger one holds, and what is dirty in
\* the smaller is dirty in the larger: one victim chosen out of LRU order
\* (cache.cpp:26-37) is enough to break it a few accesses later.
Inclusion ==
  \A line \in S!Resident(smaller) :
    /\ Holds(cache, line)
    /\ S!HoldsDirty(smaller, line) => HoldsDirty(cache, line)
=============================================================================
