------------------------------ MODULE MshrFile ------------------------------
(***************************************************************************)
(* What the MSHRs promise (cpu.hpp:9-13, the comment at cpu.cpp:82-83): a    *)
(* fully associative file.  It is a bag of fills without slots or order; a   *)
(* miss takes an entry that frees up soonest, waits for it if it must, and   *)
(* holds it until its own fill completes.  An entry is identified by the     *)
(* cycle it frees up and by what is to be told of the fill, its label.  Time  *)
(* is exact: an instruction costs its CPI, a wait ends when it must, and       *)
(* nothing else takes any.                                                   *)
(***************************************************************************)
EXTENDS Integers, BagsExt

CONSTANTS Size,          \* number of MSHRs
          IdleLabel,     \* the label of an MSHR never used
          Misses,        \* the misses that may occur: latency and label
          Hits,          \* the latencies of the accesses that are no misses
          Counts,        \* the instructions of a record that is no access
          Cpi, One       \* what an instruction costs, in units of 1/One of a cycle

VARIABLES now,           \* the cycle counter
          owed,          \* the fraction of a cycle it lags behind
          file,          \* the bag of entries
          drained        \* the run is over

vars == <<now, owed, file, drained>>

Entry(freeAt, label) == [free_at |-> freeAt, label |-> label]

NoEntries == [e \in {} |-> 0]

Init == /\ now     = 0
        /\ owed    = 0
        /\ file    = [e \in {Entry(0, IdleLabel)} |-> Size]
        /\ drained = FALSE

Later(a, b) == IF a > b THEN a ELSE b

Soonest == {e \in DOMAIN file : \A f \in DOMAIN file : e.free_at <= f.free_at}

\* The cycle at which so many more instructions have issued, and what is then owed.
Issued(n) == now + (owed + n * Cpi) \div One
Still(n)  == (owed + n * Cpi) % One

Issue(n) ==
  /\ ~drained
  /\ now'  = Issued(n)
  /\ owed' = Still(n)
  /\ UNCHANGED <<file, drained>>

\* A dependent access is waited for.
Exposed(latency, dependent) == IF dependent THEN latency ELSE 0

Hit(latency, dependent) ==
  /\ ~drained
  /\ now'  = Issued(1) + Exposed(latency, dependent)
  /\ owed' = Still(1)
  /\ UNCHANGED <<file, drained>>

\* A miss takes this entry, one that frees up soonest, and starts as soon as it has
\* issued and the entry is free.
Miss(entry, miss, dependent) ==
  LET start == Later(Issued(1), entry.free_at)
  IN  /\ ~drained
      /\ now'  = start + Exposed(miss.latency, dependent)
      /\ owed' = Still(1)
      /\ file' = BagAdd(BagRemove(file, entry), Entry(start + miss.latency, miss.label))
      /\ UNCHANGED drained

\* The run ends when the last fill has completed and every entry is released; the
\* fraction of a cycle still owed is rounded up.
Finish ==
  /\ ~drained
  /\ \E last \in DOMAIN file :
       /\ \A e \in DOMAIN file : e.free_at <= last.free_at
       /\ now' = Later(now, last.free_at) + (IF owed > 0 THEN 1 ELSE 0)
  /\ owed' = 0
  /\ file' = NoEntries
  /\ drained' = TRUE

Next == \/ \E n \in Counts : Issue(n)
        \/ \E latency \in Hits, dependent \in BOOLEAN : Hit(latency, dependent)
        \/ \E entry \in Soonest, miss \in Misses, dependent \in BOOLEAN :
             Miss(entry, miss, dependent)
        \/ Finish

Spec == Init /\ [][Next]_vars
=============================================================================
