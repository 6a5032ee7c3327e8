------------------------------ MODULE MCCache ------------------------------
(***************************************************************************)
(* Instances of CacheInclusion for TLC: lines of 4 bytes and one address    *)
(* inside each line, not always its first.                                  *)
(***************************************************************************)
EXTENDS CacheInclusion

\* With two sets: lines 0, 2, 4 and 6 compete for set 0, line 1 is in set 1.
FourInOneSet == {0, 4, 9, 18, 27}
=============================================================================
