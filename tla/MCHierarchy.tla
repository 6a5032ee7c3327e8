---------------------------- MODULE MCHierarchy ----------------------------
(***************************************************************************)
(* Instances of Hierarchy for TLC.  L1 and L2 both have two ways, so that L2 *)
(* can evict a line that L1 still holds.                                    *)
(***************************************************************************)
EXTENDS Hierarchy

\* Four L1 lines of 4 bytes in three L2 lines of 8.
HalfLines == {0, 5, 8, 19}
=============================================================================
