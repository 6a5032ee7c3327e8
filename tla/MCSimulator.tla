---------------------------- MODULE MCSimulator ----------------------------
(***************************************************************************)
(* Instances of Simulator for TLC: three lines over an L1 of one way and an  *)
(* L2 of two, so that every level both hits and evicts.                     *)
(***************************************************************************)
EXTENDS Simulator

Record(type, value) == [type |-> type, value |-> value]

AllKinds == {Record("N", 5)} \cup {Record(t, a) : t \in {"R", "W", "L"}, a \in {0, 5, 8}}
=============================================================================
