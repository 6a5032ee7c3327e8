------------------------------- MODULE MCCpu -------------------------------
(***************************************************************************)
(* Instances of CpuOverlap for TLC.                                         *)
(***************************************************************************)
EXTENDS CpuOverlap

L1Hit         == [source |-> "L1", latency |-> 1, queue_delay |-> 0]
L2Hit         == [source |-> "L2", latency |-> 3, queue_delay |-> 0]
Dram          == [source |-> "Memory", latency |-> 6, queue_delay |-> 0]
DramQueued    == [source |-> "Memory", latency |-> 9, queue_delay |-> 4]

\* One outcome of each kind: fills that complete out of order and one that queued.
EveryKind == {L1Hit, L2Hit, Dram, DramQueued}
=============================================================================
