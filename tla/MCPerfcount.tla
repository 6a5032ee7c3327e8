---------------------------- MODULE MCPerfcount ----------------------------
(* Instances of Perfcount: three counters, of which any may be missing.      *)
EXTENDS Perfcount
=============================================================================
