--------------------------- MODULE MCExperiments ---------------------------
(* Instances of Experiments.                                                *)
EXTENDS Experiments

CONSTANTS small, medium, large, w1, w2, f1, f2

MCSpecs   == {small, medium, large}
MCWorkers == {w1, w2}
MCNames   == {f1, f2}

\* Parameters once given up do not come back.
MCForward == {<<small, medium>>, <<medium, large>>, <<small, large>>}
MCAnyEdit == {<<old, new>> \in MCSpecs \X MCSpecs : old # new}
=============================================================================
