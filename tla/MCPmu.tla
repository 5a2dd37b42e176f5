------------------------------- MODULE MCPmu --------------------------------
(* Instances of Pmu for TLC.                                                 *)
EXTENDS Pmu, TLC

CONSTANTS os, t1, i1, d1, d2, d3, f1, f2

TheTasks   == {os, t1}
TheIrqs    == {i1}
Drivers    == {d1, d2, d3}
Functions  == {f1, f2}
Symmetry   == Permutations(Drivers) \cup Permutations(Functions)
=============================================================================
