----------------------------- MODULE MCDiscovery -----------------------------
(* Discovery with small sets of model values for TLC. *)
EXTENDS Discovery, TLC

CONSTANTS s1, s2, c1, c2

SlaveSymmetry == Permutations(Slaves)
Symmetry == SlaveSymmetry \cup Permutations(Configs)
==============================================================================
