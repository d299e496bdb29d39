---------------------------- MODULE MCApiSession -----------------------------
(* ApiSession with two interchangeable clones for TLC. *)
EXTENDS ApiSession, TLC

CONSTANTS a, b

CloneSymmetry == Permutations(Clones)
==============================================================================
