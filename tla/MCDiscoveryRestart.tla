------------------------- MODULE MCDiscoveryRestart --------------------------
(* DiscoveryRestart with model values for TLC. *)
EXTENDS DiscoveryRestart

CONSTANTS s1, c1
==============================================================================
