---------------------------- MODULE MCMapGrowth ----------------------------
(* Small instances of MapGrowth.                                          *)
EXTENDS MapGrowth, TLC

Symmetry == Permutations(Threads)
=============================================================================
