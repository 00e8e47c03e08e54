------------------------------ MODULE MCShards ------------------------------
(* Small instances of Shards.                                              *)
EXTENDS Shards, TLC

Symmetry == Permutations(Procs) \cup Permutations(Roots) \cup Permutations(Envs)
=============================================================================
