------------------------------ MODULE MCHandles ------------------------------
(* Small instances of Handles.                                             *)
EXTENDS Handles, TLC

Symmetry == Permutations(Threads) \cup Permutations(Dirs)
=============================================================================
