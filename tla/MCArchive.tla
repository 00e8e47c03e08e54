----------------------------- MODULE MCArchive -----------------------------
(* Small instances of Archive. *)
EXTENDS Archive, TLC

Symmetry == Permutations(Threads)
=============================================================================
