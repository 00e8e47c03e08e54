----------------------------- MODULE MCTopology -----------------------------
(* Small instances of Topology.                                           *)
EXTENDS Topology, TLC

\* An annotation overlaps with no operation that writes records or reads the
\* parameters, itself included; appends may come at any time.
Exclusive == {{"annotate"}, {"annotate", "extend"}, {"annotate", "reindex"}}

\* No discipline at all.
Overlap == {}

Symmetry == Permutations(Clients) \cup Permutations(Texts)
=============================================================================
