------------------------------ MODULE MCCorpus ------------------------------
(***************************************************************************)
(* Small instances of Corpus. zstd finds a run shorter when its frames     *)
(* describe the same molecule.                                             *)
(***************************************************************************)
EXTENDS Corpus, TLC

CONSTANTS m1, m2, ang, nm

MCGroupIsShorter(texts) == \A i \in DOMAIN texts : texts[i].mol = texts[1].mol

F(mol, units) == [mol |-> mol, units |-> units, fine |-> FALSE]

\* One or two frames; the second frame of a pair equal to the first or not.
MCInputs == {<<>>, <<F(m1, ang)>>, <<F(m1, ang), F(m1, ang)>>}

\* Two frames in different units: converting them makes duplicates.
MCPairInput == {<<F(m1, nm), F(m1, ang)>>}

\* Frames of two molecules, which one group may hold.
MCMixedInputs == {<<F(m1, ang)>>, <<F(m2, ang), F(m1, ang)>>}

MCAlwaysShorter(texts) == TRUE

\* A frame with more digits than the default writer prints.
MCFineInputs == {<<[mol |-> m1, units |-> ang, fine |-> TRUE]>>}

\* One maintenance operation at a time on a trajectory, and no cooking
\* during a unit change.
Exclusive == {{"set_units"}, {"repack"}, {"set_units", "repack"}, {"set_units", "cook"}}

\* The same, but a unit change and cooking may overlap.
CookAnytime == Exclusive \ {{"set_units", "cook"}}

\* Migrations may overlap each other; unit changes stay exclusive.
MigrateAnytime == Exclusive \ {{"repack"}}

\* No discipline at all.
Overlap == {}

\* Nothing else runs on a trajectory an operation is working on.
OneAtATime ==
    LET Ops == {"extend", "set_units", "repack", "cook"} IN {{a, b} : a, b \in Ops}

Symmetry == Permutations(Clients)
=============================================================================
