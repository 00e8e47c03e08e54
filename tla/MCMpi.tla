-------------------------------- MODULE MCMpi --------------------------------
(* A small instance of Mpi: three molecules, of which m3 is longer than a  *)
(* message may be.                                                         *)
EXTENDS Mpi, TLC

CONSTANTS m1, m2, m3, ang

T(mol) == [mol |-> mol, units |-> ang, fine |-> FALSE]

MCTextBytes(text) == IF text.mol = m1 THEN 1 ELSE IF text.mol = m2 THEN 3 ELSE 5

MCGroupIsShorter(texts) == TRUE

File(traj, mols) == [traj |-> traj, texts |-> [i \in DOMAIN mols |-> T(mols[i])]]

\* Duplicates within a file, across files and across environments; a group
\* and a short tail; a file without frames; a frame too long to send; one
\* trajectory named twice.
MCFileLists ==
    {<<File(0, <<m1, m1, m2>>), File(1, <<m1>>)>>,
     <<File(2, <<m2, m1>>), File(1, <<m2>>), File(0, <<>>)>>,
     <<File(0, <<m3>>)>>,
     <<File(1, <<m1>>), File(1, <<m2>>)>>}

MCBatches == {1, 2, MaxWord}
=============================================================================
