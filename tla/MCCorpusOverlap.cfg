SPECIFICATION Spec
CONSTANTS
    Trajs = {1}
    MaxFrames = 2
    m1 = m1
    m2 = m2
    ang = ang
    nm = nm
    Mols = {m1, m2}
    UnitSystems = {ang, nm}
    GroupLen = 2
    GroupIsShorter <- MCAlwaysShorter
    Nil = Nil
    Clients = {c1, c2}
    Inputs <- MCMixedInputs
    CompressModes = {TRUE}
    Conflicts <- Overlap
SYMMETRY Symmetry
PROPERTIES
    FramesKeepTheirMolecule
