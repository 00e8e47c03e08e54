SPECIFICATION Spec
CONSTANTS
    Trajs = {1}
    MaxFrames = 2
    m1 = m1
    m2 = m2
    ang = ang
    nm = nm
    Mols = {m1}
    UnitSystems = {ang, nm}
    GroupLen = 2
    GroupIsShorter <- MCGroupIsShorter
    Nil = Nil
    Clients = {c1, c2}
    Inputs <- MCInputs
    CompressModes = {TRUE}
    Conflicts <- MigrateAnytime
SYMMETRY Symmetry
INVARIANTS
    EveryFrameDecodes
