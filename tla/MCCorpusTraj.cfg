SPECIFICATION Spec
CONSTANTS
    Trajs = {1}
    MaxFrames = 4
    m1 = m1
    m2 = m2
    ang = ang
    nm = nm
    Mols = {m1}
    UnitSystems = {ang, nm}
    GroupLen = 3
    GroupIsShorter <- MCGroupIsShorter
    Nil = Nil
    Clients = {c1, c2}
    Inputs <- MCInputs
    CompressModes = {TRUE}
    Conflicts <- Exclusive
SYMMETRY Symmetry
INVARIANTS
    TypeOK
    CountMatchesFrames
    EveryFrameDecodes
    HashesMatchText
    RowsExact
    CookedIsFresh
PROPERTIES
    ImplementsFrameStore
