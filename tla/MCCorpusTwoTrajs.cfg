SPECIFICATION Spec
CONSTANTS
    Trajs = {1, 2}
    MaxFrames = 2
    m1 = m1
    m2 = m2
    ang = ang
    nm = nm
    Mols = {m1}
    UnitSystems = {ang, nm}
    GroupLen = 2
    GroupIsShorter <- MCGroupIsShorter
    Nil = Nil
    Clients = {c1, c2}
    Inputs <- MCPairInput
    CompressModes = {FALSE}
    Conflicts <- OneAtATime
    Half = 8
    MaxFinite = 3
    Queries <- MCQueries
    Scalar <- MCScalar
SYMMETRY Symmetry
INVARIANTS
    PostingsExact
    SelectAgreesWithScan
