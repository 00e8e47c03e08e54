SPECIFICATION Spec
CONSTANTS
    Trajs = {0, 1, 2}
    MaxFrames = 3
    m1 = m1
    m2 = m2
    m3 = m3
    ang = ang
    Mols = {m1, m2, m3}
    UnitSystems = {ang}
    GroupLen = 2
    GroupIsShorter <- MCGroupIsShorter
    Nil = Nil
    MaxWord = 15
    CountMax = 4
    HeaderBytes = 1
    Size = 2
    Layouts = {0, 2, 3}
    FileLists <- MCFileLists
    Batches <- MCBatches
    TextBytes <- MCTextBytes
    MaxCalls = 2
CHECK_DEADLOCK FALSE
INVARIANTS
    EnvIsOldOrSerial
    OkMeansAllStored
    StagedIsSerial
    MessagesFit
PROPERTIES
    EveryRankReturns
