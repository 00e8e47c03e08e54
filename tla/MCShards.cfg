SPECIFICATION Spec
CONSTANTS
    Procs = {p1, p2}
    Trajs = {1, 2}
    Counts = {1, 2}
    Roots = {r1, r2}
    Envs = {e1, e2}
    Limits = {1}
    Ops = {"append", "select", "drain", "join", "split"}
    Exclusive = TRUE
    Quiet = TRUE
    Nil = Nil
SYMMETRY Symmetry
INVARIANTS
    EveryHandleFinds
    DrainedStays
    CopiesAreWhole
    SelectIsGlobal
PROPERTIES
    FailedDrainLeavesNoTrace
