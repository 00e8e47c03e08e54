SPECIFICATION Spec
CONSTANTS
    Procs = {p1, p2}
    Trajs = {0}
    Counts = {1}
    Roots = {r1, r2, r3}
    Envs = {}
    Limits = {1}
    Ops = {"append", "drain"}
    Exclusive = TRUE
    Quiet = FALSE
    Nil = Nil
SYMMETRY Symmetry
INVARIANTS
    DrainedStays
