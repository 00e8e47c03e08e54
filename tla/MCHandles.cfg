SPECIFICATION Spec
CONSTANTS
    Threads = {t1, t2}
    Dirs = {d1, d2}
    MaxOpens = 2
    Ops = {"select", "maintain", "ingest", "h5md", "unit"}
    Nil = Nil
SYMMETRY Symmetry
CHECK_DEADLOCK FALSE
INVARIANTS
    TypeOK
    StraysOnlyAfterClose
    UnitIsOfTheCorpus
    AnswersAreOwn
    MutexHolderIsServed
