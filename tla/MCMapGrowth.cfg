SPECIFICATION Spec
CONSTANTS
    Threads = {t1, t2, t3}
    Kinds = {"read", "write", "ingest", "snapshot"}
    Rows = 2
    InputBytes = {1}
    RowBytes = {1, 4}
    CommitBytes = {1}
    FirstMap = {1, 5}
    Align = 2
    Retries = 2
    Factor = 3
    MaxCalls = 3
    Nil = Nil
INVARIANTS TypeOK WritesAreWhole GivesUpOnlyAfterDoubling IngestFullOnlyWhenCrowded
PROPERTIES ResizedPastEveryGuard CallsReturn
CHECK_DEADLOCK FALSE
