SPECIFICATION Spec
CONSTANTS
    Threads = {t1, t2}
    MaxRows = 3
    Apis = {"c", "rust"}
    Nil = Nil
INVARIANTS
    NoRowUncounted
    NextIdIsFree
    FlushCoversEarlierRows
PROPERTIES
    CallersReturn
    ImplementsLedger
