\* Two goroutines, lazy mode: a reader meets a sync in progress.
CONSTANTS
    Procs = {p1, p2}
    Names <- MCNames
    Apex = "@"
    QTypes <- MCQTypes
    StoreRows <- MCStoreRows
    pgBatchUpdate = FALSE
    Fallthrough = TRUE
    RedisOnInit = TRUE
    RedisTtlSet = FALSE
    WriteFaults = FALSE
    DbFaults = FALSE
    NoField = NoField
SPECIFICATION Spec
INVARIANTS
    ClientAnswersCorrect
