\* One goroutine, lazy mode: the redis converters on a missing field.
CONSTANTS
    Procs = {p1}
    Names <- MCNames
    Apex = "@"
    QTypes <- MCQTypes
    StoreRows <- MCStoreRows
    pgBatchUpdate = FALSE
    Fallthrough = TRUE
    RedisOnInit = TRUE
    RedisTtlSet = FALSE
    WriteFaults = FALSE
    DbFaults = FALSE
    NoField = NoField
SPECIFICATION Spec
INVARIANTS
    NoNilRecordDeref
