\* Two goroutines, Redis and database faults on, fallthrough off, redisTtl
\* set (every SavePlus fails at its EXPIRE).
CONSTANTS
    Procs = {p1, p2}
    Names <- MCNames
    Apex = "@"
    QTypes <- MCQTypes
    StoreRows <- MCStoreRows
    pgBatchUpdate = FALSE
    Fallthrough = FALSE
    RedisOnInit = TRUE
    RedisTtlSet = TRUE
    WriteFaults = TRUE
    DbFaults = TRUE
    NoField = NoField
SPECIFICATION Spec
INVARIANTS
    CacheHoldsDecodedRecords
