\* Two goroutines, lazy population (pgBatchUpdate off), fallthrough on,
\* redisTtl left at its default -1 (Save, no EXPIRE), no Redis faults,
\* one good row per (name, type).  Fair scheduling for the liveness properties.
CONSTANTS
    Procs = {p1, p2}
    Names <- MCNames
    Apex = "@"
    QTypes <- MCQTypes
    StoreRows <- MCStoreRowsOnePerType
    pgBatchUpdate = FALSE
    Fallthrough = TRUE
    RedisOnInit = TRUE
    RedisTtlSet = FALSE
    WriteFaults = FALSE
    DbFaults = FALSE
    NoField = NoField
SPECIFICATION FairSpec
INVARIANTS
    ClientAnswersCorrect
PROPERTIES
    ZoneListFollowsKey
    AxfrServedByRedis
