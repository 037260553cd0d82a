\* Eager mode as shipped (pgBatchUpdate on): an empty answer from the hash is final.
CONSTANTS
    Procs = {p1}
    Names <- MCNames
    Apex = "@"
    QTypes <- MCQTypes
    StoreRows <- MCStoreRows
    pgBatchUpdate = TRUE
    Fallthrough = TRUE
    RedisOnInit = TRUE
    RedisTtlSet = FALSE
    WriteFaults = FALSE
    DbFaults = FALSE
    NoField = NoField
SPECIFICATION Spec
INVARIANTS
    ClientAnswersCorrect
