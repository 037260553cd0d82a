\* Both families, hand-written start hashes with a TTL, one edit of the
\* row, updateredis on, a TTL, HGETALL, HSET and EXPIRE faults (a database
\* error takes the branch of r3's unparsable address, checked in dhcp_addr).
CONSTANTS
    Addr = Addr
    BadAddr = BadAddr
    Cidr = Cidr
    BadCidr = BadCidr
    Router = Router
    BadRouter = BadRouter
    NilRouter = NilRouter
    Bad = Bad
    None = None
    Durations <- MCDurations
    Servers <- MCServers
    InitHashes <- MCInitHashes
    DbRows <- MCDbRows
    MaxEdits = 1
    UpdateRedis = TRUE
    TTLflag = TRUE
    HsetFaults = TRUE
    ExpireFaults = TRUE
    DbFaults = FALSE
    ReadFaults = TRUE
    OptArgs <- MCOptArgs
SPECIFICATION Spec
INVARIANTS
    LeaseTimersWithinValidLifetime
    ServedV4LeaseHasAddress
PROPERTIES
    CacheEventuallyFollowsRow
