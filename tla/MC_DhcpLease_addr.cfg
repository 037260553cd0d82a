\* The hash written only by the postgres plugin, database faults only, DHCPv4 and
\* DHCPv6 requests of the same MAC.
CONSTANTS
    Addr = Addr
    BadAddr = BadAddr
    Cidr = Cidr
    BadCidr = BadCidr
    Router = Router
    BadRouter = BadRouter
    NilRouter = NilRouter
    Bad = Bad
    None = None
    Durations <- MCDurations
    Servers <- MCServers
    InitHashes <- MCEmptyHash
    DbRows <- MCDbRows
    MaxEdits = 0
    UpdateRedis = TRUE
    TTLflag = TRUE
    HsetFaults = FALSE
    ExpireFaults = FALSE
    DbFaults = TRUE
    ReadFaults = FALSE
    OptArgs <- MCOptArgs
SPECIFICATION Spec
INVARIANTS
    ServedLeaseHasAddress
