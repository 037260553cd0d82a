\* Every optionset argument list of length up to 3 over 19 arguments, and
\* for each section every redis and postgres argument list below.  A
\* server whose start failed or panicked does not run, so it stops.
CONSTANTS
    None = None
    BadUrl = BadUrl
    ArgSeqs <- MCArgSeqs
    RedisArgs <- MCRedisArgs
    PgArgs <- MCPgArgs
SPECIFICATION Spec
INVARIANTS
    OptionsServedAsConfigured
    PgWritesToRedisPool
CHECK_DEADLOCK FALSE
