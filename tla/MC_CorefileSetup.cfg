CONSTANTS
    RedisLines <- MCRedisLines
    PgLines <- MCPgLines
    MaxLines <- MCMaxLines
    NilMap = NilMap
    NoServe = NoServe
    Bundles <- MCBundles
SPECIFICATION Spec
INVARIANT ParsedAsWritten
INVARIANT RedisOnHonoured
INVARIANT PgCacheMatchesRedis
INVARIANT ConvertedAsStored
