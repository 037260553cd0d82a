-------------------------- MODULE MC_CorefileSetup --------------------------
(***************************************************************************)
(* One server block with up to two lines in each plugin's block.  The     *)
(* lines cover every case of both switches: each conversion that parses  *)
(* and one that falls back, a missing argument, an extra argument, an    *)
(* unknown directive, fallthrough with and without zones, and redisOn     *)
(* on, off and unparsable.  The redis ttl is 0 (minTtl's 360 when the    *)
(* record's is 0 too), 5 (below a record's 60), unset, unparsable or     *)
(* negative.  A value is never itself a directive name and               *)
(* no line holds "}".                                                     *)
(***************************************************************************)
EXTENDS CorefileSetup

MCRedisLines ==
    { <<"address", "a">>, <<"address">>, <<"address", "a", "b">>,
      <<"password", "pw">>, <<"prefix", "p">>, <<"suffix", "x">>,
      <<"connect_timeout", "5">>, <<"read_timeout", "zz">>,
      <<"ttl", "-1">>, <<"ttl", "zz">>, <<"ttl", "0">>, <<"ttl", "5">>, <<"pgBatchUpdate", "f">>,
      <<"fallthrough">>, <<"fallthrough", "z1">>, <<"bogus">> }

MCPgLines ==
    { <<"datasource", "d">>, <<"table_prefix", "t">>,
      <<"max_lifetime", "30s">>, <<"max_open_connections", "zz">>,
      <<"max_idle_connections", "5">>, <<"zone_update_interval", "zz">>,
      <<"ttl", "5">>, <<"redisOn", "true">>, <<"redisOn", "zz">>,
      <<"redisOn">>, <<"redisTtl", "-1s">>, <<"batchUpdateRedis", "0">>,
      <<"fallthrough">> }

MCMaxLines == 2

\* A record of each type, empty or not, with a stored TTL of 0 or 60; TXT
\* texts just below, at, above and at twice the 255 limit.
MCBundles ==
    {[type |-> t, ttl |-> Uint32(x), empty |-> e, len |-> 1] :
        t \in {"A", "AAAA", "CNAME", "NS", "MX", "SRV", "SOA", "CAA"},
        x \in {0, 60}, e \in BOOLEAN}
    \cup {[type |-> "TXT", ttl |-> Uint32(x), empty |-> n = 0, len |-> n] :
            x \in {0, 60}, n \in {0, 254, 255, 256, 510}}
=============================================================================
