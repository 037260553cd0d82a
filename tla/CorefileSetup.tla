--------------------------- MODULE CorefileSetup ---------------------------
(***************************************************************************)
(* The start of the CoreDNS server for one server block of the Corefile   *)
(* with the directives "redis" and "postgresql"                           *)
(* (src/coredns/plugin/redis/setup.go redisParse,                         *)
(* src/coredns/plugin/coredns_postgresql/setup.go postgresqlParse, and    *)
(* the hand-over of src/coredns/plugin/redis/redis.go SharedRedisConfig / *)
(* SetRedisConfig).                                                        *)
(*                                                                         *)
(* The server runs the setup of each directive in plugin order, redis     *)
(* before postgresql (the chain is redis -> postgresql).  redisParse      *)
(* fills the package global SharedRedisConfig with its settings as        *)
(* strings; postgresqlParse, when redisOn is set, copies them into the    *)
(* package global PgUseRedis, the client the postgresql plugin writes the *)
(* cache with.                                                             *)
(*                                                                         *)
(* A directive's tokens are a sequence of records [v, nl]: v the word, nl *)
(* that it starts a line.  The caddy dispenser is a cursor i over them (0 *)
(* before the first): Next moves to the next token, NextArg only to one  *)
(* on the same line, NextBlock past an opening brace on the same line.   *)
(* Durations are in seconds; the default redisTtl of -1ns is -1, as only *)
(* its sign is used (redisTtl > 0).                                       *)
(***************************************************************************)
EXTENDS Integers, Sequences, SequencesExt, FiniteSets

CONSTANTS
    RedisLines,     \* the directive lines the redis block may hold
    PgLines,        \* the directive lines the postgresql block may hold
    MaxLines,       \* bound on the lines of a block
    NilMap,         \* SharedRedisConfig before any redis setup ran
    Bundles,        \* the records a field of the zone may hold
    NoServe         \* no query answered yet

-----------------------------------------------------------------------------
(* Go's conversions, on the words the configurations use.                 *)

IntWords  == [w \in {"0", "5", "-1"} |-> CASE w = "0" -> 0 [] w = "5" -> 5
                                           [] w = "-1" -> -1]
BoolWords == [w \in {"1", "t", "T", "TRUE", "true", "True",
                     "0", "f", "F", "FALSE", "false", "False"} |->
                 w \in {"1", "t", "T", "TRUE", "true", "True"}]
DurWords  == [w \in {"0", "30s", "-1s"} |-> CASE w = "0" -> 0 [] w = "30s" -> 30
                                             [] w = "-1s" -> -1]

\* strconv.Atoi, strconv.ParseBool, time.ParseDuration: [ok, v].
Conv(words, w, zero) ==
    IF w \in DOMAIN words THEN [ok |-> TRUE, v |-> words[w]]
                          ELSE [ok |-> FALSE, v |-> zero]
Atoi(w)          == Conv(IntWords, w, 0)
ParseBool(w)     == Conv(BoolWords, w, FALSE)
ParseDuration(w) == Conv(DurWords, w, 0)

\* uint32(n) of an int, as its two 16-bit halves (TLC's integers are 32
\* bits wide, so 2^32 itself is out of reach).
Uint32(n) == <<(n \div 65536) % 65536, n % 65536>>

\* strconv.Itoa(n): a decimal string that Atoi gives back as n.
Itoa(n) == [dec |-> n]

-----------------------------------------------------------------------------
(* The caddy dispenser.                                                   *)

Val(s, i) == IF i \in 1..Len(s) THEN s[i].v ELSE ""
HasNext(s, i) == i < Len(s)
HasArg(s, i) == i \in 1..Len(s) - 1 /\ ~s[i + 1].nl

\* RemainingArgs: the cursor after the last token on the line of i.
RECURSIVE LineEnd(_, _)
LineEnd(s, i) == IF HasArg(s, i) THEN LineEnd(s, i + 1) ELSE i

\* NextBlock at nesting 0: [open, i].  Without "{" on the same line the
\* cursor stays; after "{" it moves to the next token, and a block that is
\* closed at once is not open.
NextBlock(s, i) ==
    IF HasArg(s, i) /\ Val(s, i + 1) = "{"
    THEN LET j == IF HasNext(s, i + 1) THEN i + 2 ELSE i + 1
         IN  [open |-> Val(s, j) # "}", i |-> j]
    ELSE [open |-> FALSE, i |-> i]

\* A block as the Corefile lexer gives its tokens: the directive name and
\* "{" on one line, each directive line, then "}" on its own line.
Tokens(name, lines) ==
    LET line(l) == [k \in DOMAIN l |-> [v |-> l[k], nl |-> k = 1]]
    IN  <<[v |-> name, nl |-> TRUE], [v |-> "{", nl |-> FALSE]>>
          \o FlattenSeq([n \in DOMAIN lines |-> line(lines[n])])
          \o <<[v |-> "}", nl |-> TRUE]>>

-----------------------------------------------------------------------------
(* The plugins' settings.                                                 *)

defaultTtl == 360
defaultMaxLifeTime == 60
defaultMaxOpenConnections == 10
defaultMaxIdleConnections == 10
defaultZoneUpdateTime == 600
defaultRedisTtl == -1

\* redis.Redis{keyPrefix: "", keySuffix: "", Ttl: 300, pgBatchUpdate: true}
RedisStart == [err |-> FALSE, address |-> "", password |-> "", prefix |-> "",
               suffix |-> "", connectTimeout |-> 0, readTimeout |-> 0,
               ttl |-> Uint32(300), fall |-> {}, pgBatchUpdate |-> TRUE]

\* CoreDNSPostgreSql{TablePrefix: "coredns_", Ttl: 300, redisOn: false,
\* redisTtl: -1, batchUpdateRedis: true}
PgStart == [err |-> FALSE, datasource |-> "", tablePrefix |-> "coredns_",
            maxLifetime |-> 0, maxOpen |-> 0, maxIdle |-> 0, zoneUpdate |-> 0,
            ttl |-> Uint32(300), redisOn |-> FALSE, redisTtl |-> -1,
            batchUpdateRedis |-> TRUE]

\* return &Redis{}, c.ArgErr() / c.Errf(...)
Failed(p) == [(IF p = "redis" THEN RedisStart ELSE PgStart) EXCEPT !.err = TRUE]

\* The directives of each plugin that take one argument.
ArgDirectives(p) ==
    IF p = "redis"
    THEN {"address", "password", "prefix", "suffix", "connect_timeout",
          "read_timeout", "ttl", "pgBatchUpdate"}
    ELSE {"datasource", "table_prefix", "max_lifetime", "max_open_connections",
          "max_idle_connections", "zone_update_interval", "ttl", "redisOn",
          "redisTtl", "batchUpdateRedis"}

\* A value, or the fallback when the conversion fails.
OrElse(c, d) == IF c.ok THEN c.v ELSE d

\* The case of the switch for directive d with argument a.
SetDirective(p, cfg, d, a) ==
    CASE p = "redis" /\ d = "address"  -> [cfg EXCEPT !.address = a]
      [] p = "redis" /\ d = "password" -> [cfg EXCEPT !.password = a]
      [] p = "redis" /\ d = "prefix"   -> [cfg EXCEPT !.prefix = a]
      [] p = "redis" /\ d = "suffix"   -> [cfg EXCEPT !.suffix = a]
      [] d = "connect_timeout" -> [cfg EXCEPT !.connectTimeout = OrElse(Atoi(a), 0)]
      [] d = "read_timeout"    -> [cfg EXCEPT !.readTimeout = OrElse(Atoi(a), 0)]
      [] d = "ttl"             -> [cfg EXCEPT !.ttl = Uint32(OrElse(Atoi(a), defaultTtl))]
      [] d = "pgBatchUpdate"   -> [cfg EXCEPT !.pgBatchUpdate = OrElse(ParseBool(a), TRUE)]
      [] d = "datasource"      -> [cfg EXCEPT !.datasource = a]
      [] d = "table_prefix"    -> [cfg EXCEPT !.tablePrefix = a]
      [] d = "max_lifetime"    -> [cfg EXCEPT !.maxLifetime = OrElse(ParseDuration(a), defaultMaxLifeTime)]
      [] d = "max_open_connections" -> [cfg EXCEPT !.maxOpen = OrElse(Atoi(a), defaultMaxOpenConnections)]
      [] d = "max_idle_connections" -> [cfg EXCEPT !.maxIdle = OrElse(Atoi(a), defaultMaxIdleConnections)]
      [] d = "zone_update_interval" -> [cfg EXCEPT !.zoneUpdate = OrElse(ParseDuration(a), defaultZoneUpdateTime)]
      [] d = "redisOn"          -> [cfg EXCEPT !.redisOn = OrElse(ParseBool(a), FALSE)]
      [] d = "redisTtl"         -> [cfg EXCEPT !.redisTtl = OrElse(ParseDuration(a), defaultRedisTtl)]
      [] d = "batchUpdateRedis" -> [cfg EXCEPT !.batchUpdateRedis = OrElse(ParseBool(a), TRUE)]

\* fallthrough: Fall.SetZonesFromArgs(c.RemainingArgs()); no zones is
\* the root zone.
FallZones(s, i) ==
    LET args == {s[k].v : k \in i + 1..LineEnd(s, i)}
    IN  IF args = {} THEN {"."} ELSE args

RECURSIVE DirectiveLoop(_, _, _, _)

\* Mutant of DirectiveLoop: the "if !c.NextArg()" guard is dropped, the
\* argument is read from whatever token follows.
DirectiveLoopNoArgCheck(p, s, i, cfg) ==
    LET v == Val(s, i)
        continue(c, j) == IF HasNext(s, j) THEN DirectiveLoop(p, s, j + 1, c) ELSE c
    IN  CASE v \in ArgDirectives(p) ->
                 continue(SetDirective(p, cfg, v, Val(s, i + 1)), i + 1)
          [] p = "redis" /\ v = "fallthrough" ->
                 continue([cfg EXCEPT !.fall = FallZones(s, i)], LineEnd(s, i))
          [] v = "}" -> continue(cfg, i)
          [] OTHER -> Failed(p)

\* The switch of redisParse / postgresqlParse, from the token at i to the
\* end of the tokens: each case, then "if !c.Next() { break }".
DirectiveLoop(p, s, i, cfg) ==
    LET v == Val(s, i)
        continue(c, j) == IF HasNext(s, j) THEN DirectiveLoop(p, s, j + 1, c) ELSE c
    IN  CASE v \in ArgDirectives(p) ->
                 IF HasArg(s, i) THEN continue(SetDirective(p, cfg, v, Val(s, i + 1)), i + 1)
                                 ELSE Failed(p)
          [] p = "redis" /\ v = "fallthrough" ->
                 continue([cfg EXCEPT !.fall = FallZones(s, i)], LineEnd(s, i))
          [] v = "}" -> continue(cfg, i)
          [] OTHER -> Failed(p)

\* redisParse: for c.Next() { if c.NextBlock() { ... } ... return &redis }
\* postgresqlParse: c.Next(); if c.NextBlock() { ... }
Parse(p, s) ==
    LET start == IF p = "redis" THEN RedisStart ELSE PgStart
        b == NextBlock(s, 1)
    IN  IF b.open THEN DirectiveLoop(p, s, b.i, start) ELSE start

\* The map redisParse leaves in SharedRedisConfig.
SharedOf(r) ==
    [redisPassword |-> r.password, redisAddress |-> r.address,
     keyPrefix |-> r.prefix, keySuffix |-> r.suffix,
     connectTimeout |-> Itoa(r.connectTimeout),
     readTimeout |-> Itoa(r.readTimeout), ttl |-> Itoa(r.ttl)]

\* r[k] and strconv.Atoi(r[k]) of a map SharedOf wrote; any key of a nil
\* map reads as "", which Atoi refuses.
MapAtoi(m, k) == IF m = NilMap THEN [ok |-> FALSE, v |-> 0]
                               ELSE [ok |-> TRUE, v |-> m[k].dec]
MapGet(m, k) == IF m = NilMap THEN "" ELSE m[k]

\* The fields of the redis client SetRedisConfig writes; the zero Redis.
ClientOf(r) == [address |-> r.address, password |-> r.password,
                prefix |-> r.prefix, suffix |-> r.suffix,
                connectTimeout |-> r.connectTimeout,
                readTimeout |-> r.readTimeout, ttl |-> r.ttl]
ZeroClient == [address |-> "", password |-> "", prefix |-> "", suffix |-> "",
               connectTimeout |-> 0, readTimeout |-> 0, ttl |-> Uint32(0)]

\* Mutant of SetRedisConfig: keySuffix is not copied.
SetRedisConfigNoSuffix(c, m) ==
    LET c1 == [c EXCEPT !.password = MapGet(m, "redisPassword"),
                        !.address = MapGet(m, "redisAddress"),
                        !.prefix = MapGet(m, "keyPrefix")]
        ct == MapAtoi(m, "connectTimeout")
        rt == MapAtoi(m, "readTimeout")
        tt == MapAtoi(m, "ttl")
    IN  IF ct.ok /\ rt.ok /\ tt.ok
        THEN [err |-> FALSE, r |-> [c1 EXCEPT !.connectTimeout = ct.v,
                                    !.readTimeout = rt.v, !.ttl = tt.v]]
        ELSE [err |-> TRUE, r |-> c1]

\* (*Redis).SetRedisConfig: [err, client].  The strings are copied first;
\* the first failing Atoi returns with what was assigned before it.
SetRedisConfig(c, m) ==
    LET c1 == [c EXCEPT !.password = MapGet(m, "redisPassword"),
                        !.address = MapGet(m, "redisAddress"),
                        !.prefix = MapGet(m, "keyPrefix"),
                        !.suffix = MapGet(m, "keySuffix")]
        ct == MapAtoi(m, "connectTimeout")
        rt == MapAtoi(m, "readTimeout")
        tt == MapAtoi(m, "ttl")
    IN  CASE ~ct.ok -> [err |-> TRUE, r |-> c1]
          [] ~rt.ok -> [err |-> TRUE, r |-> [c1 EXCEPT !.connectTimeout = ct.v]]
          [] ~tt.ok -> [err |-> TRUE, r |-> [c1 EXCEPT !.connectTimeout = ct.v,
                                                       !.readTimeout = rt.v]]
          [] OTHER  -> [err |-> FALSE, r |-> [c1 EXCEPT !.connectTimeout = ct.v,
                                                         !.readTimeout = rt.v,
                                                         !.ttl = tt.v]]

-----------------------------------------------------------------------------
(* The redis plugin's record conversion (redis.go A .. CAA, minTtl,       *)
(* split255).  A record is [type, ttl, empty, len]: ttl its stored TTL as *)
(* a uint32, empty that its address is nil, its host, text, tag or value  *)
(* is "" (for SOA: no Ns, so a default SOA is made up), len the length of *)
(* a TXT text.  An RR is [type, ttl, strs], strs the lengths of the TXT   *)
(* character-strings.                                                      *)

ZeroTtl == Uint32(0)
LtU(a, b) == a[1] < b[1] \/ (a[1] = b[1] /\ a[2] < b[2])

\* Mutant of MinTtl: the "if ttl == 0 { return redis.Ttl }" case is dropped.
MinTtlNoZeroRecord(cfg, ttl) ==
    CASE cfg = ZeroTtl /\ ttl = ZeroTtl -> Uint32(defaultTtl)
      [] cfg = ZeroTtl -> ttl
      [] LtU(cfg, ttl) -> cfg
      [] OTHER -> ttl

\* (*Redis).minTtl with redis.Ttl = cfg.
MinTtl(cfg, ttl) ==
    CASE cfg = ZeroTtl /\ ttl = ZeroTtl -> Uint32(defaultTtl)
      [] cfg = ZeroTtl -> ttl
      [] ttl = ZeroTtl -> cfg
      [] LtU(cfg, ttl) -> cfg
      [] OTHER -> ttl

\* split255's loop from s[p:i]: a full string while i <= len(s), then the
\* rest s[p:], which is empty when len(s) is a multiple of 255.
RECURSIVE Split255Loop(_, _, _)
Split255Loop(n, p, i) ==
    IF i <= n THEN <<255>> \o Split255Loop(n, p + 255, i + 255) ELSE <<n - p>>

Split255(n) == IF n < 255 THEN <<n>> ELSE Split255Loop(n, 0, 255)

RR(type, ttl, strs) == [type |-> type, ttl |-> ttl, strs |-> strs]

\* The converter ServeDNS calls for the record's type, with redis.Ttl = cfg:
\* an empty record is skipped; SOA makes up a default one with TTL
\* redis.Ttl; CAA sets no TTL at all.
Convert(cfg, r) ==
    CASE r.type = "SOA" -> {RR("SOA", IF r.empty THEN cfg ELSE MinTtl(cfg, r.ttl), <<>>)}
      [] r.empty -> {}
      [] r.type = "CAA" -> {RR("CAA", ZeroTtl, <<>>)}
      [] r.type = "TXT" -> {RR("TXT", MinTtl(cfg, r.ttl), Split255(r.len))}
      [] OTHER -> {RR(r.type, MinTtl(cfg, r.ttl), <<>>)}

-----------------------------------------------------------------------------
(* The server block and its setup.                                        *)

\* How a directive is written: absent, alone, with an argument before its
\* block ("redis example.org {"), or with its block.
Forms == {"absent", "bare", "args", "block"}

\* The tokens the Controller of directive name hands its setup.
Stream(name, form, lines) ==
    CASE form = "bare" -> <<[v |-> name, nl |-> TRUE]>>
      [] form = "args" -> <<[v |-> name, nl |-> TRUE]>>
                            \o <<[v |-> "example.org", nl |-> FALSE]>>
                            \o Tail(Tokens(name, lines))
      [] OTHER -> Tokens(name, lines)

VARIABLES
    redisForm, redisBlock,  \* how the redis directive is written, its lines
    pgForm, pgBlock,        \* the same of the postgresql directive
    pc,                     \* "redis", "pg", "done" (serving) or "failed"
    ran,                    \* the setups that have run
    redis,                  \* the redis plugin redisParse returned
    shared,                 \* redis.SharedRedisConfig
    pg,                     \* the postgresql plugin postgresqlParse returned
    pgUseRedis,             \* coredns_postgresql.PgUseRedis
    served                  \* the last record the redis plugin converted, and its RRs

vars == <<redisForm, redisBlock, pgForm, pgBlock, pc, ran, redis, shared, pg,
          pgUseRedis, served>>

Blocks(L) == BoundedSeq(L, MaxLines)

TypeOK ==
    /\ redisForm \in Forms /\ redisBlock \in Blocks(RedisLines)
    /\ pgForm \in Forms \ {"absent"} /\ pgBlock \in Blocks(PgLines)
    /\ pc \in {"redis", "pg", "done", "failed"}
    /\ ran \subseteq {"redis", "postgresql"}
    /\ shared = NilMap
       \/ DOMAIN shared = {"redisPassword", "redisAddress", "keyPrefix",
                           "keySuffix", "connectTimeout", "readTimeout", "ttl"}
    /\ DOMAIN pgUseRedis = DOMAIN ZeroClient

Init ==
    /\ redisForm \in Forms
    /\ redisBlock \in IF redisForm = "block" THEN Blocks(RedisLines) ELSE {<<>>}
    /\ pgForm \in Forms \ {"absent"}
    /\ pgBlock \in IF pgForm = "block" THEN Blocks(PgLines) ELSE {<<>>}
    /\ pc = IF redisForm = "absent" THEN "pg" ELSE "redis"
    /\ ran = {}
    /\ redis = RedisStart
    /\ shared = NilMap
    /\ pg = PgStart
    /\ pgUseRedis = ZeroClient
    /\ served = NoServe

\* setup() of the redis plugin: redisParse; an error stops the server
\* (plugin.Error), otherwise SharedRedisConfig is set and the server goes
\* on to the next directive.  Connect and LoadZones only talk to redis.
RedisSetup ==
    /\ pc = "redis"
    /\ LET r == Parse("redis", Stream("redis", redisForm, redisBlock))
       IN  /\ redis' = r
           /\ ran' = ran \cup {"redis"}
           /\ IF r.err THEN pc' = "failed" /\ UNCHANGED shared
                       ELSE pc' = "pg" /\ shared' = SharedOf(r)
    /\ UNCHANGED <<redisForm, redisBlock, pgForm, pgBlock, served, pg, pgUseRedis>>

PgTokens == Stream("postgresql", pgForm, pgBlock)

\* setup() of the postgresql plugin when postgresqlParse returns an error
\* from its switch.
PgParseFails ==
    /\ pc = "pg"
    /\ Parse("pg", PgTokens).err
    /\ pg' = Parse("pg", PgTokens)
    /\ ran' = ran \cup {"postgresql"}
    /\ pc' = "failed"
    /\ UNCHANGED <<redisForm, redisBlock, pgForm, pgBlock, served, redis, shared, pgUseRedis>>

\* Mutant of PgSetup: redisOn stays on when SetRedisConfig fails.
PgSetupKeepsRedisOn ==
    /\ pc = "pg"
    /\ ~Parse("pg", PgTokens).err
    /\ LET c  == Parse("pg", PgTokens)
           sr == SetRedisConfig(pgUseRedis, shared)
       IN  /\ pgUseRedis' = IF c.redisOn THEN sr.r ELSE pgUseRedis
           /\ pg' = c
    /\ ran' = ran \cup {"postgresql"}
    /\ \E pingOk \in BOOLEAN : pc' = IF pingOk THEN "done" ELSE "failed"
    /\ UNCHANGED <<redisForm, redisBlock, pgForm, pgBlock, served, redis, shared>>

\* The rest of postgresqlParse: with redisOn, PgUseRedis takes
\* SharedRedisConfig, and an error of SetRedisConfig turns redisOn off;
\* then db() and Ping, which fails when the database is unreachable.
PgSetup ==
    /\ pc = "pg"
    /\ ~Parse("pg", PgTokens).err
    /\ LET c  == Parse("pg", PgTokens)
           sr == SetRedisConfig(pgUseRedis, shared)
       IN  /\ pgUseRedis' = IF c.redisOn THEN sr.r ELSE pgUseRedis
           /\ pg' = IF c.redisOn /\ sr.err THEN [c EXCEPT !.redisOn = FALSE] ELSE c
    /\ ran' = ran \cup {"postgresql"}
    /\ \E pingOk \in BOOLEAN : pc' = IF pingOk THEN "done" ELSE "failed"
    /\ UNCHANGED <<redisForm, redisBlock, pgForm, pgBlock, served, redis, shared>>

\* The server serves, or has exited; nothing of the setup changes again.
Settled ==
    /\ pc \in {"done", "failed"}
    /\ UNCHANGED vars

\* ServeDNS of the started redis plugin converts a field's record of the
\* query's type.  A conversion reads only redis.Ttl and the record, so one
\* query after the start stands for all of them.
Serve ==
    /\ pc = "done" /\ "redis" \in ran /\ served = NoServe
    /\ \E r \in Bundles : served' = [rec |-> r, rrs |-> Convert(redis.ttl, r)]
    /\ UNCHANGED <<redisForm, redisBlock, pgForm, pgBlock, pc, ran, redis, shared,
                   pg, pgUseRedis>>

Next == RedisSetup \/ PgParseFails \/ PgSetup \/ Serve \/ Settled

Spec == Init /\ [][Next]_vars

-----------------------------------------------------------------------------
(* What the Corefile says, read line by line: the last line of a directive *)
(* wins, a directive the plugin does not know, or a line with a missing or *)
(* an extra argument, is an error, and a block not opened right after the *)
(* directive name leaves every default.                                   *)

KnownDirectives(p) ==
    ArgDirectives(p) \cup (IF p = "redis" THEN {"fallthrough"} ELSE {})

BadLine(p, l) ==
    \/ l[1] \notin KnownDirectives(p)
    \/ l[1] \in ArgDirectives(p) /\ Len(l) # 2

ApplyLine(p, cfg, l) ==
    IF l[1] = "fallthrough"
    THEN [cfg EXCEPT !.fall = IF Len(l) = 1 THEN {"."} ELSE {l[k] : k \in 2..Len(l)}]
    ELSE SetDirective(p, cfg, l[1], l[2])

AsWritten(p, form, lines) ==
    LET start == IF p = "redis" THEN RedisStart ELSE PgStart
    IN  CASE form # "block" -> start
          [] \E n \in DOMAIN lines : BadLine(p, lines[n]) -> Failed(p)
          [] OTHER -> FoldLeft(LAMBDA c, l : ApplyLine(p, c, l), start, lines)

\* The settings of the postgresql plugin other than redisOn.
PgSettings(c) == [f \in DOMAIN c \ {"redisOn"} |-> c[f]]

(* Each plugin's setup ends with the settings its lines say, read line by *)
(* line: redisParse and postgresqlParse walk the dispenser's cursor over *)
(* the tokens (NextBlock, NextArg, Next, RemainingArgs), and a step too   *)
(* many or too few gives an argument to the wrong directive.              *)
ParsedAsWritten ==
    /\ "redis" \in ran => redis = AsWritten("redis", redisForm, redisBlock)
    /\ "postgresql" \in ran =>
           PgSettings(pg) = PgSettings(AsWritten("pg", pgForm, pgBlock))

(* A postgresql plugin that set up writes the redis cache exactly when    *)
(* its block says redisOn and the server block has a redis plugin: with  *)
(* no redis directive SharedRedisConfig is nil, SetRedisConfig fails and *)
(* postgresqlParse turns redisOn off.                                     *)
RedisOnHonoured ==
    "postgresql" \in ran /\ ~pg.err =>
        (pg.redisOn <=> AsWritten("pg", pgForm, pgBlock).redisOn /\ "redis" \in ran)

(* The redis client the postgresql plugin writes with (PgUseRedis) has the *)
(* address, password, key prefix and suffix, timeouts and ttl of the redis *)
(* plugin the DNS answers are read through, after their round trip        *)
(* through SharedRedisConfig's strings.                                   *)
PgCacheMatchesRedis ==
    "postgresql" \in ran /\ pg.redisOn => pgUseRedis = ClientOf(redis)

(* spec.md 4.4, 8: a stored record is answered with TTL minTtl(t): 360 when  *)
(* both the configured TTL and t are 0, the non-zero one when one is, the *)
(* smaller otherwise.                                                     *)
SpecMinTtl(cfg, t) ==
    IF cfg = ZeroTtl /\ t = ZeroTtl THEN Uint32(360)
    ELSE IF cfg = ZeroTtl \/ t = ZeroTtl THEN (IF cfg = ZeroTtl THEN t ELSE cfg)
    ELSE IF LtU(t, cfg) THEN t ELSE cfg

SumSeq(s) == FoldLeft(LAMBDA a, b : a + b, 0, s)

(* The redis plugin, with the ttl its block configured (300 without the   *)
(* line, 360 for one that does not parse, a negative one wrapped through  *)
(* uint32), answers a stored record with one RR of its type whose TTL is *)
(* spec.md's minTtl (CAA, which sets no TTL, and a made-up SOA aside),   *)
(* skips an empty record, and splits a TXT text into strings of at most  *)
(* 255 that join back to the text.                                        *)
ConvertedAsStored ==
    served # NoServe =>
        LET r == served.rec IN
        /\ \A rr \in served.rrs : rr.type = r.type
        /\ r.type # "SOA" => (served.rrs = {} <=> r.empty)
        /\ ~r.empty /\ r.type # "CAA" =>
               \A rr \in served.rrs : rr.ttl = SpecMinTtl(redis.ttl, r.ttl)
        /\ r.type = "TXT" /\ ~r.empty =>
               \A rr \in served.rrs : /\ SumSeq(rr.strs) = r.len
                                     /\ \A k \in DOMAIN rr.strs : rr.strs[k] <= 255

=============================================================================
