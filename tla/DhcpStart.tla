------------------------------ MODULE DhcpStart ------------------------------
(***************************************************************************)
(* The start of the coredhcp server with the plugins of this repository, *)
(* and the optionset plugin's handler4 afterwards.  The server runs the  *)
(* setups of its server6 section, then of its server4 section, each in   *)
(* the order of the configuration: redis then postgres for DHCPv6,       *)
(* optionset, redis then postgres for DHCPv4.  A setup that returns an   *)
(* error stops the start.                                                 *)
(*                                                                         *)
(*  - optionset setup4 (src/coredhcp/plugins/optionset/option.go) parses *)
(*    its arguments into its globals (Option43); setup6 changes nothing.  *)
(*  - redis setupRedis (src/coredhcp/plugins/redis/redis.go), for both    *)
(*    sections, sets the package globals TTL, TTLflag, pool and           *)
(*    ShareConfig = address "," password.                                 *)
(*  - postgres setupDB (src/coredhcp/plugins/postgres/pgx.go), for both   *)
(*    sections, sets dbConfig and updateredis and, with updateredis, the  *)
(*    pool rpool it writes the leases back with, dialling what            *)
(*    getRedisConfig splits out of ShareConfig.                           *)
(*                                                                         *)
(* A string is a sequence of chunks, "," being the chunk of a comma; the *)
(* empty string is <<>>.  A redis pool is the [addr, pw] it dials.        *)
(***************************************************************************)
EXTENDS Option43, FiniteSets

CONSTANTS
    ArgSeqs,    \* the argument lists optionset may be configured with
    RedisArgs,  \* the argument lists redis may be configured with
    PgArgs,     \* the argument lists postgres may be configured with
    BadUrl,     \* a connection string pgxpool.ParseConfig refuses
    None        \* an option the response does not carry; no pool

\* The setups of the start, in order.
Steps == << [sec |-> 6, plugin |-> "redis"], [sec |-> 6, plugin |-> "postgres"],
            [sec |-> 4, plugin |-> "optionset"], [sec |-> 4, plugin |-> "redis"],
            [sec |-> 4, plugin |-> "postgres"] >>

VARIABLES
    expected,   \* what Option43Ref says of optionset's arguments (history)
    phase,      \* "start", "running", "failed" (an error) or "crashed" (a panic)
    step,       \* the setup of Steps that runs next
    conf,       \* globalOption43 and globalOption60 as setup4 left them
    resp,       \* options 60 and 43 of the last DHCPv4 response
    ttl,        \* redis.TTL and redis.TTLflag: [secs, flag]
    pool,       \* redis.pool
    share,      \* redis.ShareConfig
    updateredis,\* postgres.updateredis
    rpool,      \* postgres.rpool
    dbConfig    \* postgres.dbConfig

vars == <<expected, phase, step, conf, resp, ttl, pool, share, updateredis, rpool,
          dbConfig>>

redisVars == <<ttl, pool, share>>
pgVars == <<updateredis, rpool, dbConfig>>

NoResp == [o60 |-> None, o43 |-> None]

\* ParseToSeconds: time.ParseDuration, then int(duration.Seconds()),
\* which truncates towards zero.
DurationSecs == [w \in {<<"1h">>, <<"500ms">>, <<"-1s">>} |->
                    CASE w = <<"1h">> -> 3600 [] w = <<"500ms">> -> 0
                      [] w = <<"-1s">> -> -1]
ParseToSeconds(w) ==
    IF w \in DOMAIN DurationSecs THEN [ok |-> TRUE, v |-> DurationSecs[w]]
                                 ELSE [ok |-> FALSE, v |-> 0]

\* strings.Split(s, ","): the pieces between the commas.
SplitComma(s) ==
    LET cut == <<0>> \o SetToSortSeq({k \in DOMAIN s : s[k] = ","}, <)
                     \o <<Len(s) + 1>>
    IN  [n \in 1..Len(cut) - 1 |-> SubSeq(s, cut[n] + 1, cut[n + 1] - 1)]

\* getRedisConfig: the first piece is the address, the second, when it
\* is not empty, the password.
GetRedisConfig(s) ==
    LET c == SplitComma(s)
    IN  [addr |-> c[1], pw |-> IF Len(c) >= 2 /\ c[2] # <<>> THEN c[2] ELSE <<>>]

\* The strings setupDB takes for updateredis = true.
TrueWords == {<<"true">>, <<"1">>, <<"True">>, <<"TRUE">>}

TypeOK ==
    /\ phase \in {"start", "running", "failed", "crashed"}
    /\ step \in 1..Len(Steps) + 1
    /\ conf.err \in BOOLEAN
    /\ ttl.flag \in BOOLEAN
    /\ updateredis \in BOOLEAN

Init ==
    /\ expected = [SetupError EXCEPT !.err = FALSE]
    /\ phase = "start"
    /\ step = 1
    /\ conf = SetupStart
    /\ resp = NoResp
    /\ ttl = [secs |-> 0, flag |-> FALSE]
    /\ pool = None
    /\ share = <<>>
    /\ updateredis = FALSE
    /\ rpool = None
    /\ dbConfig = <<>>

Running(p) == phase = "start" /\ step <= Len(Steps) /\ Steps[step].plugin = p

\* The start goes on to the next setup, or the server runs after the last.
Advance ==
    /\ step' = step + 1
    /\ phase' = IF step = Len(Steps) THEN "running" ELSE "start"

\* setup4 of optionset over its configured arguments: clear the globals,
\* run the loop, generate option 43; an error stops the start.
OptSetup ==
    /\ Running("optionset")
    /\ \E a \in ArgSeqs :
          /\ conf' = Setup4(a)
          /\ expected' = Option43Ref(a)
    /\ IF conf'.err THEN phase' = "failed" /\ UNCHANGED step ELSE Advance
    /\ UNCHANGED <<resp, redisVars, pgVars>>

\* setupRedis: fewer than one argument, or an empty address, is an error.
\* With a third argument TTL = ParseToSeconds(args[2]) (0 on an error)
\* and TTLflag says whether it parsed.  Then pool is set to dial args[0]
\* with password args[1], and ShareConfig = args[0] + "," + args[1]: with
\* a single argument, args[1] is out of range and the server panics.
RedisSetup ==
    /\ Running("redis")
    /\ \E a \in RedisArgs :
          CASE Len(a) < 1 \/ a[1] = <<>> ->
                   phase' = "failed" /\ UNCHANGED <<step, redisVars>>
            [] Len(a) < 2 ->
                   phase' = "crashed" /\ UNCHANGED <<step, redisVars>>
            [] OTHER ->
                   /\ ttl' = IF Len(a) > 2
                             THEN LET d == ParseToSeconds(a[3])
                                  IN  [secs |-> d.v, flag |-> d.ok]
                             ELSE ttl
                   /\ pool' = [addr |-> a[1], pw |-> a[2]]
                   /\ share' = a[1] \o <<",">> \o a[2]
                   /\ Advance
    /\ UNCHANGED <<expected, conf, resp, pgVars>>

\* Mutant of PgSetup: rpool is set up only by a section whose second
\* argument sets updateredis.
PgSetupRpoolWithFlagOnly ==
    /\ Running("postgres")
    /\ \E b \in PgArgs :
          IF Len(b) < 1 \/ b[1] = <<>>
          THEN phase' = "failed" /\ UNCHANGED <<step, pgVars>>
          ELSE LET given == Len(b) > 1 /\ b[2] # <<>>
                   ur == IF given THEN b[2] \in TrueWords ELSE updateredis
               IN  /\ dbConfig' = b[1]
                   /\ updateredis' = ur
                   /\ rpool' = IF given /\ ur THEN GetRedisConfig(share) ELSE rpool
                   /\ IF b[1] = BadUrl THEN phase' = "failed" /\ UNCHANGED step
                                       ELSE Advance
    /\ UNCHANGED <<expected, conf, resp, redisVars>>

\* setupDB: fewer than one argument, or an empty url, is an error.
\* dbConfig = args[0]; a non-empty second argument sets updateredis
\* (true for "true", "1", "True", "TRUE", false otherwise), an empty or
\* missing one leaves it; with updateredis, rpool dials getRedisConfig().
\* Then pgxpool.ParseConfig refuses a bad url.
PgSetup ==
    /\ Running("postgres")
    /\ \E b \in PgArgs :
          IF Len(b) < 1 \/ b[1] = <<>>
          THEN phase' = "failed" /\ UNCHANGED <<step, pgVars>>
          ELSE LET ur == IF Len(b) > 1 /\ b[2] # <<>> THEN b[2] \in TrueWords
                                                   ELSE updateredis
               IN  /\ dbConfig' = b[1]
                   /\ updateredis' = ur
                   /\ rpool' = IF ur THEN GetRedisConfig(share) ELSE rpool
                   /\ IF b[1] = BadUrl THEN phase' = "failed" /\ UNCHANGED step
                                       ELSE Advance
    /\ UNCHANGED <<expected, conf, resp, redisVars>>

\* handler4: UpdateOption(60) when globalOption60 is set, UpdateOption(43)
\* when globalOption43 is not empty; return resp, false.
Handler4 ==
    /\ phase = "running"
    /\ resp' = [o60 |-> IF conf.o60 # "" THEN conf.o60 ELSE None,
                o43 |-> IF conf.o43 # <<>> THEN conf.o43 ELSE None]
    /\ UNCHANGED <<expected, phase, step, conf, redisVars, pgVars>>

Next == OptSetup \/ RedisSetup \/ PgSetup \/ Handler4

Spec == Init /\ [][Next]_vars

\* The optionset plugin fails the server's start exactly when the
\* reference says its arguments are in error, and every DHCPv4 response
\* handler4 writes carries the option 60 and the option 43 the reference
\* gives for them (none when it gives the empty value): setup4's loop, its
\* last-wins globals and its generation rule agree with Option43Ref.
OptionsServedAsConfigured ==
    /\ phase = "failed" /\ Steps[step].plugin = "optionset" => expected.err
    /\ resp # NoResp =>
          /\ ~expected.err
          /\ resp.o60 = IF expected.o60 = "" THEN None ELSE expected.o60
          /\ resp.o43 = IF expected.o43 = <<>> THEN None ELSE expected.o43

\* Once the server runs with updateredis, the pool the postgres plugin
\* writes leases back with dials the address and password of the pool the
\* redis plugin reads them with, although both are package globals that
\* each section's setup sets again, updateredis sticks when a section
\* leaves the argument out, and the address travels through ShareConfig.
PgWritesToRedisPool ==
    phase = "running" /\ updateredis => rpool = pool

=============================================================================
