----------------------------- MODULE DhcpLease -----------------------------
(***************************************************************************)
(* The static-lease path of coredhcp with the plugins "optionset", then   *)
(* "redis", then "postgres", for the DHCPv4 and DHCPv6 requests of one    *)
(* client MAC (src/coredhcp/plugins/optionset/option.go handler4,         *)
(* src/coredhcp/plugins/redis/redis.go Handler4 and Handler6,             *)
(* src/coredhcp/plugins/postgres/pgx.go Handler4, Handler6, queryFromDB,  *)
(* redisUpdate).                                                           *)
(*                                                                         *)
(* Both families use the same Redis hash "mac:<mac>": the postgres        *)
(* plugin writes the v4 fields (ipv4, router, dns, leaseTime) and the v6  *)
(* fields (ipv6, t1, t2) into it, and the redis plugin reads all of it    *)
(* with HGETALL.  It ranges over the returned Go map, whose iteration     *)
(* order is unspecified: one action per option taken, in any order.  When *)
(* it returns false the postgres plugin answers from the table row and,   *)
(* with updateredis, writes the row back with one HSET per field (again   *)
(* in map order) and an optional EXPIRE.  The table row may be edited at  *)
(* any time by its administrator.                                          *)
(*                                                                         *)
(* Durations are counted in units of 6 minutes, so that the fixed valid   *)
(* lifetime of 3h is ValidLifetime = 30 and the code's divisions are      *)
(* exact.  A string that time.ParseDuration rejects is Bad.  Addresses    *)
(* are model values that parse (Addr, Cidr, Router) or do not (BadAddr,   *)
(* BadCidr, BadRouter); NilRouter is the "<nil>" that net.IP(nil).String *)
(* gives.  A DNS column is the sequence of its comma-separated servers.   *)
(***************************************************************************)
EXTENDS Integers, Sequences, SequencesExt, FiniteSets, Option43

CONSTANTS
    Durations,      \* durations the hash or the table may hold
    Addr, BadAddr,  \* an IPv6 address that parses, or not
    Cidr, BadCidr,  \* an IPv4 CIDR that net.ParseCIDR accepts, or not
    Router, BadRouter, NilRouter,   \* router strings
    Servers,        \* DNS server strings that parse as IPv4
    Bad,            \* a duration string that does not parse
    None,           \* an option the response does not carry
    InitHashes,     \* the hashes the key may hold at start
    DbRows,         \* the rows the table may hold for the MAC
    MaxEdits,       \* bound on the edits of the row
    UpdateRedis,    \* the postgres plugin's second argument (updateredis)
    TTLflag,        \* the redis plugin has a TTL (predis.TTLflag, TTL > 0)
    HsetFaults,     \* an HSET of redisUpdate may fail
    ExpireFaults,   \* the EXPIRE of redisUpdate may fail
    DbFaults,       \* pool.Acquire or QueryRow of queryFromDB may fail
    ReadFaults,     \* the HGETALL of the redis plugin may fail
    OptArgs         \* the arguments of the optionset plugin

\* optIAA.ValidLifetime = 3*time.Hour
ValidLifetime == 30

V6Fields == {"ipv6", "t1", "t2"}
V4Fields == {"ipv4", "router", "dns", "leaseTime"}


NoLease == [fam |-> 0, by |-> "none"]

VARIABLES
    row,        \* the table row of the MAC (coredhcp_records)
    edits,      \* edits of the row so far
    hash,       \* the Redis hash mac:<mac>: a function on its fields
    keyTtl,     \* an EXPIRE is set on the hash
    pc,         \* where the request in progress is
    read,       \* the IPDetails queryFromDB returned to the postgres plugin
    snapshot,   \* the options HGETALL returned
    todo,       \* fields the current range loop has not reached
    vl, t1, t2, addr,   \* optIAA.ValidLifetime, optIANA.T1/T2, IPv6Addr
    dnsReq,     \* the v4 request asks for option 6 (DNS)
    resp4,      \* the v4 response options set so far
    lease,      \* the response to the last request
    faulted     \* some Redis write of redisUpdate has failed

vars == <<row, edits, hash, keyTtl, pc, read, snapshot, todo, vl, t1, t2,
          addr, dnsReq, resp4, lease, faulted>>

EmptyHash == [f \in {} |-> Bad]

\* The value of field f after HSET f v on h.
Hset(h, f, v) == [x \in DOMAIN h \cup {f} |-> IF x = f THEN v ELSE h[x]]

\* queryFromDB: an unparsable T1/T2/lease time is logged and left at 0.
DbDuration(v) == IF v = Bad THEN 0 ELSE v

\* queryFromDB v4: the servers up to the first that does not parse.
DnsPrefix(s) ==
    LET i == SelectInSeq(s, LAMBDA x : x \notin Servers)
    IN  IF i = 0 THEN s ELSE SubSeq(s, 1, i - 1)

\* strings.Split(DNSAsString(d), ","): no server is the string "".
DnsAsString(d) == IF d = <<>> THEN <<"">> ELSE d

\* postgres Handler6: T1 >= ValidLifetime is clamped to ValidLifetime/2,
\* T2 >= ValidLifetime to 4/5 of it; 0 leaves the option's 0.
PgT1(d) == IF d >= ValidLifetime THEN ValidLifetime \div 2 ELSE d
PgT2(d) == IF d >= ValidLifetime THEN (ValidLifetime * 4) \div 5 ELSE d

\* queryFromDB(mac, version): the columns of the row for that family, as
\* the IPDetails it returns.  An address that does not parse is an error;
\* T1, T2 and a lease time that do not parse are 0; a router that is not
\* IPv4 stays nil (None); the DNS list stops at the first bad server.
QueryFromDB(r, version) ==
    IF version = 6
    THEN [err |-> r.ipv6 = BadAddr, ipv6 |-> r.ipv6,
          t1 |-> DbDuration(r.t1), t2 |-> DbDuration(r.t2)]
    ELSE [err |-> r.ipv4 = BadCidr, ipv4 |-> r.ipv4,
          router |-> IF r.router = Router THEN Router ELSE None,
          dns |-> DnsPrefix(r.dns), lt |-> DbDuration(r.lt)]

\* The outcomes of pool.Acquire and QueryRow: an error (ErrNoRows
\* included) makes queryFromDB return nil and the error.
DbErrors == IF DbFaults THEN BOOLEAN ELSE {FALSE}

\* The outcomes of the redis plugin's HGETALL: an error returns resp,
\* false before the loop, as an empty hash does, and postgres answers.
HgetallErrors == IF ReadFaults THEN BOOLEAN ELSE {FALSE}

\* The family whose redisUpdate writes field f.
Family(f) == IF f \in V6Fields THEN 6 ELSE 4

\* postgres Handler6 on the details d: optIAA gets the address, optIANA
\* the clamped T1 and T2.
PgLease(d) == [fam |-> 6, by |-> "pg", addr |-> d.ipv6,
               t1 |-> PgT1(d.t1), t2 |-> PgT2(d.t2)]

\* postgres Handler4 on the response resp: the address and mask always,
\* the router when it parsed, the DNS servers when some parsed and the
\* client asked for them, the lease time when it is not 0.
PgApply4(resp, d, req) ==
    [resp EXCEPT
        !.by     = "pg",
        !.yiaddr = d.ipv4,
        !.router = IF d.router # None THEN d.router ELSE @,
        !.dns    = IF d.dns # <<>> /\ req THEN d.dns ELSE @,
        !.lt     = IF d.lt # 0 THEN d.lt ELSE @]

\* The values redisUpdate writes: IPv6.String(), T1.String(), T2.String(),
\* Cidr, Router.String(), DNSAsString(), LeaseTime.String().
PgValue(d, f) ==
    CASE f = "ipv6"      -> d.ipv6
      [] f = "t1"        -> d.t1
      [] f = "t2"        -> d.t2
      [] f = "ipv4"      -> d.ipv4
      [] f = "router"    -> IF d.router = None THEN NilRouter ELSE d.router
      [] f = "dns"       -> DnsAsString(d.dns)
      [] f = "leaseTime" -> d.lt

\* What redisUpdate writes into field f for row r.
RowValue(r, f) == PgValue(QueryFromDB(r, Family(f)), f)

\* The fields F of the hash as a complete redisUpdate of row r leaves them.
PgHash(r, F) == [f \in F |-> RowValue(r, f)]

\* The hash holds only what the postgres plugin would write for row r.
HashAgrees(r) == \A f \in DOMAIN hash : hash[f] = RowValue(r, f)

\* The options setup4 gave the running server.
Config == Setup4(OptArgs)

\* The server runs: setup4 succeeded.
ASSUME ~Config.err

\* optionset handler4 on a fresh response: option 60 when configured,
\* option 43 when setup4 gave one.
OptionsetResp ==
    [fam |-> 4, by |-> "none", yiaddr |-> None, router |-> None,
     dns |-> None, lt |-> None,
     o60 |-> IF Config.o60 # "" THEN Config.o60 ELSE None,
     o43 |-> IF Config.o43 # <<>> THEN Config.o43 ELSE None]

-----------------------------------------------------------------------------
TypeOK ==
    /\ row \in DbRows /\ read.err \in BOOLEAN
    /\ edits \in 0..MaxEdits
    /\ DOMAIN hash \subseteq V4Fields \cup V6Fields
    /\ keyTtl \in BOOLEAN /\ dnsReq \in BOOLEAN /\ faulted \in BOOLEAN
    /\ pc \in {"idle", "r6", "r6_opt", "pg6", "opt4", "r4", "r4_opt", "pg4",
               "write"}
    /\ todo \subseteq DOMAIN hash \cup V4Fields \cup V6Fields
    /\ {vl, t1, t2} \subseteq 0..ValidLifetime + 1
    /\ addr \in {Addr, None}

Init ==
    /\ row \in DbRows
    /\ read = QueryFromDB(row, 6)
    /\ edits = 0
    /\ hash \in InitHashes
    /\ keyTtl = (hash # EmptyHash)
    /\ pc = "idle"
    /\ snapshot = EmptyHash
    /\ todo = {}
    /\ vl = 0 /\ t1 = 0 /\ t2 = 0 /\ addr = None
    /\ dnsReq = FALSE
    /\ resp4 = OptionsetResp
    /\ lease = NoLease
    /\ faulted = FALSE

\* The administrator changes the row of the MAC in coredhcp_records.
DbEdit ==
    /\ edits < MaxEdits
    /\ \E r \in DbRows \ {row} : row' = r
    /\ edits' = edits + 1
    /\ UNCHANGED <<hash, keyTtl, pc, read, snapshot, todo, vl, t1, t2, addr,
                   dnsReq, resp4, lease, faulted>>

\* The redis plugin's optIAA and optIANA go out of scope when it returns.
Forget6 == vl' = 0 /\ t1' = 0 /\ t2' = 0 /\ addr' = None

\* A DHCPv6 SOLICIT/REQUEST with an IA_NA from the MAC reaches the chain.
Request6 ==
    /\ pc = "idle"
    /\ pc' = "r6"
    /\ lease' = NoLease
    /\ UNCHANGED <<row, edits, hash, keyTtl, read, snapshot, todo, vl, t1, t2,
                   addr, dnsReq, resp4, faulted>>

\* options := HGETALL mac:<mac>; an error or len(options) == 0: return
\* false and the next plugin runs.  optIAA and optIANA start zeroed; the
\* loop's switch has no case for the v4 fields.
RedisHgetall6 ==
    /\ pc = "r6"
    /\ snapshot' = hash
    /\ \E err \in HgetallErrors :
       IF err \/ DOMAIN hash = {}
       THEN pc' = "pg6" /\ UNCHANGED todo
       ELSE pc' = "r6_opt" /\ todo' = DOMAIN hash \cap V6Fields
    /\ vl' = 0 /\ t1' = 0 /\ t2' = 0 /\ addr' = None
    /\ UNCHANGED <<row, edits, hash, keyTtl, read, dnsReq, resp4, lease,
                   faulted>>

\* case "ipv6": a bad address drops the request (return false);
\* otherwise the address and the 3h lifetimes are set.
RedisOptIPv6 ==
    /\ pc = "r6_opt"
    /\ "ipv6" \in todo
    /\ todo' = todo \ {"ipv6"}
    /\ IF snapshot["ipv6"] = BadAddr
       THEN pc' = "pg6" /\ UNCHANGED <<vl, addr>>
       ELSE vl' = ValidLifetime /\ addr' = Addr /\ UNCHANGED pc
    /\ UNCHANGED <<row, edits, hash, keyTtl, read, snapshot, t1, t2, dnsReq,
                   resp4, lease, faulted>>

\* Mutant of RedisOptT1: T1 is taken as it is, unclamped.
RedisOptT1NoClamp ==
    /\ pc = "r6_opt"
    /\ "t1" \in todo
    /\ todo' = todo \ {"t1"}
    /\ LET v == snapshot["t1"] IN
       t1' = IF v = Bad THEN t1 ELSE v
    /\ UNCHANGED <<row, edits, hash, keyTtl, pc, read, snapshot, vl, t2, addr,
                   dnsReq, resp4, lease, faulted>>

\* case "t1": if T1 > optIAA.ValidLifetime, ValidLifetime/2, else T1,
\* against whatever ValidLifetime is when the loop reaches "t1".
RedisOptT1 ==
    /\ pc = "r6_opt"
    /\ "t1" \in todo
    /\ todo' = todo \ {"t1"}
    /\ LET v == snapshot["t1"] IN
       t1' = IF v = Bad THEN t1 ELSE IF v > vl THEN vl \div 2 ELSE v
    /\ UNCHANGED <<row, edits, hash, keyTtl, pc, read, snapshot, vl, t2, addr,
                   dnsReq, resp4, lease, faulted>>

\* case "t2": if T2 > optIAA.ValidLifetime, ValidLifetime*4/5, else T2.
RedisOptT2 ==
    /\ pc = "r6_opt"
    /\ "t2" \in todo
    /\ todo' = todo \ {"t2"}
    /\ LET v == snapshot["t2"] IN
       t2' = IF v = Bad THEN t2 ELSE IF v > vl THEN (vl * 4) \div 5 ELSE v
    /\ UNCHANGED <<row, edits, hash, keyTtl, pc, read, snapshot, vl, t1, addr,
                   dnsReq, resp4, lease, faulted>>

\* The loop is over: resp.AddOption(optIANA), return true.
RedisReply6 ==
    /\ pc = "r6_opt"
    /\ todo = {}
    /\ lease' = [fam |-> 6, by |-> "redis", addr |-> addr, t1 |-> t1, t2 |-> t2]
    /\ pc' = "idle"
    /\ Forget6
    /\ UNCHANGED <<row, edits, hash, keyTtl, read, snapshot, todo, dnsReq,
                   resp4, faulted>>

\* queryFromDB(mac, 6) under recLock.RLock: an error ends the request
\* without a lease (return resp, true).  Otherwise the lease is added and,
\* with updateredis, redisUpdate writes the v6 fields back.
PgHandler6 ==
    /\ pc = "pg6"
    /\ \E dbErr \in DbErrors :
          LET d == QueryFromDB(row, 6) IN
          IF dbErr \/ d.err
          THEN lease' = NoLease /\ pc' = "idle" /\ UNCHANGED <<todo, read>>
          ELSE /\ lease' = PgLease(d)
               /\ read' = d
               /\ IF UpdateRedis THEN pc' = "write" /\ todo' = V6Fields
                                 ELSE pc' = "idle" /\ UNCHANGED todo
    /\ snapshot' = EmptyHash /\ Forget6
    /\ UNCHANGED <<row, edits, hash, keyTtl, dnsReq, resp4, faulted>>

\* A DHCPv4 DISCOVER/REQUEST from the MAC reaches the chain; it may or
\* may not list option 6 in its parameter request list.
Request4 ==
    /\ pc = "idle"
    /\ pc' = "opt4"
    /\ dnsReq' \in BOOLEAN
    /\ lease' = NoLease
    /\ UNCHANGED <<row, edits, hash, keyTtl, read, snapshot, todo, vl, t1, t2,
                   addr, resp4, faulted>>

\* optionset handler4 runs first and returns false.
OptionsetHandler4 ==
    /\ pc = "opt4"
    /\ resp4' = OptionsetResp
    /\ pc' = "r4"
    /\ UNCHANGED <<row, edits, hash, keyTtl, read, snapshot, todo, vl, t1, t2,
                   addr, dnsReq, lease, faulted>>

\* Mutant of RedisHgetall4: only the empty hash falls through.
RedisHgetall4NoIpv4Check ==
    /\ pc = "r4"
    /\ snapshot' = hash
    /\ \E err \in HgetallErrors :
       IF err \/ DOMAIN hash = {}
       THEN pc' = "pg4" /\ UNCHANGED todo
       ELSE pc' = "r4_opt" /\ todo' = DOMAIN hash \cap V4Fields
    /\ UNCHANGED <<row, edits, hash, keyTtl, read, vl, t1, t2, addr, dnsReq,
                   resp4, lease, faulted>>

\* redis Handler4: HGETALL; an error, an empty hash, or one without ipv4, returns
\* false before the loop.
RedisHgetall4 ==
    /\ pc = "r4"
    /\ snapshot' = hash
    /\ \E err \in HgetallErrors :
       IF err \/ "ipv4" \notin DOMAIN hash
       THEN pc' = "pg4" /\ UNCHANGED todo
       ELSE pc' = "r4_opt" /\ todo' = DOMAIN hash \cap V4Fields
    /\ UNCHANGED <<row, edits, hash, keyTtl, read, vl, t1, t2, addr, dnsReq,
                   resp4, lease, faulted>>

\* case "ipv4": a malformed CIDR returns false, leaving on the response
\* whatever the loop set before; otherwise YourIPAddr and the mask.
RedisOptIPv4 ==
    /\ pc = "r4_opt"
    /\ "ipv4" \in todo
    /\ todo' = todo \ {"ipv4"}
    /\ IF snapshot["ipv4"] = BadCidr
       THEN pc' = "pg4" /\ UNCHANGED resp4
       ELSE resp4' = [resp4 EXCEPT !.yiaddr = snapshot["ipv4"]] /\ UNCHANGED pc
    /\ UNCHANGED <<row, edits, hash, keyTtl, read, snapshot, vl, t1, t2, addr,
                   dnsReq, lease, faulted>>

\* case "router": one that is not IPv4 is skipped.
RedisOptRouter ==
    /\ pc = "r4_opt"
    /\ "router" \in todo
    /\ todo' = todo \ {"router"}
    /\ resp4' = IF snapshot["router"] = Router
                THEN [resp4 EXCEPT !.router = Router] ELSE resp4
    /\ UNCHANGED <<row, edits, hash, keyTtl, pc, read, snapshot, vl, t1, t2,
                   addr, dnsReq, lease, faulted>>

\* case "dns": one server that is not IPv4 drops the whole list; the list
\* is set only when the client asked for DNS.
RedisOptDns ==
    /\ pc = "r4_opt"
    /\ "dns" \in todo
    /\ todo' = todo \ {"dns"}
    /\ LET v == snapshot["dns"] IN
       resp4' = IF DnsPrefix(v) = v /\ dnsReq
                THEN [resp4 EXCEPT !.dns = v] ELSE resp4
    /\ UNCHANGED <<row, edits, hash, keyTtl, pc, read, snapshot, vl, t1, t2,
                   addr, dnsReq, lease, faulted>>

\* case "leaseTime": any duration that parses, 0 included, is set.
RedisOptLeaseTime ==
    /\ pc = "r4_opt"
    /\ "leaseTime" \in todo
    /\ todo' = todo \ {"leaseTime"}
    /\ LET v == snapshot["leaseTime"] IN
       resp4' = IF v = Bad THEN resp4 ELSE [resp4 EXCEPT !.lt = v]
    /\ UNCHANGED <<row, edits, hash, keyTtl, pc, read, snapshot, vl, t1, t2,
                   addr, dnsReq, lease, faulted>>

\* The loop is over: return resp, true.
RedisReply4 ==
    /\ pc = "r4_opt"
    /\ todo = {}
    /\ lease' = [resp4 EXCEPT !.by = "redis"]
    /\ pc' = "idle"
    /\ resp4' = OptionsetResp
    /\ UNCHANGED <<row, edits, hash, keyTtl, read, snapshot, todo, vl, t1, t2,
                   addr, dnsReq, faulted>>

\* postgres Handler4: an error of queryFromDB(mac, 4) drops the request
\* (return nil, true).  Otherwise the options are set on the response the
\* earlier plugins built, and with updateredis the v4 fields are written
\* back.
PgHandler4 ==
    /\ pc = "pg4"
    /\ \E dbErr \in DbErrors :
          LET d == QueryFromDB(row, 4) IN
          IF dbErr \/ d.err
          THEN lease' = NoLease /\ pc' = "idle" /\ UNCHANGED <<todo, read>>
          ELSE /\ lease' = PgApply4(resp4, d, dnsReq)
               /\ read' = d
               /\ IF UpdateRedis THEN pc' = "write" /\ todo' = V4Fields
                                 ELSE pc' = "idle" /\ UNCHANGED todo
    /\ snapshot' = EmptyHash /\ resp4' = OptionsetResp
    /\ UNCHANGED <<row, edits, hash, keyTtl, vl, t1, t2, addr, dnsReq, faulted>>

\* One HSET of redisUpdate's range over its map, with the values of the
\* row queryFromDB read; an error returns at once, before the EXPIRE.
PgHset ==
    /\ pc = "write"
    /\ \E f \in todo :
          \/ /\ hash' = Hset(hash, f, PgValue(read, f))
             /\ todo' = todo \ {f}
             /\ UNCHANGED <<pc, faulted>>
          \/ /\ HsetFaults
             /\ pc' = "idle"
             /\ faulted' = TRUE
             /\ UNCHANGED <<hash, todo>>
    /\ UNCHANGED <<row, edits, keyTtl, read, snapshot, vl, t1, t2, addr,
                   dnsReq, resp4, lease>>

\* Mutant of PgExpire: the EXPIRE is never sent.
PgExpireSkipped ==
    /\ pc = "write"
    /\ todo = {}
    /\ pc' = "idle"
    /\ UNCHANGED <<row, edits, hash, keyTtl, read, snapshot, todo, vl, t1, t2,
                   addr, dnsReq, resp4, lease, faulted>>

\* After the loop: EXPIRE mac:<mac> TTL when TTLflag && TTL > 0.  Its
\* error is only logged.
PgExpire ==
    /\ pc = "write"
    /\ todo = {}
    /\ \/ /\ keyTtl' = (keyTtl \/ TTLflag)
          /\ UNCHANGED faulted
       \/ /\ ExpireFaults /\ TTLflag
          /\ faulted' = TRUE
          /\ UNCHANGED keyTtl
    /\ pc' = "idle"
    /\ UNCHANGED <<row, edits, hash, read, snapshot, todo, vl, t1, t2, addr,
                   dnsReq, resp4, lease>>

\* The TTL of the hash runs out and Redis deletes the key.
KeyExpires ==
    /\ keyTtl
    /\ hash' = EmptyHash
    /\ keyTtl' = FALSE
    /\ UNCHANGED <<row, edits, pc, read, snapshot, todo, vl, t1, t2, addr,
                   dnsReq, resp4, lease, faulted>>

\* The steps of a request in progress: each runs in the request's own
\* goroutine and nothing in the code stops it half way.
HandlerStep ==
    \/ RedisHgetall6 \/ RedisOptIPv6 \/ RedisOptT1 \/ RedisOptT2
    \/ RedisReply6 \/ PgHandler6
    \/ OptionsetHandler4 \/ RedisHgetall4 \/ RedisOptIPv4 \/ RedisOptRouter
    \/ RedisOptDns \/ RedisOptLeaseTime \/ RedisReply4 \/ PgHandler4
    \/ PgHset \/ PgExpire

Next == DbEdit \/ Request6 \/ Request4 \/ HandlerStep \/ KeyExpires

\* Requests and edits may stop at any time; a request under way runs to
\* its end, and Redis deletes a key whose TTL has passed.
Spec == Init /\ [][Next]_vars /\ WF_vars(HandlerStep) /\ WF_vars(KeyExpires)

-----------------------------------------------------------------------------
(* Properties.                                                             *)

\* Every v6 lease the chain hands out keeps its renewal times within the
\* valid lifetime it grants (RFC 8415: T1, T2 <= lifetime), whichever
\* plugin built it and in whatever order the redis loop met the options.
LeaseTimersWithinValidLifetime ==
    lease.fam = 6 /\ lease.by # "none" /\ lease.addr = Addr
        => lease.t1 <= ValidLifetime /\ lease.t2 <= ValidLifetime

ServedLeaseHasAddress ==
    lease.fam = 6 /\ lease.by = "redis" => lease.addr = Addr

\* Every DHCPv4 answer either plugin gives carries the client's address
\* (YourIPAddr and mask), also when the shared hash holds only v6 fields
\* or a part of the v4 ones.
ServedV4LeaseHasAddress ==
    lease.fam = 4 /\ lease.by # "none" => lease.yiaddr = Cidr


\* Once the row stops changing, the hash comes to hold, and keeps, only
\* what the postgres plugin writes for the current row (or nothing): an
\* old lease does not stay cached forever, because every hash carries the
\* redisUpdate EXPIRE.  Behaviours in which a Redis write failed are left
\* out (faulted): after a failed HSET or EXPIRE the key may have no TTL.
CacheEventuallyFollowsRow == <>[](faulted \/ HashAgrees(row))
=============================================================================
