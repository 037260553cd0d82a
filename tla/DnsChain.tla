------------------------------ MODULE DnsChain ------------------------------
(***************************************************************************)
(* The CoreDNS plugin chain "redis" -> "postgresql" serving one zone, the  *)
(* two plugins sharing the zone's Redis hash.                              *)
(*                                                                         *)
(*  - redis ServeDNS (src/coredns/plugin/redis/handler.go) refreshes its  *)
(*    zone list every zoneUpdateTime (LoadZones, KEYS), loads the fields  *)
(*    of the zone (load, HKEYS), finds the field with findLocation, reads *)
(*    it (get, HGET) and converts the bundle; it passes the query on to   *)
(*    postgresql when the zone is not listed, when no field matches and   *)
(*    fallthrough is set, or when pgBatchUpdate is off and the answer is  *)
(*    empty.                                                               *)
(*  - postgresql ServeDNS (src/coredns/plugin/coredns_postgresql/         *)
(*    handler.go) reads the rows of (name, type) with findRecord, or the  *)
(*    apex SOA rows when there are none, writes them to the hash with     *)
(*    updateRedis when redisOn (postgresql.go), and answers from the rows.*)
(*                                                                         *)
(* Each query is served by its own goroutine (a process p of Procs); the  *)
(* only shared state is the Redis hash and the plugins' fields.  The      *)
(* store is fixed: a sequence of rows in table order.  A bundle is the    *)
(* set of row indices it holds; field names are model values, the apex    *)
(* field "@" is Apex.  Zone names carry no wildcards here (WildcardMatch  *)
(* checks findLocation on wildcards), so findLocation answers the apex,   *)
(* an exact field or nothing.                                              *)
(***************************************************************************)
EXTENDS Integers, Sequences, FiniteSets

CONSTANTS
    Procs,          \* goroutines serving queries
    Names,          \* relative names of the zone, Apex included
    Apex,           \* the apex: name "" in the table, field "@" in Redis
    QTypes,         \* query types asked
    StoreRows,      \* the table: <<[name, type, valid]>> in table order
    pgBatchUpdate,  \* redis directive pgBatchUpdate
    Fallthrough,    \* redis directive fallthrough covers the zone
    RedisOnInit,    \* postgresql directive redisOn (after setup)
    RedisTtlSet,    \* postgresql directive redisTtl > 0 (SavePlus)
    WriteFaults,    \* a Redis call may fail: KEYS, HKEYS, HGET, HSET
    DbFaults,       \* a query of the postgresql plugin's database may fail
    NoField         \* model value: the hash has no such field

ASSUME Apex \in Names

VARIABLES
    cache,          \* the zone hash: field -> bundle, or NoField
    zoneListed,     \* the zone is in redis.Zones
    zonesStale,     \* time.Since(redis.LastZoneUpdate) > zoneUpdateTime
    redisOn,        \* handler.redisOn of the postgresql plugin
    pc,             \* per process: where its ServeDNS is
    qname, qtype,   \* per process: the question
    loc,            \* per process: the field findLocation returned
    recs,           \* per process: rows found by findRecord (indices)
    appendSOA,      \* per process: no rows, answering with the apex SOA
    idx,            \* per process: the row updateRedis is at
    zoneMap,        \* per process: updateRedis's zoneMap for the zone
    pending,        \* per process: entries still to write in this round
    snap,           \* per process: the zone is in the KEYS reply of its LoadZones
    resp            \* per process: the response written, or NoResp

vars == <<cache, zoneListed, zonesStale, redisOn, pc, qname, qtype,
          loc, recs, appendSOA, idx, zoneMap, pending, snap, resp>>

RowIds  == 1..Len(StoreRows)
NoResp  == [rcode |-> "none", ans |-> {}]
\* The default SOA redis.SOA synthesizes; not a row of the table.
SynthSOA == 0
\* What the redis converters do on a nil *Record: dereference it.  The
\* server's recover turns the panic into SERVFAIL.
Panic   == "panic"

Rows(n, t) == {r \in RowIds : StoreRows[r].name = n /\ StoreRows[r].type = t}

\* The store's answer: the records of (n, t) whose content decodes.
ValidRows(n, t) == {r \in Rows(n, t) : StoreRows[r].valid}

\* The rows of a set, in table order (SQL without ORDER BY).
InTableOrder(S) ==
    LET s[k \in 0..Len(StoreRows)] ==
          IF k = 0 THEN <<>>
          ELSE IF k \in S THEN Append(s[k - 1], k) ELSE s[k - 1]
    IN  s[Len(StoreRows)]

Fields == {n \in Names : cache[n] # NoField}

EmptyMap == [n \in Names |-> NoField]

\* ServeDNS writes its response and returns: the goroutine's locals are gone.
Respond(p, rc, ans) ==
    /\ resp' = [resp EXCEPT ![p] = [rcode |-> rc, ans |-> ans]]
    /\ pc' = [pc EXCEPT ![p] = "idle"]
    /\ loc' = [loc EXCEPT ![p] = Apex]
    /\ recs' = [recs EXCEPT ![p] = <<>>]
    /\ appendSOA' = [appendSOA EXCEPT ![p] = FALSE]
    /\ idx' = [idx EXCEPT ![p] = 1]
    /\ zoneMap' = [zoneMap EXCEPT ![p] = EmptyMap]
    /\ pending' = [pending EXCEPT ![p] = {}]
    /\ snap' = [snap EXCEPT ![p] = FALSE]

Goto(p, where) == pc' = [pc EXCEPT ![p] = where]

Responses == [rcode : {"NOERROR", "NXDOMAIN", "SERVFAIL", "NOTIMP", "AXFR", Panic}, ans : SUBSET (RowIds \cup {SynthSOA})]

TypeOK ==
    /\ cache \in [Names -> SUBSET RowIds \cup {NoField}]
    /\ zoneListed \in BOOLEAN
    /\ zonesStale \in BOOLEAN /\ redisOn \in BOOLEAN
    /\ snap \in [Procs -> BOOLEAN]
    /\ pc \in [Procs -> {"idle", "r_zone", "r_keys", "r_load", "r_get", "pg_find",
                         "pg_sync", "pg_write", "pg_answer"}]
    /\ qname \in [Procs -> Names] /\ qtype \in [Procs -> QTypes]
    /\ loc \in [Procs -> Names]
    /\ recs \in [Procs -> Seq(RowIds)]
    /\ appendSOA \in [Procs -> BOOLEAN]
    /\ idx \in [Procs -> 1..Len(StoreRows) + 1]
    /\ zoneMap \in [Procs -> [Names -> SUBSET RowIds \cup {NoField}]]
    /\ pending \in [Procs -> SUBSET Names]
    /\ resp \in [Procs -> Responses \cup {NoResp}]

\* The hash starts empty; setup's LoadZones has listed no zone.
Init ==
    /\ cache = EmptyMap
    /\ zoneListed = FALSE
    /\ zonesStale = FALSE
    /\ redisOn = RedisOnInit
    /\ pc = [p \in Procs |-> "idle"]
    /\ qname = [p \in Procs |-> Apex]
    /\ qtype = [p \in Procs |-> CHOOSE t \in QTypes : TRUE]
    /\ loc = [p \in Procs |-> Apex]
    /\ recs = [p \in Procs |-> <<>>]
    /\ appendSOA = [p \in Procs |-> FALSE]
    /\ idx = [p \in Procs |-> 1]
    /\ zoneMap = [p \in Procs |-> EmptyMap]
    /\ pending = [p \in Procs |-> {}]
    /\ snap = [p \in Procs |-> FALSE]
    /\ resp = [p \in Procs |-> NoResp]

Locals   == <<loc, recs, appendSOA, idx, zoneMap, pending, snap>>
PerQuery == <<qname, qtype, loc, recs, appendSOA, idx, zoneMap, pending, snap>>
Shared   == <<cache, zoneListed, zonesStale, redisOn>>

-----------------------------------------------------------------------------
(* The redis plugin: Redis.ServeDNS.                                       *)

\* A query arrives at the first plugin of the chain.
QueryArrives(p) ==
    /\ pc[p] = "idle"
    /\ \E n \in Names, t \in QTypes :
          /\ qname' = [qname EXCEPT ![p] = n]
          /\ qtype' = [qtype EXCEPT ![p] = t]
    /\ resp' = [resp EXCEPT ![p] = NoResp]
    /\ Goto(p, "r_zone")
    /\ UNCHANGED <<Shared, loc, recs, appendSOA, idx, zoneMap, pending, snap>>

\* LoadZones: KEYS prefix*suffix lists the zone while its key exists,
\* that is while its hash has a field.
LoadZones == Fields # {}

\* if time.Since(LastZoneUpdate) > zoneUpdateTime { LoadZones() }, then
\* plugin.Zones(redis.Zones).Matches(qname), and on "" NextOrFailure.
\* LoadZones' KEYS is taken here; its assignment is a step of its own
\* (RedisZonesAssigned), so that a goroutine that also finds the list
\* stale can refresh in between.  With Redis faults KEYS fails (also
\* on a connection that could not dial), and LoadZones returns leaving
\* Zones and LastZoneUpdate as they were.
RedisMatchZone(p) ==
    /\ pc[p] = "r_zone"
    /\ \/ /\ zonesStale
          /\ snap' = [snap EXCEPT ![p] = LoadZones]
          /\ Goto(p, "r_keys")
       \/ /\ ~zonesStale \/ WriteFaults
          /\ Goto(p, IF zoneListed THEN "r_load" ELSE "pg_find")
          /\ UNCHANGED snap
    /\ UNCHANGED <<Shared, qname, qtype, loc, recs, appendSOA, idx, zoneMap,
                   pending, resp>>

\* Mutant of RedisZonesAssigned: the list KEYS gave is kept in a local
\* and never stored in redis.Zones.
RedisZonesAssignedNotStored(p) ==
    /\ pc[p] = "r_keys"
    /\ zonesStale' = FALSE
    /\ Goto(p, IF snap[p] THEN "r_load" ELSE "pg_find")
    /\ UNCHANGED <<cache, zoneListed, redisOn, PerQuery, resp>>

\* The rest of LoadZones: LastZoneUpdate = time.Now(); redis.Zones = zones,
\* whatever another goroutine stored since this one's KEYS; then Matches.
RedisZonesAssigned(p) ==
    /\ pc[p] = "r_keys"
    /\ zoneListed' = snap[p]
    /\ zonesStale' = FALSE
    /\ Goto(p, IF snap[p] THEN "r_load" ELSE "pg_find")
    /\ UNCHANGED <<cache, redisOn, PerQuery, resp>>

\* z := redis.load(zone) (HKEYS) and location := findLocation(qname, z):
\* the zone name itself, an exact field, or "".  On "" the query goes to
\* the next plugin when fallthrough covers it, else NXDOMAIN.
RedisLoadAndFind(p) ==
    /\ pc[p] = "r_load"
    /\ qtype[p] # "AXFR"
    /\ LET n == qname[p] IN
       IF n = Apex \/ n \in Fields
       THEN /\ loc' = [loc EXCEPT ![p] = n]
            /\ Goto(p, "r_get")
            /\ UNCHANGED <<recs, appendSOA, idx, zoneMap, pending, snap, resp>>
       ELSE IF Fallthrough THEN Goto(p, "pg_find") /\ UNCHANGED <<Locals, resp>>
                           ELSE Respond(p, "NXDOMAIN", {})
    /\ UNCHANGED <<Shared, qname, qtype>>

\* z := redis.load(zone) returned nil: HKEYS failed, also on a connection
\* that could not dial (a missing key is an empty zone, not an error).  SERVFAIL.
RedisLoadFailed(p) ==
    /\ pc[p] = "r_load"
    /\ WriteFaults
    /\ Respond(p, "SERVFAIL", {})
    /\ UNCHANGED <<Shared, qname, qtype>>

\* redis.get(l, z): HGET of the field of l, unmarshalled.  It is nil
\* (NoField) when the field is gone and, under Redis faults, when the
\* HGET fails.
Get(l) == {cache[l]} \cup (IF WriteFaults THEN {NoField} ELSE {})

\* The types Redis.AXFR pulls for a non-apex location.
AxfrTypes == {"A", "AAAA", "CNAME", "MX", "SRV", "TXT"}

\* The SOA redis.SOA builds from a bundle: the stored one, or a default
\* SOA (SynthSOA) when the bundle has none.
SoaOf(bundle) ==
    LET s == {r \in bundle : StoreRows[r].type = "SOA"}
    IN  IF s = {} THEN {SynthSOA} ELSE s

\* qtype == "AXFR": records := redis.AXFR(z) (the SOA of field "@", and
\* for every other field its A, AAAA, CNAME, MX, SRV and TXT records),
\* streamed by the chunking goroutine (AxfrChunk).  Without an "@" field
\* no SOA brackets the transfer.
RedisAxfr(p) ==
    /\ pc[p] = "r_load"
    /\ qtype[p] = "AXFR"
    /\ LET soa  == IF Apex \in Fields THEN SoaOf(cache[Apex]) ELSE {}
           rest == UNION {{r \in cache[n] : StoreRows[r].type \in AxfrTypes} :
                          n \in Fields \ {Apex}}
       IN  Respond(p, "AXFR", soa \cup rest)
    /\ UNCHANGED <<Shared, qname, qtype>>

\* Mutant of RedisGetAndAnswer: the !pgBatchUpdate test is dropped.
RedisGetAndAnswerNoFallback(p) ==
    /\ pc[p] = "r_get"
    /\ \E bundle \in Get(loc[p]) :
       IF bundle = NoField
       THEN Respond(p, Panic, {})
       ELSE Respond(p, "NOERROR", {r \in bundle : StoreRows[r].type = qtype[p]})
    /\ UNCHANGED <<Shared, qname, qtype>>

\* record := redis.get(location, z) (HGET, nil when the field is gone);
\* answers := redis.A/MX(qname, z, record); with !pgBatchUpdate an empty
\* answer goes to the next plugin, otherwise it is written.
RedisGetAndAnswer(p) ==
    /\ pc[p] = "r_get"
    /\ \E bundle \in Get(loc[p]) :
       IF bundle = NoField
       THEN Respond(p, Panic, {})
       ELSE LET answers == {r \in bundle : StoreRows[r].type = qtype[p]} IN
            IF ~pgBatchUpdate /\ answers = {}
            THEN Goto(p, "pg_find") /\ UNCHANGED <<Locals, resp>>
            ELSE Respond(p, "NOERROR", answers)
    /\ UNCHANGED <<Shared, qname, qtype>>

-----------------------------------------------------------------------------
(* The postgresql plugin: CoreDNSPostgreSql.ServeDNS and updateRedis.      *)

\* records := findRecord(qZone, qName, qType); on none, appendSOA and
\* findRecord(qZone, "", "SOA").  Then, if redisOn, updateRedis(records).
PgFindRecord(p) ==
    /\ pc[p] = "pg_find"
    /\ qtype[p] # "AXFR"
    /\ LET found == Rows(qname[p], qtype[p])
           none  == found = {}
       IN  /\ recs' = [recs EXCEPT ![p] =
                          InTableOrder(IF none THEN Rows(Apex, "SOA") ELSE found)]
           /\ appendSOA' = [appendSOA EXCEPT ![p] = none]
    /\ idx' = [idx EXCEPT ![p] = 1]
    /\ zoneMap' = [zoneMap EXCEPT ![p] = EmptyMap]
    /\ pending' = [pending EXCEPT ![p] = {}]
    /\ Goto(p, IF redisOn THEN "pg_sync" ELSE "pg_answer")
    /\ UNCHANGED <<Shared, qname, qtype, loc, snap, resp>>

\* One of the database reads ServeDNS makes before it changes anything
\* fails: loadZones (the zone list is reloaded on each query when
\* zoneUpdateTime has passed), findRecord for the name or for the apex
\* SOA, or findAllRecords on the AXFR path.  errorResponse: SERVFAIL.
PgDbError(p) ==
    /\ pc[p] = "pg_find"
    /\ DbFaults
    /\ Respond(p, "SERVFAIL", {})
    /\ UNCHANGED <<Shared, qname, qtype>>

\* findAllRecords(qZone): every row of the zone, in table order.
FindAllRecords == InTableOrder(RowIds)

\* Mutant of PgAxfr: AXFR is refused as if redisOn were off, so the
\* zone is never written to Redis for the redis plugin to transfer.
PgAxfrNoSync(p) ==
    /\ pc[p] = "pg_find"
    /\ qtype[p] = "AXFR"
    /\ Respond(p, "NOTIMP", {})
    /\ UNCHANGED <<Shared, qname, qtype>>

\* qType == "AXFR" (findRecord found no row of that type): without
\* redisOn NOTIMP; else records := findAllRecords(qZone), updateRedis.
PgAxfr(p) ==
    /\ pc[p] = "pg_find"
    /\ qtype[p] = "AXFR"
    /\ IF redisOn
       THEN /\ recs' = [recs EXCEPT ![p] = FindAllRecords]
            /\ idx' = [idx EXCEPT ![p] = 1]
            /\ zoneMap' = [zoneMap EXCEPT ![p] = EmptyMap]
            /\ pending' = [pending EXCEPT ![p] = {}]
            /\ Goto(p, "pg_sync")
            /\ UNCHANGED <<loc, appendSOA, snap, resp>>
       ELSE Respond(p, "NOTIMP", {})
    /\ UNCHANGED <<Shared, qname, qtype>>

\* Mutant of the IsEmpty test: empty entries are written too.
AllEntries(zm) == {n \in Names : zm[n] # NoField}

\* The entries the write loop stores: those !redisEntry.IsEmpty().
NonEmptyEntries(zm) == {n \in Names : zm[n] \notin {NoField, {}}}

\* An entry with the row r added: appended to its type's list, or, for
\* SOA, replacing the entry's SOA.
AddRow(entry, r) ==
    IF StoreRows[r].type = "SOA"
    THEN {x \in entry : StoreRows[x].type # "SOA"} \cup {r}
    ELSE entry \cup {r}

\* Mutant of PgDecodeRow: a row whose content fails to decode is kept.
PgDecodeRowNoSkip(p) ==
    /\ pc[p] = "pg_sync"
    /\ idx[p] <= Len(recs[p])
    /\ LET r     == recs[p][idx[p]]
           n     == StoreRows[r].name
           entry == IF zoneMap[p][n] = NoField THEN {} ELSE zoneMap[p][n]
           zm    == [zoneMap[p] EXCEPT ![n] = AddRow(entry, r)]
       IN  /\ zoneMap' = [zoneMap EXCEPT ![p] = zm]
           /\ pending' = [pending EXCEPT ![p] = NonEmptyEntries(zm)]
           /\ Goto(p, "pg_write")
           /\ UNCHANGED idx
    /\ UNCHANGED <<Shared, qname, qtype, loc, recs, appendSOA, snap, resp>>

\* One iteration of updateRedis's loop over the records: the entry of the
\* row's name is created if absent; the content is decoded by type; on a
\* decode error the iteration ends (continue) before the write loop,
\* else the row is added and the write loop over all entries follows.
PgDecodeRow(p) ==
    /\ pc[p] = "pg_sync"
    /\ idx[p] <= Len(recs[p])
    /\ LET r     == recs[p][idx[p]]
           n     == StoreRows[r].name
           entry == IF zoneMap[p][n] = NoField THEN {} ELSE zoneMap[p][n]
       IN  IF StoreRows[r].valid
           THEN LET zm == [zoneMap[p] EXCEPT ![n] = AddRow(entry, r)] IN
                /\ zoneMap' = [zoneMap EXCEPT ![p] = zm]
                /\ pending' = [pending EXCEPT ![p] = NonEmptyEntries(zm)]
                /\ Goto(p, "pg_write")
                /\ UNCHANGED idx
           ELSE /\ zoneMap' = [zoneMap EXCEPT ![p][n] = entry]
                /\ idx' = [idx EXCEPT ![p] = idx[p] + 1]
                /\ UNCHANGED <<pc, pending>>
    /\ UNCHANGED <<Shared, qname, qtype, loc, recs, appendSOA, snap, resp>>

\* updateRedis returned an error: on the AXFR path SERVFAIL; on the
\* query path ServeDNS sets redisOn = false and answers from the rows.
WriteFailed(p) ==
    IF qtype[p] = "AXFR"
    THEN Respond(p, "SERVFAIL", {}) /\ UNCHANGED redisOn
    ELSE redisOn' = FALSE /\ Goto(p, "pg_answer") /\ UNCHANGED <<Locals, resp>>

\* The write loop, nested in the loop over the records: every non-empty
\* entry, in map order, is marshalled and written with Save (HSET) when
\* redisTtl <= 0, else with SavePlus: HSET, then EXPIRE with redisTtl, a
\* time.Duration, which redigo writes with fmt.Fprint as "30s" and Redis
\* refuses as not an integer, so SavePlus fails after every HSET that
\* succeeds.  Under WriteFaults the HSET may fail (Pool.Get never gives
\* nil: a failed dial yields a connection whose Do returns the error).
PgWriteEntry(p) ==
    /\ pc[p] = "pg_write"
    /\ \E n \in pending[p] :
          \/ /\ cache' = [cache EXCEPT ![n] = zoneMap[p][n]]
             /\ IF RedisTtlSet
                THEN WriteFailed(p)
                ELSE /\ pending' = [pending EXCEPT ![p] = pending[p] \ {n}]
                     /\ UNCHANGED <<pc, redisOn, resp, loc, recs, appendSOA, idx,
                                    zoneMap, snap>>
          \/ /\ WriteFaults
             /\ UNCHANGED cache
             /\ WriteFailed(p)
    /\ UNCHANGED <<zoneListed, zonesStale, qname, qtype>>

\* The write loop is over: the next record.
PgWriteRoundDone(p) ==
    /\ pc[p] = "pg_write"
    /\ pending[p] = {}
    /\ idx' = [idx EXCEPT ![p] = idx[p] + 1]
    /\ Goto(p, "pg_sync")
    /\ UNCHANGED <<Shared, qname, qtype, loc, recs, appendSOA, zoneMap, pending, snap, resp>>

\* updateRedis returns nil after the last record: on the AXFR path
\* "AXFR again by redis" (NOTIMP), else the answer is built.
PgSyncDone(p) ==
    /\ pc[p] = "pg_sync"
    /\ idx[p] > Len(recs[p])
    /\ IF qtype[p] = "AXFR" THEN Respond(p, "NOTIMP", {})
                            ELSE Goto(p, "pg_answer") /\ UNCHANGED <<Locals, resp>>
    /\ UNCHANGED <<Shared, qname, qtype>>

\* Each record is converted with record.AsXRecord(); a conversion error
\* answers SERVFAIL.  The answers go to the answer section, or, with
\* appendSOA, to the authority section (an empty answer).
PgAnswer(p) ==
    /\ pc[p] = "pg_answer"
    /\ IF \E k \in DOMAIN recs[p] : ~StoreRows[recs[p][k]].valid
       THEN Respond(p, "SERVFAIL", {})
       ELSE Respond(p, "NOERROR",
                    IF appendSOA[p] THEN {} ELSE {recs[p][k] : k \in DOMAIN recs[p]})
    /\ UNCHANGED <<Shared, qname, qtype>>

-----------------------------------------------------------------------------
(* The environment: time.  No EXPIRE of this code ever succeeds, so the  *)
(* zone key never expires.                                                *)

\* zoneUpdateTime (10 minutes) passes since the last LoadZones.
ZoneTimerExpires ==
    /\ ~zonesStale
    /\ zonesStale' = TRUE
    /\ UNCHANGED <<cache, zoneListed, redisOn, pc, PerQuery, resp>>

ProcStep(p) ==
    \/ QueryArrives(p) \/ RedisMatchZone(p) \/ RedisZonesAssigned(p)
    \/ RedisLoadAndFind(p) \/ RedisLoadFailed(p)
    \/ RedisAxfr(p) \/ RedisGetAndAnswer(p)
    \/ PgFindRecord(p) \/ PgAxfr(p) \/ PgDecodeRow(p) \/ PgWriteEntry(p)
    \/ PgWriteRoundDone(p) \/ PgSyncDone(p) \/ PgAnswer(p) \/ PgDbError(p)

Next == (\E p \in Procs : ProcStep(p)) \/ ZoneTimerExpires

Spec == Init /\ [][Next]_vars

\* Each goroutine runs its ServeDNS to the end, clients keep asking (the
\* zone list is refreshed only on the query path), and the 10 minutes
\* of zoneUpdateTime pass.
FairSpec == Spec /\ (\A p \in Procs : WF_vars(ProcStep(p)))
                 /\ WF_vars(ZoneTimerExpires)

-----------------------------------------------------------------------------
(* Properties.                                                             *)

\* What a client is told agrees with the table: a NOERROR answer holds
\* exactly the decodable records of (qname, qtype), whichever plugin
\* wrote it and whatever the hash held, and NXDOMAIN is only said of a
\* name with no rows (spec.md 8 "Round-trip", "Partial decode tolerance").
ClientAnswersCorrect ==
    \A p \in Procs :
        /\ resp[p].rcode = "NOERROR" => resp[p].ans = ValidRows(qname[p], qtype[p])
        /\ resp[p].rcode = "NXDOMAIN" =>
              \A r \in RowIds : StoreRows[r].name # qname[p]

\* Every field of the hash holds a non-empty bundle of decodable records
\* of that name (spec.md 3: an empty bundle is never persisted; 4.3: a
\* row that fails to decode is dropped).
CacheHoldsDecodedRecords ==
    \A n \in Fields :
        /\ cache[n] # {}
        /\ \A r \in cache[n] : StoreRows[r].name = n /\ StoreRows[r].valid

\* The redis plugin never converts a nil *Record: whenever findLocation
\* returns a location, get() finds its field.
NoNilRecordDeref ==
    \A p \in Procs : resp[p].rcode # Panic

\* Once the zone's key holds a field, the redis plugin eventually lists
\* the zone for good, although concurrent LoadZones calls may store an
\* older KEYS reply over a newer one (spec.md 4.2: last writer wins, an
\* eventually consistent refresh).
ZoneListFollowsKey == (Fields # {}) ~> []zoneListed

\* A client that keeps asking for AXFR is eventually given the transfer
\* by the redis plugin: the postgresql plugin answers the first attempts
\* with NOTIMP after writing the zone to Redis ("AXFR again by redis"),
\* and the next zone refresh routes the retry to the redis plugin.
AxfrServedByRedis ==
    []<>(\E p \in Procs : pc[p] = "r_zone" /\ qtype[p] = "AXFR")
      => []<>(\E p \in Procs : resp[p].rcode = "AXFR")
=============================================================================
