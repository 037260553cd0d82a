---------------------------- MODULE MC_DhcpLease ----------------------------
(* Durations 0 (unset), 15 (below the lifetime), 30 (equal to it) and 31  *)
(* (above it), in units of 6 minutes.                                     *)
EXTENDS DhcpLease

MCDurations == {0, 15, 30, 31}

\* r1: everything parses, T1 above the lifetime, a DNS list whose second
\* server is bad.  r2: a bad router, no DNS, unparsable T2 and lease
\* time.  r3: neither address parses.
MCRow1 == [ipv6 |-> Addr, t1 |-> 31, t2 |-> 15, ipv4 |-> Cidr,
           router |-> Router, dns |-> <<"d1", "x">>, lt |-> 15]
MCRow2 == [ipv6 |-> Addr, t1 |-> 30, t2 |-> Bad, ipv4 |-> Cidr,
           router |-> BadRouter, dns |-> <<"">>, lt |-> Bad]
MCRow3 == [ipv6 |-> BadAddr, t1 |-> 0, t2 |-> 30, ipv4 |-> BadCidr,
           router |-> Router, dns |-> <<"d1", "d2">>, lt |-> 0]

MCDbRows == {MCRow1, MCRow2, MCRow3}

MCServers == {"d1", "d2"}

\* Start hashes: none; one complete redisUpdate of r1; a hand-written one
\* whose addresses do not parse, in either family.
MCInitHashes ==
    { EmptyHash,
      PgHash(MCRow1, V4Fields \cup V6Fields),
      [f \in {"ipv6", "t2", "ipv4", "router"} |->
           CASE f = "ipv6" -> BadAddr [] f = "t2" -> 31
             [] f = "ipv4" -> BadCidr [] f = "router" -> Router] }

MCEmptyHash == {EmptyHash}

\* "vendor=HUAWEI" "ac_ip=192.168.100.1" "option60=MyVendorClass"
MCOptArgs == <<[k |-> "vendor", v |-> [word |-> "huawei", cased |-> TRUE]],
               [k |-> "ac_ip", v |-> [form |-> "dotted", bytes |-> <<192, 168, 100, 1>>]],
               [k |-> "option60", v |-> "MyVendorClass"]>>
=============================================================================
