---------------------------- MODULE MC_DhcpStart -----------------------------
EXTENDS DhcpStart

\* Vendors in lower and upper case, an unknown one and the empty one.
MCVendors == {[word |-> w, cased |-> c] : w \in {"huawei", "cisco", "aruba", ""},
                                          c \in BOOLEAN}

\* A dotted quad, an IPv4-mapped IPv6 address, a plain IPv6 address and
\* the empty string.
MCAcIps == {[form |-> "dotted", bytes |-> <<192, 168, 100, 1>>],
            [form |-> "mapped", bytes |-> <<10, 0, 0, 2>>],
            [form |-> "v6", bytes |-> <<>>],
            [form |-> "empty", bytes |-> <<>>]}

\* "0104", "", "01z4" (not hex) and "f" (odd length).
MCHex == {<<0, 1, 0, 4>>, <<>>, <<0, 1, -1, 4>>, <<15>>}

MCArgs ==
    {[k |-> "vendor", v |-> x] : x \in MCVendors}
    \cup {[k |-> "ac_ip", v |-> x] : x \in MCAcIps}
    \cup {[k |-> "option43", v |-> x] : x \in MCHex}
    \cup {[k |-> "option60", v |-> x] : x \in {"MyVendorClass", ""}}
    \cup {[k |-> "other", v |-> ""]}

\* Every list of up to three arguments.
MCArgSeqs == UNION {[1..n -> MCArgs] : n \in 0..3}

\* Two redis servers, a password and the empty string.
H1 == <<"10.0.0.1:6379">>
H2 == <<"10.0.0.2:6379">>
PW == <<"secret">>

\* redis: no argument, an empty address, the address alone, address and
\* password (empty or not), and a TTL that parses, truncates to 0, or
\* does not parse.  No password holds a comma.
MCRedisArgs ==
    { <<>>, << <<>> >>, <<H1>>, <<H1, <<>> >>, <<H1, PW>>, <<H2, PW>>,
      <<H2, <<>>, <<"1h">> >>, <<H1, PW, <<"500ms">> >>, <<H2, PW, <<"zz">> >> }

URL == <<"postgres://db/dhcp">>

\* postgres: no argument, an empty url, the url alone, updateredis on in
\* two spellings, off, empty, and a url ParseConfig refuses.
MCPgArgs ==
    { <<>>, << <<>> >>, <<URL>>, <<URL, <<"true">> >>, <<URL, <<"1">> >>,
      <<URL, <<"false">> >>, <<URL, <<>> >>, <<BadUrl, <<"true">> >> }
=============================================================================
