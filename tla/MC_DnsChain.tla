----------------------------- MODULE MC_DnsChain -----------------------------
(* The zone for checking DnsChain: an apex with an SOA and an A record, a  *)
(* name "www" with two good A rows, one A row and one MX row whose content *)
(* does not decode, and a name "nx" with no rows.  The bad MX row comes   *)
(* first in table order, so findAllRecords meets a name with no decodable *)
(* row before the write loop runs for another name.                       *)
EXTENDS DnsChain

MCNames == {"@", "www", "nx"}

MCQTypes == {"A", "MX", "AXFR"}

MCStoreRows ==
    << [name |-> "www", type |-> "MX",  valid |-> FALSE],
       [name |-> "@",   type |-> "SOA", valid |-> TRUE],
       [name |-> "@",   type |-> "A",   valid |-> TRUE],
       [name |-> "www", type |-> "A",   valid |-> TRUE],
       [name |-> "www", type |-> "A",   valid |-> TRUE],
       [name |-> "www", type |-> "A",   valid |-> FALSE] >>

\* The same zone with one good row of each (name, type): a reader never
\* meets a bundle between two good rows of one sync, the race
\* MC_DnsChain_race shows.
MCStoreRowsOnePerType == SelectSeq(MCStoreRows, LAMBDA r : r # MCStoreRows[5])
=============================================================================
