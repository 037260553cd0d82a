----------------------------- MODULE AxfrChunk -----------------------------
(***************************************************************************)
(* Zone-transfer chunking of the CoreDNS redis plugin (ServeDNS, AXFR      *)
(* branch, src/coredns/plugin/redis/handler.go): a goroutine walks the    *)
(* records returned by Redis.AXFR, adds up their wire lengths dns.Len(r), *)
(* and sends envelopes over the unbuffered channel ch, which dns.Transfer *)
(* Out reads and writes to the client in order.  A record is abstracted   *)
(* to its wire length.                                                     *)
(***************************************************************************)
EXTENDS Integers, Sequences, SequencesExt, FiniteSets

CONSTANTS
    Records,            \* the candidate record sequences (of wire lengths)
    transferLength      \* the envelope threshold (1000 in the code)

ASSUME transferLength \in Nat \ {0}

VARIABLES
    records,    \* the records returned by Redis.AXFR
    i,          \* range index of the loop, 1-based
    j,          \* start of the current envelope, 1-based
    l,          \* the running length
    ch,         \* the envelope being handed over: {} or {envelope}
    delivered,  \* envelopes Transfer.Out has taken, in order
    pc          \* "loop", "close", "exit" of the sending goroutine

vars == <<records, i, j, l, ch, delivered, pc>>

SeqSum(s) == FoldLeft(LAMBDA a, b : a + b, 0, s)

\* records[j:i] of the code, in 1-based indices.
Slice(from, to) == SubSeq(records, from, to - 1)

TypeOK ==
    /\ records \in Records
    /\ i \in 1..Len(records) + 1
    /\ j \in 1..Len(records) + 1
    /\ l \in Nat
    /\ ch \in SUBSET Seq(Nat) /\ Cardinality(ch) <= 1
    /\ delivered \in Seq(Seq(Nat))
    /\ pc \in {"loop", "close", "exit"}

Init ==
    /\ records \in Records
    /\ i = 1 /\ j = 1 /\ l = 0
    /\ ch = {}
    /\ delivered = <<>>
    /\ pc = "loop"

\* Mutant of Accumulate: the threshold is tested before the record's
\* length is added, so a record may push l past transferLength.
AccumulateCheckFirst ==
    /\ pc = "loop" /\ ch = {}
    /\ i <= Len(records)
    /\ l <= transferLength
    /\ l' = l + records[i]
    /\ i' = i + 1
    /\ UNCHANGED <<records, j, ch, delivered, pc>>

\* l += dns.Len(r) with l <= transferLength: the record joins the envelope.
Accumulate ==
    /\ pc = "loop" /\ ch = {}
    /\ i <= Len(records)
    /\ l + records[i] <= transferLength
    /\ l' = l + records[i]
    /\ i' = i + 1
    /\ UNCHANGED <<records, j, ch, delivered, pc>>

\* Mutant of Flush: the next envelope starts after record i (j = i+1).
FlushSkip ==
    /\ pc = "loop" /\ ch = {}
    /\ i <= Len(records)
    /\ l + records[i] > transferLength
    /\ ch' = {Slice(j, i)}
    /\ l' = 0
    /\ j' = i + 1
    /\ i' = i + 1
    /\ UNCHANGED <<records, delivered, pc>>

\* l > transferLength: ch <- records[j:i]; l = 0; j = i.
Flush ==
    /\ pc = "loop" /\ ch = {}
    /\ i <= Len(records)
    /\ l + records[i] > transferLength
    /\ ch' = {Slice(j, i)}
    /\ l' = 0
    /\ j' = i
    /\ i' = i + 1
    /\ UNCHANGED <<records, delivered, pc>>

\* After the loop: if j < len(records) { ch <- records[j:] }.
SendRest ==
    /\ pc = "loop" /\ ch = {}
    /\ i > Len(records)
    /\ ch' = IF j <= Len(records) THEN {Slice(j, Len(records) + 1)} ELSE {}
    /\ pc' = "close"
    /\ UNCHANGED <<records, i, j, l, delivered>>

\* close(ch), once the last send has been taken.
Close ==
    /\ pc = "close" /\ ch = {}
    /\ pc' = "exit"
    /\ UNCHANGED <<records, i, j, l, ch, delivered>>

\* Transfer.Out receives the envelope and writes it to the client.
Receive ==
    /\ \E e \in ch : delivered' = Append(delivered, e)
    /\ ch' = {}
    /\ UNCHANGED <<records, i, j, l, pc>>

Next == Accumulate \/ Flush \/ SendRest \/ Close \/ Receive

\* Both goroutines run until the channel is closed and drained.
Spec == Init /\ [][Next]_vars /\ WF_vars(Next)

-----------------------------------------------------------------------------
(* Properties.                                                             *)

\* When the channel is closed, the envelopes the client received, joined
\* in order, are exactly the records of the transfer: no record is lost,
\* repeated or reordered by the j/i bookkeeping of the sending loop.
StreamReproduced ==
    pc = "exit" => FlattenSeq(delivered) = records

\* The envelopes overrun transferLength by at most one record: the first
\* envelope fits, and every later one fits without its first record, the
\* record whose length was counted, and then dropped by l = 0, when the
\* previous envelope was flushed.  The overrun never adds up over a
\* stream, however the record lengths fall against the threshold.
EnvelopeOverrunAtMostOneRecord ==
    \A k \in DOMAIN delivered :
        LET e == delivered[k]
        IN  SeqSum(e) - (IF k > 1 /\ e # <<>> THEN Head(e) ELSE 0)
                <= transferLength

=============================================================================
