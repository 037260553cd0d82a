---------------------------- MODULE MC_AxfrChunk ----------------------------
(***************************************************************************)
(* Record streams of up to five records whose lengths are 1..4 against a  *)
(* threshold of 3: lengths below, at and above the threshold, so that an  *)
(* envelope closes on the exact boundary, one record alone exceeds it,    *)
(* and several envelopes follow one another.                              *)
(***************************************************************************)
EXTENDS AxfrChunk

MCRecords == BoundedSeq(1..4, 5)

=============================================================================
