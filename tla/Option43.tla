------------------------------ MODULE Option43 ------------------------------
(***************************************************************************)
(* The pure part of the coredhcp optionset plugin                         *)
(* (src/coredhcp/plugins/optionset/option.go): setup4's loop over its     *)
(* arguments and generateOption43.                                         *)
(*                                                                         *)
(* An argument is a record [k, v]: k is the prefix it starts with         *)
(* (vendor=, ac_ip=, option43=, option60=, or none of them), v what       *)
(* follows.  A vendor is a record [word, cased]: strings.ToLower gives    *)
(* its word.  An ac_ip is a record                                       *)
(* [form, bytes]: net.ParseIP(..).To4() gives the bytes of a dotted quad  *)
(* or of an IPv4-mapped IPv6 address, nil otherwise; form "empty" is the  *)
(* empty string.  An option43 is its sequence of hex digits 0..15, a     *)
(* character that is not a hex digit being -1.                            *)
(***************************************************************************)
EXTENDS Integers, Sequences, SequencesExt

\* The result of a conversion that fails, and of one that gives bytes b.
Failed   == [err |-> TRUE, bytes |-> <<>>]
Bytes(b) == [err |-> FALSE, bytes |-> b]

SetupError == [err |-> TRUE, o43 |-> <<>>, o60 |-> ""]

\* hex.DecodeString: an odd length or a non-hex digit is an error.
HexDecode(s) ==
    IF Len(s) % 2 = 1 \/ \E i \in 1..Len(s) : s[i] < 0
    THEN Failed
    ELSE Bytes([i \in 1..(Len(s) \div 2) |-> 16 * s[2 * i - 1] + s[2 * i]])

To4(ip) == IF ip.form \in {"dotted", "mapped"} THEN ip.bytes ELSE <<>>

\* generateOption43: 01 (huawei) or f1 (cisco), the length 4, the address.
GenerateOption43(vendor, ip) ==
    CASE To4(ip) = <<>>     -> Failed
      [] vendor = "huawei"  -> Bytes(<<1, 4>> \o To4(ip))
      [] vendor = "cisco"   -> Bytes(<<241, 4>> \o To4(ip))
      [] OTHER              -> Failed

\* The globals setup4 clears before its loop.
SetupStart == [vendor |-> "", acip |-> [form |-> "empty", bytes |-> <<>>],
               o43 |-> <<>>, o60 |-> "", err |-> FALSE]

\* One iteration of setup4's loop over its arguments.
SetupArg(st, a) ==
    CASE a.k = "vendor"   -> [st EXCEPT !.vendor = a.v.word]
      [] a.k = "ac_ip"    -> [st EXCEPT !.acip = a.v]
      [] a.k = "option43" -> [st EXCEPT !.o43 = HexDecode(a.v).bytes]
      [] a.k = "option60" -> [st EXCEPT !.o60 = a.v]
      [] OTHER            -> st

\* Mutant of SetupLoop: an option43 that does not decode is skipped.
RECURSIVE SetupLoopSkipBadHex(_, _)
SetupLoopSkipBadHex(args, st) ==
    IF args = <<>> THEN st
    ELSE IF Head(args).k = "option43" /\ HexDecode(Head(args).v).err
         THEN SetupLoopSkipBadHex(Tail(args), st)
         ELSE SetupLoopSkipBadHex(Tail(args), SetupArg(st, Head(args)))

\* The loop; a hex decode error returns at once.
RECURSIVE SetupLoop(_, _)
SetupLoop(args, st) ==
    IF args = <<>> THEN st
    ELSE IF Head(args).k = "option43" /\ HexDecode(Head(args).v).err
         THEN [st EXCEPT !.err = TRUE]
         ELSE SetupLoop(Tail(args), SetupArg(st, Head(args)))

\* setup4: the loop, then option 43 is generated when none was given and
\* a vendor and an ac_ip were.  Either step may fail the plugin's setup.
Setup4(args) ==
    LET st == SetupLoop(args, SetupStart)
        gen == GenerateOption43(st.vendor, st.acip)
    IN  CASE st.err -> SetupError
          [] st.o43 = <<>> /\ st.vendor # "" /\ st.acip.form # "empty" ->
                IF gen.err THEN SetupError
                ELSE [err |-> FALSE, o43 |-> gen.bytes, o60 |-> st.o60]
          [] OTHER -> [err |-> FALSE, o43 |-> st.o43, o60 |-> st.o60]

-----------------------------------------------------------------------------
\* What setup4 promises (the comments of option.go): the last
\* option43= given is used as it is; when none, or an empty one, is given
\* and a vendor and an ac_ip are, option 43 is the vendor's type (01 for
\* huawei, f1 for cisco), the length 4 and the four bytes of the IPv4
\* address.  A bad hex string, an unknown vendor or an ac_ip that is not
\* IPv4 is a setup error.  It is stated over the whole argument list at
\* once (the last occurrence of each prefix), not as a loop.
Option43Ref(args) ==
    LET last(k) == SelectLastInSeq(args, LAMBDA a : a.k = k)
        val(k, none) == IF last(k) = 0 THEN none ELSE args[last(k)].v
        badHex == \E i \in 1..Len(args) :
                      args[i].k = "option43" /\ HexDecode(args[i].v).err
        manual == HexDecode(val("option43", <<>>)).bytes
        vendor == IF last("vendor") = 0 THEN "" ELSE val("vendor", "").word
        ip     == val("ac_ip", [form |-> "empty", bytes |-> <<>>])
        type   == [huawei |-> 1, cisco |-> 241]
    IN  CASE badHex -> SetupError
          [] manual # <<>> \/ vendor = "" \/ ip.form = "empty" ->
                [err |-> FALSE, o43 |-> manual, o60 |-> val("option60", "")]
          [] vendor \in DOMAIN type /\ ip.form \in {"dotted", "mapped"} ->
                [err |-> FALSE, o43 |-> <<type[vendor], 4>> \o ip.bytes,
                 o60 |-> val("option60", "")]
          [] OTHER -> SetupError
=============================================================================
