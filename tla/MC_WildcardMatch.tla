-------------------------- MODULE MC_WildcardMatch --------------------------
(***************************************************************************)
(* Inputs for findLocation.  Labels "b" and "ab" are chosen so that one is *)
(* a string suffix of the other across a label boundary, the case         *)
(* keyMatches tests; queries of up to three labels also use "x", which is *)
(* never a field, so that the walk has to climb.  Fields are every name   *)
(* of up to two labels, the wildcards "*", "*.b", "*.ab" and the apex     *)
(* marker "@" that the postgresql plugin writes for apex records.        *)
(***************************************************************************)
EXTENDS WildcardMatch

LB  == <<"b">>
LAB == <<"a", "b">>
LX  == <<"x">>

FieldLabels == {LB, LAB}
QueryLabels == {LB, LAB, LX}

Join(l, n) == l \o <<".">> \o n

NamesUpTo2(L) == L \cup {Join(l, m) : l, m \in L}

MCFields ==
    NamesUpTo2(FieldLabels)
      \cup {<<"*">>} \cup {<<"*", ".">> \o l : l \in FieldLabels}
      \cup {<<"@">>}

MCQueries ==
    {<<>>} \cup NamesUpTo2(QueryLabels)
      \cup {Join(l, Join(m, n)) : l, m, n \in QueryLabels}
=============================================================================
