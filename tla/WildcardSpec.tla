---------------------------- MODULE WildcardSpec ----------------------------
(***************************************************************************)
(* What a closest-encloser lookup promises (spec.md 4.4, glossary, RFC     *)
(* 4592): given the fields of one zone and a query name relative to the   *)
(* zone, the field that answers is the apex marker for the apex, the name *)
(* itself when it is a field, and otherwise the wildcard "*.<ce>" below   *)
(* the closest encloser ce, when that wildcard is a field.  Ancestors are *)
(* taken at label boundaries.  Names are sequences of one-character      *)
(* strings; <<>> is the apex.                                              *)
(*                                                                         *)
(* ResolverSpec is the abstract lookup: a query is answered in one step  *)
(* with the apex marker, the name itself when it is a field, a wildcard   *)
(* field below a label ancestor of the name such that no wildcard field   *)
(* lies below a longer ancestor, or no match.  It may be less complete    *)
(* than RFC 4592 (RFCAnswer, below) but never answers from a field that   *)
(* does not cover the name or from a less specific wildcard than one that *)
(* exists.                                                                 *)
(***************************************************************************)
EXTENDS Sequences, SequencesExt

CONSTANTS
    Fields,     \* candidate fields of a zone hash
    Queries     \* candidate query names relative to the zone

VARIABLES
    locations,  \* the fields of the zone
    query,      \* the relative query name
    answered,   \* the lookup of query has returned
    result      \* the field it returned

Dot     == "."
Star    == "*"
NoMatch == <<>>
ApexKey == <<"@">>

\* a is an ancestor of n at a label boundary (the apex <<>> included).
IsLabelAncestor(a, n) ==
    \/ a = <<>>
    \/ IsSuffix(<<Dot>> \o a, n)

\* RFC 4592 existence: a name exists when it is a field or has a
\* descendant field (an empty non-terminal); the apex always exists.
ExistsRFC(n, locs) ==
    \/ n = <<>>
    \/ n \in locs
    \/ \E l \in locs : IsSuffix(<<Dot>> \o n, l)

WildcardOf(ce) == IF ce = <<>> THEN <<Star>> ELSE <<Star, Dot>> \o ce

\* The label ancestors of q other than q itself, the apex <<>> included.
ProperLabelAncestors(q) ==
    {a \in {SubSeq(q, i, Len(q)) : i \in 2..Len(q) + 1} : IsLabelAncestor(a, q)}

\* The closest encloser of q: its longest proper label ancestor that exists.
ClosestEncloserRFC(q, locs) ==
    LET cands == {a \in ProperLabelAncestors(q) : ExistsRFC(a, locs)}
    IN  CHOOSE a \in cands : \A b \in cands : Len(b) <= Len(a)

\* An existing name that is not a field (an empty non-terminal) has no
\* data and is never answered by a wildcard.
RFCAnswer(q, locs) ==
    IF q = <<>> THEN ApexKey
    ELSE IF q \in locs THEN q
    ELSE IF ExistsRFC(q, locs) THEN NoMatch
    ELSE LET ss == WildcardOf(ClosestEncloserRFC(q, locs))
         IN  IF ss \in locs THEN ss ELSE NoMatch

\* The answers the abstract lookup allows for q.
Allowed(q, locs) ==
    IF q = <<>> THEN {ApexKey}
    ELSE IF q \in locs THEN {q}
    ELSE {NoMatch} \cup
         {WildcardOf(a) : a \in {a \in ProperLabelAncestors(q) :
              /\ WildcardOf(a) \in locs
              /\ \A b \in ProperLabelAncestors(q) :
                    Len(b) > Len(a) => WildcardOf(b) \notin locs}}

TypeOK ==
    /\ locations \subseteq Fields
    /\ query \in Queries
    /\ answered \in BOOLEAN
    /\ result \in Fields \cup {NoMatch, ApexKey}

Init ==
    /\ locations \in SUBSET Fields
    /\ query \in Queries
    /\ answered = FALSE
    /\ result = NoMatch

Resolve ==
    /\ ~answered
    /\ answered' = TRUE
    /\ result' \in Allowed(query, locations)
    /\ UNCHANGED <<locations, query>>

Next == Resolve

vars == <<locations, query, answered, result>>

ResolverSpec == Init /\ [][Next]_vars
=============================================================================
