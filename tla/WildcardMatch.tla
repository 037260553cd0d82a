---------------------------- MODULE WildcardMatch ----------------------------
(***************************************************************************)
(* Redis.findLocation of the CoreDNS redis plugin, with its helpers       *)
(* splitQuery, keyMatches and keyExists (src/coredns/plugin/redis/         *)
(* redis.go).  One lookup runs over the fields z.Locations that load()    *)
(* read with HKEYS; the for-loop of findLocation is one action per branch *)
(* of its body.  Names are sequences of one-character strings so that     *)
(* keyMatches' strings.HasSuffix is modelled character by character; the *)
(* query is already relative to the zone, <<>> standing for the zone name *)
(* itself.  A behaviour is one call: Init picks the zone's fields and the *)
(* query, and the call ends when findLocation returns (pc = "done").      *)
(***************************************************************************)
EXTENDS Sequences, SequencesExt

CONSTANTS
    Fields,     \* candidate fields of a zone hash (names, "@", wildcards)
    Queries     \* candidate query names relative to the zone

VARIABLES
    locations,          \* z.Locations
    query,              \* query after strings.TrimSuffix(query, "."+z.Name)
    pc,                 \* "start", "loop" or "done"
    closestEncloser,
    sourceOfSynthesis,
    ok,                 \* third result of splitQuery: the loop condition
    result              \* the returned location; NoMatch is the code's ""

vars == <<locations, query, pc, closestEncloser, sourceOfSynthesis, ok, result>>

Dot     == "."
Star    == "*"
NoMatch == <<>>
\* findLocation returns z.Name for the apex; get() reads field "@" for it.
ApexKey == <<"@">>

keyExists(key, locs) == key \in locs

keyMatches(key, locs) == \E value \in locs : IsSuffix(key, value)

\* Mutant of splitQuery: the early return for "" is dropped.
splitQueryNoEmptyGuard(q) ==
    LET i == SelectInSeq(q, LAMBDA c : c = Dot)
    IN  IF i # 0 THEN [ce |-> SubSeq(q, i + 1, Len(q)),
                       ss |-> <<Star, Dot>> \o SubSeq(q, i + 1, Len(q)),
                       ok |-> TRUE]
        ELSE [ce |-> <<>>, ss |-> <<Star>>, ok |-> TRUE]

\* strings.SplitAfterN(query, ".", 2): split after the first dot.
splitQuery(q) ==
    IF q = <<>> THEN [ce |-> <<>>, ss |-> <<>>, ok |-> FALSE]
    ELSE LET i == SelectInSeq(q, LAMBDA c : c = Dot)
         IN  IF i # 0 THEN [ce |-> SubSeq(q, i + 1, Len(q)),
                            ss |-> <<Star, Dot>> \o SubSeq(q, i + 1, Len(q)),
                            ok |-> TRUE]
             ELSE [ce |-> <<>>, ss |-> <<Star>>, ok |-> TRUE]

SetSplit(s) ==
    /\ closestEncloser' = s.ce
    /\ sourceOfSynthesis' = s.ss
    /\ ok' = s.ok

\* ceExists of the loop body.
ceExists == keyMatches(closestEncloser, locations)
              \/ keyExists(closestEncloser, locations)

\* Mutant of ssExists: the wildcard is taken without looking it up.
ssExistsAlways == TRUE

ssExists == keyExists(sourceOfSynthesis, locations)

Return(r) ==
    /\ result' = r
    /\ pc' = "done"

TypeOK ==
    /\ locations \subseteq Fields
    /\ query \in Queries
    /\ pc \in {"start", "loop", "done"}
    /\ ok \in BOOLEAN
    /\ result \in Fields \cup {NoMatch, ApexKey}

Init ==
    /\ locations \in SUBSET Fields
    /\ query \in Queries
    /\ pc = "start"
    /\ closestEncloser = <<>>
    /\ sourceOfSynthesis = <<>>
    /\ ok = FALSE
    /\ result = NoMatch

\* if query == z.Name { return query }
FindApex ==
    /\ pc = "start"
    /\ query = <<>>
    /\ Return(ApexKey)
    /\ UNCHANGED <<locations, query, closestEncloser, sourceOfSynthesis, ok>>

\* if _, ok = z.Locations[query]; ok { return query }
FindExact ==
    /\ pc = "start"
    /\ query # <<>>
    /\ query \in locations
    /\ Return(query)
    /\ UNCHANGED <<locations, query, closestEncloser, sourceOfSynthesis, ok>>

\* closestEncloser, sourceOfSynthesis, ok = splitQuery(query)
StartWalk ==
    /\ pc = "start"
    /\ query # <<>>
    /\ query \notin locations
    /\ SetSplit(splitQuery(query))
    /\ pc' = "loop"
    /\ UNCHANGED <<locations, query, result>>

\* ceExists && ssExists: return sourceOfSynthesis
Synthesize ==
    /\ pc = "loop"
    /\ ok
    /\ ceExists
    /\ ssExists
    /\ Return(sourceOfSynthesis)
    /\ UNCHANGED <<locations, query, closestEncloser, sourceOfSynthesis, ok>>

\* ceExists && !ssExists: return ""
NoWildcard ==
    /\ pc = "loop"
    /\ ok
    /\ ceExists
    /\ ~ssExists
    /\ Return(NoMatch)
    /\ UNCHANGED <<locations, query, closestEncloser, sourceOfSynthesis, ok>>

\* !ceExists: splitQuery(closestEncloser) and go round again
Descend ==
    /\ pc = "loop"
    /\ ok
    /\ ~ceExists
    /\ SetSplit(splitQuery(closestEncloser))
    /\ UNCHANGED <<locations, query, pc, result>>

\* loop condition false: return ""
WalkExhausted ==
    /\ pc = "loop"
    /\ ~ok
    /\ Return(NoMatch)
    /\ UNCHANGED <<locations, query, closestEncloser, sourceOfSynthesis, ok>>

FindStep == FindApex \/ FindExact \/ StartWalk \/ Synthesize \/ NoWildcard
              \/ Descend \/ WalkExhausted

Next == FindStep

\* findLocation runs to completion in the goroutine serving the query.
Spec == Init /\ [][Next]_vars /\ WF_vars(FindStep)

-----------------------------------------------------------------------------
(* Properties.                                                             *)

W == INSTANCE WildcardSpec WITH answered <- (pc = "done")

\* findLocation implements the abstract lookup: each lookup answers with
\* the apex, the exact field, the most specific covering wildcard field,
\* or nothing (never a field absent from z.Locations, never a wildcard
\* less specific than one that exists).
ImplementsResolverSpec == W!ResolverSpec

\* Every call of findLocation returns: the walk up the labels of the
\* query ends (splitQuery reports !ok once the name is used up).
LookupTerminates == (pc = "start") ~> (pc = "done")
=============================================================================
