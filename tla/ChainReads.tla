----------------------------- MODULE ChainReads -----------------------------
(***************************************************************************)
(* What the node reads from its source chain: the lookups of chain.go and  *)
(* the chain query of holochain.go.  A missing answer is the empty set.    *)
(***************************************************************************)
EXTENDS SourceChain

CONSTANTS MaxCount    \* bound: entries on a page of a query

ASSUME ReadsAssumption == MaxCount \in Nat \ {0}

\* Mutant: the top header is passed over.
NthBelow(c, n) == IF Length(c) - n > 1 THEN {c.Headers[Length(c) - n - 1]} ELSE {}

Nth(c, n) == IF Length(c) - n > 0 THEN {c.Headers[Length(c) - n]} ELSE {}

Top(c) == Nth(c, 0)

TopType(c, t) == IF c.TypeTops[t] = 0 THEN {} ELSE {c.Headers[c.TypeTops[t]]}

Get(c, h) == IF h \in DOMAIN c.Hmap THEN {c.Headers[c.Hmap[h]]} ELSE {}

GetEntryHeader(c, e) == IF c.Emap[e] = 0 THEN {} ELSE {c.Headers[c.Emap[e]]}

GetEntry(c, e) ==
    IF c.Emap[e] = 0 THEN {}
    ELSE {[entry |-> c.Entries[c.Emap[e]], entryType |-> c.Headers[c.Emap[e]].Type]}

-----------------------------------------------------------------------------
(***************************************************************************)
(* The options of a query: the types asked for, if any are, the entries    *)
(* whose content satisfies Equals, Contains and Matches, and the order.    *)
(***************************************************************************)
QueryOptions ==
    [EntryTypes : SUBSET EntryType, Satisfying : SUBSET EntryHash, Ascending : BOOLEAN]

\* What Constrain says of header i and its entry.
Passes(c, o, i) ==
    /\ o.EntryTypes # {} => c.Headers[i].Type \in o.EntryTypes
    /\ c.Entries[i] \in o.Satisfying

\* The loop of Query over the headers: the results before they are paged.
Selected(c, o) ==
    LET results[i \in 0..Length(c)] ==
            IF i = 0                 THEN << >>
            ELSE IF ~Passes(c, o, i) THEN results[i - 1]
            ELSE IF o.Ascending      THEN <<i>> \o results[i - 1]
                                     ELSE results[i - 1] \o <<i>>
    IN  results[Length(c)]

\* Mutant: pages are counted from the end of the results.
PagedFromTheEnd(results, count, page) ==
    LET end == Len(results) - page * count
        start == IF end < count THEN 0 ELSE end - count
    IN  IF end <= 0 THEN << >> ELSE SubSeq(results, start + 1, end)

\* The page of Query's results that Constrain.Count and Constrain.Page select.
Paged(results, count, page) ==
    LET start == page * count
        end == IF start + count > Len(results) THEN Len(results) ELSE start + count
    IN  IF start >= Len(results) THEN << >> ELSE SubSeq(results, start + 1, end)

Query(c, o, count, page) ==
    IF count > 0 THEN Paged(Selected(c, o), count, page) ELSE Selected(c, o)

-----------------------------------------------------------------------------
\* The pages one after the other.
Together(pages) ==
    LET together[i \in 0..Len(pages)] ==
            IF i = 0 THEN << >> ELSE together[i - 1] \o pages[i]
    IN  together[Len(pages)]

\* The pages of a query, put together, are its results: Query skips no entry
\* and shows none twice.
PagesCover ==
    \A o \in QueryOptions, count \in 1..MaxCount :
        Together([i \in 1..(Length(chain) + 1) |-> Query(chain, o, count, i - 1)])
            = Query(chain, o, 0, 0)

\* All ways to read the chain agree, whichever commits and restarts made it: the
\* maps lead to the last header of a type or an entry, the top header is found by
\* its hash, its entry is found with the type of the last header committed for it,
\* and the pages of a query put together are its results.
LookupsAgree ==
    /\ MapsAgree /\ PagesCover
    /\ \A hd \in Top(chain) :
          Get(chain, hd.Sum) = {hd} /\ TopType(chain, hd.Type) = {hd}
            /\ GetEntryHeader(chain, hd.EntryLink) = {hd}
    /\ \A t \in EntryType : \A hd \in TopType(chain, t) :
          hd.Type = t /\ Get(chain, hd.Sum) = {hd}
    /\ \A e \in EntryHash : \A hd \in GetEntryHeader(chain, e) :
          GetEntry(chain, e) = {[entry |-> e, entryType |-> hd.Type]}

\* A page that was full when Query returned it is the same whatever has been
\* committed since, so a reader who turns the pages while others commit misses
\* nothing.  It is so because the order that is not Ascending is the order of
\* the chain.
FullPagesStay ==
    [][\A o \in QueryOptions, count \in 1..MaxCount, page \in 0..MaxCommits :
          /\ ~o.Ascending /\ Undamaged(file') /\ up'
          /\ Len(Query(chain, o, count, page)) = count
          => Query(chain', o, count, page) = Query(chain, o, count, page)]_vars
=============================================================================
