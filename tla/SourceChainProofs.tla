------------------------- MODULE SourceChainProofs --------------------------
(***************************************************************************)
(* Proofs about SourceChain, for any number of committers, types, entries, *)
(* commits and faults: the chain is always the one that its headers        *)
(* determine, the headers are linked, and the file up to its first damaged *)
(* pair holds them.                                                        *)
(*                                                                         *)
(* A header that doCommit has prepared is a good next header as long as    *)
(* the chain has not grown: that is what the invariant adds.               *)
(*                                                                         *)
(* Then that SourceChain implements CommitLog: every step of a committer   *)
(* is a step of the abstract log or invisible to it, and a restart leaves  *)
(* the firm part of the log, or nothing if the file does not load.         *)
(*                                                                         *)
(* And about the bytes of headers, for any size of a byte, of a hash and   *)
(* of a time: what MarshalHeader writes is read back by UnmarshalHeader    *)
(* exactly when every string of the header fits into its length.           *)
(***************************************************************************)
EXTENDS SourceChain, HeaderCodec, TLAPS

-----------------------------------------------------------------------------
(* Sequences *)

\* A sequence is a function on its places.
LEMMA SeqIsFunction ==
    ASSUME NEW S, NEW q \in Seq(S)
    PROVE  Len(q) \in Nat /\ DOMAIN q = 1..Len(q) /\ q \in [1..Len(q) -> S]
OBVIOUS

\* Sequences with the same elements in the same places are the same.
LEMMA SameSeq ==
    ASSUME NEW S, NEW q \in Seq(S), NEW r \in Seq(S),
           Len(q) = Len(r), \A i \in 1..Len(q) : q[i] = r[i]
    PROVE  q = r
OBVIOUS

\* What SubSeq takes out, from place a to place b.
LEMMA PartIs ==
    ASSUME NEW S, NEW q, NEW a \in Int, NEW b \in Int, \A i \in a..b : q[i] \in S
    PROVE  /\ SubSeq(q, a, b) \in Seq(S)
           /\ Len(SubSeq(q, a, b)) = IF a <= b THEN b - a + 1 ELSE 0
           /\ \A i \in 1..(b - a + 1) : SubSeq(q, a, b)[i] = q[a + i - 1]
OBVIOUS

\* Nothing is taken out from after the end ...
LEMMA NoPart ==
    ASSUME NEW q, NEW a \in Int, NEW b \in Int, b < a
    PROVE  SubSeq(q, a, b) = << >>
OBVIOUS

\* ... and all of it from the first to the last.
LEMMA WholePart ==
    ASSUME NEW S, NEW q \in Seq(S)
    PROVE  SubSeq(q, 1, Len(q)) = q
OBVIOUS

\* Two sequences make one.
LEMMA JoinIs ==
    ASSUME NEW S, NEW q \in Seq(S), NEW r \in Seq(S)
    PROVE  q \o r \in Seq(S)
OBVIOUS

\* A sequence with one more element.
LEMMA AppendIs ==
    ASSUME NEW S, NEW q \in Seq(S), NEW x \in S
    PROVE  /\ Append(q, x) \in Seq(S) /\ Len(Append(q, x)) = Len(q) + 1
           /\ \A i \in 1..Len(q) : Append(q, x)[i] = q[i]
           /\ Append(q, x)[Len(q) + 1] = x
OBVIOUS

-----------------------------------------------------------------------------
(* The chain that headers determine *)

Sums(q) == [i \in 1..Len(q) |-> q[i].Sum]

\* The chain that the headers q determine.
Of(q) == ChainWith(Sums(q), q)

OfType(q, n, t) == {i \in 1..n : q[i].Type = t}
OfEntry(q, n, e) == {i \in 1..n : q[i].EntryLink = e}

\* hd links to the last header of q, and to the last of its type.
Follows(q, hd) ==
    /\ hd.HeaderLink = IF q = << >> THEN NullHash ELSE q[Len(q)].Sum
    /\ LET B == OfType(q, Len(q), hd.Type)
       IN  \/ B = {} /\ hd.TypeLink = NullHash
           \/ \E j \in B : IsLast(B, j) /\ hd.TypeLink = q[j].Sum

\* Every header of q links to the headers before it.
Chained(q) ==
    \A i \in 1..Len(q) :
        /\ q[i].HeaderLink = IF i = 1 THEN NullHash ELSE q[i - 1].Sum
        /\ LET B == OfType(q, i - 1, q[i].Type)
           IN  \/ B = {} /\ q[i].TypeLink = NullHash
               \/ \E j \in B : IsLast(B, j) /\ q[i].TypeLink = q[j].Sum

\* Up to any header there is a last one of each type and of each entry.
Topped(q) ==
    \A n \in 0..Len(q) :
        /\ \A t \in EntryType : \E x \in 0..n : IsLast(OfType(q, n, t), x)
        /\ \A e \in EntryHash : \E x \in 0..n : IsLast(OfEntry(q, n, e), x)

Distinct(q) == \A i, j \in 1..Len(q) : q[i].Sum = q[j].Sum => i = j

Good(q) == q \in Seq(Header) /\ Chained(q) /\ Topped(q) /\ Distinct(q)

\* hd has a hash that no header of q has.
Fresh(q, hd) == \A i \in 1..Len(q) : q[i].Sum # hd.Sum

-----------------------------------------------------------------------------
(* Chains *)

\* Appending to a function on 1..n.
LEMMA AppendTo ==
    ASSUME NEW S, NEW n \in Nat, NEW f \in [1..n -> S], NEW x \in S
    PROVE  /\ Append(f, x) = [i \in 1..(n + 1) |-> IF i = n + 1 THEN x ELSE f[i]]
           /\ f \in Seq(S) /\ Len(f) = n
<1>1. f \in Seq(S) /\ Len(f) = n
    OBVIOUS
<1>2. Append(f, x) \in Seq(S) /\ Len(Append(f, x)) = n + 1
    BY <1>1
<1>3. \A i \in 1..(n + 1) : Append(f, x)[i] = IF i = n + 1 THEN x ELSE f[i]
    BY <1>1
<1> DEFINE g == [i \in 1..(n + 1) |-> IF i = n + 1 THEN x ELSE f[i]]
<1>4. Append(f, x) \in [1..(n + 1) -> S]
    BY ZenonT(30), <1>2, SeqIsFunction
<1>6. g \in [1..(n + 1) -> S]
    <2>1. \A i \in 1..(n + 1) : i # n + 1 => f[i] \in S
        OBVIOUS
    <2> QED BY ZenonT(30), <2>1
<1>5. \A i \in 1..(n + 1) : Append(f, x)[i] = g[i]
    BY ZenonT(30), <1>3
<1> QED BY ZenonT(30), <1>1, <1>4, <1>5, <1>6

\* The last element of a set of numbers is unique.
LEMMA LastIs ==
    ASSUME NEW S \in SUBSET Nat, NEW x \in Nat, IsLast(S, x)
    PROVE  Last(S) = x
<1>1. x \in S \cup {0}
    BY ZenonT(30) DEF IsLast
<1>2. \A y \in S \cup {0} : IsLast(S, y) => y = x
    BY DEF IsLast
<1> QED BY ZenonT(30), <1>1, <1>2 DEF Last

\* The parts of the chain that q determines.
LEMMA OfFields ==
    ASSUME NEW q
    PROVE  /\ Of(q).Hashes = Sums(q) /\ Of(q).Headers = q
           /\ Of(q).Entries = [i \in 1..Len(q) |-> q[i].EntryLink]
           /\ Of(q).TypeTops = [t \in EntryType |-> Last(OfType(q, Len(q), t))]
           /\ Of(q).Emap = [e \in EntryHash |-> Last(OfEntry(q, Len(q), e))]
           /\ Of(q).Hmap = [h \in {Sums(q)[i] : i \in 1..Len(q)} |->
                              Last({i \in 1..Len(q) : Sums(q)[i] = h})]
BY ZenonT(30) DEF Of, ChainWith, OfType, OfEntry

\* A header has fields of these types.
LEMMA HeaderFields ==
    ASSUME NEW hd \in Header
    PROVE  /\ hd.Type \in EntryType /\ hd.EntryLink \in EntryHash
           /\ hd.Sum \in Nat \ {NullHash} /\ hd.HeaderLink \in Nat /\ hd.TypeLink \in Nat
BY ZenonT(30) DEF Header

\* The maps of a good chain lead to the last headers.
LEMMA OfMaps ==
    ASSUME NEW q, Good(q)
    PROVE  /\ \A t \in EntryType : /\ Of(q).TypeTops[t] \in 0..Len(q)
                                   /\ IsLast(OfType(q, Len(q), t), Of(q).TypeTops[t])
           /\ \A e \in EntryHash : /\ Of(q).Emap[e] \in 0..Len(q)
                                   /\ IsLast(OfEntry(q, Len(q), e), Of(q).Emap[e])
           /\ DOMAIN Of(q).Hmap = {q[i].Sum : i \in 1..Len(q)}
           /\ \A i \in 1..Len(q) : Of(q).Hmap[q[i].Sum] = i
<1>0. Len(q) \in Nat
    BY DEF Good
<1>1. ASSUME NEW t \in EntryType
      PROVE  Of(q).TypeTops[t] \in 0..Len(q) /\ IsLast(OfType(q, Len(q), t), Of(q).TypeTops[t])
    <2>1. PICK x \in 0..Len(q) : IsLast(OfType(q, Len(q), t), x)
        BY <1>0 DEF Good, Topped
    <2>2. OfType(q, Len(q), t) \in SUBSET Nat
        BY <1>0 DEF OfType
    <2>3. Last(OfType(q, Len(q), t)) = x
        BY <2>1, <2>2, <1>0, LastIs
    <2>4. Of(q).TypeTops = [u \in EntryType |-> Last(OfType(q, Len(q), u))]
        BY ZenonT(30), OfFields
    <2>5. Of(q).TypeTops[t] = Last(OfType(q, Len(q), t))
        BY ZenonT(30), <2>4
    <2> QED BY ZenonT(30), <2>1, <2>3, <2>5
<1>2. ASSUME NEW e \in EntryHash
      PROVE  Of(q).Emap[e] \in 0..Len(q) /\ IsLast(OfEntry(q, Len(q), e), Of(q).Emap[e])
    <2>1. PICK x \in 0..Len(q) : IsLast(OfEntry(q, Len(q), e), x)
        BY <1>0 DEF Good, Topped
    <2>2. OfEntry(q, Len(q), e) \in SUBSET Nat
        BY <1>0 DEF OfEntry
    <2>3. Last(OfEntry(q, Len(q), e)) = x
        BY <2>1, <2>2, <1>0, LastIs
    <2>4. Of(q).Emap = [u \in EntryHash |-> Last(OfEntry(q, Len(q), u))]
        BY ZenonT(30), OfFields
    <2>5. Of(q).Emap[e] = Last(OfEntry(q, Len(q), e))
        BY ZenonT(30), <2>4
    <2> QED BY ZenonT(30), <2>1, <2>3, <2>5
<1>3. DOMAIN Of(q).Hmap = {q[i].Sum : i \in 1..Len(q)}
    <2>1. DOMAIN Of(q).Hmap = {Sums(q)[i] : i \in 1..Len(q)}
        BY ZenonT(30) DEF Of, ChainWith
    <2>2. \A i \in 1..Len(q) : Sums(q)[i] = q[i].Sum
        BY ZenonT(30) DEF Sums
    <2> QED BY ZenonT(30), <2>1, <2>2
<1>4. ASSUME NEW i \in 1..Len(q)
      PROVE  Of(q).Hmap[q[i].Sum] = i
    <2>1. {j \in 1..Len(q) : Sums(q)[j] = q[i].Sum} = {i}
        BY ZenonT(30), <1>0 DEF Good, Distinct, Sums
    <2>2. Last({i}) = i
        BY <1>0, LastIs DEF IsLast
    <2>3. Of(q).Hmap = [h \in {Sums(q)[j] : j \in 1..Len(q)} |->
                          Last({j \in 1..Len(q) : Sums(q)[j] = h})]
        BY ZenonT(30) DEF Of, ChainWith
    <2>4. q[i].Sum \in {Sums(q)[j] : j \in 1..Len(q)}
        BY ZenonT(30) DEF Sums
    <2>5. Of(q).Hmap[q[i].Sum] = Last({j \in 1..Len(q) : Sums(q)[j] = q[i].Sum})
        BY ZenonT(30), <2>3, <2>4
    <2> QED BY ZenonT(30), <2>1, <2>2, <2>5
<1> QED BY ZenonT(30), <1>1, <1>2, <1>3, <1>4

\* The hashes and entries of a good chain are those of its headers.
LEMMA OfSeqs ==
    ASSUME NEW q, Good(q)
    PROVE  /\ Of(q).Hashes \in Seq(Nat \ {NullHash}) /\ Len(Of(q).Hashes) = Len(q)
           /\ Of(q).Entries \in Seq(EntryHash) /\ Len(Of(q).Entries) = Len(q)
           /\ \A i \in 1..Len(q) : /\ Of(q).Hashes[i] = q[i].Sum
                                   /\ Of(q).Entries[i] = q[i].EntryLink
<1> DEFINE es == [i \in 1..Len(q) |-> q[i].EntryLink]
<1>1. q \in Seq(Header) /\ Len(q) \in Nat /\ \A i \in 1..Len(q) : q[i] \in Header
    BY DEF Good
<1>2. Of(q).Hashes = Sums(q) /\ Of(q).Entries = es
    BY ZenonT(30), OfFields
<1>3. Sums(q) \in [1..Len(q) -> Nat \ {NullHash}] /\ es \in [1..Len(q) -> EntryHash]
    BY ZenonT(30), <1>1, HeaderFields DEF Sums
<1>4. \A i \in 1..Len(q) : Sums(q)[i] = q[i].Sum /\ es[i] = q[i].EntryLink
    BY ZenonT(30) DEF Sums
<1> HIDE DEF es
<1> QED BY SMTT(60), <1>1, <1>2, <1>3, <1>4

\* What a header more does to the headers there are.
LEMMA Longer ==
    ASSUME NEW q \in Seq(Header), NEW hd \in Header
    PROVE  /\ Append(q, hd) \in Seq(Header)
           /\ Len(Append(q, hd)) = Len(q) + 1
           /\ Append(q, hd)[Len(q) + 1] = hd
           /\ \A i \in 1..Len(q) : Append(q, hd)[i] = q[i]
           /\ \A n \in 0..Len(q) : \A t : OfType(Append(q, hd), n, t) = OfType(q, n, t)
           /\ \A n \in 0..Len(q) : \A e : OfEntry(Append(q, hd), n, e) = OfEntry(q, n, e)
           /\ \A t : OfType(Append(q, hd), Len(q) + 1, t) =
                       OfType(q, Len(q), t) \cup (IF hd.Type = t THEN {Len(q) + 1} ELSE {})
           /\ \A e : OfEntry(Append(q, hd), Len(q) + 1, e) =
                       OfEntry(q, Len(q), e) \cup (IF hd.EntryLink = e THEN {Len(q) + 1} ELSE {})
<1> DEFINE r == Append(q, hd)
<1>1. r \in Seq(Header) /\ Len(r) = Len(q) + 1 /\ Len(q) \in Nat /\ r[Len(q) + 1] = hd
    OBVIOUS
<1>2. \A i \in 1..Len(q) : r[i] = q[i]
    OBVIOUS
<1> HIDE DEF r
<1>3. ASSUME NEW n \in 0..Len(q), NEW t
      PROVE  OfType(r, n, t) = OfType(q, n, t) /\ OfEntry(r, n, t) = OfEntry(q, n, t)
    <2>1. \A i \in 1..n : r[i] = q[i]
        BY <1>1, <1>2
    <2> QED BY ZenonT(30), <2>1 DEF OfType, OfEntry
<1>4. ASSUME NEW t
      PROVE  /\ OfType(r, Len(q) + 1, t) =
                  OfType(q, Len(q), t) \cup (IF hd.Type = t THEN {Len(q) + 1} ELSE {})
             /\ OfEntry(r, Len(q) + 1, t) =
                  OfEntry(q, Len(q), t) \cup (IF hd.EntryLink = t THEN {Len(q) + 1} ELSE {})
    <2>1. 1..(Len(q) + 1) = 1..Len(q) \cup {Len(q) + 1}
        BY <1>1
    <2> QED BY ZenonT(30), <2>1, <1>1, <1>2 DEF OfType, OfEntry
<1> QED BY ZenonT(30), <1>1, <1>2, <1>3, <1>4 DEF r

\* A number above all others becomes the last.
LEMMA LastOfMore ==
    ASSUME NEW n \in Nat, NEW S \in SUBSET (1..n)
    PROVE  IsLast(S \cup {n + 1}, n + 1)
BY DEF IsLast

\* A header that follows keeps a chain good.
LEMMA GoodLonger ==
    ASSUME NEW q, Good(q), NEW hd \in Header, Follows(q, hd), Fresh(q, hd)
    PROVE  Good(Append(q, hd))
<1> DEFINE r == Append(q, hd)
           n == Len(q)
<1>0. q \in Seq(Header) /\ n \in Nat
    BY DEF Good
<1>1. /\ r \in Seq(Header) /\ Len(r) = n + 1 /\ r[n + 1] = hd
      /\ \A i \in 1..n : r[i] = q[i]
    BY <1>0, Longer
<1>2. \A m \in 0..n : \A t : OfType(r, m, t) = OfType(q, m, t) /\ OfEntry(r, m, t) = OfEntry(q, m, t)
    BY <1>0, Longer
<1>3. \A t : /\ OfType(r, n + 1, t) = OfType(q, n, t) \cup (IF hd.Type = t THEN {n + 1} ELSE {})
             /\ OfEntry(r, n + 1, t) = OfEntry(q, n, t) \cup (IF hd.EntryLink = t THEN {n + 1} ELSE {})
    BY <1>0, Longer
<1> HIDE DEF r
<1>4. ASSUME NEW i \in 1..Len(r)
      PROVE  /\ r[i].HeaderLink = IF i = 1 THEN NullHash ELSE r[i - 1].Sum
             /\ LET B == OfType(r, i - 1, r[i].Type)
                IN  \/ B = {} /\ r[i].TypeLink = NullHash
                    \/ \E j \in B : IsLast(B, j) /\ r[i].TypeLink = r[j].Sum
    <2> DEFINE B == OfType(q, i - 1, r[i].Type)
    <2>1. i - 1 \in 0..n /\ OfType(r, i - 1, r[i].Type) = B /\ B \subseteq 1..n
        <3>1. i - 1 \in 0..n
            BY <1>0, <1>1
        <3>2. OfType(r, i - 1, r[i].Type) = B
            BY ZenonT(30), <3>1, <1>2
        <3>3. B \subseteq 1..n
            BY <3>1, <1>0 DEF OfType
        <3> QED BY ZenonT(30), <3>1, <3>2, <3>3
    <2>2. \A j \in B : r[j] = q[j]
        BY ZenonT(30), <2>1, <1>1
    <2>3. i # 1 => r[i - 1] = q[i - 1]
        BY <1>0, <1>1
    <2>4. CASE i \in 1..n
        <3>1. r[i] = q[i] /\ i \in 1..Len(q)
            BY ZenonT(30), <2>4, <1>1
        <3>2. r[i].HeaderLink = IF i = 1 THEN NullHash ELSE q[i - 1].Sum
            BY ZenonT(30), <3>1 DEF Good, Chained
        <3>3. \/ B = {} /\ r[i].TypeLink = NullHash
              \/ \E j \in B : IsLast(B, j) /\ r[i].TypeLink = q[j].Sum
            <4> DEFINE C == OfType(q, i - 1, q[i].Type)
            <4>1. \/ C = {} /\ q[i].TypeLink = NullHash
                  \/ \E j \in C : IsLast(C, j) /\ q[i].TypeLink = q[j].Sum
                BY ZenonT(30), <3>1 DEF Good, Chained
            <4>2. C = B
                BY ZenonT(30), <3>1
            <4> HIDE DEF B, C
            <4> QED BY ZenonT(30), <3>1, <4>1, <4>2
        <3> HIDE DEF B
        <3> QED BY ZenonT(30), <3>2, <3>3, <2>1, <2>2, <2>3
    <2>5. CASE i = n + 1
        <3>1. r[i] = hd /\ i - 1 = n
            BY <2>5, <1>0, <1>1
        <3>2. r[i].HeaderLink = IF i = 1 THEN NullHash ELSE q[i - 1].Sum
            <4>1. i = 1 <=> q = << >>
                BY <2>5, <1>0
            <4> QED BY ZenonT(30), <3>1, <4>1 DEF Follows
        <3>3. \/ B = {} /\ r[i].TypeLink = NullHash
              \/ \E j \in B : IsLast(B, j) /\ r[i].TypeLink = q[j].Sum
            BY ZenonT(30), <3>1 DEF Follows
        <3> HIDE DEF B
        <3> QED BY ZenonT(30), <3>2, <3>3, <2>1, <2>2, <2>3
    <2> QED BY <2>4, <2>5, <1>0, <1>1
<1>5. Topped(r)
    <2> SUFFICES ASSUME NEW m \in 0..(n + 1)
                 PROVE  /\ \A t \in EntryType : \E x \in 0..m : IsLast(OfType(r, m, t), x)
                        /\ \A e \in EntryHash : \E x \in 0..m : IsLast(OfEntry(r, m, e), x)
        BY ZenonT(30), <1>1 DEF Topped
    <2>1. CASE m \in 0..n
        BY ZenonT(30), <2>1, <1>2 DEF Good, Topped
    <2>2. CASE m = n + 1
        <3>1. ASSUME NEW t \in EntryType
              PROVE  \E x \in 0..m : IsLast(OfType(r, m, t), x)
            <4>1. PICK x \in 0..n : IsLast(OfType(q, n, t), x)
                BY <1>0 DEF Good, Topped
            <4>2. OfType(q, n, t) \in SUBSET (1..n)
                BY ZenonT(30) DEF OfType
            <4>3. CASE hd.Type = t
                <5>1. OfType(r, m, t) = OfType(q, n, t) \cup {n + 1}
                    BY ZenonT(30), <4>3, <1>3, <2>2
                <5>2. IsLast(OfType(r, m, t), n + 1)
                    BY ZenonT(30), <5>1, <4>2, <1>0, LastOfMore
                <5> QED BY ZenonT(30), <5>2, <1>0, <2>2
            <4>4. CASE hd.Type # t
                <5>1. OfType(r, m, t) = OfType(q, n, t)
                    BY ZenonT(30), <4>4, <1>3, <2>2
                <5> QED BY <5>1, <4>1, <1>0, <2>2
            <4> QED BY ZenonT(30), <4>3, <4>4
        <3>2. ASSUME NEW e \in EntryHash
              PROVE  \E x \in 0..m : IsLast(OfEntry(r, m, e), x)
            <4>1. PICK x \in 0..n : IsLast(OfEntry(q, n, e), x)
                BY <1>0 DEF Good, Topped
            <4>2. OfEntry(q, n, e) \in SUBSET (1..n)
                BY ZenonT(30) DEF OfEntry
            <4>3. CASE hd.EntryLink = e
                <5>1. OfEntry(r, m, e) = OfEntry(q, n, e) \cup {n + 1}
                    BY ZenonT(30), <4>3, <1>3, <2>2
                <5>2. IsLast(OfEntry(r, m, e), n + 1)
                    BY ZenonT(30), <5>1, <4>2, <1>0, LastOfMore
                <5> QED BY ZenonT(30), <5>2, <1>0, <2>2
            <4>4. CASE hd.EntryLink # e
                <5>1. OfEntry(r, m, e) = OfEntry(q, n, e)
                    BY ZenonT(30), <4>4, <1>3, <2>2
                <5> QED BY <5>1, <4>1, <1>0, <2>2
            <4> QED BY ZenonT(30), <4>3, <4>4
        <3> QED BY ZenonT(30), <3>1, <3>2
    <2> QED BY <2>1, <2>2, <1>0
<1>6. Distinct(r)
    BY <1>0, <1>1 DEF Distinct, Good, Fresh
<1>7. Chained(r)
    BY ZenonT(30), <1>4 DEF Chained
<1> QED BY ZenonT(30), <1>1, <1>5, <1>6, <1>7 DEF Good, r

\* Adding a header that is new gives the chain that the headers then determine.
LEMMA AddIsOf ==
    ASSUME NEW q, Good(q), NEW hd \in Header, Follows(q, hd), Fresh(q, hd)
    PROVE  addEntry(Of(q), hd) = Of(Append(q, hd))
<1> DEFINE r == Append(q, hd)
           n == Len(q)
           c == Of(q)
           d == Of(r)
<1>0. q \in Seq(Header) /\ n \in Nat
    BY DEF Good
<1>1. /\ r \in Seq(Header) /\ Len(r) = n + 1 /\ r[n + 1] = hd
      /\ \A i \in 1..n : r[i] = q[i]
    BY <1>0, Longer
<1>2. Good(r)
    BY ZenonT(30), GoodLonger
<1>3. \A i \in 1..(n + 1) : r[i] \in Header
    BY <1>0, <1>1
<1>4. \A t : /\ OfType(r, n + 1, t) = OfType(q, n, t) \cup (IF hd.Type = t THEN {n + 1} ELSE {})
             /\ OfEntry(r, n + 1, t) = OfEntry(q, n, t) \cup (IF hd.EntryLink = t THEN {n + 1} ELSE {})
    BY <1>0, Longer
<1> HIDE DEF r
<1>5. c.Hashes = Sums(q) /\ Len(c.Hashes) = n /\ d.Hashes = Append(c.Hashes, hd.Sum)
    <2>1. c.Hashes = Sums(q) /\ d.Hashes = Sums(r)
        BY ZenonT(30), OfFields
    <2>2. Sums(q) \in [1..n -> Nat] /\ hd.Sum \in Nat
        BY <1>0, HeaderFields DEF Sums
    <2>3. Sums(r) = [i \in 1..(n + 1) |-> IF i = n + 1 THEN hd.Sum ELSE Sums(q)[i]]
        BY <1>0, <1>1 DEF Sums
    <2> QED BY <2>1, <2>2, <2>3, <1>0, AppendTo
<1>6. d.Entries = Append(c.Entries, hd.EntryLink)
    <2> DEFINE es(s) == [i \in 1..Len(s) |-> s[i].EntryLink]
    <2>1. c.Entries = es(q) /\ d.Entries = es(r)
        BY ZenonT(30), OfFields
    <2>2. es(q) \in [1..n -> EntryHash] /\ hd.EntryLink \in EntryHash
        BY <1>0, HeaderFields
    <2>3. es(r) = [i \in 1..(n + 1) |-> IF i = n + 1 THEN hd.EntryLink ELSE es(q)[i]]
        BY <1>0, <1>1
    <2> HIDE DEF es
    <2> QED BY <2>1, <2>2, <2>3, <1>0, AppendTo
<1>7. ASSUME NEW t \in EntryType
      PROVE  d.TypeTops[t] = IF t = hd.Type THEN n + 1 ELSE c.TypeTops[t]
    <2>1. /\ d.TypeTops[t] \in Nat /\ IsLast(OfType(r, n + 1, t), d.TypeTops[t])
          /\ c.TypeTops[t] \in Nat /\ IsLast(OfType(q, n, t), c.TypeTops[t])
        BY <1>0, <1>1, <1>2, OfMaps
    <2>2. OfType(q, n, t) \in SUBSET (1..n) /\ OfType(r, n + 1, t) \in SUBSET Nat
        BY <1>0 DEF OfType
    <2>3. CASE t = hd.Type
        <3>1. OfType(r, n + 1, t) = OfType(q, n, t) \cup {n + 1}
            BY ZenonT(30), <2>3, <1>4
        <3>2. IsLast(OfType(r, n + 1, t), n + 1)
            BY ZenonT(30), <3>1, <2>2, <1>0, LastOfMore
        <3>3. Last(OfType(r, n + 1, t)) = n + 1
            BY <3>2, <2>2, <1>0, LastIs
        <3>4. Last(OfType(r, n + 1, t)) = d.TypeTops[t]
            BY ZenonT(30), <2>1, <2>2, LastIs
        <3> QED BY ZenonT(30), <3>3, <3>4, <2>3
    <2>4. CASE t # hd.Type
        <3>1. OfType(r, n + 1, t) = OfType(q, n, t)
            BY ZenonT(30), <2>4, <1>4
        <3>2. Last(OfType(r, n + 1, t)) = d.TypeTops[t]
            BY ZenonT(30), <2>1, <2>2, LastIs
        <3>3. Last(OfType(r, n + 1, t)) = c.TypeTops[t]
            BY ZenonT(30), <3>1, <2>1, <2>2, LastIs
        <3> QED BY ZenonT(30), <3>2, <3>3, <2>4
    <2> QED BY ZenonT(30), <2>3, <2>4
<1>8. ASSUME NEW e \in EntryHash
      PROVE  d.Emap[e] = IF e = hd.EntryLink THEN n + 1 ELSE c.Emap[e]
    <2>1. /\ d.Emap[e] \in Nat /\ IsLast(OfEntry(r, n + 1, e), d.Emap[e])
          /\ c.Emap[e] \in Nat /\ IsLast(OfEntry(q, n, e), c.Emap[e])
        BY <1>0, <1>1, <1>2, OfMaps
    <2>2. OfEntry(q, n, e) \in SUBSET (1..n) /\ OfEntry(r, n + 1, e) \in SUBSET Nat
        BY <1>0 DEF OfEntry
    <2>3. CASE e = hd.EntryLink
        <3>1. OfEntry(r, n + 1, e) = OfEntry(q, n, e) \cup {n + 1}
            BY ZenonT(30), <2>3, <1>4
        <3>2. IsLast(OfEntry(r, n + 1, e), n + 1)
            BY ZenonT(30), <3>1, <2>2, <1>0, LastOfMore
        <3>3. Last(OfEntry(r, n + 1, e)) = n + 1
            BY <3>2, <2>2, <1>0, LastIs
        <3>4. Last(OfEntry(r, n + 1, e)) = d.Emap[e]
            BY ZenonT(30), <2>1, <2>2, LastIs
        <3> QED BY ZenonT(30), <3>3, <3>4, <2>3
    <2>4. CASE e # hd.EntryLink
        <3>1. OfEntry(r, n + 1, e) = OfEntry(q, n, e)
            BY ZenonT(30), <2>4, <1>4
        <3>2. Last(OfEntry(r, n + 1, e)) = d.Emap[e]
            BY ZenonT(30), <2>1, <2>2, LastIs
        <3>3. Last(OfEntry(r, n + 1, e)) = c.Emap[e]
            BY ZenonT(30), <3>1, <2>1, <2>2, LastIs
        <3> QED BY ZenonT(30), <3>2, <3>3, <2>4
    <2> QED BY ZenonT(30), <2>3, <2>4
<1>9. d.Hmap = [h \in DOMAIN c.Hmap \cup {hd.Sum} |-> IF h = hd.Sum THEN n + 1 ELSE c.Hmap[h]]
    <2>1. /\ DOMAIN d.Hmap = {r[i].Sum : i \in 1..(n + 1)}
          /\ \A i \in 1..(n + 1) : d.Hmap[r[i].Sum] = i
        BY ZenonT(30), <1>1, <1>2, OfMaps
    <2>2. /\ DOMAIN c.Hmap = {q[i].Sum : i \in 1..n}
          /\ \A i \in 1..n : c.Hmap[q[i].Sum] = i
        BY ZenonT(30), OfMaps
    <2>3. DOMAIN d.Hmap = DOMAIN c.Hmap \cup {hd.Sum}
        <3>1. 1..(n + 1) = 1..n \cup {n + 1}
            BY <1>0
        <3>2. {r[i].Sum : i \in 1..(n + 1)} = {r[i].Sum : i \in 1..n} \cup {r[n + 1].Sum}
            BY ZenonT(30), <3>1
        <3>3. {r[i].Sum : i \in 1..n} = {q[i].Sum : i \in 1..n}
            BY ZenonT(30), <1>1
        <3> QED BY ZenonT(30), <2>1, <2>2, <3>2, <3>3, <1>1
    <2>4. ASSUME NEW h \in DOMAIN d.Hmap
          PROVE  d.Hmap[h] = IF h = hd.Sum THEN n + 1 ELSE c.Hmap[h]
        <3>1. PICK i \in 1..(n + 1) : h = r[i].Sum
            BY ZenonT(30), <2>1
        <3>2. d.Hmap[h] = i
            BY ZenonT(30), <3>1, <2>1
        <3>3. CASE i = n + 1
            BY ZenonT(30), <3>1, <3>2, <3>3, <1>1
        <3>4. CASE i \in 1..n
            <4>1. h = q[i].Sum /\ h # hd.Sum
                BY ZenonT(30), <3>1, <3>4, <1>1 DEF Fresh
            <4> QED BY ZenonT(30), <4>1, <3>2, <3>4, <2>2
        <3> QED BY <3>3, <3>4, <1>0
    <2>5. d.Hmap = [h \in DOMAIN d.Hmap |-> d.Hmap[h]]
        BY ZenonT(30) DEF Of, ChainWith
    <2> HIDE DEF c, d
    <2> QED BY ZenonT(30), <2>3, <2>4, <2>5
<1>10. /\ d.TypeTops = [c.TypeTops EXCEPT ![hd.Type] = n + 1]
       /\ d.Emap = [c.Emap EXCEPT ![hd.EntryLink] = n + 1]
    <2>1. /\ d.TypeTops = [t \in EntryType |-> d.TypeTops[t]]
          /\ c.TypeTops = [t \in EntryType |-> c.TypeTops[t]]
          /\ d.Emap = [e \in EntryHash |-> d.Emap[e]]
          /\ c.Emap = [e \in EntryHash |-> c.Emap[e]]
        BY ZenonT(30) DEF Of, ChainWith
    <2> HIDE DEF c, d
    <2> QED BY SMTT(60), <2>1, <1>7, <1>8, HeaderFields
<1>11. d.Headers = Append(c.Headers, hd)
    BY ZenonT(60), OfFields DEF r
<1>12. d = [Hashes |-> d.Hashes, Headers |-> d.Headers, Entries |-> d.Entries,
            TypeTops |-> d.TypeTops, Hmap |-> d.Hmap, Emap |-> d.Emap]
    BY ZenonT(30) DEF Of, ChainWith
<1>13. addEntry(c, hd) = d
    <2> HIDE DEF c, d
    <2> QED BY ZenonT(30), <1>5, <1>6, <1>9, <1>10, <1>11, <1>12 DEF addEntry
<1> QED BY ZenonT(30), <1>13 DEF r

\* prepareHeader makes a header that follows.
LEMMA PreparedFollows ==
    ASSUME NEW q, Good(q), NEW t \in EntryType, NEW e \in EntryHash, NEW now \in Nat \ {NullHash}
    PROVE  LET hd == prepareHeader(Of(q), t, e, now)
           IN  hd \in Header /\ Follows(q, hd) /\ hd.Sum = now /\ hd.Type = t /\ hd.EntryLink = e
<1> DEFINE hd == prepareHeader(Of(q), t, e, now)
           n == Len(q)
           x == Of(q).TypeTops[t]
<1>0. q \in Seq(Header) /\ n \in Nat
    BY DEF Good
<1>1. x \in 0..n /\ IsLast(OfType(q, n, t), x)
    BY ZenonT(30), OfMaps
<1>2. Of(q).Hashes = Sums(q) /\ Len(Sums(q)) = n /\ \A i \in 1..n : Sums(q)[i] = q[i].Sum
    <2>1. Sums(q) \in [1..n -> Nat]
        BY <1>0, HeaderFields DEF Sums
    <2>2. Len(Sums(q)) = n
        BY <2>1, <1>0
    <2> QED BY ZenonT(30), <2>2, OfFields DEF Sums
<1>3. Sums(q) = << >> <=> q = << >>
    BY <1>0, <1>2 DEF Sums
<1>4. hd.HeaderLink = IF q = << >> THEN NullHash ELSE q[n].Sum
    BY <1>0, <1>2, <1>3 DEF prepareHeader
<1>5. hd.TypeLink = IF x = 0 THEN NullHash ELSE q[x].Sum
    <2>1. hd.TypeLink = IF x = 0 THEN NullHash ELSE Of(q).Hashes[x]
        BY ZenonT(30) DEF prepareHeader
    <2>2. x # 0 => x \in 1..n
        BY <1>0, <1>1
    <2> QED BY ZenonT(30), <2>1, <2>2, <1>2
<1>6. hd.Sum = now /\ hd.Type = t /\ hd.EntryLink = e
    BY ZenonT(30) DEF prepareHeader
<1>7. /\ x = 0 => OfType(q, n, t) = {}
      /\ x # 0 => x \in OfType(q, n, t)
    BY <1>0, <1>1 DEF IsLast, OfType
<1>8. Follows(q, hd)
    <2> HIDE DEF hd, x
    <2> QED BY ZenonT(30), <1>1, <1>4, <1>5, <1>6, <1>7 DEF Follows
<1>9. hd.HeaderLink \in Nat /\ hd.TypeLink \in Nat
    <2>1. \A i \in 1..n : q[i].Sum \in Nat
        BY <1>0, HeaderFields
    <2>2. q # << >> => n \in 1..n
        BY <1>0
    <2>3. x # 0 => x \in 1..n
        BY <1>0, <1>1
    <2> HIDE DEF hd, x
    <2> QED BY <1>4, <1>5, <2>1, <2>2, <2>3 DEF NullHash
<1>10. hd \in Header
    <2>1. hd = [Type |-> hd.Type, EntryLink |-> hd.EntryLink, HeaderLink |-> hd.HeaderLink,
                TypeLink |-> hd.TypeLink, Sum |-> hd.Sum]
        BY ZenonT(30) DEF prepareHeader
    <2> HIDE DEF hd
    <2> QED BY ZenonT(30), <2>1, <1>6, <1>9 DEF Header
<1> QED BY ZenonT(30), <1>6, <1>8, <1>10

\* The first headers of a good chain are a good chain.
LEMMA GoodPrefix ==
    ASSUME NEW q, Good(q), NEW r \in Seq(Header), Len(r) <= Len(q),
           \A i \in 1..Len(r) : r[i] = q[i]
    PROVE  Good(r)
<1> DEFINE n == Len(r)
<1>0. q \in Seq(Header) /\ n \in Nat /\ Len(q) \in Nat /\ n \in 0..Len(q)
    BY DEF Good
<1>1. \A m \in 0..n : \A t : OfType(r, m, t) = OfType(q, m, t) /\ OfEntry(r, m, t) = OfEntry(q, m, t)
    <2> SUFFICES ASSUME NEW m \in 0..n, NEW t
                 PROVE  OfType(r, m, t) = OfType(q, m, t) /\ OfEntry(r, m, t) = OfEntry(q, m, t)
        BY ZenonT(30)
    <2>1. \A i \in 1..m : r[i] = q[i]
        BY <1>0
    <2> QED BY ZenonT(30), <2>1 DEF OfType, OfEntry
<1>2. Chained(r)
    <2> SUFFICES ASSUME NEW i \in 1..n
                 PROVE  /\ r[i].HeaderLink = IF i = 1 THEN NullHash ELSE r[i - 1].Sum
                        /\ LET B == OfType(r, i - 1, r[i].Type)
                           IN  \/ B = {} /\ r[i].TypeLink = NullHash
                               \/ \E j \in B : IsLast(B, j) /\ r[i].TypeLink = r[j].Sum
        BY ZenonT(30) DEF Chained
    <2> DEFINE B == OfType(r, i - 1, r[i].Type)
               C == OfType(q, i - 1, q[i].Type)
    <2>1. i - 1 \in 0..n /\ i \in 1..Len(q) /\ r[i] = q[i] /\ (i # 1 => r[i - 1] = q[i - 1])
        BY <1>0
    <2>2. B = C
        BY ZenonT(30), <2>1, <1>1
    <2>3. \A j \in C : r[j] = q[j]
        BY <2>1, <1>0 DEF OfType
    <2>4. /\ q[i].HeaderLink = IF i = 1 THEN NullHash ELSE q[i - 1].Sum
          /\ \/ C = {} /\ q[i].TypeLink = NullHash
             \/ \E j \in C : IsLast(C, j) /\ q[i].TypeLink = q[j].Sum
        BY ZenonT(30), <2>1 DEF Good, Chained
    <2> HIDE DEF B, C
    <2>5. /\ r[i].HeaderLink = IF i = 1 THEN NullHash ELSE r[i - 1].Sum
          /\ \/ B = {} /\ r[i].TypeLink = NullHash
             \/ \E j \in B : IsLast(B, j) /\ r[i].TypeLink = r[j].Sum
        BY ZenonT(30), <2>1, <2>2, <2>3, <2>4
    <2> QED BY ZenonT(30), <2>5 DEF B
<1>3. Topped(r)
    BY <1>0, <1>1 DEF Good, Topped
<1>4. Distinct(r)
    BY <1>0 DEF Good, Distinct
<1> QED BY ZenonT(30), <1>2, <1>3, <1>4 DEF Good

-----------------------------------------------------------------------------
(* The file *)

\* The headers of a file are a sequence of headers.
LEMMA HeadersInType ==
    ASSUME NEW f \in Seq(Pair)
    PROVE  /\ HeadersIn(f) \in Seq(Header) /\ Len(HeadersIn(f)) = Len(f)
           /\ \A i \in 1..Len(f) : HeadersIn(f)[i] = f[i].hd
<1>1. \A i \in 1..Len(f) : f[i].hd \in Header
    <2>1. \A i \in 1..Len(f) : f[i] \in Pair
        OBVIOUS
    <2> QED BY ZenonT(30), <2>1 DEF Pair
<1>2. Len(f) \in Nat /\ HeadersIn(f) \in [1..Len(f) -> Header]
    BY <1>1 DEF HeadersIn
<1>3. \A i \in 1..Len(f) : HeadersIn(f)[i] = f[i].hd
    BY ZenonT(30) DEF HeadersIn
<1> QED BY <1>2, <1>3

\* NewChainFromFile takes the hashes from the links, and they are the right ones.
LEMMA LoadedIsOf ==
    ASSUME NEW f \in Seq(Pair), Good(HeadersIn(f))
    PROVE  ChainOf(f) = Of(HeadersIn(f))
<1> DEFINE q == HeadersIn(f)
           n == Len(f)
           hs == [i \in 1..n |-> IF i < n THEN f[i + 1].hd.HeaderLink ELSE f[i].hd.Sum]
<1>1. q \in Seq(Header) /\ Len(q) = n /\ n \in Nat /\ \A i \in 1..n : q[i] = f[i].hd
    BY HeadersInType
<1>2. ASSUME NEW i \in 1..n
      PROVE  hs[i] = q[i].Sum
    <2>1. CASE i < n
        <3>1. i + 1 \in 1..Len(q) /\ i + 1 # 1 /\ (i + 1) - 1 = i
            BY <2>1, <1>1
        <3>2. q[i + 1].HeaderLink = q[(i + 1) - 1].Sum
            BY ZenonT(30), <3>1 DEF Good, Chained
        <3>3. hs[i] = f[i + 1].hd.HeaderLink /\ q[i + 1] = f[i + 1].hd
            BY ZenonT(30), <2>1, <3>1, <1>1
        <3> QED BY ZenonT(30), <3>1, <3>2, <3>3
    <2>2. CASE i = n
        BY <2>2, <1>1
    <2> QED BY ZenonT(30), <2>1, <2>2, <1>1
<1>3. hs = Sums(q)
    BY ZenonT(30), <1>1, <1>2 DEF Sums
<1> QED BY ZenonT(30), <1>3 DEF ChainOf, Of

\* What is read of a file before the first damaged pair.
LEMMA FirmPrefix ==
    ASSUME NEW f \in Seq(Pair), NEW n \in Nat, IsFirm(f, n)
    PROVE  /\ WholePrefix(f) \in Seq(Pair) /\ Len(WholePrefix(f)) = n
           /\ \A i \in 1..n : WholePrefix(f)[i] = f[i]
<1>1. n \in 0..Len(f) /\ Len(f) \in Nat
    BY DEF IsFirm
<1>2. \A m \in 0..Len(f) : IsFirm(f, m) => m = n
    BY <1>1 DEF IsFirm
<1>3. (CHOOSE m \in 0..Len(f) : IsFirm(f, m)) = n
    BY ZenonT(30), <1>1, <1>2
<1>4. WholePrefix(f) = SubSeq(f, 1, n)
    BY ZenonT(30), <1>3 DEF WholePrefix
<1>5. \A i \in 1..n : f[i] \in Pair
    BY <1>1
<1>6. /\ SubSeq(f, 1, n) \in Seq(Pair)
      /\ Len(SubSeq(f, 1, n)) = IF 1 <= n THEN n - 1 + 1 ELSE 0
      /\ \A i \in 1..(n - 1 + 1) : SubSeq(f, 1, n)[i] = f[1 + i - 1]
    BY <1>1, <1>5, PartIs
<1>7. Len(SubSeq(f, 1, n)) = n /\ \A i \in 1..n : SubSeq(f, 1, n)[i] = f[i]
    BY <1>1, <1>6
<1> QED BY ZenonT(30), <1>4, <1>6, <1>7

\* A file is undamaged if all its pairs are firm.
LEMMA UndamagedFirm ==
    ASSUME NEW f \in Seq(Pair), NEW n \in Nat, IsFirm(f, n)
    PROVE  Undamaged(f) <=> n = Len(f)
BY DEF IsFirm, Undamaged

\* A pair more is firm if it is whole and all before it are.
LEMMA FirmLonger ==
    ASSUME NEW f \in Seq(Pair), NEW n \in Nat, IsFirm(f, n), NEW pr \in Pair
    PROVE  /\ Append(f, pr) \in Seq(Pair) /\ Len(Append(f, pr)) = Len(f) + 1
           /\ Append(f, pr)[Len(f) + 1] = pr
           /\ \A i \in 1..Len(f) : Append(f, pr)[i] = f[i]
           /\ n = Len(f) /\ pr.state = "whole" => IsFirm(Append(f, pr), n + 1)
           /\ ~(n = Len(f) /\ pr.state = "whole") => IsFirm(Append(f, pr), n)
<1> DEFINE g == Append(f, pr)
<1>1. /\ g \in Seq(Pair) /\ Len(g) = Len(f) + 1 /\ Len(f) \in Nat /\ g[Len(f) + 1] = pr
      /\ \A i \in 1..Len(f) : g[i] = f[i]
    OBVIOUS
<1>2. n \in 0..Len(f) /\ \A i \in 1..n : f[i].state = "whole"
    BY ZenonT(30) DEF IsFirm
<1>3. n < Len(f) => f[n + 1].state # "whole"
    BY ZenonT(30) DEF IsFirm
<1> HIDE DEF g
<1>4. CASE n = Len(f)
    BY <1>1, <1>2, <1>4 DEF IsFirm
<1>5. CASE n < Len(f)
    <2>1. n + 1 \in 1..Len(f) /\ g[n + 1] = f[n + 1]
        BY <1>1, <1>2, <1>5
    <2>2. \A i \in 1..n : g[i].state = "whole"
        BY <1>1, <1>2
    <2> QED BY <1>1, <1>2, <1>3, <1>5, <2>1, <2>2 DEF IsFirm
<1>6. n = Len(f) \/ n < Len(f)
    BY <1>1, <1>2
<1> QED BY ZenonT(30), <1>1, <1>4, <1>5, <1>6 DEF g

\* What a committer holds.
LEMMA ProcFields ==
    ASSUME NEW s \in ProcState
    PROVE  /\ s.pc \in {"idle", "prepare", "validate", "add"}
           /\ s.pc = "prepare" => s.Type \in EntryType /\ s.EntryLink \in EntryHash
           /\ s.pc \in {"validate", "add"} =>
                /\ s.Type \in EntryType /\ s.EntryLink \in EntryHash
                /\ s.count \in Nat /\ s.idx \in Nat /\ s.header \in Header
                /\ [s EXCEPT !.pc = "add"] \in ProcState
                /\ [s EXCEPT !.pc = "add"].pc = "add"
                /\ [s EXCEPT !.pc = "add"].Type = s.Type
                /\ [s EXCEPT !.pc = "add"].EntryLink = s.EntryLink
                /\ [s EXCEPT !.pc = "add"].count = s.count
                /\ [s EXCEPT !.pc = "add"].idx = s.idx
                /\ [s EXCEPT !.pc = "add"].header = s.header
<1>1. CASE s \in [pc : {"idle"}, result : {"none", "ok", "invalid", "mismatch", "failed"}]
    BY ZenonT(30), <1>1
<1>2. CASE s \in [pc : {"prepare"}, Type : EntryType, EntryLink : EntryHash]
    BY ZenonT(30), <1>2
<1>3. CASE s \in [pc : {"validate", "add"}, Type : EntryType, EntryLink : EntryHash,
                  count : Nat, idx : Nat, header : Header]
    <2>1. [s EXCEPT !.pc = "add"] \in
             [pc : {"validate", "add"}, Type : EntryType, EntryLink : EntryHash,
              count : Nat, idx : Nat, header : Header]
        BY ZenonT(30), <1>3
    <2>2. [s EXCEPT !.pc = "add"] \in ProcState
        BY ZenonT(30), <2>1 DEF ProcState
    <2> QED BY ZenonT(30), <1>3, <2>2
<1> QED BY ZenonT(30), <1>1, <1>2, <1>3 DEF ProcState

\* The empty chain is the one that no headers determine.
LEMMA EmptyIsOf == NewChain = Of(<< >>) /\ Good(<< >>)
<1>1. Len(<< >>) = 0 /\ << >> \in Seq(Header) /\ 1..0 = {}
    OBVIOUS
<1>2. IsLast({}, 0) /\ Last({}) = 0
    <2>1. IsLast({}, 0)
        BY ZenonT(30) DEF IsLast
    <2> QED BY ZenonT(30), <2>1, LastIs
<1>3. \A t : OfType(<< >>, 0, t) = {} /\ OfEntry(<< >>, 0, t) = {}
    BY ZenonT(30), <1>1 DEF OfType, OfEntry
<1>4. Sums(<< >>) = << >>
    BY <1>1 DEF Sums
<1>5. /\ Of(<< >>).TypeTops = [t \in EntryType |-> 0]
      /\ Of(<< >>).Emap = [e \in EntryHash |-> 0]
    <2>1. /\ Of(<< >>).TypeTops = [t \in EntryType |-> Last(OfType(<< >>, Len(<< >>), t))]
          /\ Of(<< >>).Emap = [e \in EntryHash |-> Last(OfEntry(<< >>, Len(<< >>), e))]
        BY ZenonT(30), OfFields
    <2>2. \A t : Last(OfType(<< >>, Len(<< >>), t)) = 0 /\ Last(OfEntry(<< >>, Len(<< >>), t)) = 0
        BY ZenonT(30), <1>1, <1>2, <1>3
    <2> QED BY ZenonT(30), <2>1, <2>2
<1>6. Of(<< >>).Hmap = << >> /\ Of(<< >>).Entries = << >> /\ Of(<< >>).Hashes = << >>
    BY <1>1, <1>4 DEF Of, ChainWith
<1>7. Of(<< >>).Headers = << >>
    BY ZenonT(30), OfFields
<1>8. LET d == Of(<< >>)
      IN  d = [Hashes |-> d.Hashes, Headers |-> d.Headers, Entries |-> d.Entries,
               TypeTops |-> d.TypeTops, Hmap |-> d.Hmap, Emap |-> d.Emap]
    BY ZenonT(30) DEF Of, ChainWith
<1>9. Good(<< >>)
    <2>1. Topped(<< >>)
        <3> SUFFICES ASSUME NEW n \in 0..0
                     PROVE  /\ \A t \in EntryType : \E x \in 0..n : IsLast(OfType(<< >>, n, t), x)
                            /\ \A e \in EntryHash : \E x \in 0..n : IsLast(OfEntry(<< >>, n, e), x)
            BY ZenonT(30), <1>1 DEF Topped
        <3>1. n = 0
            OBVIOUS
        <3> QED BY ZenonT(30), <3>1, <1>2, <1>3
    <2>2. Chained(<< >>) /\ Distinct(<< >>)
        BY ZenonT(30), <1>1 DEF Chained, Distinct
    <2> QED BY ZenonT(30), <1>1, <2>1, <2>2 DEF Good
<1> QED BY ZenonT(30), <1>5, <1>6, <1>7, <1>8, <1>9 DEF NewChain

-----------------------------------------------------------------------------
\* The chain is the one that its headers determine, and they are a good chain.
ChainInv ==
    /\ chain = Of(chain.Headers) /\ Good(chain.Headers)
    /\ \A i \in 1..Len(chain.Headers) : chain.Headers[i].Sum <= clock

HasHeader(p) == proc[p].pc \in {"validate", "add"}

\* A header that doCommit has prepared is new, and follows the chain unless the
\* chain has grown since.
PreparedOK(s, q, now) ==
    /\ s.header.Type = s.Type /\ s.header.EntryLink = s.EntryLink
    /\ s.idx = s.count /\ s.count <= Len(q) /\ s.header.Sum <= now
    /\ Fresh(q, s.header)
    /\ s.count = Len(q) => Follows(q, s.header)

PreparedInv ==
    \A p \in Committer : HasHeader(p) =>
        /\ PreparedOK(proc[p], chain.Headers, clock)
        /\ \A o \in Committer \ {p} : HasHeader(o) => proc[o].header.Sum # proc[p].header.Sum

\* The first n pairs of the file are the first headers of the chain, and all of
\* them if no pair is damaged.
Stored(n) ==
    /\ n <= Len(chain.Headers)
    /\ \A i \in 1..n : chain.Headers[i] = file[i].hd
    /\ n = Len(file) => Len(chain.Headers) = n

FileInv == \E n \in Nat : IsFirm(file, n) /\ (up => Stored(n))

AckedInv ==
    up /\ Undamaged(file) =>
        \A hd \in acked : \E i \in 1..Len(chain.Headers) : chain.Headers[i] = hd

\* The types of all variables but the chain.
RestOK ==
    /\ file \in Seq(Pair) /\ up \in BOOLEAN
    /\ proc \in [Committer -> ProcState]
    /\ acked \subseteq Header /\ clock \in Nat
    /\ commits \in 0..MaxCommits /\ faults \in 0..MaxFaults

ProcInv == \A p \in Committer : proc[p] # Done("mismatch") /\ (~up => proc[p] = Idle)

IInv == RestOK /\ ProcInv /\ ChainInv /\ PreparedInv /\ FileInv /\ AckedInv

(* The inductive invariant *)

\* It holds at the start.
LEMMA InitInv == Init => IInv
<1> SUFFICES ASSUME Init PROVE IInv
    BY ZenonT(30)
<1>1. chain = Of(<< >>) /\ chain.Headers = << >> /\ Good(<< >>)
    BY ZenonT(30), EmptyIsOf DEF Init, NewChain
<1>2. RestOK /\ ProcInv
    BY ChainAssumption DEF Init, RestOK, ProcInv, Idle, Done, ProcState
<1>3. ChainInv
    BY <1>1 DEF ChainInv
<1>4. PreparedInv
    BY ZenonT(30) DEF PreparedInv, HasHeader, Init, Idle
<1>5. FileInv
    <2>1. IsFirm(file, 0) /\ Stored(0)
        BY <1>1 DEF Init, IsFirm, Stored
    <2> QED BY ZenonT(30), <2>1 DEF FileInv
<1>6. AckedInv
    BY ZenonT(30) DEF AckedInv, Init
<1> QED BY ZenonT(30), <1>2, <1>3, <1>4, <1>5, <1>6 DEF IInv

\* A step that leaves chain and file alone keeps the invariant, if it leaves its
\* committer with a good header or none.
LEMMA QuietStep ==
    ASSUME IInv, NEW p \in Committer, NEW st \in ProcState, up, Become(p, st),
           UNCHANGED <<chain, file, up, acked, faults>>,
           clock' \in {clock, clock + 1}, commits' \in 0..MaxCommits,
           st # Done("mismatch"),
           st.pc \in {"validate", "add"} =>
              /\ PreparedOK(st, chain.Headers, clock')
              /\ \A o \in Committer \ {p} : HasHeader(o) => proc[o].header.Sum # st.header.Sum
    PROVE  IInv'
<1>1. /\ proc \in [Committer -> ProcState] /\ proc' = [proc EXCEPT ![p] = st]
      /\ clock \in Nat /\ clock' \in Nat /\ clock <= clock'
    BY DEF IInv, RestOK, Become
<1>2. proc'[p] = st /\ \A o \in Committer \ {p} : proc'[o] = proc[o]
    BY ZenonT(30), <1>1
<1>3. RestOK'
    BY ZenonT(30), <1>1 DEF IInv, RestOK
<1>4. ProcInv'
    BY ZenonT(30), <1>2 DEF IInv, ProcInv
<1>5. ChainInv'
    <2>1. \A i \in 1..Len(chain.Headers) : chain.Headers[i].Sum \in Nat
        BY HeaderFields DEF IInv, ChainInv, Good
    <2> QED BY <1>1, <2>1 DEF IInv, ChainInv
<1>6. ASSUME NEW o \in Committer, HasHeader(o)'
      PROVE  PreparedOK(proc[o], chain.Headers, clock)'
    <2>1. CASE o = p
        BY ZenonT(30), <2>1, <1>2, <1>6 DEF HasHeader
    <2>2. CASE o # p
        <3>1. proc'[o] = proc[o] /\ HasHeader(o)
            BY ZenonT(30), <2>2, <1>2, <1>6 DEF HasHeader
        <3>2. PreparedOK(proc[o], chain.Headers, clock)
            BY ZenonT(30), <3>1 DEF IInv, PreparedInv
        <3>3. proc[o].header.Sum \in Nat
            BY ZenonT(30), <3>1, <1>1, ProcFields, HeaderFields DEF HasHeader
        <3>4. proc[o].header.Sum <= clock'
            BY SMTT(60), <1>1, <3>2, <3>3 DEF PreparedOK
        <3> QED BY ZenonT(30), <3>1, <3>2, <3>4 DEF PreparedOK
    <2> QED BY ZenonT(30), <2>1, <2>2
<1>7. ASSUME NEW o \in Committer, NEW u \in Committer \ {o}, HasHeader(o)', HasHeader(u)'
      PROVE  proc'[u].header.Sum # proc'[o].header.Sum
    <2>1. CASE o = p
        BY ZenonT(30), <2>1, <1>2, <1>7 DEF HasHeader
    <2>2. CASE u = p
        BY ZenonT(30), <2>2, <1>2, <1>7 DEF HasHeader
    <2>3. CASE o # p /\ u # p
        BY ZenonT(30), <2>3, <1>2, <1>7 DEF HasHeader, IInv, PreparedInv
    <2> QED BY ZenonT(30), <2>1, <2>2, <2>3
<1>8. PreparedInv'
    BY ZenonT(30), <1>6, <1>7 DEF PreparedInv
<1>9. FileInv' /\ AckedInv'
    BY ZenonT(30) DEF IInv, FileInv, Stored, AckedInv
<1> QED BY ZenonT(30), <1>3, <1>4, <1>5, <1>8, <1>9 DEF IInv

\* Adding a new header that follows keeps the invariant, whatever is written.
LEMMA AddStep ==
    ASSUME IInv, NEW p \in Committer, NEW hd \in Header, NEW written \in Written,
           AddHeader(p, hd, written), up, up' = up,
           Follows(chain.Headers, hd), Fresh(chain.Headers, hd),
           clock' \in {clock, clock + 1}, hd.Sum <= clock', commits' \in 0..MaxCommits,
           \A o \in Committer \ {p} : HasHeader(o) => proc[o].header.Sum # hd.Sum
    PROVE  IInv'
<1> DEFINE q == chain.Headers
           r == Append(q, hd)
           pr == [hd |-> hd, state |-> written]
           st == Done(IF written = "whole" THEN "ok" ELSE "failed")
<1>1. /\ proc \in [Committer -> ProcState] /\ proc' = [proc EXCEPT ![p] = st]
      /\ clock \in Nat /\ clock' \in Nat /\ clock <= clock'
    BY DEF IInv, RestOK, Become, AddHeader
<1>2. proc'[p] = st /\ \A o \in Committer \ {p} : proc'[o] = proc[o]
    BY ZenonT(30), <1>1
<1>3. q \in Seq(Header) /\ Good(q) /\ chain = Of(q)
    BY ZenonT(30) DEF IInv, ChainInv, Good
<1>4. chain' = Of(r) /\ Good(r) /\ chain'.Headers = r
    <2>1. addEntry(Of(q), hd) = Of(r) /\ Good(r)
        BY ZenonT(30), <1>3, AddIsOf, GoodLonger
    <2>2. Of(r).Headers = r
        BY ZenonT(30), OfFields
    <2> QED BY ZenonT(30), <2>1, <2>2, <1>3 DEF AddHeader
<1>5. /\ r \in Seq(Header) /\ Len(r) = Len(q) + 1 /\ Len(q) \in Nat /\ r[Len(q) + 1] = hd
      /\ \A i \in 1..Len(q) : r[i] = q[i]
    BY SMTT(60), <1>3, Longer
<1>6. pr \in Pair /\ pr.state = written /\ pr.hd = hd /\ file' = Append(file, pr)
    BY ZenonT(30), ChainAssumption DEF Pair, Written, AddHeader
<1> HIDE DEF r, pr
<1>7. RestOK'
    <2>1. st \in ProcState
        BY ZenonT(30) DEF Done, ProcState
    <2>2. proc' \in [Committer -> ProcState]
        BY ZenonT(30), <1>1, <2>1
    <2>3. file' \in Seq(Pair)
        BY <1>6 DEF IInv, RestOK
    <2>4. acked' \subseteq Header /\ faults' \in 0..MaxFaults
        BY SMTT(60), ChainAssumption DEF AddHeader, IInv, RestOK
    <2> QED BY ZenonT(30), <2>2, <2>3, <2>4, <1>1 DEF IInv, RestOK
<1>8. ProcInv'
    <2>1. st # Done("mismatch")
        BY ZenonT(30) DEF Done
    <2> QED BY ZenonT(30), <2>1, <1>2 DEF IInv, ProcInv
<1>9. ChainInv'
    <2>1. \A i \in 1..Len(q) : q[i].Sum \in Nat /\ q[i].Sum <= clock
        BY <1>3, HeaderFields DEF IInv, ChainInv
    <2>2. \A i \in 1..Len(r) : r[i].Sum <= clock'
        BY SMTT(60), <2>1, <1>1, <1>5
    <2> QED BY ZenonT(30), <1>4, <2>2 DEF ChainInv
<1>10. ASSUME NEW o \in Committer, HasHeader(o)'
       PROVE  o # p /\ HasHeader(o) /\ PreparedOK(proc[o], chain.Headers, clock)'
    <2>1. o # p /\ proc'[o] = proc[o] /\ HasHeader(o)
        BY SMTT(60), <1>2, <1>10 DEF HasHeader, Done
    <2>2. PreparedOK(proc[o], q, clock) /\ proc[o].header.Sum # hd.Sum
        BY ZenonT(30), <2>1 DEF IInv, PreparedInv
    <2>3. proc[o].header.Sum \in Nat /\ proc[o].count \in Nat
        BY ZenonT(30), <2>1, <1>1, ProcFields, HeaderFields DEF HasHeader
    <2>4. Fresh(r, proc[o].header)
        BY SMTT(60), <2>2, <1>5 DEF PreparedOK, Fresh
    <2>5. proc[o].header.Sum <= clock' /\ proc[o].count <= Len(r) /\ proc[o].count # Len(r)
        BY SMTT(60), <2>2, <2>3, <1>1, <1>5 DEF PreparedOK
    <2> QED BY ZenonT(30), <2>1, <2>2, <2>4, <2>5, <1>4 DEF PreparedOK
<1>11. PreparedInv'
    BY ZenonT(30), <1>2, <1>10 DEF PreparedInv, IInv
<1>12. FileInv'
    <2>1. PICK n \in Nat : IsFirm(file, n) /\ Stored(n)
        BY ZenonT(30) DEF IInv, FileInv
    <2>2. file \in Seq(Pair) /\ Len(file) \in Nat /\ n \in 0..Len(file)
        BY <2>1 DEF IInv, RestOK, IsFirm
    <2>3. /\ Len(file') = Len(file) + 1 /\ file'[Len(file) + 1] = pr
          /\ \A i \in 1..Len(file) : file'[i] = file[i]
          /\ n = Len(file) /\ written = "whole" => IsFirm(file', n + 1)
          /\ ~(n = Len(file) /\ written = "whole") => IsFirm(file', n)
        BY ZenonT(30), <2>1, <2>2, <1>6, FirmLonger
    <2>4. n <= Len(q) /\ (\A i \in 1..n : q[i] = file[i].hd) /\ (n = Len(file) => Len(q) = n)
        BY ZenonT(30), <2>1 DEF Stored
    <2>5. CASE n = Len(file) /\ written = "whole"
        <3>1. Stored(n + 1)'
            BY SMTT(60), <2>2, <2>3, <2>4, <2>5, <1>4, <1>5, <1>6 DEF Stored
        <3> QED BY <2>3, <2>5, <3>1 DEF FileInv
    <2>6. CASE ~(n = Len(file) /\ written = "whole")
        <3>1. Stored(n)'
            BY SMTT(60), <2>2, <2>3, <2>4, <1>4, <1>5 DEF Stored
        <3> QED BY ZenonT(30), <2>3, <2>6, <3>1 DEF FileInv
    <2> QED BY ZenonT(30), <2>5, <2>6
<1>13. AckedInv'
    <2> SUFFICES ASSUME Undamaged(file'), NEW h \in acked'
                 PROVE  \E i \in 1..Len(r) : r[i] = h
        BY ZenonT(30), <1>4 DEF AckedInv
    <2>1. /\ file \in Seq(Pair) /\ file'[Len(file) + 1] = pr /\ Len(file') = Len(file) + 1
          /\ Len(file) \in Nat /\ \A i \in 1..Len(file) : file'[i] = file[i]
          /\ DOMAIN file' = 1..Len(file') /\ DOMAIN file = 1..Len(file)
        BY <1>6 DEF IInv, RestOK
    <2>2. written = "whole" /\ Undamaged(file)
        BY SMTT(60), <2>1, <1>6 DEF Undamaged
    <2>3. CASE h = hd
        BY <2>3, <1>5
    <2>4. CASE h \in acked
        <3>1. PICK i \in 1..Len(q) : q[i] = h
            BY ZenonT(30), <2>2, <2>4 DEF IInv, AckedInv
        <3> QED BY SMTT(60), <3>1, <1>5
    <2> QED BY ZenonT(30), <2>2, <2>3, <2>4 DEF AddHeader
<1> QED BY ZenonT(30), <1>7, <1>8, <1>9, <1>11, <1>12, <1>13 DEF IInv

\* A restart brings back the headers before the first damaged pair, or none.
LEMMA RestartHeaders ==
    ASSUME IInv, NEW f \in Seq(Pair), NEW n \in Nat, IsFirm(file, n), Stored(n), IsFirm(f, n),
           \A i \in 1..n : f[i] = file[i], n = Len(f) => f = file,
           Restart(f)
    PROVE  /\ up' \in BOOLEAN /\ up
           /\ up' => /\ chain' = Of(chain'.Headers) /\ Good(chain'.Headers)
                     /\ Len(chain'.Headers) = n
                     /\ \A i \in 1..n : /\ chain'.Headers[i] = f[i].hd
                                        /\ chain'.Headers[i] = chain.Headers[i]
           /\ ~up' => chain' = Of(<< >>) /\ chain'.Headers = << >>
<1> DEFINE q == chain.Headers
           g == WholePrefix(f)
           r == HeadersIn(g)
<1>1. up' \in BOOLEAN /\ up
    BY ZenonT(30) DEF Restart, Loads
<1>2. g \in Seq(Pair) /\ Len(g) = n /\ \A i \in 1..n : g[i] = f[i]
    BY ZenonT(30), FirmPrefix
<1>3. r \in Seq(Header) /\ Len(r) = n /\ \A i \in 1..n : r[i] = f[i].hd
    BY ZenonT(30), <1>2, HeadersInType
<1>4. Good(q) /\ n <= Len(q) /\ Len(q) \in Nat /\ \A i \in 1..n : r[i] = q[i]
    BY SMTT(60), <1>3 DEF IInv, ChainInv, Stored, Good
<1>5. Good(r)
    BY ZenonT(30), <1>3, <1>4, GoodPrefix
<1>6. ChainOf(g) = Of(r)
    BY ZenonT(30), <1>2, <1>5, LoadedIsOf
<1>7. Of(r).Headers = r /\ Of(<< >>).Headers = << >>
    BY ZenonT(30), OfFields
<1>8. (up' => chain' = ChainOf(g)) /\ (~up' => chain' = NewChain)
    BY ZenonT(30) DEF Restart
<1> HIDE DEF g, r
<1> QED BY ZenonT(30), <1>1, <1>3, <1>4, <1>5, <1>6, <1>7, <1>8, EmptyIsOf

\* A restart keeps the invariant, if the file has lost no pair.
LEMMA RestartStep ==
    ASSUME IInv, NEW f \in Seq(Pair), NEW n \in Nat, IsFirm(file, n), Stored(n), IsFirm(f, n),
           \A i \in 1..n : f[i] = file[i], n = Len(f) => f = file,
           Restart(f)
    PROVE  IInv'
<1> DEFINE q == chain.Headers
           r == chain'.Headers
<1>1. proc' = [c \in Committer |-> Idle] /\ file' = f /\ clock' = clock
    BY ZenonT(30) DEF Restart
<1>2. up' \in BOOLEAN /\ up
    BY ZenonT(30), RestartHeaders
<1>3. up' => /\ chain' = Of(r) /\ Good(r) /\ Len(r) = n
             /\ \A i \in 1..n : r[i] = f[i].hd /\ r[i] = q[i]
    BY ZenonT(30), RestartHeaders
<1>4. ~up' => chain' = Of(<< >>) /\ r = << >>
    BY ZenonT(30), RestartHeaders
<1>5. n <= Len(q) /\ Len(q) \in Nat
    BY DEF IInv, ChainInv, Stored, Good
<1>6. RestOK'
    <2>1. Idle \in ProcState
        BY ZenonT(30) DEF Idle, ProcState
    <2>2. proc' \in [Committer -> ProcState]
        BY ZenonT(30), <1>1, <2>1
    <2> QED BY <1>1, <1>2, <2>2, ChainAssumption DEF IInv, RestOK, Restart
<1>7. ProcInv'
    BY ZenonT(30), <1>1 DEF ProcInv, Idle, Done
<1>8. ChainInv'
    <2>1. \A i \in 1..Len(q) : q[i].Sum <= clock
        BY ZenonT(30) DEF IInv, ChainInv
    <2>2. CASE up'
        BY SMTT(60), <2>1, <2>2, <1>1, <1>3, <1>5 DEF ChainInv
    <2>3. CASE ~up'
        BY <2>3, <1>4, EmptyIsOf DEF ChainInv
    <2> QED BY ZenonT(30), <2>2, <2>3, <1>2
<1>9. PreparedInv'
    BY ZenonT(30), <1>1 DEF PreparedInv, HasHeader, Idle
<1>10. FileInv'
    <2>1. up' => Stored(n)'
        BY <1>1, <1>3 DEF Stored
    <2> QED BY ZenonT(30), <1>1, <2>1 DEF FileInv
<1>11. AckedInv'
    <2> SUFFICES ASSUME up', Undamaged(f), NEW h \in acked
                 PROVE  \E i \in 1..Len(r) : r[i] = h
        BY ZenonT(30), <1>1 DEF AckedInv, Restart
    <2>1. n = Len(f) /\ f = file
        BY ZenonT(30), UndamagedFirm
    <2>2. Len(q) = n
        BY ZenonT(30), <2>1 DEF Stored
    <2>3. PICK i \in 1..Len(q) : q[i] = h
        BY ZenonT(30), <1>2, <2>1 DEF IInv, AckedInv
    <2> QED BY ZenonT(30), <2>2, <2>3, <1>3
<1> QED BY ZenonT(30), <1>6, <1>7, <1>8, <1>9, <1>10, <1>11 DEF IInv

\* A crash while a pair is written leaves the pairs before it.
LEMMA CutFirm ==
    ASSUME IInv, NEW p \in Committer, NEW damage \in Damage, CrashWriting(p, damage)
    PROVE  \E f \in Seq(Pair), n \in Nat :
              /\ IsFirm(file, n) /\ Stored(n) /\ IsFirm(f, n) /\ Restart(f)
              /\ (\A i \in 1..n : f[i] = file[i]) /\ n # Len(f)
<1> DEFINE pr == [hd |-> proc[p].header, state |-> damage]
<1>0. proc \in [Committer -> ProcState] /\ file \in Seq(Pair)
    BY ZenonT(30) DEF IInv, RestOK
<1>1. HasHeader(p) /\ up /\ Restart(Append(file, pr))
    BY ZenonT(30) DEF CrashWriting, At, HasHeader
<1>2. PICK n \in Nat : IsFirm(file, n) /\ Stored(n)
    BY ZenonT(30), <1>1 DEF IInv, FileInv
<1>3. proc[p].header \in Header
    BY ZenonT(30), <1>0, <1>1, ProcFields DEF HasHeader
<1>4. pr \in Pair /\ pr.state # "whole"
    BY ZenonT(30), <1>3, ChainAssumption DEF Pair
<1> HIDE DEF pr
<1>5. /\ Append(file, pr) \in Seq(Pair) /\ IsFirm(Append(file, pr), n)
      /\ \A i \in 1..Len(file) : Append(file, pr)[i] = file[i]
      /\ Len(Append(file, pr)) = Len(file) + 1
    BY ZenonT(30), <1>0, <1>2, <1>4, FirmLonger
<1>6. n <= Len(file) /\ Len(file) \in Nat
    BY <1>0, <1>2 DEF IsFirm
<1>7. (\A i \in 1..n : Append(file, pr)[i] = file[i]) /\ n # Len(Append(file, pr))
    BY <1>5, <1>6
<1> QED BY ZenonT(30), <1>1, <1>2, <1>5, <1>7

\* Every step keeps the invariant.
LEMMA NextInv == IInv /\ [Next]_vars => IInv'
<1> SUFFICES ASSUME IInv, [Next]_vars PROVE IInv'
    BY ZenonT(30)
<1> DEFINE q == chain.Headers
<1>0. /\ proc \in [Committer -> ProcState] /\ clock \in Nat /\ commits \in 0..MaxCommits
      /\ file \in Seq(Pair) /\ MaxCommits \in Nat
    BY ZenonT(30), ChainAssumption DEF IInv, RestOK
<1>1. /\ Good(q) /\ q \in Seq(Header) /\ chain = Of(q)
      /\ \A i \in 1..Len(q) : q[i].Sum \in Nat /\ q[i].Sum <= clock
    BY HeaderFields DEF IInv, ChainInv, Good
<1>2. Len(chain.Hashes) = Len(q) /\ Len(chain.Entries) = Len(q)
    BY ZenonT(30), <1>1, OfSeqs
<1>3. \A o \in Committer : HasHeader(o) => proc[o].header.Sum \in Nat /\ proc[o].header.Sum <= clock
    BY ZenonT(30), <1>0, ProcFields, HeaderFields DEF HasHeader, IInv, PreparedInv, PreparedOK
<1>4. ASSUME NEW p \in Committer, NEW t \in EntryType, NEW e \in EntryHash, StartCommit(p, t, e)
      PROVE  IInv'
    <2> DEFINE st == [pc |-> "prepare", Type |-> t, EntryLink |-> e]
    <2>1. st \in ProcState /\ st # Done("mismatch") /\ st.pc \notin {"validate", "add"}
        BY ZenonT(30) DEF ProcState, Done
    <2>2. Become(p, st) /\ up /\ commits' \in 0..MaxCommits /\ clock' = clock
        BY SMTT(60), <1>0, <1>4 DEF StartCommit, At
    <2>3. UNCHANGED <<chain, file, up, acked, faults>>
        BY ZenonT(30), <1>4 DEF StartCommit
    <2> HIDE DEF st
    <2> QED BY ZenonT(30), <2>1, <2>2, <2>3, QuietStep
<1>5. ASSUME NEW p \in Committer, NEW t \in EntryType, NEW e \in EntryHash,
             NEW written \in Written, NewEntry(p, t, e, written)
      PROVE  IInv'
    <2> DEFINE hd == prepareHeader(chain, t, e, clock + 1)
    <2>1. hd \in Header /\ Follows(q, hd) /\ hd.Sum = clock + 1
        BY SMTT(60), <1>0, <1>1, PreparedFollows DEF NullHash
    <2>2. Fresh(q, hd)
        BY SMTT(60), <2>1, <1>0, <1>1 DEF Fresh
    <2>3. \A o \in Committer \ {p} : HasHeader(o) => proc[o].header.Sum # hd.Sum
        BY <2>1, <1>0, <1>3
    <2>4. /\ AddHeader(p, hd, written) /\ up /\ up' = up /\ clock' = clock + 1
          /\ commits' \in 0..MaxCommits
        BY SMTT(60), <1>0, <1>2, <1>5 DEF NewEntry, Matches, At
    <2>5. hd.Sum <= clock'
        BY <2>1, <2>4, <1>0
    <2> HIDE DEF hd
    <2> QED BY ZenonT(30), <2>1, <2>2, <2>3, <2>4, <2>5, AddStep
<1>6. ASSUME NEW p \in Committer, Prepare(p)
      PROVE  IInv'
    <2> DEFINE t == proc[p].Type
               e == proc[p].EntryLink
               hd == prepareHeader(chain, t, e, clock + 1)
               st == [pc |-> "validate", Type |-> t, EntryLink |-> e,
                      count |-> Length(chain), idx |-> Len(chain.Hashes), header |-> hd]
    <2>1. /\ t \in EntryType /\ e \in EntryHash /\ Become(p, st) /\ up
          /\ clock' = clock + 1 /\ UNCHANGED <<chain, file, up, acked, commits, faults>>
        BY ZenonT(30), <1>0, <1>6, ProcFields DEF Prepare, At
    <2> HIDE DEF t, e
    <2>0. clock + 1 \in Nat \ {NullHash}
        BY <1>0 DEF NullHash
    <2>2. hd \in Header /\ Follows(q, hd) /\ hd.Sum = clock + 1 /\ hd.Type = t /\ hd.EntryLink = e
        BY SMTT(60), <1>1, <2>1, <2>0, PreparedFollows
    <2>3. Fresh(q, hd) /\ \A o \in Committer \ {p} : HasHeader(o) => proc[o].header.Sum # hd.Sum
        BY SMTT(60), <2>2, <1>0, <1>1, <1>3 DEF Fresh
    <2>4. Length(chain) = Len(q) /\ Len(q) \in Nat
        BY SMTT(60), <1>1 DEF Length
    <2> HIDE DEF hd
    <2>5. st \in ProcState /\ st # Done("mismatch")
        BY ZenonT(30), <2>1, <2>2, <2>4, <1>2 DEF ProcState, Done
    <2>6. /\ st.header = hd /\ st.Type = t /\ st.EntryLink = e
          /\ st.count = Len(q) /\ st.idx = Len(q)
        BY ZenonT(30), <2>4, <1>2
    <2> HIDE DEF st
    <2>7. hd.Sum <= clock'
        BY <2>1, <2>2, <1>0
    <2>8. PreparedOK(st, q, clock')
        BY SMTT(60), <2>2, <2>3, <2>4, <2>6, <2>7 DEF PreparedOK
    <2> QED BY ZenonT(30), <2>1, <2>3, <2>5, <2>6, <2>8, <1>0, QuietStep
<1>7. ASSUME NEW p \in Committer, Valid(p)
      PROVE  IInv'
    <2> DEFINE st == [proc[p] EXCEPT !.pc = "add"]
    <2>1. /\ HasHeader(p) /\ Become(p, st) /\ up
          /\ UNCHANGED <<chain, file, up, acked, clock, commits, faults>>
        BY ZenonT(30), <1>7 DEF Valid, At, HasHeader
    <2>2. /\ st \in ProcState /\ st.pc = "add" /\ st.Type = proc[p].Type /\ st.idx = proc[p].idx
          /\ st.EntryLink = proc[p].EntryLink /\ st.count = proc[p].count
          /\ st.header = proc[p].header
        BY ZenonT(30), <2>1, <1>0, ProcFields DEF HasHeader
    <2> HIDE DEF st
    <2>3. PreparedOK(st, q, clock) /\ st # Done("mismatch")
        BY SMTT(60), <2>1, <2>2 DEF PreparedOK, IInv, PreparedInv, Done
    <2>4. \A o \in Committer \ {p} : HasHeader(o) => proc[o].header.Sum # st.header.Sum
        BY ZenonT(30), <2>1, <2>2 DEF IInv, PreparedInv
    <2> QED BY ZenonT(30), <2>1, <2>2, <2>3, <2>4, <1>0, QuietStep
<1>8. ASSUME NEW p \in Committer, Invalid(p)
      PROVE  IInv'
    <2> DEFINE st == Done("invalid")
    <2>1. Become(p, st) /\ up /\ UNCHANGED <<chain, file, up, acked, clock, commits, faults>>
        BY ZenonT(30), <1>8 DEF Invalid, At
    <2>2. st \in ProcState /\ st # Done("mismatch") /\ st.pc \notin {"validate", "add"}
        BY ZenonT(30) DEF ProcState, Done
    <2> HIDE DEF st
    <2> QED BY ZenonT(30), <2>1, <2>2, <1>0, QuietStep
<1>9. ASSUME NEW p \in Committer, PrepareAgain(p)
      PROVE  IInv'
    <2> DEFINE st == Preparing(p)
    <2>1. Become(p, st) /\ up /\ UNCHANGED <<chain, file, up, acked, clock, commits, faults>>
        BY ZenonT(30), <1>9 DEF PrepareAgain, At
    <2>2. proc[p].Type \in EntryType /\ proc[p].EntryLink \in EntryHash
        BY ZenonT(30), <1>0, <1>9, ProcFields DEF PrepareAgain, At
    <2>3. st \in ProcState /\ st # Done("mismatch") /\ st.pc \notin {"validate", "add"}
        BY ZenonT(30), <2>2 DEF ProcState, Done, Preparing
    <2> HIDE DEF st
    <2> QED BY ZenonT(30), <2>1, <2>3, <1>0, QuietStep
<1>10. ASSUME NEW p \in Committer, NEW written \in Written, Add(p, written)
       PROVE  IInv'
    <2>1. HasHeader(p) /\ proc[p].count = Len(q) /\ up /\ up' = up
        BY ZenonT(30), <1>10 DEF Add, At, HasHeader, Length
    <2>2. /\ PreparedOK(proc[p], q, clock)
          /\ \A o \in Committer \ {p} : HasHeader(o) => proc[o].header.Sum # proc[p].header.Sum
        BY ZenonT(30), <2>1 DEF IInv, PreparedInv
    <2>3. AddHeader(p, proc[p].header, written) /\ clock' = clock /\ commits' = commits
        BY ZenonT(30), <1>2, <1>10, <2>1, <2>2 DEF Add, Matches, PreparedOK
    <2>4. proc[p].header \in Header
        BY ZenonT(30), <2>1, <1>0, ProcFields DEF HasHeader
    <2>5. Follows(q, proc[p].header) /\ Fresh(q, proc[p].header) /\ proc[p].header.Sum <= clock'
        BY ZenonT(30), <2>1, <2>2, <2>3 DEF PreparedOK
    <2> QED BY ZenonT(30), <2>1, <2>2, <2>3, <2>4, <2>5, <1>0, AddStep
<1>11. CASE Crash
    <2>1. PICK n \in Nat : IsFirm(file, n) /\ Stored(n)
        BY ZenonT(30), <1>11 DEF IInv, FileInv, Crash, Restart
    <2> QED BY ZenonT(30), <2>1, <1>0, <1>11, RestartStep DEF Crash
<1>12. ASSUME NEW p \in Committer, NEW damage \in Damage, CrashWriting(p, damage)
       PROVE  IInv'
    <2>1. PICK f \in Seq(Pair), n \in Nat :
              /\ IsFirm(file, n) /\ Stored(n) /\ IsFirm(f, n) /\ Restart(f)
              /\ (\A i \in 1..n : f[i] = file[i]) /\ n # Len(f)
        BY ZenonT(30), <1>12, CutFirm
    <2> QED BY ZenonT(30), <2>1, RestartStep
<1>13. CASE UNCHANGED vars
    BY ZenonT(30), <1>13 DEF vars, IInv, RestOK, ProcInv, ChainInv, PreparedInv, HasHeader, FileInv, Stored, AckedInv
<1> QED BY ZenonT(30), <1>4, <1>5, <1>6, <1>7, <1>8, <1>9, <1>10, <1>11, <1>12, <1>13 DEF Next, Step

\* The invariant holds in every state.
THEOREM Invariance == Spec => []IInv
BY InitInv, NextInv, PTL DEF Spec

-----------------------------------------------------------------------------
(* What follows from it *)

\* The maps of a good chain have their types.
LEMMA OfMapTypes ==
    ASSUME NEW q, Good(q)
    PROVE  /\ Of(q).TypeTops \in [EntryType -> Nat] /\ Of(q).Emap \in [EntryHash -> Nat]
           /\ Of(q).Hmap \in [DOMAIN Of(q).Hmap -> Nat]
<1>1. /\ Of(q).TypeTops = [t \in EntryType |-> Of(q).TypeTops[t]]
      /\ Of(q).Emap = [e \in EntryHash |-> Of(q).Emap[e]]
      /\ Of(q).Hmap = [h \in DOMAIN Of(q).Hmap |-> Of(q).Hmap[h]]
    BY ZenonT(30) DEF Of, ChainWith
<1>2. Len(q) \in Nat
    BY DEF Good
<1>3. /\ \A t \in EntryType : Of(q).TypeTops[t] \in Nat
      /\ \A e \in EntryHash : Of(q).Emap[e] \in Nat
    BY SMTT(60), <1>2, OfMaps
<1>4. \A h \in DOMAIN Of(q).Hmap : Of(q).Hmap[h] \in Nat
    BY SMTT(60), <1>2, OfMaps
<1> QED BY ZenonT(30), <1>1, <1>3, <1>4

\* The invariant implies that the chain is linked.
LEMMA InvLinked == IInv => ChainLinked
<1> SUFFICES ASSUME IInv PROVE ChainLinked
    BY ZenonT(30)
<1> DEFINE q == chain.Headers
<1>1. Good(q) /\ chain = Of(q) /\ q \in Seq(Header) /\ Len(q) \in Nat
    BY SMTT(60) DEF IInv, ChainInv, Good
<1>2. /\ chain.Hashes \in Seq(Nat \ {NullHash}) /\ Len(chain.Hashes) = Len(q)
      /\ chain.Entries \in Seq(EntryHash) /\ Len(chain.Entries) = Len(q)
      /\ \A i \in 1..Len(q) : chain.Hashes[i] = q[i].Sum /\ chain.Entries[i] = q[i].EntryLink
    BY ZenonT(30), <1>1, OfSeqs
<1>3. TypeOK
    <2>1. /\ chain.TypeTops \in [EntryType -> Nat] /\ chain.Emap \in [EntryHash -> Nat]
          /\ chain.Hmap \in [DOMAIN chain.Hmap -> Nat]
        BY ZenonT(30), <1>1, OfMapTypes
    <2> QED BY ZenonT(30), <1>1, <1>2, <2>1 DEF TypeOK, IInv, RestOK
<1>4. ASSUME NEW i \in 1..Len(q)
      PROVE  /\ q[i].HeaderLink = IF i = 1 THEN NullHash ELSE chain.Hashes[i - 1]
             /\ LET B == {j \in 1..(i - 1) : q[j].Type = q[i].Type}
                IN  \/ B = {} /\ q[i].TypeLink = NullHash
                    \/ \E j \in B : IsLast(B, j) /\ q[i].TypeLink = chain.Hashes[j]
    <2> DEFINE B == {j \in 1..(i - 1) : q[j].Type = q[i].Type}
    <2>1. B = OfType(q, i - 1, q[i].Type)
        BY ZenonT(30) DEF OfType
    <2>2. \A j \in B : chain.Hashes[j] = q[j].Sum
        BY <1>1, <1>2
    <2>3. i # 1 => chain.Hashes[i - 1] = q[i - 1].Sum
        BY <1>1, <1>2
    <2> HIDE DEF B
    <2>4. /\ q[i].HeaderLink = IF i = 1 THEN NullHash ELSE q[i - 1].Sum
          /\ \/ B = {} /\ q[i].TypeLink = NullHash
             \/ \E j \in B : IsLast(B, j) /\ q[i].TypeLink = q[j].Sum
        BY ZenonT(30), <1>1, <2>1 DEF Good, Chained
    <2>5. /\ q[i].HeaderLink = IF i = 1 THEN NullHash ELSE chain.Hashes[i - 1]
          /\ \/ B = {} /\ q[i].TypeLink = NullHash
             \/ \E j \in B : IsLast(B, j) /\ q[i].TypeLink = chain.Hashes[j]
        BY ZenonT(30), <2>2, <2>3, <2>4
    <2> QED BY ZenonT(30), <2>5 DEF B
<1>5. TypesLinked
    BY ZenonT(30), <1>4 DEF TypesLinked, Length
<1>6. \A p \in Committer : proc[p] # Done("mismatch")
    BY ZenonT(30) DEF IInv, ProcInv
<1> QED BY ZenonT(30), <1>2, <1>3, <1>4, <1>5, <1>6 DEF ChainLinked, Length

\* Every header links to the hash of the one before it and to the last of its
\* type, and no commit fails on the checks of addEntry, whoever commits between
\* prepareHeader and addEntry.
THEOREM ChainStaysLinked == Spec => []ChainLinked
BY Invariance, InvLinked, PTL

\* The maps of the chain are those that its headers determine.
LEMMA InvMaps == IInv => MapsAgree
<1> SUFFICES ASSUME IInv PROVE MapsAgree
    BY ZenonT(30)
<1> DEFINE q == chain.Headers
<1>1. Good(q) /\ chain = Of(q) /\ Len(q) \in Nat
    BY DEF IInv, ChainInv, Good
<1>2. \A i \in 1..Len(q) : chain.Hashes[i] = q[i].Sum
    BY ZenonT(30), <1>1, OfSeqs
<1>3. /\ \A t \in EntryType : IsLast(OfType(q, Len(q), t), chain.TypeTops[t])
      /\ \A e \in EntryHash : IsLast(OfEntry(q, Len(q), e), chain.Emap[e])
      /\ DOMAIN chain.Hmap = {q[i].Sum : i \in 1..Len(q)}
      /\ \A i \in 1..Len(q) : chain.Hmap[q[i].Sum] = i
    BY ZenonT(30), <1>1, OfMaps
<1>4. {q[i].Sum : i \in 1..Len(q)} = {chain.Hashes[i] : i \in 1..Len(q)}
    BY ZenonT(30), <1>2
<1>5. /\ \A t \in EntryType : IsLast({i \in 1..Len(q) : q[i].Type = t}, chain.TypeTops[t])
      /\ \A e \in EntryHash : IsLast({i \in 1..Len(q) : q[i].EntryLink = e}, chain.Emap[e])
    BY ZenonT(30), <1>3 DEF OfType, OfEntry
<1> QED BY ZenonT(30), <1>2, <1>3, <1>4, <1>5 DEF MapsAgree, Length

\* TypeTops, Emap and Hmap of the chain lead to the last header of a type, the
\* last of an entry and the header of a hash, whichever commits and restarts made them.
THEOREM MapsLead == Spec => []MapsAgree
BY Invariance, InvMaps, PTL

\* An undamaged file holds the headers of the chain.
LEMMA InvFile == IInv => FileMatchesChain
<1> SUFFICES ASSUME IInv, up, Undamaged(file)
             PROVE  /\ ChainOf(file) = chain
                    /\ \A hd \in acked : \E i \in 1..Length(chain) : chain.Headers[i] = hd
    BY ZenonT(30) DEF FileMatchesChain
<1> DEFINE q == chain.Headers
<1>1. PICK n \in Nat : IsFirm(file, n) /\ Stored(n)
    BY ZenonT(30) DEF IInv, FileInv
<1>2. file \in Seq(Pair) /\ n = Len(file)
    BY ZenonT(30), <1>1, UndamagedFirm DEF IInv, RestOK
<1>3. Good(q) /\ chain = Of(q) /\ q \in Seq(Header)
    BY ZenonT(30) DEF IInv, ChainInv, Good
<1>4. Len(q) = n /\ \A i \in 1..n : q[i] = file[i].hd
    BY ZenonT(30), <1>1, <1>2 DEF Stored
<1>5. /\ HeadersIn(file) \in Seq(Header) /\ Len(HeadersIn(file)) = n
      /\ \A i \in 1..n : HeadersIn(file)[i] = file[i].hd
    BY ZenonT(30), <1>2, HeadersInType
<1>6. HeadersIn(file) = q
    BY <1>3, <1>4, <1>5, SameSeq
<1>7. ChainOf(file) = chain
    BY ZenonT(30), <1>2, <1>3, <1>6, LoadedIsOf
<1> QED BY ZenonT(30), <1>7 DEF IInv, AckedInv, Length

\* As long as no write was cut short, NewChainFromFile builds from the file the chain
\* that addEntry has built in memory, with every commit that succeeded.
THEOREM FileKeepsChain == Spec => []FileMatchesChain
BY Invariance, InvFile, PTL

-----------------------------------------------------------------------------
(* The refinement of CommitLog *)

\* The initial states are initial states of CommitLog.
LEMMA InitRefines == Init => Abstract!Init
<1> SUFFICES ASSUME Init PROVE Abstract!Init
    BY ZenonT(30)
<1>1. LogBar = << >>
    BY DEF Init, LogBar, Length, NewChain
<1>2. PendingBar = [p \in Committer |-> {}] /\ ResultBar = [p \in Committer |-> "none"]
    BY ZenonT(30) DEF Init, PendingBar, ResultBar, Idle
<1>3. file \in Seq(Pair) /\ Len(file) = 0 /\ IsFirm(file, 0)
    BY DEF Init, IsFirm
<1>4. Len(WholePrefix(file)) = 0 /\ Undamaged(file)
    <2>1. PICK n \in Nat : n = 0
        BY ZenonT(30)
    <2>3. Len(WholePrefix(file)) = n
        BY ZenonT(30), <1>3, <2>1, FirmPrefix
    <2>2. Undamaged(file)
        BY DEF Init, Undamaged
    <2> QED BY ZenonT(30), <2>1, <2>2, <2>3
<1> QED BY ZenonT(30), <1>1, <1>2, <1>4 DEF Abstract!Init

\* What a step of one committer does to the commits under way.
LEMMA BarStep ==
    ASSUME NEW p \in Committer, NEW st, proc \in [Committer -> ProcState], Become(p, st)
    PROVE  /\ PendingBar' = [PendingBar EXCEPT ![p] = IF st.pc = "idle" THEN {} ELSE {CommitOf(st)}]
           /\ ResultBar' = [ResultBar EXCEPT ![p] = IF st.pc = "idle" THEN st.result ELSE "none"]
<1>1. proc' = [proc EXCEPT ![p] = st]
    BY ZenonT(30) DEF Become
<1>2. proc'[p] = st /\ \A o \in Committer \ {p} : proc'[o] = proc[o]
    BY ZenonT(30), <1>1
<1>3. PendingBar' = [PendingBar EXCEPT ![p] = IF st.pc = "idle" THEN {} ELSE {CommitOf(st)}]
    BY ZenonT(30), <1>2 DEF PendingBar
<1>4. ResultBar' = [ResultBar EXCEPT ![p] = IF st.pc = "idle" THEN st.result ELSE "none"]
    BY ZenonT(30), <1>2 DEF ResultBar
<1> QED BY ZenonT(30), <1>3, <1>4

\* Appending a header keeps the headers before it.
LEMMA HeaderAppended ==
    ASSUME NEW q \in Seq(Header), NEW hd \in Header
    PROVE  /\ Len(Append(q, hd)) = Len(q) + 1 /\ Append(q, hd)[Len(q) + 1] = hd
           /\ \A i \in 1..Len(q) : Append(q, hd)[i] = q[i]
BY Longer

\* Adding an entry accepts the commit.
LEMMA AddAccepts ==
    ASSUME IInv, NEW p \in Committer, NEW hd \in Header, NEW written \in Written,
           AddHeader(p, hd, written), chain'.Headers = Append(chain.Headers, hd),
           PendingBar[p] \subseteq {CommitOf(hd)}
    PROVE  Abstract!Next
<1> DEFINE q == chain.Headers
           c == CommitOf(hd)
           pr == [hd |-> hd, state |-> written]
           result == IF written = "whole" THEN "ok" ELSE "failed"
<1>1. /\ q \in Seq(Header) /\ Len(q) \in Nat /\ file \in Seq(Pair)
      /\ proc \in [Committer -> ProcState]
    BY DEF IInv, ChainInv, Good, RestOK
<1>2. c \in Abstract!Commit
    BY ZenonT(30), HeaderFields DEF CommitOf, Abstract!Commit
<1>3. LogBar' = Append(LogBar, c)
    <2>1. LogBar = [i \in 1..Len(q) |-> CommitOf(q[i])]
        BY ZenonT(30) DEF LogBar, Length
    <2>2. LogBar' = [i \in 1..(Len(q) + 1) |-> IF i = Len(q) + 1 THEN c ELSE LogBar[i]]
        <3>1. /\ Len(chain'.Headers) = Len(q) + 1 /\ chain'.Headers[Len(q) + 1] = hd
              /\ \A i \in 1..Len(q) : chain'.Headers[i] = q[i]
            BY SMTT(60), <1>1, HeaderAppended
        <3>2. LogBar' = [i \in 1..(Len(q) + 1) |-> CommitOf(chain'.Headers[i])]
            BY ZenonT(30), <3>1 DEF LogBar, Length
        <3>3. \A i \in 1..(Len(q) + 1) :
                 CommitOf(chain'.Headers[i]) = IF i = Len(q) + 1 THEN c ELSE LogBar[i]
            <4>1. \A i \in 1..(Len(q) + 1) : i = Len(q) + 1 \/ i \in 1..Len(q)
                BY <1>1
            <4> QED BY ZenonT(30), <4>1, <3>1, <2>1, <1>1
        <3> QED BY ZenonT(30), <3>2, <3>3
    <2>3. LogBar \in [1..Len(q) -> Abstract!Commit]
        <3>1. \A i \in 1..Len(q) : CommitOf(q[i]) \in Abstract!Commit
            BY <1>1, HeaderFields DEF CommitOf, Abstract!Commit
        <3> QED BY ZenonT(30), <2>1, <3>1
    <2> DEFINE S == Abstract!Commit
               n == Len(q)
               f == LogBar
               g == LogBar'
    <2>4. /\ f \in [1..n -> S] /\ c \in S /\ n \in Nat
          /\ g = [i \in 1..(n + 1) |-> IF i = n + 1 THEN c ELSE f[i]]
        BY ZenonT(30), <2>2, <2>3, <1>1, <1>2
    <2> HIDE DEF c, S, n, f, g
    <2>5. f \in Seq(S) /\ Len(f) = n
        BY <2>4
    <2>6. /\ Append(f, c) \in Seq(S) /\ Len(Append(f, c)) = n + 1
          /\ \A i \in 1..(n + 1) : Append(f, c)[i] = IF i = n + 1 THEN c ELSE f[i]
        BY <2>4, <2>5
    <2>7. g \in [1..(n + 1) -> S]
        <3>1. \A i \in 1..(n + 1) : i # n + 1 => f[i] \in S
            BY <2>4
        <3> QED BY ZenonT(30), <2>4, <3>1
    <2>8. g \in Seq(S) /\ Len(g) = n + 1
        BY <2>4, <2>7
    <2>9. \A i \in 1..(n + 1) : g[i] = Append(f, c)[i]
        BY ZenonT(30), <2>4, <2>6
    <2>10. g = Append(f, c)
        BY ZenonT(30), <2>6, <2>8, <2>9, SameSeq
    <2> QED BY ZenonT(30), <2>10 DEF f, g
<1>4. /\ PendingBar' = [PendingBar EXCEPT ![p] = {}]
      /\ ResultBar' = [ResultBar EXCEPT ![p] = result]
    <2>1. Become(p, Done(result))
        BY ZenonT(30) DEF AddHeader
    <2>2. Done(result).pc = "idle" /\ Done(result).result = result
        BY ZenonT(30) DEF Done
    <2> QED BY <2>1, <2>2, <1>1, BarStep
<1>5. pr \in Pair /\ pr.state = written /\ file' = Append(file, pr)
    BY ZenonT(30), ChainAssumption DEF Pair, Written, AddHeader
<1>6. PICK n \in Nat : IsFirm(file, n)
    BY ZenonT(30) DEF IInv, FileInv
<1> HIDE DEF pr
<1>7. /\ file' \in Seq(Pair) /\ Len(file') = Len(file) + 1 /\ Len(file) \in Nat /\ n <= Len(file)
      /\ n = Len(file) /\ written = "whole" => IsFirm(file', n + 1)
      /\ ~(n = Len(file) /\ written = "whole") => IsFirm(file', n)
    BY SMTT(60), <1>1, <1>5, <1>6, FirmLonger DEF IsFirm
<1>8. Len(WholePrefix(file)) = n /\ (Undamaged(file) <=> n = Len(file))
    BY ZenonT(30), <1>1, <1>6, FirmPrefix, UndamagedFirm
<1>9. CASE written = "whole"
    <2>1. CASE n = Len(file)
        <3>1. Len(WholePrefix(file')) = n + 1 /\ Undamaged(file')
            BY SMTT(60), <2>1, <1>7, <1>9, FirmPrefix, UndamagedFirm
        <3>2. Len(WholePrefix(file))' = n + 1 /\ Undamaged(file)' /\ Undamaged(file)
            BY ZenonT(30), <3>1, <2>1, <1>8
        <3> QED BY ZenonT(30), <3>2, <1>2, <1>3, <1>4, <1>8, <1>9 DEF Abstract!Next, Abstract!Accept
    <2>2. CASE n # Len(file)
        <3>1. Len(WholePrefix(file')) = n /\ ~Undamaged(file')
            BY SMTT(60), <2>2, <1>7, <1>9, FirmPrefix, UndamagedFirm
        <3>2. Len(WholePrefix(file))' = n /\ ~Undamaged(file)' /\ ~Undamaged(file)
            BY ZenonT(30), <3>1, <2>2, <1>8
        <3> QED BY ZenonT(30), <3>2, <1>2, <1>3, <1>4, <1>8, <1>9 DEF Abstract!Next, Abstract!Accept
    <2> QED BY ZenonT(30), <2>1, <2>2
<1>10. CASE written # "whole"
    <2>1. Len(WholePrefix(file')) = n /\ ~Undamaged(file')
        BY SMTT(60), <1>7, <1>10, FirmPrefix, UndamagedFirm
    <2>2. Len(WholePrefix(file))' = n /\ ~Undamaged(file)'
        BY ZenonT(30), <2>1
    <2> QED BY ZenonT(30), <2>2, <1>2, <1>3, <1>4, <1>8, <1>10 DEF Abstract!Next, Abstract!Accept
<1> QED BY ZenonT(30), <1>9, <1>10

\* A restart is a restart of the log.
LEMMA RestartRefines ==
    ASSUME IInv, NEW f \in Seq(Pair), NEW n \in Nat, IsFirm(file, n), Stored(n), IsFirm(f, n),
           \A i \in 1..n : f[i] = file[i], n = Len(f) => f = file,
           Restart(f)
    PROVE  Abstract!Next
<1> DEFINE q == chain.Headers
           r == chain'.Headers
<1>1. proc' = [c \in Committer |-> Idle] /\ file' = f /\ up' \in Loads(f)
    BY ZenonT(30) DEF Restart
<1>2. PendingBar' = [p \in Committer |-> {}] /\ ResultBar' = [p \in Committer |-> "none"]
    BY ZenonT(30), <1>1 DEF PendingBar, ResultBar, Idle
<1>3. file \in Seq(Pair) /\ q \in Seq(Header) /\ Len(q) \in Nat /\ n <= Len(q)
    BY DEF IInv, RestOK, ChainInv, Good, Stored
<1>4. /\ Len(WholePrefix(file)) = n /\ Len(WholePrefix(f)) = n
      /\ (Undamaged(file) <=> n = Len(file)) /\ (Undamaged(f) <=> n = Len(f))
    BY ZenonT(30), <1>3, FirmPrefix, UndamagedFirm
<1>5. /\ up' \in BOOLEAN
      /\ up' => Len(r) = n /\ \A i \in 1..n : r[i] = q[i]
      /\ ~up' => r = << >>
    BY ZenonT(30), RestartHeaders
<1>6. LogBar = [i \in 1..Len(q) |-> CommitOf(q[i])] /\ LogBar' = [i \in 1..Len(r) |-> CommitOf(r[i])]
    BY ZenonT(30) DEF LogBar, Length
<1>7. CASE Undamaged(f)
    <2>1. f = file /\ Undamaged(file) /\ Len(q) = n
        BY ZenonT(30), <1>4, <1>7 DEF Stored
    <2>2. up'
        BY ZenonT(30), <1>1, <1>4, <1>7 DEF Loads
    <2>3. LogBar' = LogBar
        BY ZenonT(30), <2>1, <2>2, <1>5, <1>6
    <2>4. Undamaged(file)' /\ Len(WholePrefix(file))' = n
        BY ZenonT(30), <1>1, <1>4, <1>7
    <2> QED BY ZenonT(30), <2>1, <2>3, <2>4, <1>2, <1>4 DEF Abstract!Next, Abstract!Restart
<1>8. CASE ~Undamaged(f)
    <2>1. LogBar' \in {SubSeq(LogBar, 1, n), << >>}
        <3>1. CASE ~up'
            BY <3>1, <1>5, <1>6
        <3>2. CASE up'
            <4> DEFINE S == Abstract!Commit
                       g == SubSeq(LogBar, 1, n)
                       h == LogBar'
            <4>1. \A i \in 1..Len(q) : LogBar[i] = CommitOf(q[i]) /\ CommitOf(q[i]) \in S
                BY <1>3, <1>6, HeaderFields DEF CommitOf, Abstract!Commit
            <4>2. h = [i \in 1..n |-> CommitOf(q[i])]
                BY ZenonT(30), <3>2, <1>5, <1>6
            <4> HIDE DEF S, h
            <4>3. \A i \in 1..n : LogBar[i] \in S /\ h[i] = LogBar[i]
                BY <4>1, <4>2, <1>3
            <4>4. h \in [1..n -> S]
                BY ZenonT(30), <4>2, <4>3
            <4>5. h \in Seq(S) /\ Len(h) = n
                BY <4>4
            <4>6. /\ g \in Seq(S) /\ Len(g) = IF 1 <= n THEN n - 1 + 1 ELSE 0
                  /\ \A i \in 1..(n - 1 + 1) : g[i] = LogBar[1 + i - 1]
                BY <4>3, PartIs
            <4> HIDE DEF g
            <4>7. Len(g) = n /\ \A i \in 1..n : h[i] = g[i]
                BY <4>3, <4>6
            <4>8. h = g
                BY ZenonT(30), <4>5, <4>6, <4>7, SameSeq
            <4> QED BY ZenonT(30), <4>8 DEF g, h
        <3> QED BY ZenonT(30), <3>1, <3>2, <1>5
    <2>2. ~Undamaged(file)' /\ Len(WholePrefix(file))' = n
        BY ZenonT(30), <1>1, <1>4, <1>8
    <2> QED BY ZenonT(30), <2>1, <2>2, <1>2, <1>4 DEF Abstract!Next, Abstract!Restart
<1> QED BY ZenonT(30), <1>7, <1>8

\* The abstract log, its firm part and the damage are those of chain and file.
LEMMA QuietBars ==
    ASSUME UNCHANGED <<chain, file>>
    PROVE  /\ LogBar' = LogBar /\ Len(WholePrefix(file))' = Len(WholePrefix(file))
           /\ (~Undamaged(file))' = ~Undamaged(file)
BY ZenonT(30) DEF LogBar, Length

\* A step of the loop that neither adds nor refuses changes nothing in the log.
LEMMA LoopStutters ==
    ASSUME NEW p \in Committer, NEW st, proc \in [Committer -> ProcState], Become(p, st),
           UNCHANGED <<chain, file>>, proc[p].pc # "idle", st.pc # "idle",
           CommitOf(st) = CommitOf(proc[p])
    PROVE  UNCHANGED Abstract!vars
<1>1. PendingBar[p] = {CommitOf(proc[p])} /\ ResultBar[p] = "none"
    BY ZenonT(30) DEF PendingBar, ResultBar
<1>2. /\ PendingBar = [o \in Committer |-> PendingBar[o]]
      /\ ResultBar = [o \in Committer |-> ResultBar[o]]
    BY ZenonT(30) DEF PendingBar, ResultBar
<1>3. PendingBar' = [PendingBar EXCEPT ![p] = PendingBar[p]] /\ ResultBar' = [ResultBar EXCEPT ![p] = ResultBar[p]]
    BY ZenonT(30), <1>1, BarStep
<1>4. PendingBar' = PendingBar /\ ResultBar' = ResultBar
    BY ZenonT(30), <1>2, <1>3
<1> QED BY ZenonT(30), <1>4, QuietBars DEF Abstract!vars

\* Every step is a step of CommitLog, or changes nothing that CommitLog has.
LEMMA NextRefines == IInv /\ [Next]_vars => [Abstract!Next]_(Abstract!vars)
<1> SUFFICES ASSUME IInv, [Next]_vars PROVE Abstract!Next \/ UNCHANGED Abstract!vars
    BY ZenonT(30)
<1> DEFINE q == chain.Headers
<1>0. /\ proc \in [Committer -> ProcState] /\ clock \in Nat /\ file \in Seq(Pair)
      /\ Good(q) /\ q \in Seq(Header) /\ chain = Of(q)
    BY ZenonT(30) DEF IInv, RestOK, ChainInv, Good
<1>1. \A o \in Committer : proc[o].pc = "idle" => PendingBar[o] = {}
    BY ZenonT(30) DEF PendingBar
<1>2. \A o \in Committer : proc[o].pc # "idle" => PendingBar[o] = {CommitOf(proc[o])}
    BY ZenonT(30) DEF PendingBar
<1>3. Len(chain.Hashes) = Len(q) /\ Len(chain.Entries) = Len(q)
    BY ZenonT(30), <1>0, OfSeqs
<1>4. ASSUME NEW p \in Committer, NEW t \in EntryType, NEW e \in EntryHash, StartCommit(p, t, e)
      PROVE  Abstract!Next
    <2> DEFINE st == [pc |-> "prepare", Type |-> t, EntryLink |-> e]
               c == [Type |-> t, EntryLink |-> e]
    <2>1. Become(p, st) /\ proc[p].pc = "idle" /\ UNCHANGED <<chain, file>>
        BY ZenonT(30), <1>4 DEF StartCommit, At
    <2>2. c \in Abstract!Commit /\ CommitOf(st) = c /\ st.pc # "idle"
        BY ZenonT(30) DEF Abstract!Commit, CommitOf
    <2> HIDE DEF st, c
    <2>3. PendingBar' = [PendingBar EXCEPT ![p] = {c}] /\ ResultBar' = [ResultBar EXCEPT ![p] = "none"]
        BY ZenonT(30), <2>1, <2>2, <1>0, BarStep
    <2>4. Abstract!Request(p, c)
        BY ZenonT(30), <2>1, <2>3, <1>1, QuietBars DEF Abstract!Request
    <2> QED BY ZenonT(30), <2>2, <2>4 DEF Abstract!Next
<1>5. ASSUME NEW p \in Committer, NEW t \in EntryType, NEW e \in EntryHash,
             NEW written \in Written, NewEntry(p, t, e, written)
      PROVE  Abstract!Next
    <2> DEFINE hd == prepareHeader(chain, t, e, clock + 1)
    <2>1. hd \in Header
        BY <1>0, PreparedFollows DEF NullHash
    <2>2. AddHeader(p, hd, written) /\ proc[p].pc = "idle"
        BY ZenonT(30), <1>3, <1>5 DEF NewEntry, Matches, At
    <2> HIDE DEF hd
    <2>3. chain'.Headers = Append(chain.Headers, hd)
        BY ZenonT(30), <2>2 DEF AddHeader, addEntry
    <2>4. PendingBar[p] \subseteq {CommitOf(hd)}
        BY ZenonT(30), <2>2, <1>1
    <2> QED BY ZenonT(30), <2>1, <2>2, <2>3, <2>4, AddAccepts
<1>6. ASSUME NEW p \in Committer, Prepare(p)
      PROVE  UNCHANGED Abstract!vars
    <2> DEFINE st == [pc |-> "validate", Type |-> proc[p].Type, EntryLink |-> proc[p].EntryLink,
                      count |-> Length(chain), idx |-> Len(chain.Hashes),
                      header |-> prepareHeader(chain, proc[p].Type, proc[p].EntryLink, clock + 1)]
    <2>1. Become(p, st) /\ proc[p].pc = "prepare" /\ UNCHANGED <<chain, file>>
        BY ZenonT(30), <1>6 DEF Prepare, At
    <2>2. st.pc # "idle" /\ CommitOf(st) = CommitOf(proc[p])
        BY ZenonT(30) DEF CommitOf
    <2> HIDE DEF st
    <2> QED BY ZenonT(30), <2>1, <2>2, <1>0, LoopStutters
<1>7. ASSUME NEW p \in Committer, Valid(p)
      PROVE  UNCHANGED Abstract!vars
    <2> DEFINE st == [proc[p] EXCEPT !.pc = "add"]
    <2>1. Become(p, st) /\ proc[p].pc = "validate" /\ UNCHANGED <<chain, file>>
        BY ZenonT(30), <1>7 DEF Valid, At
    <2>2. st.pc = "add" /\ st.Type = proc[p].Type /\ st.EntryLink = proc[p].EntryLink
        BY ZenonT(30), <2>1, <1>0, ProcFields
    <2> HIDE DEF st
    <2>3. CommitOf(st) = CommitOf(proc[p]) /\ st.pc # "idle"
        BY ZenonT(30), <2>2 DEF CommitOf
    <2> QED BY ZenonT(30), <2>1, <2>3, <1>0, LoopStutters
<1>8. ASSUME NEW p \in Committer, PrepareAgain(p)
      PROVE  UNCHANGED Abstract!vars
    <2> DEFINE st == Preparing(p)
    <2>1. Become(p, st) /\ proc[p].pc = "add" /\ UNCHANGED <<chain, file>>
        BY ZenonT(30), <1>8 DEF PrepareAgain, At
    <2>2. st.pc # "idle" /\ CommitOf(st) = CommitOf(proc[p])
        BY ZenonT(30) DEF CommitOf, Preparing
    <2> HIDE DEF st
    <2> QED BY ZenonT(30), <2>1, <2>2, <1>0, LoopStutters
<1>9. ASSUME NEW p \in Committer, Invalid(p)
      PROVE  Abstract!Next
    <2> DEFINE st == Done("invalid")
               c == CommitOf(proc[p])
    <2>1. Become(p, st) /\ proc[p].pc = "validate" /\ UNCHANGED <<chain, file>>
        BY ZenonT(30), <1>9 DEF Invalid, At
    <2>2. st.pc = "idle" /\ st.result = "invalid"
        BY ZenonT(30) DEF Done
    <2>3. c \in Abstract!Commit /\ PendingBar[p] = {c}
        BY ZenonT(30), <2>1, <1>0, <1>2, ProcFields DEF CommitOf, Abstract!Commit
    <2> HIDE DEF st, c
    <2>4. PendingBar' = [PendingBar EXCEPT ![p] = {}] /\ ResultBar' = [ResultBar EXCEPT ![p] = "invalid"]
        BY ZenonT(30), <2>1, <2>2, <1>0, BarStep
    <2>5. Abstract!Refuse(p, c)
        BY ZenonT(30), <2>1, <2>3, <2>4, QuietBars DEF Abstract!Refuse
    <2> QED BY ZenonT(30), <2>3, <2>5 DEF Abstract!Next
<1>10. ASSUME NEW p \in Committer, NEW written \in Written, Add(p, written)
       PROVE  Abstract!Next
    <2> DEFINE hd == proc[p].header
    <2>1. HasHeader(p) /\ proc[p].count = Len(q) /\ proc[p].pc # "idle"
        BY ZenonT(30), <1>10 DEF Add, At, HasHeader, Length
    <2>2. PreparedOK(proc[p], q, clock)
        BY ZenonT(30), <2>1 DEF IInv, PreparedInv
    <2>3. AddHeader(p, hd, written)
        BY ZenonT(30), <1>3, <1>10, <2>1, <2>2 DEF Add, Matches, PreparedOK
    <2>4. hd \in Header
        BY ZenonT(30), <2>1, <1>0, ProcFields DEF HasHeader
    <2>5. CommitOf(hd) = CommitOf(proc[p])
        BY ZenonT(30), <2>2 DEF CommitOf, PreparedOK
    <2> HIDE DEF hd
    <2>6. chain'.Headers = Append(chain.Headers, hd)
        BY ZenonT(30), <2>3 DEF AddHeader, addEntry
    <2>7. PendingBar[p] \subseteq {CommitOf(hd)}
        BY ZenonT(30), <2>1, <2>5, <1>2
    <2> QED BY ZenonT(30), <2>3, <2>4, <2>6, <2>7, AddAccepts
<1>11. CASE Crash
    <2>1. PICK n \in Nat : IsFirm(file, n) /\ Stored(n)
        BY ZenonT(30), <1>11 DEF IInv, FileInv, Crash, Restart
    <2> QED BY ZenonT(30), <2>1, <1>0, <1>11, RestartRefines DEF Crash
<1>12. ASSUME NEW p \in Committer, NEW damage \in Damage, CrashWriting(p, damage)
       PROVE  Abstract!Next
    <2>1. PICK f \in Seq(Pair), n \in Nat :
              /\ IsFirm(file, n) /\ Stored(n) /\ IsFirm(f, n) /\ Restart(f)
              /\ (\A i \in 1..n : f[i] = file[i]) /\ n # Len(f)
        BY ZenonT(30), <1>12, CutFirm
    <2> QED BY ZenonT(30), <2>1, RestartRefines
<1>13. CASE UNCHANGED vars
    <2>1. UNCHANGED <<chain, file, proc>>
        BY ZenonT(30), <1>13 DEF vars
    <2>2. PendingBar' = PendingBar /\ ResultBar' = ResultBar
        BY ZenonT(30), <2>1 DEF PendingBar, ResultBar
    <2> QED BY ZenonT(30), <2>1, <2>2, QuietBars DEF Abstract!vars
<1> QED BY ZenonT(30), <1>4, <1>5, <1>6, <1>7, <1>8, <1>9, <1>10, <1>11, <1>12, <1>13 DEF Next, Step

\* doCommit and NewEntry put each entry that is committed on the chain exactly once,
\* however often the loop starts again, and restarts lose no entry written before
\* the first damaged pair of a file that loads: SourceChain implements CommitLog.
THEOREM ChainImplementsLog == Spec => ImplementsCommitLog
<1>1. Spec => Abstract!Init /\ [][Abstract!Next]_(Abstract!vars)
    BY Invariance, InitRefines, NextRefines, PTL DEF Spec
<1> QED BY ZenonT(30), <1>1 DEF ImplementsCommitLog, Abstract!Spec

-----------------------------------------------------------------------------
(* The bytes of headers *)

Bytes == Seq(Nat)

\* A reader that has met no error.
Going(rest, fields) == [rest |-> rest, fields |-> fields, ok |-> TRUE]

\* A reader, whatever it has met.
Readers == [rest : Bytes, fields : Seq(Bytes), ok : BOOLEAN]

\* What a reader becomes: named, so that facts about it are cited as a whole.
Holds(q, rest, fields) == q \in Readers /\ q.rest = rest /\ q.fields = fields

LEMMA GoingHolds ==
    ASSUME NEW e \in Bytes, NEW d \in Seq(Bytes)
    PROVE  Holds(Going(e, d), e, d) /\ Going(e, d).ok = TRUE
<1> DEFINE SB == Seq(Bytes)
           q == [rest |-> e, fields |-> d, ok |-> TRUE]
<1> HIDE DEF SB
<1>1. d \in SB
    BY DEF SB
<1>2. q \in [rest : Bytes, fields : SB, ok : BOOLEAN]
    BY <1>1
<1>3. q.rest = e /\ q.fields = d /\ q.ok = TRUE
    OBVIOUS
<1> HIDE DEF q
<1>4. Holds(q, e, d)
    BY <1>2, <1>3, ZenonT(30) DEF Holds, Readers, SB
<1>5. Going(e, d) = q
    BY ZenonT(30) DEF Going, q
<1> QED
    BY <1>3, <1>4, <1>5, ZenonT(30)

LEMMA GoingIs ==
    ASSUME NEW r, NEW e, NEW d, Holds(r, e, d), r.ok = TRUE
    PROVE  r = Going(e, d)
<1> DEFINE SB == Seq(Bytes)
<1> HIDE DEF SB
<1>1. r \in [rest : Bytes, fields : SB, ok : BOOLEAN] /\ r.rest = e /\ r.fields = d
    BY DEF Holds, Readers, SB
<1>2. r = [rest |-> r.rest, fields |-> r.fields, ok |-> TRUE]
    BY <1>1
<1> QED
    BY <1>1, <1>2, ZenonT(30) DEF Going

LEMMA Stopped ==
    ASSUME NEW r \in Readers, NEW q, q = [r EXCEPT !.ok = FALSE]
    PROVE  Holds(q, r.rest, r.fields) /\ q.ok = FALSE
<1> DEFINE SB == Seq(Bytes)
<1> HIDE DEF SB
<1>1. r \in [rest : Bytes, fields : SB, ok : BOOLEAN]
    BY DEF Readers, SB
<1>2. /\ q \in [rest : Bytes, fields : SB, ok : BOOLEAN]
      /\ q.rest = r.rest /\ q.fields = r.fields /\ q.ok = FALSE
    BY <1>1
<1> QED
    BY <1>2, ZenonT(30) DEF Holds, Readers, SB

LEMMA Refielded ==
    ASSUME NEW r \in Readers, NEW d \in Seq(Bytes), NEW e \in Bytes, NEW q
    PROVE  /\ q = [r EXCEPT !.fields = d] => Holds(q, r.rest, d) /\ q.ok = r.ok
           /\ q = [r EXCEPT !.rest = e, !.fields = d] => Holds(q, e, d) /\ q.ok = r.ok
<1> DEFINE SB == Seq(Bytes)
<1> HIDE DEF SB
<1>0. r \in [rest : Bytes, fields : SB, ok : BOOLEAN] /\ d \in SB
    BY DEF Readers, SB
<1>1. ASSUME q = [r EXCEPT !.fields = d]
      PROVE  /\ q \in [rest : Bytes, fields : SB, ok : BOOLEAN]
             /\ q.rest = r.rest /\ q.fields = d /\ q.ok = r.ok
    BY <1>0, <1>1
<1>2. ASSUME q = [r EXCEPT !.rest = e, !.fields = d]
      PROVE  /\ q \in [rest : Bytes, fields : SB, ok : BOOLEAN]
             /\ q.rest = e /\ q.fields = d /\ q.ok = r.ok
    BY <1>0, <1>2
<1> QED
    BY <1>1, <1>2, ZenonT(30) DEF Holds, Readers, SB

LEMMA CutOut ==
    ASSUME NEW w \in Bytes, NEW m \in Nat, NEW n \in Nat, m + n <= Len(w)
    PROVE  /\ SubSeq(w, m + 1, m + n) \in Bytes
           /\ Len(SubSeq(w, m + 1, m + n)) = n
           /\ \A i \in 1..n : SubSeq(w, m + 1, m + n)[i] = w[m + i]
<1>1. m + 1 \in Int /\ m + n \in Int /\ \A i \in (m + 1)..(m + n) : w[i] \in Nat
    BY DEF Bytes
<1> DEFINE x == SubSeq(w, m + 1, m + n)
<1>2. /\ x \in Seq(Nat)
      /\ Len(x) = IF m + 1 <= m + n THEN (m + n) - (m + 1) + 1 ELSE 0
      /\ \A i \in 1..((m + n) - (m + 1) + 1) : x[i] = w[(m + 1) + i - 1]
    BY <1>1, PartIs
<1> HIDE DEF x
<1>3. Len(x) = n /\ \A i \in 1..n : x[i] = w[m + i]
    BY <1>2
<1> QED
    BY <1>2, <1>3 DEF x, Bytes

\* What is read of a concatenation is the piece that was written.
LEMMA PieceBehind ==
    ASSUME NEW a \in Bytes, NEW b \in Bytes, NEW t \in Bytes
    PROVE  /\ SubSeq((a \o b) \o t, Len(a) + 1, Len(a) + Len(b)) = b
           /\ SubSeq((a \o b) \o t, Len(a) + Len(b) + 1, Len((a \o b) \o t)) = t
           /\ Len((a \o b) \o t) >= Len(a) + Len(b)
<1> DEFINE w == (a \o b) \o t
           x == SubSeq(w, Len(a) + 1, Len(a) + Len(b))
           y == SubSeq(w, Len(a) + Len(b) + 1, Len(w))
<1>1. /\ w \in Bytes
      /\ Len(w) = Len(a) + Len(b) + Len(t)
      /\ \A i \in 1..Len(b) : w[Len(a) + i] = b[i]
      /\ \A i \in 1..Len(t) : w[Len(a) + Len(b) + i] = t[i]
      /\ {Len(a), Len(b), Len(t)} \subseteq Nat
    BY DEF Bytes
<1> HIDE DEF w
<1>2. x \in Bytes /\ Len(x) = Len(b) /\ \A i \in 1..Len(b) : x[i] = b[i]
  <2>1. w \in Bytes /\ Len(a) \in Nat /\ Len(b) \in Nat /\ Len(a) + Len(b) <= Len(w)
      BY <1>1
  <2>2. /\ x \in Bytes
        /\ Len(x) = Len(b)
        /\ \A i \in 1..Len(b) : x[i] = w[Len(a) + i]
      BY <2>1, CutOut, ZenonT(30)
  <2> QED
      BY <1>1, <2>2, ZenonT(30)
<1>3. y \in Bytes /\ Len(y) = Len(t) /\ \A i \in 1..Len(t) : y[i] = t[i]
  <2> DEFINE m == Len(a) + Len(b)
  <2>1. w \in Bytes /\ m \in Nat /\ Len(t) \in Nat /\ m + Len(t) <= Len(w) /\ Len(w) = m + Len(t)
      BY <1>1
  <2>2. \A i \in 1..Len(t) : w[m + i] = t[i]
      BY <1>1
  <2>3. y = SubSeq(w, m + 1, m + Len(t))
      BY <2>1, ZenonT(30)
  <2> HIDE DEF m, y
  <2>4. /\ y \in Bytes
        /\ Len(y) = Len(t)
        /\ \A i \in 1..Len(t) : y[i] = w[m + i]
      BY <2>1, <2>3, CutOut, ZenonT(30)
  <2> QED
      BY <2>2, <2>4, ZenonT(30)
<1> HIDE DEF x, y
<1>4. x = b
    BY <1>2, SameSeq DEF Bytes
<1>5. y = t
    BY <1>3, SameSeq DEF Bytes
<1> QED
    BY <1>1, <1>4, <1>5 DEF w, x, y

LEMMA PieceAhead ==
    ASSUME NEW b \in Bytes, NEW t \in Bytes
    PROVE  /\ SubSeq(b \o t, 1, Len(b)) = b
           /\ SubSeq(b \o t, Len(b) + 1, Len(b \o t)) = t
           /\ Len(b \o t) >= Len(b)
<1>1. << >> \in Bytes /\ Len(<< >>) = 0 /\ << >> \o b = b
    BY DEF Bytes
<1>2. Len(b) \in Nat /\ 0 + Len(b) = Len(b) /\ 0 + 1 = 1
    BY DEF Bytes
<1>3. /\ SubSeq((<< >> \o b) \o t, Len(<< >>) + 1, Len(<< >>) + Len(b)) = b
      /\ SubSeq((<< >> \o b) \o t, Len(<< >>) + Len(b) + 1, Len((<< >> \o b) \o t)) = t
      /\ Len((<< >> \o b) \o t) >= Len(<< >>) + Len(b)
    BY <1>1, PieceBehind, ZenonT(30)
<1>4. /\ SubSeq(b \o t, 0 + 1, 0 + Len(b)) = b
      /\ SubSeq(b \o t, 0 + Len(b) + 1, Len(b \o t)) = t
      /\ Len(b \o t) >= 0 + Len(b)
    BY <1>1, <1>3, ZenonT(30)
<1> QED
    BY <1>2, <1>4, ZenonT(30)

LEMMA ReadsPiece ==
    ASSUME NEW b \in Bytes, NEW t \in Bytes, NEW fs, NEW n, n = Len(b)
    PROVE  ReadBytes(Going(b \o t, fs), 0, n) = Going(t, Append(fs, b))
<1>1. Len(b) \in Nat
    BY DEF Bytes
<1> DEFINE w == b \o t
<1>2. SubSeq(w, 1, n) = b /\ SubSeq(w, n + 1, Len(w)) = t /\ Len(w) >= n
    BY PieceAhead
<1> HIDE DEF w
<1>3. 0 + n = n /\ 0 + 1 = 1 /\ 0 + n + 1 = n + 1
    BY <1>1
<1>4. ReadBytes(Going(w, fs), 0, n) = Going(t, Append(fs, b))
    BY <1>2, <1>3 DEF ReadBytes, Going
<1> QED
    BY <1>4 DEF w

\* A string that its length byte can count is read as it was written.
LEMMA ReadsStr ==
    ASSUME NEW b \in Bytes, NEW t \in Bytes, NEW fs, Len(b) < ByteValues
    PROVE  readStr(Going(writeStr(b) \o t, fs)) = Going(t, Append(fs, b))
<1> DEFINE n == Len(b)
           w == (<<n>> \o b) \o t
<1>1. n \in Nat /\ n % ByteValues = n /\ <<n>> \in Bytes /\ Len(<<n>>) = 1
  <2>1. n \in Nat /\ n < ByteValues
      BY DEF Bytes
  <2>2. ByteValues \in Nat \ {0}
      BY CodecAssumption
  <2> HIDE DEF n
  <2>3. n % ByteValues = n
      BY <2>1, <2>2
  <2>4. <<n>> \in Bytes /\ Len(<<n>>) = 1
      BY <2>1 DEF Bytes
  <2> QED
      BY <2>1, <2>3, <2>4, ZenonT(30)
<1>2. /\ SubSeq(w, 1 + 1, 1 + n) = b
      /\ SubSeq(w, 1 + n + 1, Len(w)) = t
      /\ Len(w) >= 1 + n
  <2>1. /\ SubSeq(w, Len(<<n>>) + 1, Len(<<n>>) + Len(b)) = b
        /\ SubSeq(w, Len(<<n>>) + Len(b) + 1, Len(w)) = t
        /\ Len(w) >= Len(<<n>>) + Len(b)
      BY <1>1, PieceBehind, ZenonT(30)
  <2> QED
      BY <1>1, <2>1, ZenonT(30)
<1>3. w # << >> /\ w[1] = n
    BY <1>1 DEF Bytes
<1>4. writeStr(b) \o t = w
    BY <1>1, ZenonT(30) DEF writeStr
<1> HIDE DEF n, w
<1>5. readStr(Going(w, fs)) = ReadBytes(Going(w, fs), 1, n)
    BY <1>3 DEF readStr, Going
<1>6. ReadBytes(Going(w, fs), 1, n) = Going(t, Append(fs, b))
    BY <1>2 DEF ReadBytes, Going
<1> QED
    BY <1>4, <1>5, <1>6

IsReadStr(r, b, t, fs) == r = readStr(Going(writeStr(b) \o t, fs))

\* One that cannot count it is read with another length.
LEMMA ReadsStrShort ==
    ASSUME NEW b \in Bytes, NEW t \in Bytes, NEW fs \in Seq(Bytes), ~(Len(b) < ByteValues),
           NEW r, IsReadStr(r, b, t, fs)
    PROVE  /\ r \in Readers
           /\ Len(r.fields) = Len(fs) + 1
           /\ r.fields[Len(fs) + 1] # b
<1> DEFINE n == Len(b)
           k == n % ByteValues
           w == (<<k>> \o b) \o t
           f == SubSeq(w, 1 + 1, 1 + k)
<1>1. n \in Nat /\ k \in Nat /\ k < n
    BY CodecAssumption DEF Bytes
<1>2. w \in Bytes /\ Len(w) = 1 + n + Len(t) /\ Len(t) \in Nat /\ w[1] = k
    BY <1>1 DEF Bytes
<1>3. writeStr(b) \o t = w
    BY DEF writeStr
<1> HIDE DEF k, w
<1>4. f \in Bytes /\ Len(f) = k
    BY <1>1, <1>2 DEF Bytes
<1>5. SubSeq(w, 1 + k + 1, Len(w)) \in Bytes
    BY <1>1, <1>2 DEF Bytes
<1>6. f # b
    BY <1>1, <1>4
<1> HIDE DEF f
<1>7. w # << >> /\ Len(w) >= 1 + k
    BY <1>1, <1>2 DEF Bytes
<1>8. r = ReadBytes(Going(w, fs), 1, k)
    BY <1>2, <1>3, <1>7 DEF readStr, Going, IsReadStr
<1>9. r = Going(SubSeq(w, 1 + k + 1, Len(w)), Append(fs, f))
    BY <1>7, <1>8 DEF ReadBytes, Going, f
<1>10. Append(fs, f) \in Seq(Bytes) /\ Len(Append(fs, f)) = Len(fs) + 1 /\ Append(fs, f)[Len(fs) + 1] = f
    BY <1>4
<1> HIDE DEF n
<1> DEFINE z == SubSeq(w, 1 + k + 1, Len(w))
           gs == Append(fs, f)
<1> HIDE DEF z, gs
<1>11. r = Going(z, gs) /\ z \in Bytes /\ gs \in Seq(Bytes)
    BY <1>5, <1>9, <1>10, ZenonT(30) DEF z, gs
<1>12. r.fields = gs /\ r \in Readers
  <2>1. Holds(Going(z, gs), z, gs)
      BY <1>11, GoingHolds
  <2> QED
      BY <1>11, <2>1, ZenonT(30) DEF Holds
<1> QED
    BY <1>6, <1>10, <1>12, ZenonT(30) DEF gs

\* The hashes that headers hold: none, or bytes that begin with the hash's type.
IsHash(h) == h = << >> \/ (h \in Bytes /\ Len(h) = HashLen /\ h[1] # 0)

LEMMA ZerosAre ==
    ASSUME NEW n \in Nat
    PROVE  Zeros(n) \in Bytes /\ Len(Zeros(n)) = n /\ (n > 0 => Zeros(n)[1] = 0)
BY DEF Zeros, Bytes

LEMMA MarshalledHash ==
    ASSUME NEW h, IsHash(h)
    PROVE  /\ MarshalHash(h) \in Bytes
           /\ Len(MarshalHash(h)) = HashLen
           /\ h = << >> => MarshalHash(h)[1] = 0
           /\ h # << >> => MarshalHash(h) = h /\ h[1] # 0
BY ZerosAre, CodecAssumption DEF MarshalHash, IsHash

LEMMA ReadsHash ==
    ASSUME NEW h, IsHash(h), NEW t \in Bytes, NEW fs \in Seq(Bytes)
    PROVE  UnmarshalHash(Going(MarshalHash(h) \o t, fs)) = Going(t, Append(fs, h))
<1> DEFINE m == MarshalHash(h)
           q == ReadBytes(Going(m \o t, fs), 0, HashLen)
<1>1. /\ m \in Bytes
      /\ Len(m) = HashLen
      /\ h = << >> => m[1] = 0
      /\ h # << >> => m = h /\ h[1] # 0
    BY MarshalledHash
<1> HIDE DEF m
<1>2. q = Going(t, Append(fs, m))
    BY <1>1, ReadsPiece
<1> DEFINE i == Len(fs) + 1
           gs == Append(fs, m)
<1>3. Len(gs) = i /\ gs[i] = m /\ gs \in Seq(Bytes)
    BY <1>1
<1>4. h = << >> => [gs EXCEPT ![i] = << >>] = Append(fs, h)
  <2> SUFFICES ASSUME h = << >>
               PROVE  [gs EXCEPT ![i] = << >>] = Append(fs, h)
      OBVIOUS
  <2> DEFINE u == [gs EXCEPT ![i] = << >>]
             v == Append(fs, h)
  <2>1. h \in Bytes
      BY DEF Bytes
  <2>2. u \in Seq(Bytes) /\ Len(u) = i /\ \A j \in 1..i : u[j] = IF j = i THEN << >> ELSE fs[j]
    <3>1. i \in Nat /\ gs \in [1..i -> Bytes] /\ i \in 1..i /\ \A j \in 1..i : j # i => gs[j] = fs[j]
      <4>1. Len(fs) \in Nat
          OBVIOUS
      <4>2. \A j \in 1..Len(fs) : gs[j] = fs[j]
          BY <1>1
      <4>3. gs \in [1..i -> Bytes]
        <5> HIDE DEF gs, i
        <5> QED
            BY <1>3, SeqIsFunction
      <4> HIDE DEF gs
      <4> QED
          BY <4>1, <4>2, <4>3
    <3> HIDE DEF gs, i
    <3>2. u \in [1..i -> Bytes] /\ \A j \in 1..i : u[j] = IF j = i THEN << >> ELSE fs[j]
        BY <2>1, <3>1
    <3> HIDE DEF u
    <3>3. u \in Seq(Bytes) /\ Len(u) = i
        BY <3>1, <3>2
    <3> QED
        BY <3>2, <3>3
  <2>3. v \in Seq(Bytes) /\ Len(v) = i /\ \A j \in 1..i : v[j] = IF j = i THEN << >> ELSE fs[j]
      BY <1>1, <2>1
  <2> HIDE DEF u, v
  <2>4. Len(u) = Len(v) /\ \A j \in 1..Len(u) : u[j] = v[j]
      BY <2>2, <2>3
  <2>5. u = v
      BY <2>2, <2>3, <2>4, SameSeq
  <2> QED
      BY <2>5 DEF u, v
<1> HIDE DEF q, i
<1> HIDE DEF gs
<1>5. q.ok /\ q.fields = gs /\ q.rest = t /\ Len(q.fields) = i /\ q.fields[i] = m
    BY <1>2, <1>3 DEF Going, gs
<1>6. UnmarshalHash(Going(m \o t, fs)) = IF m[1] = 0 THEN [q EXCEPT !.fields[i] = << >>] ELSE q
    BY <1>5 DEF UnmarshalHash, q
<1>7. CASE h = << >>
  <2>1. [q EXCEPT !.fields[i] = << >>] = Going(t, [gs EXCEPT ![i] = << >>])
    <3>1. q = [rest |-> t, fields |-> gs, ok |-> TRUE]
        BY <1>2 DEF Going, gs
    <3> DEFINE us == [gs EXCEPT ![i] = << >>]
    <3>2. [q EXCEPT !.fields[i] = << >>] = [q EXCEPT !.fields = us]
        BY ONLY <3>1, SMT
    <3> HIDE DEF us
    <3>3. [q EXCEPT !.fields = us] = Going(t, us)
      <4>1. Holds(q, t, gs) /\ q.ok = TRUE
        <5>1. q = Going(t, gs)
            BY <1>2 DEF gs
        <5>2. Holds(Going(t, gs), t, gs) /\ Going(t, gs).ok = TRUE
            BY <1>3, GoingHolds
        <5> QED
            BY <5>1, <5>2
      <4>2. us \in Seq(Bytes)
        <5>1. h \in Bytes
            BY <1>7 DEF Bytes
        <5>2. Append(fs, h) \in Seq(Bytes)
            BY <5>1, AppendIs, ZenonT(30)
        <5> QED
            BY <1>4, <1>7, <5>2, ZenonT(30) DEF us
      <4> DEFINE p == [q EXCEPT !.fields = us]
      <4> HIDE DEF p
      <4>3. Holds(p, t, us) /\ p.ok = TRUE
        <5>1. q \in Readers /\ q.rest = t /\ p = [q EXCEPT !.fields = us]
            BY <4>1, ZenonT(30) DEF Holds, p
        <5>2. Holds(p, q.rest, us) /\ p.ok = q.ok
            BY <4>2, <5>1, Refielded
        <5> QED
            BY <4>1, <5>1, <5>2
      <4> QED
          BY <4>3, GoingIs, ZenonT(30) DEF p
    <3> QED
        BY <3>2, <3>3 DEF us
  <2> QED
      BY <1>1, <1>4, <1>6, <1>7, <2>1 DEF m
<1>8. CASE h # << >>
    BY <1>1, <1>2, <1>6, <1>8 DEF m
<1> QED
    BY <1>7, <1>8

\* What was read stays: later reads only add fields.
Kept(r, q) == /\ Len(q.fields) >= Len(r.fields)
              /\ \A i \in 1..Len(r.fields) : q.fields[i] = r.fields[i]

LEMMA KeptOn ==
    ASSUME NEW r \in Readers, NEW q \in Readers, NEW p \in Readers, Kept(r, q), Kept(q, p)
    PROVE  Kept(r, p)
<1> DEFINE a == r.fields
           b == q.fields
           c == p.fields
<1>1. Len(a) \in Nat /\ Len(b) \in Nat /\ Len(c) \in Nat
    BY DEF Readers
<1> HIDE DEF a, b, c
<1>2. /\ Len(b) >= Len(a) /\ Len(c) >= Len(b)
      /\ \A i \in 1..Len(a) : b[i] = a[i]
      /\ \A i \in 1..Len(b) : c[i] = b[i]
    BY DEF Kept, a, b, c
<1>3. Len(c) >= Len(a) /\ \A i \in 1..Len(a) : c[i] = a[i]
    BY <1>1, <1>2
<1> QED
    BY <1>3 DEF Kept, a, c

LEMMA BytesKeep ==
    ASSUME NEW r \in Readers, NEW skip \in Nat, NEW n \in Nat,
           NEW q, q = ReadBytes(r, skip, n)
    PROVE  /\ q \in Readers
           /\ Kept(r, q)
           /\ q.ok => Len(q.fields) = Len(r.fields) + 1
<1> DEFINE SB == Seq(Bytes)
           w == r.rest
           fs == r.fields
           f == SubSeq(w, skip + 1, skip + n)
           gs == Append(fs, f)
           z == SubSeq(w, skip + n + 1, Len(w))
<1>1. w \in Bytes /\ fs \in SB
    BY DEF Readers
<1>2. CASE r.ok /\ Len(r.rest) >= skip + n
  <2> HIDE DEF w
  <2>1. f \in Bytes
      BY <1>1, <1>2, CutOut DEF w
  <2>2. Len(w) \in Nat /\ \A i \in 1..Len(w) : w[i] \in Nat
      BY <1>1 DEF Bytes
  <2>3. z \in Bytes
    <3>1. skip + n + 1 \in Int /\ Len(w) \in Int /\ \A i \in (skip + n + 1)..Len(w) : w[i] \in Nat
        BY <2>2
    <3> QED
        BY <3>1, PartIs DEF Bytes
  <2> HIDE DEF f, z, fs
  <2>4. /\ gs \in SB
        /\ Len(gs) = Len(fs) + 1
        /\ Len(fs) \in Nat
        /\ \A i \in 1..Len(fs) : gs[i] = fs[i]
      BY <1>1, <2>1, AppendIs
  <2>5. Holds(q, z, gs)
    <3>1. q = [r EXCEPT !.rest = z, !.fields = Append(@, f)]
        BY <1>2 DEF ReadBytes, w, z, f
    <3>2. q = [r EXCEPT !.rest = z, !.fields = gs]
        BY <3>1 DEF fs
    <3> HIDE DEF gs
    <3> QED
        BY <2>3, <2>4, <3>2, Refielded, ZenonT(30)
  <2> HIDE DEF gs
  <2>6. q.fields = gs
      BY <2>5 DEF Holds
  <2>7. q \in Readers
      BY <2>5 DEF Holds
  <2>8. Kept(r, q)
    <3>1. Len(gs) >= Len(fs)
        BY <2>4
    <3> QED
        BY <3>1, <2>4, <2>6, ZenonT(30) DEF Kept, fs
  <2> QED
      BY <2>4, <2>6, <2>7, <2>8, ZenonT(30) DEF fs
<1>3. CASE ~(r.ok /\ Len(r.rest) >= skip + n)
  <2>1. q = [r EXCEPT !.ok = FALSE]
      BY <1>3 DEF ReadBytes
  <2> HIDE DEF w, fs
  <2>2. q \in Readers /\ q.fields = fs /\ q.ok = FALSE
      BY <2>1, Stopped, ZenonT(30) DEF Holds, fs
  <2>3. Len(fs) \in Nat
      BY <1>1 DEF SB
  <2>4. Len(fs) >= Len(fs)
      BY <2>3
  <2> QED
      BY <2>2, <2>4, ZenonT(30) DEF Kept, fs
<1> QED
    BY <1>2, <1>3

LEMMA StrKeeps ==
    ASSUME NEW r \in Readers
    PROVE  readStr(r) \in Readers /\ Kept(r, readStr(r))
<1>1. CASE r.ok /\ r.rest # << >>
  <2>1. r.rest[1] \in Nat
      BY <1>1 DEF Readers, Bytes
  <2>2. readStr(r) = ReadBytes(r, 1, r.rest[1])
      BY <1>1 DEF readStr
  <2> QED
      BY <2>1, <2>2, BytesKeep
<1>2. CASE ~(r.ok /\ r.rest # << >>)
  <2> DEFINE n == Len(r.rest)
             q == [r EXCEPT !.ok = FALSE]
  <2>1. n \in Nat /\ Len(r.fields) \in Nat
      BY DEF Readers, Bytes
  <2>2. readStr(r) = q
      BY <1>2 DEF readStr
  <2>3. q \in Readers /\ q.fields = r.fields
      BY Stopped, ZenonT(30) DEF Holds
  <2>4. Len(r.fields) >= Len(r.fields)
      BY <2>1
  <2> HIDE DEF q
  <2> QED
      BY <2>2, <2>3, <2>4, ZenonT(30) DEF Kept
<1> QED
    BY <1>1, <1>2

LEMMA HashKeeps ==
    ASSUME NEW r \in Readers
    PROVE  UnmarshalHash(r) \in Readers /\ Kept(r, UnmarshalHash(r))
<1> DEFINE q == ReadBytes(r, 0, HashLen)
           i == Len(q.fields)
           p == [q EXCEPT !.fields[i] = << >>]
           SB == Seq(Bytes)
<1>1. q \in Readers /\ Kept(r, q) /\ (q.ok => Len(q.fields) = Len(r.fields) + 1)
    BY BytesKeep, CodecAssumption
<1>2. UnmarshalHash(r) = IF q.ok /\ q.fields[i][1] = 0 THEN p ELSE q
    BY DEF UnmarshalHash
<1> HIDE DEF q
<1>3. CASE q.ok /\ q.fields[i][1] = 0
  <2> DEFINE gs == q.fields
             us == [gs EXCEPT ![i] = << >>]
             n == Len(r.fields)
  <2>1. gs \in SB /\ n \in Nat /\ i = n + 1 /\ i = Len(gs)
      BY <1>1, <1>3 DEF Readers
  <2>2. \A j \in 1..n : gs[j] = r.fields[j]
      BY <1>1 DEF Kept
  <2>3. << >> \in Bytes
      BY DEF Bytes
  <2> HIDE DEF gs, n, i
  <2>4. gs \in [1..i -> Bytes] /\ i \in Nat
      BY <2>1, SeqIsFunction DEF SB
  <2>5. us \in [1..i -> Bytes] /\ \A j \in 1..i : j # i => us[j] = gs[j]
      BY <2>3, <2>4
  <2> HIDE DEF us
  <2>6. us \in SB /\ Len(us) = i
      BY <2>4, <2>5
  <2>7. \A j \in 1..n : us[j] = r.fields[j]
      BY <2>1, <2>2, <2>5
  <2>8. i >= n
      BY <2>1
  <2> HIDE DEF SB
  <2>9. q \in [rest : Bytes, fields : SB, ok : BOOLEAN]
      BY <1>1 DEF Readers, SB
  <2>10. p = [q EXCEPT !.fields = us]
      BY ONLY <2>9, SMT DEF us, gs
  <2>11. p \in [rest : Bytes, fields : SB, ok : BOOLEAN] /\ p.fields = us
      BY ONLY <2>6, <2>9, <2>10, SMT
  <2> HIDE DEF p
  <2>12. p \in Readers /\ Kept(r, p)
      BY <2>6, <2>7, <2>8, <2>11, ZenonT(30) DEF Readers, SB, Kept, n
  <2> QED
      BY <1>2, <1>3, <2>12, ZenonT(30)
<1>4. CASE ~(q.ok /\ q.fields[i][1] = 0)
    BY <1>1, <1>2, <1>4, ZenonT(30)
<1> QED
    BY <1>3, <1>4

\* The headers the program makes: the bytes of a type, of a time, of hashes and of
\* a signature; an action's name is short.
IsHeader(hd) ==
    /\ hd.Type \in Bytes /\ hd.Sig \in Bytes /\ hd.Action \in Bytes /\ Len(hd.Action) < ByteValues
    /\ hd.Time \in Bytes /\ Len(hd.Time) = TimeLen
    /\ IsHash(hd.HeaderLink) /\ IsHash(hd.EntryLink) /\ IsHash(hd.TypeLink) /\ IsHash(hd.Hash)

\* Named, so that it is cited as a whole.
IsJoin(w, x, y) == w = x \o y

LEMMA Rejoined ==
    ASSUME NEW x \in Bytes, NEW y \in Bytes, NEW z \in Bytes,
           NEW xy, IsJoin(xy, x, y), NEW yz, IsJoin(yz, y, z), NEW w, IsJoin(w, xy, z)
    PROVE  IsJoin(w, x, yz)
<1>1. (x \o y) \o z = x \o (y \o z)
    BY DEF Bytes
<1>2. xy = x \o y /\ yz = y \o z /\ w = xy \o z
    BY DEF IsJoin
<1>3. w = x \o yz
    BY <1>1, <1>2, ZenonT(30)
<1> QED
    BY <1>3 DEF IsJoin

Regrouped(a, b, c, d, e, f, g, h, i, t) ==
    (a \o b \o c \o d \o e \o f \o g \o h \o i) \o t
        = a \o (b \o (c \o (d \o (e \o (f \o (g \o (h \o (i \o t))))))))

LEMMA Regroup ==
    ASSUME NEW a \in Bytes, NEW b \in Bytes, NEW c \in Bytes, NEW d \in Bytes, NEW e \in Bytes,
           NEW f \in Bytes, NEW g \in Bytes, NEW h \in Bytes, NEW i \in Bytes, NEW t \in Bytes
    PROVE  Regrouped(a, b, c, d, e, f, g, h, i, t)
<1>0. \A x, y \in Bytes : x \o y \in Bytes
    BY JoinIs DEF Bytes
<1> DEFINE l2 == a \o b
           l3 == l2 \o c
           l4 == l3 \o d
           l5 == l4 \o e
           l6 == l5 \o f
           l7 == l6 \o g
           l8 == l7 \o h
           t8 == i \o t
           t7 == h \o t8
           t6 == g \o t7
           t5 == f \o t6
           t4 == e \o t5
           t3 == d \o t4
           t2 == c \o t3
<1>2. /\ l2 \in Bytes /\ l3 \in Bytes /\ l4 \in Bytes /\ l5 \in Bytes
      /\ l6 \in Bytes /\ l7 \in Bytes /\ l8 \in Bytes
  <2> HIDE DEF Bytes
  <2>1. l2 \in Bytes
      BY <1>0
  <2> HIDE DEF l2
  <2>2. l3 \in Bytes
      BY <1>0, <2>1
  <2> HIDE DEF l3
  <2>3. l4 \in Bytes
      BY <1>0, <2>2
  <2> HIDE DEF l4
  <2>4. l5 \in Bytes
      BY <1>0, <2>3
  <2> HIDE DEF l5
  <2>5. l6 \in Bytes
      BY <1>0, <2>4
  <2> HIDE DEF l6
  <2>6. l7 \in Bytes
      BY <1>0, <2>5
  <2> HIDE DEF l7
  <2>7. l8 \in Bytes
      BY <1>0, <2>6
  <2> QED
      BY <2>1, <2>2, <2>3, <2>4, <2>5, <2>6, <2>7
<1>3. /\ t8 \in Bytes /\ t7 \in Bytes /\ t6 \in Bytes /\ t5 \in Bytes
      /\ t4 \in Bytes /\ t3 \in Bytes /\ t2 \in Bytes
  <2>1. t8 \in Bytes
      BY <1>0
  <2> HIDE DEF t8
  <2>2. t7 \in Bytes
      BY <1>0, <2>1
  <2> HIDE DEF t7
  <2>3. t6 \in Bytes
      BY <1>0, <2>2
  <2> HIDE DEF t6
  <2>4. t5 \in Bytes
      BY <1>0, <2>3
  <2> HIDE DEF t5
  <2>5. t4 \in Bytes
      BY <1>0, <2>4
  <2> HIDE DEF t4
  <2>6. t3 \in Bytes
      BY <1>0, <2>5
  <2> HIDE DEF t3
  <2>7. t2 \in Bytes
      BY <1>0, <2>6
  <2> QED
      BY <2>1, <2>2, <2>3, <2>4, <2>5, <2>6, <2>7
<1> HIDE DEF l2, l3, l4, l5, l6, l7, l8, t8, t7, t6, t5, t4, t3, t2
<1> DEFINE w == (l8 \o i) \o t
           l9 == l8 \o i
           t1 == b \o t2
<1>4. /\ IsJoin(l9, l8, i) /\ IsJoin(l8, l7, h) /\ IsJoin(l7, l6, g) /\ IsJoin(l6, l5, f)
      /\ IsJoin(l5, l4, e) /\ IsJoin(l4, l3, d) /\ IsJoin(l3, l2, c) /\ IsJoin(l2, a, b)
    BY DEF IsJoin, l2, l3, l4, l5, l6, l7, l8
<1>5. /\ IsJoin(t8, i, t) /\ IsJoin(t7, h, t8) /\ IsJoin(t6, g, t7) /\ IsJoin(t5, f, t6)
      /\ IsJoin(t4, e, t5) /\ IsJoin(t3, d, t4) /\ IsJoin(t2, c, t3) /\ IsJoin(t1, b, t2)
    BY DEF IsJoin, t8, t7, t6, t5, t4, t3, t2
<1>6. IsJoin(w, l9, t)
    BY DEF IsJoin
<1> HIDE DEF w, l9, t1
<1>7. IsJoin(w, l8, t8)
  <2>1. l8 \in Bytes /\ i \in Bytes /\ t \in Bytes /\ IsJoin(l9, l8, i) /\ IsJoin(t8, i, t)
      BY <1>2, <1>3, <1>4, <1>5, ZenonT(30)
  <2> QED
      BY <1>6, <2>1, Rejoined, ZenonT(30)
<1>8. IsJoin(w, l7, t7)
  <2>1. l7 \in Bytes /\ h \in Bytes /\ t8 \in Bytes /\ IsJoin(l8, l7, h) /\ IsJoin(t7, h, t8)
      BY <1>2, <1>3, <1>4, <1>5, ZenonT(30)
  <2> QED
      BY <1>7, <2>1, Rejoined, ZenonT(30)
<1>9. IsJoin(w, l6, t6)
  <2>1. l6 \in Bytes /\ g \in Bytes /\ t7 \in Bytes /\ IsJoin(l7, l6, g) /\ IsJoin(t6, g, t7)
      BY <1>2, <1>3, <1>4, <1>5, ZenonT(30)
  <2> QED
      BY <1>8, <2>1, Rejoined, ZenonT(30)
<1>10. IsJoin(w, l5, t5)
  <2>1. l5 \in Bytes /\ f \in Bytes /\ t6 \in Bytes /\ IsJoin(l6, l5, f) /\ IsJoin(t5, f, t6)
      BY <1>2, <1>3, <1>4, <1>5, ZenonT(30)
  <2> QED
      BY <1>9, <2>1, Rejoined, ZenonT(30)
<1>11. IsJoin(w, l4, t4)
  <2>1. l4 \in Bytes /\ e \in Bytes /\ t5 \in Bytes /\ IsJoin(l5, l4, e) /\ IsJoin(t4, e, t5)
      BY <1>2, <1>3, <1>4, <1>5, ZenonT(30)
  <2> QED
      BY <1>10, <2>1, Rejoined, ZenonT(30)
<1>12. IsJoin(w, l3, t3)
  <2>1. l3 \in Bytes /\ d \in Bytes /\ t4 \in Bytes /\ IsJoin(l4, l3, d) /\ IsJoin(t3, d, t4)
      BY <1>2, <1>3, <1>4, <1>5, ZenonT(30)
  <2> QED
      BY <1>11, <2>1, Rejoined, ZenonT(30)
<1>13. IsJoin(w, l2, t2)
  <2>1. l2 \in Bytes /\ c \in Bytes /\ t3 \in Bytes /\ IsJoin(l3, l2, c) /\ IsJoin(t2, c, t3)
      BY <1>2, <1>3, <1>4, <1>5, ZenonT(30)
  <2> QED
      BY <1>12, <2>1, Rejoined, ZenonT(30)
<1>14. IsJoin(w, a, t1)
  <2>1. a \in Bytes /\ b \in Bytes /\ t2 \in Bytes /\ IsJoin(l2, a, b) /\ IsJoin(t1, b, t2)
      BY <1>2, <1>3, <1>4, <1>5, ZenonT(30)
  <2> QED
      BY <1>13, <2>1, Rejoined, ZenonT(30)
<1>15. w = a \o t1
    BY <1>14 DEF IsJoin
<1> QED
    BY <1>15, ZenonT(30) DEF Regrouped, w, l2, l3, l4, l5, l6, l7, l8, t8, t7, t6, t5, t4, t3, t2, t1

\* The first of the fields, as many as were read.
First(T, k) == SubSeq(T, 1, k)

LEMMA FirstMore ==
    ASSUME NEW T \in Seq(Bytes), NEW k \in Nat, k < Len(T), NEW x, x = T[k + 1]
    PROVE  Append(First(T, k), x) = First(T, k + 1)
<1> DEFINE u == First(T, k)
           v == First(T, k + 1)
           w == Append(u, x)
<1>1. Len(T) \in Nat /\ x \in Bytes
    OBVIOUS
<1>2. u \in Seq(Bytes) /\ Len(u) = k /\ \A i \in 1..k : u[i] = T[i]
    BY <1>1 DEF First
<1>3. v \in Seq(Bytes) /\ Len(v) = k + 1 /\ \A i \in 1..(k + 1) : v[i] = T[i]
    BY <1>1 DEF First
<1> HIDE DEF u, v
<1>4. w \in Seq(Bytes) /\ Len(w) = k + 1 /\ \A i \in 1..(k + 1) : w[i] = T[i]
  <2>1. /\ w \in Seq(Bytes)
        /\ Len(w) = Len(u) + 1
        /\ \A i \in 1..Len(u) : w[i] = u[i]
        /\ w[Len(u) + 1] = x
      BY <1>1, <1>2, AppendIs
  <2> HIDE DEF w
  <2> QED
      BY <1>2, <2>1
<1> HIDE DEF w
<1>5. w = v
    BY <1>3, <1>4, SameSeq
<1> QED
    BY <1>5 DEF u, v, w

LEMMA FirstIs ==
    ASSUME NEW T \in Seq(Bytes)
    PROVE  /\ First(T, 0) = << >>
           /\ First(T, Len(T)) = T
           /\ \A k \in 0..Len(T) : First(T, k) \in Seq(Bytes) /\ Len(First(T, k)) = k
<1>1. First(T, 0) = << >>
    BY NoPart DEF First
<1>2. First(T, Len(T)) = T
    BY WholePart DEF First
<1>3. \A k \in 0..Len(T) : First(T, k) \in Seq(Bytes) /\ Len(First(T, k)) = k
    BY DEF First
<1> QED
    BY <1>1, <1>2, <1>3, ZenonT(30)

\* What MarshalHeader writes, piece by piece.
LEMMA WrittenInTurn ==
    ASSUME NEW hd, IsHeader(hd), NEW tail \in Bytes
    PROVE  MarshalHeader(hd) \o tail =
               writeStr(hd.Type) \o (hd.Time \o (MarshalHash(hd.HeaderLink) \o
                   (MarshalHash(hd.EntryLink) \o (MarshalHash(hd.TypeLink) \o
                       (writeStr(hd.Sig) \o (writeStr(hd.Action) \o
                           (MarshalHash(hd.Hash) \o (Zeros(MetaLen) \o tail))))))))
<1>1. /\ hd.Time \in Bytes
      /\ MarshalHash(hd.HeaderLink) \in Bytes /\ MarshalHash(hd.EntryLink) \in Bytes
      /\ MarshalHash(hd.TypeLink) \in Bytes /\ MarshalHash(hd.Hash) \in Bytes
    BY MarshalledHash, ZenonT(30) DEF IsHeader
<1>2. \A s \in Bytes : writeStr(s) \in Bytes
  <2> TAKE s \in Bytes
  <2>1. Len(s) % ByteValues \in Nat
      BY CodecAssumption DEF Bytes
  <2> QED
      BY <2>1 DEF writeStr, Bytes
<1>3. writeStr(hd.Type) \in Bytes /\ writeStr(hd.Sig) \in Bytes /\ writeStr(hd.Action) \in Bytes
    BY <1>2, ZenonT(30) DEF IsHeader
<1>4. Zeros(MetaLen) \in Bytes
    BY ZerosAre, CodecAssumption
<1> DEFINE a == writeStr(hd.Type)
           b == hd.Time
           c == MarshalHash(hd.HeaderLink)
           d == MarshalHash(hd.EntryLink)
           e == MarshalHash(hd.TypeLink)
           f == writeStr(hd.Sig)
           g == writeStr(hd.Action)
           h == MarshalHash(hd.Hash)
           i == Zeros(MetaLen)
<1>5. MarshalHeader(hd) \o tail = (a \o b \o c \o d \o e \o f \o g \o h \o i) \o tail
    BY ZenonT(30) DEF MarshalHeader, MarshalSignature
<1>6. /\ a \in Bytes /\ b \in Bytes /\ c \in Bytes /\ d \in Bytes /\ e \in Bytes
      /\ f \in Bytes /\ g \in Bytes /\ h \in Bytes /\ i \in Bytes
    BY <1>1, <1>3, <1>4
<1> HIDE DEF a, b, c, d, e, f, g, h, i
<1>7. (a \o b \o c \o d \o e \o f \o g \o h \o i) \o tail
          = a \o (b \o (c \o (d \o (e \o (f \o (g \o (h \o (i \o tail))))))))
  <2>1. Regrouped(a, b, c, d, e, f, g, h, i, tail)
      BY <1>6, Regroup, ZenonT(30)
  <2> QED
      BY <2>1 DEF Regrouped
<1>8. MarshalHeader(hd) \o tail = a \o (b \o (c \o (d \o (e \o (f \o (g \o (h \o (i \o tail))))))))
    BY <1>5, <1>7, ZenonT(30)
<1> QED
    BY <1>8, ZenonT(30) DEF a, b, c, d, e, f, g, h, i

\* UnmarshalHeader in three parts, between which the two fields are read that may
\* be too long: what it reads behind the type, and behind the signature.
ReadLinks(r) == UnmarshalHash(UnmarshalHash(UnmarshalHash(ReadBytes(r, 0, TimeLen))))
ReadChange(r) == ReadBytes(UnmarshalHash(readStr(r)), 0, MetaLen)

LEMMA ReadInParts ==
    ASSUME NEW w
    PROVE  UnmarshalHeader(w) = ReadChange(readStr(ReadLinks(readStr(Going(w, << >>)))))
BY ZenonT(30) DEF UnmarshalHeader, UnmarshalSignature, ReadLinks, ReadChange, Reader, Going

LEMMA PartsKeep ==
    ASSUME NEW r \in Readers
    PROVE  /\ ReadLinks(r) \in Readers /\ Kept(r, ReadLinks(r))
           /\ ReadChange(r) \in Readers /\ Kept(r, ReadChange(r))
<1>0. TimeLen \in Nat /\ MetaLen \in Nat /\ 0 \in Nat
    BY CodecAssumption
<1> DEFINE a == ReadBytes(r, 0, TimeLen)
           b == UnmarshalHash(a)
           c == UnmarshalHash(b)
           d == UnmarshalHash(c)
           e == readStr(r)
           f == UnmarshalHash(e)
           g == ReadBytes(f, 0, MetaLen)
<1>1. ReadLinks(r) = d /\ ReadChange(r) = g
    BY ZenonT(30) DEF ReadLinks, ReadChange
<1>2. a \in Readers /\ Kept(r, a)
    BY <1>0, BytesKeep
<1> HIDE DEF a
<1>3. b \in Readers /\ Kept(a, b)
    BY <1>2, HashKeeps
<1> HIDE DEF b
<1>4. c \in Readers /\ Kept(b, c)
    BY <1>3, HashKeeps
<1> HIDE DEF c
<1>5. d \in Readers /\ Kept(c, d)
    BY <1>4, HashKeeps
<1>6. e \in Readers /\ Kept(r, e)
    BY StrKeeps
<1> HIDE DEF d, e
<1>7. f \in Readers /\ Kept(e, f)
    BY <1>6, HashKeeps
<1> HIDE DEF f
<1>8. g \in Readers /\ Kept(f, g)
    BY <1>0, <1>7, BytesKeep
<1> HIDE DEF g
<1>9. Kept(r, b)
    BY <1>2, <1>3, KeptOn, ZenonT(30)
<1>10. Kept(r, c)
    BY <1>3, <1>4, <1>9, KeptOn, ZenonT(30)
<1>11. Kept(r, d)
    BY <1>4, <1>5, <1>10, KeptOn, ZenonT(30)
<1>12. Kept(r, f)
    BY <1>6, <1>7, KeptOn, ZenonT(30)
<1>13. Kept(r, g)
    BY <1>7, <1>8, <1>12, KeptOn, ZenonT(30)
<1> QED
    BY <1>1, <1>5, <1>8, <1>11, <1>13, ZenonT(30)

LEMMA FieldsAre ==
    ASSUME NEW hd, IsHeader(hd)
    PROVE  /\ Fields(hd) \in Seq(Bytes)
           /\ Len(Fields(hd)) = 9
           /\ Fields(hd)[0 + 1] = hd.Type /\ Fields(hd)[1 + 1] = hd.Time
           /\ Fields(hd)[2 + 1] = hd.HeaderLink /\ Fields(hd)[3 + 1] = hd.EntryLink
           /\ Fields(hd)[4 + 1] = hd.TypeLink /\ Fields(hd)[5 + 1] = hd.Sig
           /\ Fields(hd)[6 + 1] = hd.Action /\ Fields(hd)[7 + 1] = hd.Hash
           /\ Fields(hd)[8 + 1] = Zeros(MetaLen)
<1>1. /\ hd.Type \in Bytes /\ hd.Time \in Bytes /\ hd.Sig \in Bytes /\ hd.Action \in Bytes
      /\ IsHash(hd.HeaderLink) /\ IsHash(hd.EntryLink) /\ IsHash(hd.TypeLink) /\ IsHash(hd.Hash)
    BY DEF IsHeader
<1>2. \A h : IsHash(h) => h \in Bytes
  <2>1. << >> \in Bytes
      BY DEF Bytes
  <2> QED
      BY <2>1, ZenonT(30) DEF IsHash
<1>3. Zeros(MetaLen) \in Bytes
    BY ZerosAre, CodecAssumption
<1> DEFINE a == hd.Type
           b == hd.Time
           c == hd.HeaderLink
           d == hd.EntryLink
           e == hd.TypeLink
           f == hd.Sig
           g == hd.Action
           h == hd.Hash
           i == Zeros(MetaLen)
<1>4. /\ a \in Bytes /\ b \in Bytes /\ c \in Bytes /\ d \in Bytes /\ e \in Bytes
      /\ f \in Bytes /\ g \in Bytes /\ h \in Bytes /\ i \in Bytes
    BY <1>1, <1>2, <1>3, ZenonT(30)
<1>5. Fields(hd) = <<a, b, c, d, e, f, g, h, i>>
    BY DEF Fields
<1> HIDE DEF a, b, c, d, e, f, g, h, i
<1> DEFINE T == <<a, b, c, d, e, f, g, h, i>>
<1>6. T \in Seq(Bytes) /\ Len(T) = 9
    BY <1>4
<1>7. /\ T[0 + 1] = a /\ T[1 + 1] = b /\ T[2 + 1] = c /\ T[3 + 1] = d /\ T[4 + 1] = e
      /\ T[5 + 1] = f /\ T[6 + 1] = g /\ T[7 + 1] = h /\ T[8 + 1] = i
    OBVIOUS
<1> HIDE DEF T
<1>8. Fields(hd) = T
    BY <1>5 DEF T
<1> QED
    BY <1>6, <1>7, <1>8, ZenonT(30) DEF a, b, c, d, e, f, g, h, i

\* One more of the fields T is read, whatever its kind.
LEMMA FieldRead ==
    ASSUME NEW T \in Seq(Bytes), NEW k \in Nat, k < Len(T), NEW x, x = T[k + 1], NEW t \in Bytes
    PROVE  /\ x \in Bytes
           /\ ReadBytes(Going(x \o t, First(T, k)), 0, Len(x)) = Going(t, First(T, k + 1))
           /\ Len(x) < ByteValues =>
                  readStr(Going(writeStr(x) \o t, First(T, k))) = Going(t, First(T, k + 1))
           /\ IsHash(x) =>
                  UnmarshalHash(Going(MarshalHash(x) \o t, First(T, k))) = Going(t, First(T, k + 1))
<1>1. x \in Bytes /\ k \in 0..Len(T)
    OBVIOUS
<1>2. First(T, k) \in Seq(Bytes)
    BY <1>1, FirstIs
<1>3. Append(First(T, k), x) = First(T, k + 1)
    BY FirstMore
<1>4. ReadBytes(Going(x \o t, First(T, k)), 0, Len(x)) = Going(t, Append(First(T, k), x))
    BY <1>1, ReadsPiece
<1>5. Len(x) < ByteValues =>
          readStr(Going(writeStr(x) \o t, First(T, k))) = Going(t, Append(First(T, k), x))
    BY <1>1, ReadsStr, ZenonT(30)
<1>6. IsHash(x) =>
          UnmarshalHash(Going(MarshalHash(x) \o t, First(T, k))) = Going(t, Append(First(T, k), x))
    BY <1>2, ReadsHash, ZenonT(30)
<1> QED
    BY <1>1, <1>3, <1>4, <1>5, <1>6, ZenonT(30)

LEMMA JoinOfBytes ==
    ASSUME NEW x \in Bytes, NEW y \in Bytes
    PROVE  x \o y \in Bytes
BY DEF Bytes

LEMMA StrOfBytes ==
    ASSUME NEW s \in Bytes
    PROVE  writeStr(s) \in Bytes
<1>1. Len(s) % ByteValues \in Nat
    BY CodecAssumption DEF Bytes
<1> QED
    BY <1>1 DEF writeStr, Bytes

LEMMA LinksRead ==
    ASSUME NEW hd, IsHeader(hd), NEW t5 \in Bytes
    PROVE  ReadLinks(Going(hd.Time \o (MarshalHash(hd.HeaderLink) \o
               (MarshalHash(hd.EntryLink) \o (MarshalHash(hd.TypeLink) \o t5))),
                           First(Fields(hd), 1)))
               = Going(t5, First(Fields(hd), 5))
<1> DEFINE T == Fields(hd)
           b == hd.Time
           c == hd.HeaderLink
           d == hd.EntryLink
           e == hd.TypeLink
           t4 == MarshalHash(e) \o t5
           t3 == MarshalHash(d) \o t4
           t2 == MarshalHash(c) \o t3
           t1 == b \o t2
<1>1. /\ T \in Seq(Bytes) /\ Len(T) = 9
      /\ b = T[1 + 1] /\ c = T[2 + 1] /\ d = T[3 + 1] /\ e = T[4 + 1]
    BY FieldsAre, ZenonT(30)
<1>2. b \in Bytes /\ Len(b) = TimeLen /\ IsHash(c) /\ IsHash(d) /\ IsHash(e)
    BY DEF IsHeader
<1>3. MarshalHash(c) \in Bytes /\ MarshalHash(d) \in Bytes /\ MarshalHash(e) \in Bytes
    BY <1>2, MarshalledHash, ZenonT(30)
<1> HIDE DEF T, b, c, d, e
<1>4. t4 \in Bytes
    BY <1>3, JoinOfBytes, ZenonT(30)
<1> HIDE DEF t4
<1>5. t3 \in Bytes
    BY <1>3, <1>4, JoinOfBytes, ZenonT(30)
<1> HIDE DEF t3
<1>6. t2 \in Bytes
    BY <1>3, <1>5, JoinOfBytes, ZenonT(30)
<1> HIDE DEF t2
<1>7. /\ 1 \in Nat /\ 2 \in Nat /\ 3 \in Nat /\ 4 \in Nat
      /\ 1 < Len(T) /\ 2 < Len(T) /\ 3 < Len(T) /\ 4 < Len(T)
      /\ 1 + 1 = 2 /\ 2 + 1 = 3 /\ 3 + 1 = 4 /\ 4 + 1 = 5
    BY <1>1
<1>8. ReadBytes(Going(t1, First(T, 1)), 0, TimeLen) = Going(t2, First(T, 2))
  <2>1. ReadBytes(Going(b \o t2, First(T, 1)), 0, Len(b)) = Going(t2, First(T, 1 + 1))
      BY <1>1, <1>6, <1>7, FieldRead, ZenonT(30)
  <2> QED
      BY <2>1, <1>2, <1>7, ZenonT(30)
<1>9. UnmarshalHash(Going(t2, First(T, 2))) = Going(t3, First(T, 3))
  <2>1. UnmarshalHash(Going(MarshalHash(c) \o t3, First(T, 2))) = Going(t3, First(T, 2 + 1))
      BY <1>1, <1>2, <1>5, <1>7, FieldRead, ZenonT(30)
  <2> QED
      BY <2>1, <1>7, ZenonT(30) DEF t2
<1>10. UnmarshalHash(Going(t3, First(T, 3))) = Going(t4, First(T, 4))
  <2>1. UnmarshalHash(Going(MarshalHash(d) \o t4, First(T, 3))) = Going(t4, First(T, 3 + 1))
      BY <1>1, <1>2, <1>4, <1>7, FieldRead, ZenonT(30)
  <2> QED
      BY <2>1, <1>7, ZenonT(30) DEF t3
<1>11. UnmarshalHash(Going(t4, First(T, 4))) = Going(t5, First(T, 5))
  <2>1. UnmarshalHash(Going(MarshalHash(e) \o t5, First(T, 4))) = Going(t5, First(T, 4 + 1))
      BY <1>1, <1>2, <1>7, FieldRead, ZenonT(30)
  <2> QED
      BY <2>1, <1>7, ZenonT(30) DEF t4
<1> HIDE DEF t1
<1>12. ReadLinks(Going(t1, First(T, 1))) = Going(t5, First(T, 5))
    BY <1>8, <1>9, <1>10, <1>11, ZenonT(30) DEF ReadLinks
<1> QED
    BY <1>12, ZenonT(30) DEF T, b, c, d, e, t1, t2, t3, t4

LEMMA ChangeRead ==
    ASSUME NEW hd, IsHeader(hd), NEW tail \in Bytes
    PROVE  ReadChange(Going(writeStr(hd.Action) \o (MarshalHash(hd.Hash) \o (Zeros(MetaLen) \o tail)),
                            First(Fields(hd), 6)))
               = Going(tail, Fields(hd))
<1> DEFINE T == Fields(hd)
           g == hd.Action
           h == hd.Hash
           i == Zeros(MetaLen)
           t8 == i \o tail
           t7 == MarshalHash(h) \o t8
           t6 == writeStr(g) \o t7
<1>1. T \in Seq(Bytes) /\ Len(T) = 9 /\ g = T[6 + 1] /\ h = T[7 + 1] /\ i = T[8 + 1]
    BY FieldsAre, ZenonT(30)
<1>2. g \in Bytes /\ Len(g) < ByteValues /\ IsHash(h)
    BY DEF IsHeader
<1>3. MarshalHash(h) \in Bytes
    BY <1>2, MarshalledHash, ZenonT(30)
<1>4. i \in Bytes /\ MetaLen = Len(i)
    BY ZerosAre, CodecAssumption
<1>5. First(T, 9) = T
    BY <1>1, FirstIs, ZenonT(30)
<1> HIDE DEF T, g, h, i
<1>6. t8 \in Bytes
    BY <1>4, JoinOfBytes, ZenonT(30)
<1> HIDE DEF t8
<1>7. t7 \in Bytes
    BY <1>3, <1>6, JoinOfBytes, ZenonT(30)
<1> HIDE DEF t7
<1>8. /\ 6 \in Nat /\ 7 \in Nat /\ 8 \in Nat
      /\ 6 < Len(T) /\ 7 < Len(T) /\ 8 < Len(T)
      /\ 6 + 1 = 7 /\ 7 + 1 = 8 /\ 8 + 1 = 9
    BY <1>1
<1>9. readStr(Going(t6, First(T, 6))) = Going(t7, First(T, 7))
  <2>1. readStr(Going(writeStr(g) \o t7, First(T, 6))) = Going(t7, First(T, 6 + 1))
      BY <1>1, <1>2, <1>7, <1>8, FieldRead, ZenonT(30)
  <2> QED
      BY <2>1, <1>8, ZenonT(30)
<1>10. UnmarshalHash(Going(t7, First(T, 7))) = Going(t8, First(T, 8))
  <2>1. UnmarshalHash(Going(MarshalHash(h) \o t8, First(T, 7))) = Going(t8, First(T, 7 + 1))
      BY <1>1, <1>2, <1>6, <1>8, FieldRead, ZenonT(30)
  <2> QED
      BY <2>1, <1>8, ZenonT(30) DEF t7
<1>11. ReadBytes(Going(t8, First(T, 8)), 0, MetaLen) = Going(tail, First(T, 9))
  <2>1. ReadBytes(Going(i \o tail, First(T, 8)), 0, Len(i)) = Going(tail, First(T, 8 + 1))
      BY <1>1, <1>8, FieldRead, ZenonT(30)
  <2> QED
      BY <2>1, <1>4, <1>8, ZenonT(30) DEF t8
<1> HIDE DEF t6
<1>12. ReadChange(Going(t6, First(T, 6))) = Going(tail, T)
    BY <1>5, <1>9, <1>10, <1>11, ZenonT(30) DEF ReadChange
<1> QED
    BY <1>12, ZenonT(30) DEF T, g, h, i, t6, t7, t8

\* What is read of a field that is too long stays wrong.
LEMMA StaysWrong ==
    ASSUME NEW r \in Readers, NEW q \in Readers, Kept(r, q), NEW k \in Nat,
           Len(r.fields) = k + 1, NEW T, r.fields[k + 1] # T[k + 1], NEW tail
    PROVE  q # [rest |-> tail, fields |-> T, ok |-> TRUE]
<1>1. k + 1 \in 1..Len(r.fields)
    OBVIOUS
<1>2. q.fields[k + 1] # T[k + 1]
    BY <1>1 DEF Kept
<1>3. ASSUME q = [rest |-> tail, fields |-> T, ok |-> TRUE]
      PROVE  q.fields = T
    BY <1>3
<1> QED
    BY <1>2, <1>3, ZenonT(30)

\* A header is read back, as it was and up to its last byte, exactly if its type and
\* its signature are no longer than the byte before them can say.
LEMMA ReadBackIffFits ==
    ASSUME NEW hd, IsHeader(hd), NEW tail \in Bytes
    PROVE  ReadBack(hd, tail) <=> Fits(hd)
<1> DEFINE T == Fields(hd)
           w == MarshalHeader(hd) \o tail
           t6 == writeStr(hd.Action) \o (MarshalHash(hd.Hash) \o (Zeros(MetaLen) \o tail))
           t5 == writeStr(hd.Sig) \o t6
           t1 == hd.Time \o (MarshalHash(hd.HeaderLink) \o
                     (MarshalHash(hd.EntryLink) \o (MarshalHash(hd.TypeLink) \o t5)))
<1>1. w = writeStr(hd.Type) \o t1
    BY WrittenInTurn, ZenonT(30)
<1>2. t6 \in Bytes /\ t5 \in Bytes /\ t1 \in Bytes
  <2>1. /\ hd.Sig \in Bytes /\ hd.Action \in Bytes /\ hd.Time \in Bytes
        /\ IsHash(hd.HeaderLink) /\ IsHash(hd.EntryLink) /\ IsHash(hd.TypeLink) /\ IsHash(hd.Hash)
      BY DEF IsHeader
  <2>2. /\ MarshalHash(hd.HeaderLink) \in Bytes /\ MarshalHash(hd.EntryLink) \in Bytes
        /\ MarshalHash(hd.TypeLink) \in Bytes /\ MarshalHash(hd.Hash) \in Bytes
      BY <2>1, MarshalledHash, ZenonT(30)
  <2>3. writeStr(hd.Sig) \in Bytes /\ writeStr(hd.Action) \in Bytes
      BY <2>1, StrOfBytes, ZenonT(30)
  <2>4. Zeros(MetaLen) \in Bytes
      BY ZerosAre, CodecAssumption
  <2>5. Zeros(MetaLen) \o tail \in Bytes
      BY <2>4, JoinOfBytes, ZenonT(30)
  <2>6. MarshalHash(hd.Hash) \o (Zeros(MetaLen) \o tail) \in Bytes
      BY <2>2, <2>5, JoinOfBytes, ZenonT(30)
  <2>7. t6 \in Bytes
      BY <2>3, <2>6, JoinOfBytes, ZenonT(30)
  <2> HIDE DEF t6
  <2>8. t5 \in Bytes
      BY <2>3, <2>7, JoinOfBytes, ZenonT(30)
  <2> HIDE DEF t5
  <2>9. MarshalHash(hd.TypeLink) \o t5 \in Bytes
      BY <2>2, <2>8, JoinOfBytes, ZenonT(30)
  <2>10. MarshalHash(hd.EntryLink) \o (MarshalHash(hd.TypeLink) \o t5) \in Bytes
      BY <2>2, <2>9, JoinOfBytes, ZenonT(30)
  <2>11. MarshalHash(hd.HeaderLink) \o (MarshalHash(hd.EntryLink) \o (MarshalHash(hd.TypeLink) \o t5))
             \in Bytes
      BY <2>2, <2>10, JoinOfBytes, ZenonT(30)
  <2>12. t1 \in Bytes
      BY <2>1, <2>11, JoinOfBytes, ZenonT(30)
  <2> QED
      BY <2>7, <2>8, <2>12
<1>3. /\ ReadLinks(Going(t1, First(T, 1))) = Going(t5, First(T, 5))
      /\ ReadChange(Going(t6, First(T, 6))) = Going(tail, T)
    BY <1>2, LinksRead, ChangeRead, ZenonT(30)
<1>4. T \in Seq(Bytes) /\ Len(T) = 9 /\ T[0 + 1] = hd.Type /\ T[5 + 1] = hd.Sig
    BY FieldsAre, ZenonT(30)
<1>5. hd.Type \in Bytes /\ hd.Sig \in Bytes
    BY DEF IsHeader
<1>6. /\ 0 \in Nat /\ 5 \in Nat /\ 0 < Len(T) /\ 5 < Len(T) /\ 0 + 1 = 1 /\ 5 + 1 = 6
      /\ 0 \in 0..Len(T) /\ 5 \in 0..Len(T)
    BY <1>4
<1>7. /\ First(T, 0) = << >>
      /\ First(T, 5) \in Seq(Bytes) /\ Len(First(T, 5)) = 5
      /\ First(T, 0) \in Seq(Bytes) /\ Len(First(T, 0)) = 0
    BY <1>4, <1>6, FirstIs, ZenonT(30)
<1> DEFINE r1 == readStr(Going(w, << >>))
           r5 == ReadLinks(r1)
           r6 == readStr(r5)
           r9 == ReadChange(r6)
<1>8. ReadBack(hd, tail) <=> r9 = [rest |-> tail, fields |-> T, ok |-> TRUE]
    BY ReadInParts, ZenonT(30) DEF ReadBack
<1> HIDE DEF T, w, t6, t5, t1
<1>9. Len(hd.Type) < ByteValues => r1 = Going(t1, First(T, 1))
  <2>1. Len(hd.Type) < ByteValues =>
            readStr(Going(writeStr(hd.Type) \o t1, First(T, 0))) = Going(t1, First(T, 0 + 1))
      BY <1>2, <1>4, <1>6, FieldRead, ZenonT(30)
  <2> QED
      BY <1>1, <1>6, <1>7, <2>1, ZenonT(30)
<1>10. Len(hd.Sig) < ByteValues => readStr(Going(t5, First(T, 5))) = Going(t6, First(T, 6))
  <2>1. Len(hd.Sig) < ByteValues =>
            readStr(Going(writeStr(hd.Sig) \o t6, First(T, 5))) = Going(t6, First(T, 5 + 1))
      BY <1>2, <1>4, <1>6, FieldRead, ZenonT(30)
  <2> QED
      BY <1>6, <2>1, ZenonT(30) DEF t5
<1>11. CASE Fits(hd)
  <2>1. Len(hd.Type) < ByteValues /\ Len(hd.Sig) < ByteValues
      BY <1>11 DEF Fits
  <2>2. r9 = Going(tail, T)
      BY <1>3, <1>9, <1>10, <2>1, ZenonT(30)
  <2> QED
      BY <1>8, <1>11, <2>2, ZenonT(30) DEF Going
<1>12. CASE ~(Len(hd.Type) < ByteValues)
  <2>1. /\ r1 \in Readers
        /\ Len(r1.fields) = 0 + 1
        /\ r1.fields[0 + 1] # T[0 + 1]
    <3>1. IsReadStr(r1, hd.Type, t1, First(T, 0))
        BY <1>1, <1>7, ZenonT(30) DEF IsReadStr
    <3> HIDE DEF r1
    <3>2. /\ r1 \in Readers
          /\ Len(r1.fields) = Len(First(T, 0)) + 1
          /\ r1.fields[Len(First(T, 0)) + 1] # hd.Type
        BY <1>2, <1>5, <1>7, <1>12, <3>1, ReadsStrShort, ZenonT(30)
    <3> QED
        BY <1>4, <1>7, <3>2, ZenonT(30)
  <2> HIDE DEF r1
  <2>2. r5 \in Readers /\ Kept(r1, r5)
      BY <2>1, PartsKeep, ZenonT(30)
  <2> HIDE DEF r5
  <2>3. r6 \in Readers /\ Kept(r5, r6)
      BY <2>2, StrKeeps, ZenonT(30)
  <2> HIDE DEF r6
  <2>4. r9 \in Readers /\ Kept(r6, r9)
      BY <2>3, PartsKeep, ZenonT(30)
  <2> HIDE DEF r9
  <2>5. Kept(r1, r6)
      BY <2>1, <2>2, <2>3, KeptOn, ZenonT(30)
  <2>6. Kept(r1, r9)
      BY <2>1, <2>3, <2>4, <2>5, KeptOn, ZenonT(30)
  <2>7. r9 # [rest |-> tail, fields |-> T, ok |-> TRUE]
      BY <1>6, <2>1, <2>4, <2>6, StaysWrong, ZenonT(30)
  <2> QED
      BY <1>8, <1>12, <2>7, ZenonT(30) DEF Fits
<1>13. CASE Len(hd.Type) < ByteValues /\ ~(Len(hd.Sig) < ByteValues)
  <2>1. r5 = Going(t5, First(T, 5))
      BY <1>3, <1>9, <1>13, ZenonT(30)
  <2> HIDE DEF r1, r5
  <2>2. /\ r6 \in Readers
        /\ Len(r6.fields) = 5 + 1
        /\ r6.fields[5 + 1] # T[5 + 1]
    <3>1. IsReadStr(r6, hd.Sig, t6, First(T, 5))
        BY <2>1, ZenonT(30) DEF t5, IsReadStr
    <3> HIDE DEF r6
    <3>2. /\ r6 \in Readers
          /\ Len(r6.fields) = Len(First(T, 5)) + 1
          /\ r6.fields[Len(First(T, 5)) + 1] # hd.Sig
        BY <1>2, <1>5, <1>7, <1>13, <3>1, ReadsStrShort, ZenonT(30)
    <3> QED
        BY <1>4, <1>7, <3>2, ZenonT(30)
  <2> HIDE DEF r6
  <2>3. r9 \in Readers /\ Kept(r6, r9)
      BY <2>2, PartsKeep, ZenonT(30)
  <2> HIDE DEF r9
  <2>4. r9 # [rest |-> tail, fields |-> T, ok |-> TRUE]
      BY <1>6, <2>2, <2>3, StaysWrong, ZenonT(30)
  <2> QED
      BY <1>8, <1>13, <2>4, ZenonT(30) DEF Fits
<1> QED
    BY <1>11, <1>12, <1>13, ZenonT(30) DEF Fits

LEMMA CodecHeadersAre ==
    ASSUME NEW hd \in CodecHeader
    PROVE  IsHeader(hd)
<1>1. \A s \in CodecStr : s \in Bytes
  <2> TAKE s \in CodecStr
  <2>1. PICK n \in 0..(ByteValues + 1), b \in 0..1 : s = [i \in 1..n |-> b]
      BY DEF CodecStr
  <2>2. n \in Nat /\ b \in Nat
      BY <2>1, CodecAssumption
  <2>3. s \in [1..n -> Nat]
      BY <2>1, <2>2
  <2> QED
      BY <2>2, <2>3 DEF Bytes
<1>2. \A h \in CodecHash : IsHash(h)
  <2> SUFFICES ASSUME NEW h \in CodecHash, h # << >>
               PROVE  h \in Bytes /\ Len(h) = HashLen /\ h[1] # 0
      BY DEF IsHash
  <2>1. PICK b \in {1, ByteValues - 1} : h = [i \in 1..HashLen |-> b]
      BY DEF CodecHash
  <2>2. b \in Nat /\ b # 0 /\ HashLen \in Nat /\ 1 \in 1..HashLen
      BY <2>1, CodecAssumption
  <2>3. h \in [1..HashLen -> Nat] /\ h[1] = b
      BY <2>1, <2>2
  <2>4. h \in Bytes /\ Len(h) = HashLen
      BY <2>2, <2>3 DEF Bytes
  <2> QED
      BY <2>2, <2>3, <2>4
<1>3. Zeros(TimeLen) \in Bytes /\ Len(Zeros(TimeLen)) = TimeLen
    BY ZerosAre, CodecAssumption
<1>4. \A s \in {<< >>, <<1>>} : s \in Bytes /\ Len(s) < ByteValues
  <2>1. << >> \in Bytes /\ <<1>> \in Bytes /\ Len(<< >>) = 0 /\ Len(<<1>>) = 1
      BY DEF Bytes
  <2>2. 0 < ByteValues /\ 1 < ByteValues
      BY CodecAssumption
  <2> QED
      BY <2>1, <2>2, ZenonT(30)
<1>5. /\ hd.Type \in CodecStr /\ hd.Time = Zeros(TimeLen)
      /\ hd.HeaderLink \in CodecHash /\ hd.EntryLink \in CodecHash /\ hd.TypeLink \in CodecHash
      /\ hd.Sig \in CodecStr /\ hd.Action \in {<< >>, <<1>>} /\ hd.Hash \in CodecHash
  <2> DEFINE A == {<< >>, <<1>>}
             Z == {Zeros(TimeLen)}
             E == CodecHash \ {<< >>}
  <2> HIDE DEF A, Z, E
  <2>1. hd \in [Type : CodecStr, Time : Z, HeaderLink : CodecHash, EntryLink : E,
                TypeLink : CodecHash, Sig : CodecStr, Action : A, Hash : CodecHash]
      BY DEF CodecHeader, A, Z, E
  <2>2. /\ hd.Type \in CodecStr /\ hd.Time \in Z
        /\ hd.HeaderLink \in CodecHash /\ hd.EntryLink \in E /\ hd.TypeLink \in CodecHash
        /\ hd.Sig \in CodecStr /\ hd.Action \in A /\ hd.Hash \in CodecHash
      BY <2>1
  <2> QED
      BY <2>2, ZenonT(30) DEF A, Z, E
<1> QED
    BY <1>1, <1>2, <1>3, <1>4, <1>5, ZenonT(30) DEF IsHeader

LEMMA NoneMisread == Misread = {}
<1>1. << >> \in Bytes /\ <<0>> \in Bytes /\ <<1, 1>> \in Bytes
    BY DEF Bytes
<1> DEFINE Tails == {<< >>, <<0>>, <<1, 1>>}
<1>2. \A tail \in Tails : tail \in Bytes
    BY <1>1, ZenonT(30)
<1> HIDE DEF Tails
<1>3. ASSUME NEW hd \in CodecHeader, NEW tail \in Tails
      PROVE  ReadBack(hd, tail) = Fits(hd)
  <2>1. (UnmarshalHeader(MarshalHeader(hd) \o tail)
            = [rest |-> tail, fields |-> Fields(hd), ok |-> TRUE])
        <=> (Len(hd.Type) < ByteValues /\ Len(hd.Sig) < ByteValues)
      BY <1>2, CodecHeadersAre, ReadBackIffFits, ZenonT(30) DEF ReadBack, Fits
  <2>2. (UnmarshalHeader(MarshalHeader(hd) \o tail)
            = [rest |-> tail, fields |-> Fields(hd), ok |-> TRUE])
        = (Len(hd.Type) < ByteValues /\ Len(hd.Sig) < ByteValues)
      BY <2>1
  <2> QED
      BY <2>2, ZenonT(30) DEF ReadBack, Fits
<1> QED
    BY <1>3, ZenonT(30) DEF Misread, Tails
=============================================================================
