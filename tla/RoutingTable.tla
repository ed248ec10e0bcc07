---------------------------- MODULE RoutingTable ----------------------------
(***************************************************************************)
(* The Kademlia routing table of a node (kad_table.go, kad_bucket.go, the  *)
(* XOR metric of hash/hash.go).                                            *)
(*                                                                         *)
(* An ID is its sequence of bits, most significant first.  A table is a    *)
(* sequence of buckets, a bucket a sequence of peers, the most recently    *)
(* active first.  Bucket i (counted from 0, as in the code) is for peers   *)
(* that share i leading bits with the local ID; the last bucket takes all  *)
(* peers that share at least as many.  Every operation holds tabLock.      *)
(***************************************************************************)
EXTENDS Integers, Sequences, FiniteSets

CONSTANTS Bits,        \* length of an ID
          Self,        \* the local ID
          Peer,        \* the IDs of the other nodes
          BucketSize,  \* bucketsize, KValue in the code
          Slow         \* peers with a latency above maxLatency

ID == [1..Bits -> {0, 1}]

ASSUME TableAssumption ==
    /\ Bits \in Nat \ {0} /\ BucketSize \in Nat \ {0}
    /\ Self \in ID /\ Peer \subseteq ID \ {Self} /\ Slow \subseteq Peer

Elements(s) == {s[i] : i \in 1..Len(s)}

-----------------------------------------------------------------------------
(* The metric *)

\* The number of leading zeroes of a XOR b.
commonPrefixLen(a, b) ==
    IF a = b THEN Bits
    ELSE CHOOSE n \in 0..(Bits - 1) :
             a[n + 1] # b[n + 1] /\ \A j \in 1..n : a[j] = b[j]

\* a XOR t is less than b XOR t, as numbers.
Closer(t, a, b) ==
    \E i \in 1..Bits : /\ a[i] # b[i] /\ a[i] = t[i]
                       /\ \A j \in 1..(i - 1) : a[j] = b[j]

\* A set of peers in the order of their distance to t.
SortClosestPeers(P, t) ==
    CHOOSE s \in [1..Cardinality(P) -> P] :
        \A i, j \in 1..Cardinality(P) : i < j => Closer(t, s[i], s[j])

-----------------------------------------------------------------------------
(* Buckets *)

\* The peers of a bucket that are in S, in their order.
Kept(b, S) ==
    LET kept[i \in 0..Len(b)] == IF i = 0 THEN << >>
                                 ELSE IF b[i] \in S THEN Append(kept[i - 1], b[i])
                                                    ELSE kept[i - 1]
    IN  kept[Len(b)]

Without(b, p) == Kept(b, Peer \ {p})

\* The least active peer is kicked out.
PopBack(b) == SubSeq(b, 1, Len(b) - 1)

\* The last bucket is split n times; the peers keep their order.
SplitLast(table, n) ==
    LET l == Len(table)
        In(i, p) == LET cpl == commonPrefixLen(p, Self)
                    IN  /\ i > l => cpl > i - 2
                        /\ i < l + n => cpl <= i - 1
    IN  [i \in 1..(l + n) |->
            IF i < l THEN table[i]
            ELSE Kept(table[l], {p \in Peer : In(i, p)})]

\* Mutant of nextBucket: no peer is kicked out.
nextBucketKeepsAll(table) ==
    LET Fits(n) == Len(SplitLast(table, n)[Len(table) + n]) <= BucketSize
    IN  SplitLast(table, CHOOSE k \in 1..(Bits + 1) : Fits(k) /\ \A j \in 1..(k - 1) : ~Fits(j))

\* nextBucket splits until the new bucket fits; if the bucket that was split
\* last is then still too large it loses its last peer.
nextBucket(table) ==
    LET Fits(n) == Len(SplitLast(table, n)[Len(table) + n]) <= BucketSize
        n == CHOOSE k \in 1..(Bits + 1) : Fits(k) /\ \A j \in 1..(k - 1) : ~Fits(j)
        split == SplitLast(table, n)
        b == Len(split) - 1
    IN  [split EXCEPT ![b] = IF Len(@) > BucketSize THEN PopBack(@) ELSE @]

-----------------------------------------------------------------------------
(* The table *)

NewRoutingTable == << << >> >>

\* The index in the sequence of the bucket that p belongs to.
BucketOf(table, p) ==
    LET cpl == commonPrefixLen(p, Self)
    IN  IF cpl >= Len(table) THEN Len(table) ELSE cpl + 1

ListPeers(table) == UNION {Elements(table[i]) : i \in 1..Len(table)}

\* A known peer moves to the front.  A new one is put there unless it is slow,
\* and an overfull bucket is split if it is the last, else loses its last peer.
Update(table, p) ==
    LET i == BucketOf(table, p)
        moved == [table EXCEPT ![i] = <<p>> \o Without(@, p)]
    IN  CASE p \in Elements(table[i])             -> moved
          [] p \notin Elements(table[i]) /\ p \in Slow -> table
          [] OTHER -> IF Len(moved[i]) <= BucketSize THEN moved
                      ELSE IF i = Len(table) THEN nextBucket(moved)
                      ELSE [moved EXCEPT ![i] = PopBack(@)]

Remove(table, p) == [table EXCEPT ![BucketOf(table, p)] = Without(@, p)]

\* Mutant of Candidates: the neighbours instead of the bucket of t.
CandidatesAround(table, t, count) ==
    UNION {Elements(table[j]) : j \in 1..Len(table) \ {BucketOf(table, t)}}

\* The peers of the bucket of t, and of its two neighbours when it is short.
Candidates(table, t, count) ==
    LET i == BucketOf(table, t)
        around == {j \in {i - 1, i, i + 1} : j \in 1..Len(table)}
    IN  IF Len(table[i]) >= count THEN Elements(table[i])
        ELSE UNION {Elements(table[j]) : j \in around}

NearestPeers(table, t, count) ==
    LET sorted == SortClosestPeers(Candidates(table, t, count), t)
    IN  SubSeq(sorted, 1, IF Len(sorted) < count THEN Len(sorted) ELSE count)

\* Find: the peer itself, or no peer.
Find(table, p) ==
    LET srch == NearestPeers(table, p, 1)
    IN  IF srch # << >> /\ srch[1] = p THEN {p} ELSE {}
=============================================================================
