-------------------------- MODULE PublishReadProofs -------------------------
(***************************************************************************)
(* Proofs about what is read from the nodes of Publish, from the order     *)
(* that PublishProofs establishes.                                         *)
(*                                                                         *)
(* Following replacements ends: where changes come in turn no hash leads   *)
(* back to itself.                                                         *)
(*                                                                         *)
(* Nodes show the same of all that was never deleted.  AgreeInv says that  *)
(* each is like the author's own node or one change behind it, and which.  *)
(***************************************************************************)
EXTENDS PublishProofs, FiniteSetTheorems

-----------------------------------------------------------------------------
(* Reading *)

-----------------------------------------------------------------------------
(* Following replacements *)

Onto(s, x) == IF s.status[x] = "modified" THEN s.replacedBy[x] ELSE x

PathFcn(s, h) ==
    CHOOSE f : f = [k \in 0..Cardinality(Hash) |->
                        IF k = 0 THEN h
                        ELSE IF s.status[f[k - 1]] = "modified" THEN s.replacedBy[f[k - 1]]
                        ELSE f[k - 1]]

\* Path goes from hash to hash.
LEMMA PathIs ==
    ASSUME NEW s \in Store, NEW h0 \in Hash, \A x \in Hash : Onto(s, x) \in Hash
    PROVE  /\ Cardinality(Hash) \in Nat
           /\ Path(s, h0) \in [0..Cardinality(Hash) -> Hash]
           /\ Path(s, h0)[0] = h0
           /\ \A i \in 1..Cardinality(Hash) : Path(s, h0)[i] = Onto(s, Path(s, h0)[i - 1])
<1> DEFINE n == Cardinality(Hash)
           S == Hash
           a == h0
           Go(r) == Onto(s, r)
           step == [i \in 1..n |-> [r \in S |-> Go(r)]]
           Body(f) == [k \in 0..n |-> IF k = 0 THEN a ELSE Go(f[k - 1])]
           h == PathFcn(s, h0)
<1>1. n \in Nat
    BY ZenonT(30), FS_CardinalityType, PublishAssumption
<1>9. Path(s, h0) = h
    BY ZenonT(30) DEF Path, PathFcn
<1>10. (\E f : f = Body(f)) => h = Body(h)
    BY ZenonT(30) DEF PathFcn, Onto
<1>5. a \in S /\ \A r \in S : Go(r) \in S
    BY ZenonT(30)
<1> HIDE DEF n, h, S, a, Go
<1>2. 0 \in 0..n /\ n \in 0..n
    BY <1>1
<1>3. \A i \in 0..n : i = 0 \/ (i # 0 /\ i \in 1..n)
    BY <1>1
<1>4. \A i \in 1..n : i \in Nat /\ i # 0 /\ i \in 0..n /\ i - 1 \in 0..n
    BY <1>1
<1>6. /\ step \in [1..n -> [S -> S]]
      /\ \A i \in 1..n, r \in S : step[i][r] = Go(r)
    BY ZenonT(30), <1>5
<1> HIDE DEF step
<1>8. PICK f \in [0..n -> S] : Goes(f, a, step, n)
    BY ZenonT(30), <1>1, <1>5, <1>6, Recursion
<1>11. f[0] = a /\ \A i \in 1..n : f[i] = Go(f[i - 1])
    BY ZenonT(30), <1>4, <1>6, <1>8 DEF Goes
<1>12. f = Body(f)
    <2>1. ASSUME NEW i \in 0..n
          PROVE  f[i] = IF i = 0 THEN a ELSE Go(f[i - 1])
        BY ZenonT(30), <1>3, <1>11
    <2> QED BY ZenonT(30), <1>8, <2>1
<1>13. h = Body(h)
    BY ZenonT(30), <1>10, <1>12
<1>14. /\ h = [i \in 0..n |-> h[i]]
       /\ \A i \in 0..n : h[i] = IF i = 0 THEN a ELSE Go(h[i - 1])
    BY ZenonT(30), <1>13
<1>15. h[0] = a /\ \A i \in 1..n : h[i] = Go(h[i - 1])
    BY ZenonT(30), <1>2, <1>4, <1>14
<1>16. h \in [0..n -> S] /\ Goes(h, a, step, n)
    <2>1. \A i \in 1..n : h[i - 1] \in S => h[i] = step[i][h[i - 1]]
        BY ZenonT(30), <1>6, <1>15
    <2>2. h = [i \in 0..n |-> h[i]] /\ h[0] = a
        BY ZenonT(30), <1>14, <1>15
    <2>3. Loops(h, a, step, n, S)
        BY ZenonT(30), <2>1, <2>2 DEF Loops
    <2> QED BY ZenonT(30), <1>1, <1>5, <1>6, <2>3, OneLoop
<1> QED BY ZenonT(30), <1>1, <1>9, <1>15, <1>16 DEF S, n, a, Go

\* What is not replaced is what a get returns.
LEMMA FollowReturns ==
    ASSUME NEW s \in Store, NEW h \in Hash, Ranked(s)
    PROVE  Follow(s, h) # "nothing"
<1> DEFINE y == Path(s, h)[Cardinality(Hash)]
           x == s.status[y]
<1>1. \A g \in Hash : Onto(s, g) \in Hash
    BY ZenonT(30) DEF Ranked, Downwards, Onto
<1>2. /\ Cardinality(Hash) \in Nat
      /\ Path(s, h) \in [0..Cardinality(Hash) -> Hash]
      /\ Path(s, h)[0] = h
      /\ \A i \in 1..Cardinality(Hash) : Path(s, h)[i] = Onto(s, Path(s, h)[i - 1])
    BY <1>1, PathIs
<1>3. Cardinality(Hash) \in 0..Cardinality(Hash)
    BY <1>2
<1>4. y \in Hash
    BY ZenonT(30), <1>2, <1>3
<1>5. Follow(s, h) = IF x = "modified" THEN "loop"
                     ELSE IF x = "absent" THEN "ErrHashNotFound" ELSE StatusError[x]
    BY ZenonT(30) DEF Follow, GetErr
<1>6. x \in Statuses
    BY ZenonT(30), <1>4, StoreFields
<1> HIDE DEF x
<1>7. (IF x = "modified" THEN "loop"
       ELSE IF x = "absent" THEN "ErrHashNotFound" ELSE StatusError[x]) # "nothing"
    BY ONLY <1>6 DEF StatusError, Statuses
<1> QED BY ZenonT(30), <1>5, <1>7

\* What is not replaced is not followed; what is there leads to what is there; and
\* a path that goes on to the end comes by a hash twice, which none that leads
\* downwards does.
LEMMA FollowEnds ==
    ASSUME NEW s \in Store, NEW h \in Hash, Ranked(s), s.status[h] # "absent"
    PROVE  Follow(s, h) \in {"nil", "ErrHashRejected", "ErrHashDeleted"}
<1> DEFINE n == Cardinality(Hash)
           p == Path(s, h)
<1>1. PICK r \in [Hash -> Nat] : Downwards(s, r)
    BY ZenonT(30) DEF Ranked
<1>2. \A x \in Hash : s.status[x] = "modified" =>
        /\ s.replacedBy[x] \in Hash /\ s.status[s.replacedBy[x]] # "absent"
        /\ r[s.replacedBy[x]] < r[x]
    BY ZenonT(30), <1>1 DEF Downwards
<1>3. \A x \in Hash : Onto(s, x) \in Hash
    BY ZenonT(30), <1>2 DEF Onto
<1>4. n \in Nat /\ p \in [0..n -> Hash] /\ p[0] = h /\ \A i \in 1..n : p[i] = Onto(s, p[i - 1])
    BY ZenonT(30), <1>3, PathIs
<1>5. Follow(s, h) = IF s.status[p[n]] = "modified" THEN "loop" ELSE GetErr(s, p[n], {})
    BY ZenonT(30) DEF Follow
<1> HIDE DEF n, p
<1>6. /\ n \in 0..n /\ 0 \in 0..n
      /\ \A i \in 0..(n - 1) : i \in 0..n /\ i + 1 \in 1..n /\ i + 1 \in 0..n /\ (i + 1) - 1 = i
    BY <1>4
<1>7. \A i \in 0..(n - 1) : p[i + 1] = Onto(s, p[i]) /\ p[i] \in Hash /\ p[i + 1] \in Hash
    BY ZenonT(30), <1>4, <1>6
<1>8. \A i \in 0..n : s.status[p[i]] # "absent"
    <2> DEFINE T == {i \in 0..n : s.status[p[i]] # "absent"}
    <2>1. 0 \in T
        BY ZenonT(30), <1>4, <1>6
    <2>2. ASSUME NEW i \in 0..(n - 1), i \in T PROVE i + 1 \in T
        <3>1. s.status[p[i]] # "absent" /\ i + 1 \in 0..n
            BY ZenonT(30), <1>6, <2>2
        <3>2. s.status[p[i + 1]] # "absent"
            BY ZenonT(30), <1>2, <1>7, <3>1 DEF Onto
        <3> QED BY ZenonT(30), <3>1, <3>2
    <2> HIDE DEF T
    <2>3. \A i \in 0..n : i \in T
        BY ZenonT(30), <1>4, <2>1, <2>2, Counting
    <2> QED BY ZenonT(30), <2>3 DEF T
<1>9. s.status[p[n]] # "modified"
    <2> SUFFICES ASSUME s.status[p[n]] = "modified" PROVE FALSE
        OBVIOUS
    \* Had the path ended before, it would have ended where it is.
    <2>1. ASSUME NEW k \in 0..n PROVE s.status[p[k]] = "modified"
        <3> SUFFICES ASSUME s.status[p[k]] # "modified" PROVE FALSE
            OBVIOUS
        <3> DEFINE T == {i \in 0..n : i >= k => p[i] = p[k]}
        <3>1. 0 \in T
            <4>1. 0 >= k => 0 = k
                BY <1>4
            <4> QED BY ZenonT(30), <1>6, <4>1
        <3>2. ASSUME NEW i \in 0..(n - 1), i \in T PROVE i + 1 \in T
            <4>1. i + 1 >= k => i >= k \/ i + 1 = k
                BY <1>4
            <4>2. ASSUME i + 1 >= k PROVE p[i + 1] = p[k]
                <5>1. CASE i + 1 = k
                    BY ZenonT(30), <5>1
                <5>2. CASE i >= k
                    <6>1. p[i] = p[k]
                        BY ZenonT(30), <3>2, <5>2
                    <6> QED BY ZenonT(30), <1>7, <6>1 DEF Onto
                <5> QED BY ZenonT(30), <4>1, <4>2, <5>1, <5>2
            <4> QED BY ZenonT(30), <1>6, <4>2
        <3> HIDE DEF T
        <3>3. \A i \in 0..n : i \in T
            BY ZenonT(30), <1>4, <3>1, <3>2, Counting
        <3>4. n >= k
            BY <1>4
        <3> QED BY ZenonT(30), <1>6, <3>3, <3>4 DEF T
    <2>2. \A i \in 0..(n - 1) : r[p[i + 1]] < r[p[i]]
        BY ZenonT(30), <1>2, <1>6, <1>7, <2>1 DEF Onto
    <2>3. \A i \in 0..n : r[p[i]] \in Nat
        BY ZenonT(30), <1>4
    <2>4. ASSUME NEW k \in 0..n, NEW l \in 0..n, k < l PROVE r[p[l]] < r[p[k]]
        <3> DEFINE T == {i \in 0..n : k < i => r[p[i]] < r[p[k]]}
        <3>1. 0 \in T
            <4>1. ~(k < 0)
                BY <1>4
            <4> QED BY ZenonT(30), <1>6, <4>1
        <3>2. ASSUME NEW i \in 0..(n - 1), i \in T PROVE i + 1 \in T
            <4>1. k < i + 1 => k < i \/ i = k
                BY <1>4
            <4>2. ASSUME k < i + 1 PROVE r[p[i + 1]] < r[p[k]]
                <5> DEFINE a == r[p[i + 1]]
                           b == r[p[i]]
                           c == r[p[k]]
                <5>1. a \in Nat /\ b \in Nat /\ c \in Nat /\ a < b
                    BY ZenonT(30), <1>6, <2>2, <2>3
                <5>2. b < c \/ b = c
                    BY ZenonT(30), <3>2, <4>1, <4>2
                <5> HIDE DEF a, b, c
                <5>3. a < c
                    BY <5>1, <5>2
                <5> QED BY ZenonT(30), <5>3 DEF a, c
            <4> QED BY ZenonT(30), <1>6, <4>2
        <3> HIDE DEF T
        <3>3. \A i \in 0..n : i \in T
            BY ZenonT(30), <1>4, <3>1, <3>2, Counting
        <3> QED BY ZenonT(30), <2>4, <3>3 DEF T
    <2>5. \E k, l \in 0..n : k # l /\ p[k] = p[l]
        <3> DEFINE S == 0..n
        <3>1. IsFiniteSet(0..n) /\ Cardinality(0..n) = n + 1
            <4>1. n \in Nat
                BY ZenonT(30), <1>4
            <4>2. 0 \in Int /\ n \in Int /\ ~(0 > n) /\ (n - 0) + 1 = n + 1
                BY ONLY <4>1
            <4>3. IsFiniteSet(0..n) /\ Cardinality(0..n) = IF 0 > n THEN 0 ELSE (n - 0) + 1
                BY ZenonT(30), <4>2, FS_Interval
            <4> QED BY ZenonT(30), <4>2, <4>3
        <3>a. n < n + 1
            BY ONLY <1>4
        <3>2. n < n + 1 /\ IsFiniteSet(Hash) /\ Cardinality(Hash) = n
            BY ZenonT(30), <3>a, PublishAssumption DEF n
        <3>3. IsFiniteSet(S) /\ Cardinality(Hash) < Cardinality(S) /\ p \in [S -> Hash]
            BY ZenonT(30), <1>4, <3>1, <3>2
        <3> HIDE DEF S
        <3>4. \E k, l \in S : k # l /\ p[k] = p[l]
            <4>1. IsFiniteSet(S) /\ IsFiniteSet(Hash) /\ Cardinality(Hash) < Cardinality(S)
                BY ZenonT(30), <3>2, <3>3
            <4>2. p \in [S -> Hash]
                BY ZenonT(30), <3>3
            <4> QED BY ONLY <4>1, <4>2, FS_PigeonHole
        <3> QED BY ZenonT(30), <3>4 DEF S
    <2>6. PICK k \in 0..n, l \in 0..n : k # l /\ p[k] = p[l]
        BY ZenonT(30), <2>5
    <2>7. k < l \/ l < k
        BY <1>4, <2>6
    <2>8. ~(r[p[k]] < r[p[k]])
        BY <2>3
    <2> QED BY ZenonT(30), <2>4, <2>6, <2>7, <2>8
<1>10. p[n] \in Hash /\ s.status[p[n]] \in Statuses
    BY ZenonT(30), <1>4, <1>6, StoreFields
<1> DEFINE x == s.status[p[n]]
<1>11. Follow(s, h) = StatusError[x] /\ x \in Statuses /\ x # "absent" /\ x # "modified"
    BY ZenonT(30), <1>5, <1>6, <1>8, <1>9, <1>10 DEF GetErr
<1> HIDE DEF x
<1>12. StatusError[x] \in {"nil", "ErrHashRejected", "ErrHashDeleted"}
    BY ONLY <1>11 DEF StatusError, Statuses
<1> QED BY ZenonT(30), <1>11, <1>12

\* The invariants have the property.
LEMMA ReadsWell ==
    ASSUME HInv, OrderInv
    PROVE  AuthorReads
<1>1. dht \in [Peer -> Store] /\ Author \in Peer
    BY ZenonT(30), HInvIs, PublishAssumption
<1>2. \A n \in Peer : Smooth(n) => Ranked(dht[n])
    BY ZenonT(30) DEF OrderInv, Ordered
<1>3. ASSUME NEW n \in Peer, Smooth(n), NEW h \in Hash, dht[n].status[h] # "absent"
      PROVE  Follow(dht[n], h) \in {"nil", "ErrHashRejected", "ErrHashDeleted"}
    BY ZenonT(30), <1>1, <1>2, <1>3, FollowEnds
<1>4. /\ "modified" # "absent" /\ "nothing" \notin {"nil", "ErrHashRejected", "ErrHashDeleted"}
      /\ \A x : x \in {"nil", "ErrHashRejected", "ErrHashDeleted"} => x \notin {"loop", "ErrHashNotFound"}
    OBVIOUS
<1>5. ReplacementKnown
    <2> SUFFICES ASSUME faults = 0, OneCaller, NEW n \in Peer, NEW h \in Hash, Get(n, h) = "nothing"
                 PROVE  Follow(dht[n], h) \in {"ErrHashRejected", "ErrHashDeleted"}
        BY ZenonT(30) DEF ReplacementKnown
    <2>1. Smooth(n)
        BY ZenonT(30) DEF Smooth, OrderInv
    <2> DEFINE f == Follow(dht[n], h)
    <2>2. Get(n, h) = IF dht[n].status[h] = "modified" /\ f # "nil" THEN "nothing" ELSE f
        BY ZenonT(30) DEF Get
    <2> HIDE DEF f
    <2>3. CASE dht[n].status[h] = "absent"
        <3>1. f # "nothing"
            BY ZenonT(30), <1>1, <1>2, <2>1, FollowReturns DEF f
        <3> QED BY ZenonT(30), <1>4, <2>2, <2>3, <3>1
    <2>4. CASE dht[n].status[h] # "absent"
        <3>1. f \in {"nil", "ErrHashRejected", "ErrHashDeleted"}
            BY ZenonT(30), <1>3, <2>1, <2>4 DEF f
        <3>2. f \in {"ErrHashRejected", "ErrHashDeleted"}
            BY <2>2, <3>1
        <3> QED BY ZenonT(30), <3>2 DEF f
    <2> QED BY ZenonT(30), <2>3, <2>4
<1>6. ASSUME OneCaller, "cutShort" \notin mishaps, NEW h \in Hash, dht[Author].status[h] # "absent"
      PROVE  Follow(dht[Author], h) \notin {"loop", "ErrHashNotFound"}
    <2>1. Smooth(Author)
        BY ZenonT(30), <1>6 DEF Smooth
    <2> QED BY ZenonT(30), <1>1, <1>3, <1>4, <1>6, <2>1
<1> QED BY ZenonT(30), <1>5, <1>6 DEF AuthorReads

\* While the author makes one call at a time, and no call is cut short, a get on
\* its own node of any entry in its DHT ends, at an entry, however often entries
\* were replaced, back and forth; and where nothing fails a get on any node returns
\* an answer unless the last replacement was rejected or deleted.
THEOREM ReadsEnd == Spec => []AuthorReads
BY OrderInvariant, ReadsWell, PTL

-----------------------------------------------------------------------------
(* All nodes alike *)

Quiet == OneCaller /\ faults = 0 /\ mishaps = {}

Undeleted(ch, h) == \A e \in Hash : ~As(ch, "del", e, h)

IsLink(ev, base, l, tag) == ev.Base = base /\ ev.Link = l /\ ev.Tag = tag

\* The last event of a link is that it was added.
Shown(s, base, l, tag) ==
    \E j \in DOMAIN s.links :
        /\ IsLink(s.links[j], base, l, tag) /\ s.links[j].Status = "live"
        /\ \A k \in DOMAIN s.links : k > j => ~IsLink(s.links[k], base, l, tag)

\* Two stores are alike as to h.
Alike(s, t, h) ==
    /\ s.status[h] = t.status[h] /\ s.replacedBy[h] = t.replacedBy[h]
    /\ \A l \in Hash, tag \in Tag :
          /\ LinkExists(s, h, l, tag) <=> LinkExists(t, h, l, tag)
          /\ Shown(s, h, l, tag) <=> Shown(t, h, l, tag)

-----------------------------------------------------------------------------
(* Links, event by event *)

\* One more event decides whether its link is there and is shown.
LEMMA EventShown ==
    ASSUME NEW s \in Store, NEW r \in Store, NEW ev \in LinkEvent,
           r.links = Append(s.links, ev), NEW base, NEW l, NEW tag
    PROVE  /\ LinkExists(r, base, l, tag) <=> LinkExists(s, base, l, tag) \/ IsLink(ev, base, l, tag)
           /\ IsLink(ev, base, l, tag) => (Shown(r, base, l, tag) <=> ev.Status = "live")
           /\ ~IsLink(ev, base, l, tag) => (Shown(r, base, l, tag) <=> Shown(s, base, l, tag))
<1> DEFINE q == s.links
           w == r.links
           L(e) == IsLink(e, base, l, tag)
           Alive(e) == e.Status = "live"
           z == Len(q) + 1
<1>1. q \in Seq(LinkEvent) /\ w = Append(q, ev)
    BY ZenonT(30) DEF Store
<1>2. LinkExists(r, base, l, tag) <=> \E i \in DOMAIN w : L(w[i])
    BY ZenonT(30) DEF LinkExists, IsLink
<1>3. LinkExists(s, base, l, tag) <=> \E i \in DOMAIN q : L(q[i])
    BY ZenonT(30) DEF LinkExists, IsLink
<1>4. Shown(r, base, l, tag) <=>
          \E j \in DOMAIN w : L(w[j]) /\ Alive(w[j]) /\ \A k \in DOMAIN w : k > j => ~L(w[k])
    BY ZenonT(30) DEF Shown
<1>5. Shown(s, base, l, tag) <=>
          \E j \in DOMAIN q : L(q[j]) /\ Alive(q[j]) /\ \A k \in DOMAIN q : k > j => ~L(q[k])
    BY ZenonT(30) DEF Shown
<1>6. /\ DOMAIN w = DOMAIN q \cup {z} /\ z \notin DOMAIN q /\ w[z] = ev
      /\ \A i \in DOMAIN q : w[i] = q[i] /\ z > i /\ ~(i > z)
      /\ ~(z > z)
    <2> HIDE DEF q, w
    <2>1. /\ Append(q, ev) \in Seq(LinkEvent)
          /\ Len(Append(q, ev)) = Len(q) + 1
          /\ DOMAIN Append(q, ev) = DOMAIN q \cup {Len(q) + 1}
          /\ Len(q) + 1 \notin DOMAIN q
          /\ Append(q, ev)[Len(q) + 1] = ev
          /\ \A i \in DOMAIN q : i \in Nat /\ i <= Len(q) /\ Append(q, ev)[i] = q[i]
        BY <1>1, AppendElements
    <2>2. Len(q) \in Nat
        BY <1>1
    <2> HIDE DEF z
    <2>3. z = Len(q) + 1
        BY ZenonT(30) DEF z
    <2>4. \A i \in DOMAIN q : z > i /\ ~(i > z)
        BY <2>1, <2>2, <2>3
    <2>5. ~(z > z)
        BY <2>2, <2>3
    <2> QED BY ZenonT(30), <1>1, <2>1, <2>3, <2>4, <2>5
<1> HIDE DEF q, w, L, Alive, z
<1>7. LinkExists(r, base, l, tag) <=> LinkExists(s, base, l, tag) \/ L(ev)
    BY ZenonT(30), <1>2, <1>3, <1>6
<1>8. ASSUME L(ev) PROVE Shown(r, base, l, tag) <=> Alive(ev)
    BY ZenonT(30), <1>4, <1>6, <1>8
<1>9. ASSUME ~L(ev) PROVE Shown(r, base, l, tag) <=> Shown(s, base, l, tag)
    <2>1. ASSUME Shown(r, base, l, tag) PROVE Shown(s, base, l, tag)
        BY ZenonT(30), <1>4, <1>5, <1>6, <1>9, <2>1
    <2>2. ASSUME Shown(s, base, l, tag) PROVE Shown(r, base, l, tag)
        BY ZenonT(30), <1>4, <1>5, <1>6, <1>9, <2>2
    <2> QED BY ZenonT(30), <2>1, <2>2
<1> QED BY ZenonT(30), <1>7, <1>8, <1>9 DEF L, Alive

\* Stores that differ by nothing of h's.
LEMMA AlikeSame ==
    ASSUME NEW s, NEW r, NEW h, r.status[h] = s.status[h], r.replacedBy[h] = s.replacedBy[h],
           r.links = s.links
    PROVE  Alike(s, r, h)
BY ZenonT(30) DEF Alike, LinkExists, Shown

\* Being alike is symmetric and transitive.
LEMMA AlikeTwo ==
    ASSUME NEW s, NEW t, NEW u, NEW h, Alike(s, t, h)
    PROVE  /\ Alike(t, s, h)
           /\ Alike(t, u, h) => Alike(s, u, h)
BY ZenonT(30) DEF Alike

\* An event of another link, or of no application's.
LEMMA AlikeAside ==
    ASSUME NEW s \in Store, NEW r \in Store, NEW h, NEW ev \in LinkEvent,
           r.status[h] = s.status[h], r.replacedBy[h] = s.replacedBy[h],
           r.links = Append(s.links, ev), ev.Base # h \/ ev.Tag \notin Tag
    PROVE  Alike(s, r, h)
<1>1. ASSUME NEW l \in Hash, NEW tag \in Tag
      PROVE  /\ LinkExists(s, h, l, tag) <=> LinkExists(r, h, l, tag)
             /\ Shown(s, h, l, tag) <=> Shown(r, h, l, tag)
    <2>1. ~IsLink(ev, h, l, tag)
        BY ZenonT(30) DEF IsLink
    <2>2. /\ LinkExists(r, h, l, tag) <=> LinkExists(s, h, l, tag) \/ IsLink(ev, h, l, tag)
          /\ IsLink(ev, h, l, tag) => (Shown(r, h, l, tag) <=> ev.Status = "live")
          /\ ~IsLink(ev, h, l, tag) => (Shown(r, h, l, tag) <=> Shown(s, h, l, tag))
        BY ZenonT(30), EventShown
    <2> QED BY ZenonT(30), <2>1, <2>2
<1> QED BY ZenonT(30), <1>1 DEF Alike

\* The same event, and the same to the entry.
LEMMA AlikeBoth ==
    ASSUME NEW s \in Store, NEW r \in Store, NEW t \in Store, NEW u \in Store, NEW h,
           NEW ev \in LinkEvent, Alike(s, t, h),
           r.status[h] = u.status[h], r.replacedBy[h] = u.replacedBy[h],
           r.links = Append(s.links, ev), u.links = Append(t.links, ev)
    PROVE  Alike(r, u, h)
<1>1. ASSUME NEW l \in Hash, NEW tag \in Tag
      PROVE  /\ LinkExists(r, h, l, tag) <=> LinkExists(u, h, l, tag)
             /\ Shown(r, h, l, tag) <=> Shown(u, h, l, tag)
    <2>1. /\ LinkExists(r, h, l, tag) <=> LinkExists(s, h, l, tag) \/ IsLink(ev, h, l, tag)
          /\ IsLink(ev, h, l, tag) => (Shown(r, h, l, tag) <=> ev.Status = "live")
          /\ ~IsLink(ev, h, l, tag) => (Shown(r, h, l, tag) <=> Shown(s, h, l, tag))
        BY ZenonT(30), EventShown
    <2>2. /\ LinkExists(u, h, l, tag) <=> LinkExists(t, h, l, tag) \/ IsLink(ev, h, l, tag)
          /\ IsLink(ev, h, l, tag) => (Shown(u, h, l, tag) <=> ev.Status = "live")
          /\ ~IsLink(ev, h, l, tag) => (Shown(u, h, l, tag) <=> Shown(t, h, l, tag))
        BY ZenonT(30), EventShown
    <2>3. /\ LinkExists(s, h, l, tag) <=> LinkExists(t, h, l, tag)
          /\ Shown(s, h, l, tag) <=> Shown(t, h, l, tag)
        BY ZenonT(30) DEF Alike
    <2> QED BY ZenonT(30), <2>1, <2>2, <2>3
<1> QED BY ZenonT(30), <1>1 DEF Alike

\* The links of one base do not show at another.
LEMMA LinkAside ==
    ASSUME NEW s \in Store, NEW r, NEW m \in Message, LinkMade(s, r, m), NEW h, h # m.H
    PROVE  Alike(s, r, h)
<1> DEFINE links == LinksEntry[m.E]
           n == Len(links)
<1>1. PICK f : Linked(f, s, m, links) /\ r = f[n]
    BY ZenonT(30) DEF LinkMade
<1>2. links \in Seq(Link)
    BY ZenonT(30), MessageFields
<1> HIDE DEF links
<1>3. n \in Nat /\ \A k \in 1..n : links[k] \in Link
    BY <1>2
<1>4. f \in [0..n -> Store] /\ f[0] = s /\ \A k \in 1..n : f[k] = Round(f[k - 1], m, links[k])
    BY ZenonT(30), <1>1 DEF Linked
<1> HIDE DEF n
<1> DEFINE T == {k \in 0..n : Alike(s, f[k], h)}
<1>5. 0 \in T
    <2>1. 0 \in 0..n
        BY <1>3
    <2> QED BY ZenonT(30), <1>4, <2>1 DEF Alike
<1>6. ASSUME NEW k \in 0..(n - 1), k \in T PROVE k + 1 \in T
    <2>1. k \in 0..n /\ k + 1 \in 1..n /\ k + 1 \in 0..n /\ (k + 1) - 1 = k
        BY <1>3
    <2>2. f[k] \in Store /\ f[k + 1] = Round(f[k], m, links[k + 1]) /\ links[k + 1] \in Link
        BY ZenonT(30), <1>3, <1>4, <2>1
    <2> DEFINE x == f[k]
               l == links[k + 1]
               y == Round(x, m, l)
               ev == EventOf(m, l)
    <2> HIDE DEF x, l
    <2>3. /\ ev \in LinkEvent /\ y \in Store /\ y.status = x.status /\ y.replacedBy = x.replacedBy
          /\ Stores(x, m, l) => y.links = Append(x.links, ev)
          /\ ~Stores(x, m, l) => y = x
        BY ZenonT(30), <2>2, RoundEffect DEF x, l
    <2>4. ev.Base = l.Base
        BY ZenonT(30) DEF EventOf
    <2> HIDE DEF y, ev
    <2>5. Alike(x, y, h)
        <3>1. CASE Stores(x, m, l)
            <4>1. ev.Base # h
                BY ZenonT(30), <2>4, <3>1 DEF Stores
            <4>2. x \in Store
                BY ZenonT(30), <2>2 DEF x
            <4> QED BY ZenonT(30), <2>3, <3>1, <4>1, <4>2, AlikeAside
        <3>2. CASE ~Stores(x, m, l)
            BY ZenonT(30), <2>3, <3>2 DEF Alike
        <3> QED BY ZenonT(30), <3>1, <3>2
    <2>6. Alike(s, x, h)
        BY ZenonT(30), <1>6 DEF x
    <2>7. Alike(s, y, h)
        BY ZenonT(30), <2>5, <2>6, AlikeTwo
    <2> QED BY ZenonT(30), <2>1, <2>2, <2>7 DEF x, y, l
<1> HIDE DEF T
<1>7. n \in T
    <2>1. n \in 0..n
        BY <1>3
    <2> QED BY ZenonT(30), <1>3, <1>5, <1>6, <2>1, Counting
<1> QED BY ZenonT(30), <1>1, <1>7 DEF T

\* Two nodes alike as to a base stay alike when both store the links of an entry.
LEMMA LinkBoth ==
    ASSUME NEW s \in Store, NEW t \in Store, NEW r, NEW u, NEW m \in Message,
           LinkMade(s, r, m), LinkMade(t, u, m), Alike(s, t, m.H)
    PROVE  Alike(r, u, m.H)
<1> DEFINE links == LinksEntry[m.E]
           n == Len(links)
           h == m.H
<1>1. /\ \E f : Linked(f, s, m, links) /\ r = f[n]
      /\ \E f : Linked(f, t, m, links) /\ u = f[n]
    BY ZenonT(30) DEF LinkMade
<1>2. links \in Seq(Link)
    BY ZenonT(30), MessageFields
<1> HIDE DEF links
<1>3. n \in Nat /\ \A k \in 1..n : links[k] \in Link
    BY <1>2
<1> HIDE DEF h
<1>a. PICK f : Linked(f, s, m, links) /\ r = f[n]
    BY ZenonT(30), <1>1
<1>b. PICK g : Linked(g, t, m, links) /\ u = g[n]
    BY ZenonT(30), <1>1
<1>4. /\ f \in [0..n -> Store] /\ f[0] = s /\ \A k \in 1..n : f[k] = Round(f[k - 1], m, links[k])
      /\ g \in [0..n -> Store] /\ g[0] = t /\ \A k \in 1..n : g[k] = Round(g[k - 1], m, links[k])
    BY ZenonT(30), <1>a, <1>b DEF Linked
<1> HIDE DEF n
<1> DEFINE T == {k \in 0..n : Alike(f[k], g[k], h)}
<1>5. 0 \in T
    <2>1. 0 \in 0..n
        BY <1>3
    <2> QED BY ZenonT(30), <1>4, <2>1 DEF h
<1>6. ASSUME NEW k \in 0..(n - 1), k \in T PROVE k + 1 \in T
    <2>1. k \in 0..n /\ k + 1 \in 1..n /\ k + 1 \in 0..n /\ (k + 1) - 1 = k
        BY <1>3
    <2>2. /\ f[k] \in Store /\ f[k + 1] = Round(f[k], m, links[k + 1]) /\ links[k + 1] \in Link
          /\ g[k] \in Store /\ g[k + 1] = Round(g[k], m, links[k + 1])
        BY ZenonT(30), <1>3, <1>4, <2>1
    <2> DEFINE x == f[k]
               a == g[k]
               l == links[k + 1]
               y == Round(x, m, l)
               b == Round(a, m, l)
               ev == EventOf(m, l)
    <2>0. x \in Store /\ a \in Store /\ l \in Link /\ Alike(x, a, h)
        BY ZenonT(30), <1>6, <2>2
    <2> HIDE DEF x, l, a
    <2>3. /\ ev \in LinkEvent /\ y \in Store /\ y.status = x.status /\ y.replacedBy = x.replacedBy
          /\ Stores(x, m, l) => y.links = Append(x.links, ev)
          /\ ~Stores(x, m, l) => y = x
        BY ZenonT(30), <2>0, RoundEffect
    <2>4. /\ b \in Store /\ b.status = a.status /\ b.replacedBy = a.replacedBy
          /\ Stores(a, m, l) => b.links = Append(a.links, ev)
          /\ ~Stores(a, m, l) => b = a
        BY ZenonT(30), <2>0, RoundEffect
    <2>5. Stores(x, m, l) <=> Stores(a, m, l)
        <3>1. l.Link \in Hash /\ l.Tag \in Tag
            BY ZenonT(30), <2>0 DEF Link
        <3>2. x.status[h] = a.status[h] /\ (LinkExists(x, h, l.Link, l.Tag) <=> LinkExists(a, h, l.Link, l.Tag))
            BY ZenonT(30), <2>0, <3>1 DEF Alike
        <3> QED BY ZenonT(30), <3>2 DEF Stores, h
    <2> HIDE DEF y, ev, b
    <2>6. Alike(y, b, h)
        <3>1. CASE Stores(x, m, l)
            <4>1. y.status[h] = b.status[h] /\ y.replacedBy[h] = b.replacedBy[h]
                BY ZenonT(30), <2>0, <2>3, <2>4 DEF Alike
            <4> QED BY ZenonT(30), <2>0, <2>3, <2>4, <2>5, <3>1, <4>1, AlikeBoth
        <3>2. CASE ~Stores(x, m, l)
            BY ZenonT(30), <2>0, <2>3, <2>4, <2>5, <3>2
        <3> QED BY ZenonT(30), <3>1, <3>2
    <2> QED BY ZenonT(30), <2>1, <2>2, <2>6 DEF x, y, l, a, b
<1> HIDE DEF T
<1>7. n \in T
    <2>1. n \in 0..n
        BY <1>3
    <2> QED BY ZenonT(30), <1>3, <1>5, <1>6, <2>1, Counting
<1> QED BY ZenonT(30), <1>a, <1>b, <1>7 DEF T, h

-----------------------------------------------------------------------------
(* The same change on two nodes *)

\* The author's answer lets a node carry m out, unless m is a deletion: which
\* node it is makes no difference.
Passes(ch, m) ==
    /\ On(ch, m.E) /\ EntryDef[m.E].Name # "dna"
    /\ m.Type = "MOD_REQUEST" => ModValid(m.E, m.H)
    /\ m.Type = "LINK_REQUEST" => LinkValid(m.E)

GivenStatus(m) == IF sysValidateEntry(m.E) /\ m.E \notin Unwanted THEN "live" ELSE "rejected"

\* m turns s into r.
Turns(ch, s, r, m) ==
    /\ m.Type = "PUT_REQUEST" => IF Passes(ch, m) THEN PutMade(s, r, m, GivenStatus(m)) ELSE r = s
    /\ m.Type = "MOD_REQUEST" =>
          IF Passes(ch, m) /\ s.status[m.H] = "live" THEN ModMade(s, r, m) ELSE r = s
    /\ m.Type = "DEL_REQUEST" => r = s \/ DelMade(s, r, m)
    /\ m.Type = "LINK_REQUEST" =>
          IF Passes(ch, m) /\ s.status[m.H] = "live" THEN LinkMade(s, r, m) ELSE r = s

\* Which node validates makes no difference, but for a deletion.
LEMMA ValidPasses ==
    ASSUME NEW n, NEW m \in Message, m.Type # "DEL_REQUEST"
    PROVE  Valid(n, m) <=> Passes(chain, m)
<1>1. m.Type \in {"PUT_REQUEST", "MOD_REQUEST", "LINK_REQUEST"}
    <2>1. m.Type \in {"PUT_REQUEST", "MOD_REQUEST", "DEL_REQUEST", "LINK_REQUEST"}
        BY ZenonT(30), MessageFields
    <2> QED BY <2>1
<1>2. OnChain(m.E) <=> On(chain, m.E)
    BY ZenonT(30) DEF On, OnChain
<1>3. CASE m.Type = "PUT_REQUEST"
    <2>1. /\ ActionOf[m.Type] = "put" /\ "put" # "link" /\ m.Type # "MOD_REQUEST" /\ m.Type # "LINK_REQUEST"
        BY <1>3 DEF ActionOf
    <2> QED BY ZenonT(30), <1>2, <1>3, <2>1 DEF Valid, Passes, GetValidationResponse
<1>4. CASE m.Type = "MOD_REQUEST"
    <2>1. /\ ActionOf[m.Type] = "mod" /\ "mod" # "link" /\ m.Type # "PUT_REQUEST" /\ m.Type # "LINK_REQUEST"
        BY <1>4 DEF ActionOf
    <2>2. ValidateAction(n, "mod", m.E, m.H) <=> ModValid(m.E, m.H)
        BY DEF ValidateAction
    <2> QED BY ZenonT(30), <1>2, <1>4, <2>1, <2>2 DEF Valid, Passes, GetValidationResponse
<1>5. CASE m.Type = "LINK_REQUEST"
    <2>1. /\ ActionOf[m.Type] = "link" /\ m.Type # "PUT_REQUEST" /\ m.Type # "MOD_REQUEST"
        BY <1>5 DEF ActionOf
    <2>2. ValidateAction(n, "link", m.E, m.H) <=> LinkValid(m.E)
        BY DEF ValidateAction
    <2> QED BY ZenonT(30), <1>2, <1>5, <2>1, <2>2 DEF Valid, Passes, GetValidationResponse, LinkValid
<1> QED BY ZenonT(30), <1>1, <1>3, <1>4, <1>5

\* What the validation phase makes of a store.
LEMMA PhaseTurns ==
    ASSUME NEW n \in Peer, NEW m \in Message, dht[n] \in Store,
           m.Type = "PUT_REQUEST" \/ dht[n].status[m.H] = "live"
    PROVE  Turns(chain, dht[n], RunValidationPhase(n, m), m)
<1> DEFINE s == dht[n]
           r == RunValidationPhase(n, m)
<1>1. m.Type \in {"PUT_REQUEST", "MOD_REQUEST", "DEL_REQUEST", "LINK_REQUEST"}
    BY ZenonT(30), MessageFields
<1>2. ~Valid(n, m) => r = s
    BY ZenonT(30), InvalidPhase
<1>3. CASE m.Type = "PUT_REQUEST"
    <2>1. /\ m.Type # "MOD_REQUEST" /\ m.Type # "LINK_REQUEST" /\ m.Type # "DEL_REQUEST"
        BY <1>3
    <2>2. ValidateAction(n, "put", m.E, m.H) <=> sysValidateEntry(m.E) /\ m.E \notin Unwanted
        BY DEF ValidateAction
    <2>3. PutStatus(n, m) = GivenStatus(m)
        BY ZenonT(30), <2>2 DEF PutStatus, GivenStatus
    <2>4. Valid(n, m) => PutMade(s, r, m, GivenStatus(m))
        BY ZenonT(30), <1>3, <2>3, PutPhase
    <2>5. Valid(n, m) <=> Passes(chain, m)
        BY ZenonT(30), <2>1, ValidPasses
    <2> HIDE DEF s, r
    <2>6. Turns(chain, s, r, m)
        BY ZenonT(30), <1>2, <2>1, <2>4, <2>5 DEF Turns
    <2> QED BY ZenonT(30), <2>6 DEF s, r
<1>4. CASE m.Type = "MOD_REQUEST"
    <2>1. /\ m.Type # "PUT_REQUEST" /\ m.Type # "LINK_REQUEST" /\ m.Type # "DEL_REQUEST"
          /\ "live" # "absent"
        BY <1>4
    <2>4. Valid(n, m) => ModMade(s, r, m)
        BY ZenonT(30), <1>4, <2>1, ModPhase
    <2>5. Valid(n, m) <=> Passes(chain, m)
        BY ZenonT(30), <2>1, ValidPasses
    <2> HIDE DEF s, r
    <2>6. Turns(chain, s, r, m)
        BY ZenonT(30), <1>2, <2>1, <2>4, <2>5 DEF Turns, s
    <2> QED BY ZenonT(30), <2>6 DEF s, r
<1>5. CASE m.Type = "DEL_REQUEST"
    <2>1. /\ m.Type # "PUT_REQUEST" /\ m.Type # "LINK_REQUEST" /\ m.Type # "MOD_REQUEST"
          /\ "live" # "absent"
        BY <1>5
    <2>4. Valid(n, m) => DelMade(s, r, m)
        BY ZenonT(30), <1>5, <2>1, DelPhase
    <2> HIDE DEF s, r
    <2>6. Turns(chain, s, r, m)
        BY ZenonT(30), <1>2, <2>1, <2>4 DEF Turns
    <2> QED BY ZenonT(30), <2>6 DEF s, r
<1>6. CASE m.Type = "LINK_REQUEST"
    <2>1. /\ m.Type # "PUT_REQUEST" /\ m.Type # "MOD_REQUEST" /\ m.Type # "DEL_REQUEST"
        BY <1>6
    <2>4. Valid(n, m) => LinkMade(s, r, m)
        BY ZenonT(30), <1>6, LinkPhase
    <2>5. Valid(n, m) <=> Passes(chain, m)
        BY ZenonT(30), <2>1, ValidPasses
    <2> HIDE DEF s, r
    <2>6. Turns(chain, s, r, m)
        BY ZenonT(30), <1>2, <2>1, <2>4, <2>5 DEF Turns, s
    <2> QED BY ZenonT(30), <2>6 DEF s, r
<1> QED BY ZenonT(30), <1>1, <1>3, <1>4, <1>5, <1>6

\* Two nodes alike as to an entry that was never deleted stay alike when both
\* receive m.
LEMMA BothTurn ==
    ASSUME NEW ch, NEW s \in Store, NEW t \in Store, NEW r \in Store, NEW u \in Store,
           NEW m \in Message, Backed(ch, m), NEW h \in Hash, Undeleted(ch, h),
           Alike(s, t, h), Turns(ch, s, r, m), Turns(ch, t, u, m)
    PROVE  Alike(r, u, h)
<1>1. /\ m.Type \in {"PUT_REQUEST", "MOD_REQUEST", "DEL_REQUEST", "LINK_REQUEST"}
      /\ m.H \in Hash /\ m.E \in Hash /\ m.From \in Peer
    BY ZenonT(30), MessageFields
<1>2. s.status \in [Hash -> Statuses] /\ s.replacedBy \in [Hash -> Hash \cup {NoHash}]
    BY ZenonT(30) DEF Store
<1>3. t.status \in [Hash -> Statuses] /\ t.replacedBy \in [Hash -> Hash \cup {NoHash}]
    BY ZenonT(30) DEF Store
<1> DEFINE ev == ModEvent(m)
<1>4. ev \in LinkEvent /\ ev.Tag \notin Tag
    BY ZenonT(30), <1>1, PublishAssumption DEF ModEvent, LinkEvent
<1> HIDE DEF ev
<1>5. ASSUME h # m.H, NEW x \in Store, NEW y \in Store, Turns(ch, x, y, m) PROVE Alike(x, y, h)
    <2>0. x.status \in [Hash -> Statuses] /\ x.replacedBy \in [Hash -> Hash \cup {NoHash}]
        BY ZenonT(30) DEF Store
    <2>1. CASE y = x
        BY ZenonT(30), <2>1 DEF Alike
    <2>2. CASE PutMade(x, y, m, GivenStatus(m)) \/ DelMade(x, y, m)
        <3>1. y.status[h] = x.status[h] /\ y.replacedBy[h] = x.replacedBy[h] /\ y.links = x.links
            BY ZenonT(30), <1>5, <2>0, <2>2 DEF PutMade, DelMade
        <3> QED BY ZenonT(30), <3>1, AlikeSame
    <2>3. CASE ModMade(x, y, m)
        <3>1. y.status[h] = x.status[h] /\ y.replacedBy[h] = x.replacedBy[h] /\ y.links = Append(x.links, ev)
            BY ZenonT(30), <1>5, <2>0, <2>3 DEF ModMade, ev
        <3> QED BY ZenonT(30), <1>4, <3>1, AlikeAside
    <2>4. CASE LinkMade(x, y, m)
        BY ZenonT(30), <1>5, <2>4, LinkAside
    <2> QED BY ZenonT(30), <1>1, <1>5, <2>1, <2>2, <2>3, <2>4 DEF Turns
<1>6. CASE h # m.H
    <2>1. Alike(s, r, h) /\ Alike(t, u, h)
        BY ZenonT(30), <1>5, <1>6
    <2>2. Alike(r, s, h) /\ Alike(s, u, h)
        BY ZenonT(30), <2>1, AlikeTwo
    <2> QED BY ZenonT(30), <2>2, AlikeTwo
<1>7. CASE h = m.H
    <2>0. s.status[m.H] = t.status[m.H] /\ s.replacedBy[m.H] = t.replacedBy[m.H] /\ Alike(s, t, m.H)
        BY ZenonT(30), <1>7 DEF Alike
    <2>1. m.Type # "DEL_REQUEST"
        BY ZenonT(30), <1>1, <1>7 DEF Backed, Undeleted
    <2>2. CASE r = s /\ u = t
        BY ZenonT(30), <2>2
    <2>3. CASE PutMade(s, r, m, GivenStatus(m)) /\ PutMade(t, u, m, GivenStatus(m))
        <3>1. /\ r.status[m.H] = u.status[m.H] /\ r.replacedBy[m.H] = u.replacedBy[m.H]
              /\ r.links = s.links /\ u.links = t.links
            <4>1. r.status[m.H] = GivenStatus(m) /\ u.status[m.H] = GivenStatus(m)
                BY ZenonT(30), <1>1, <1>2, <1>3, <2>3 DEF PutMade
            <4> QED BY ZenonT(30), <2>0, <2>3, <4>1 DEF PutMade
        <3>2. Alike(r, u, m.H)
            <4>1. \A l, tag : /\ LinkExists(r, m.H, l, tag) <=> LinkExists(s, m.H, l, tag)
                              /\ LinkExists(u, m.H, l, tag) <=> LinkExists(t, m.H, l, tag)
                BY ZenonT(30), <3>1 DEF LinkExists
            <4>2. \A l, tag : /\ Shown(r, m.H, l, tag) <=> Shown(s, m.H, l, tag)
                              /\ Shown(u, m.H, l, tag) <=> Shown(t, m.H, l, tag)
                BY ZenonT(30), <3>1 DEF Shown
            <4> QED BY ZenonT(30), <2>0, <3>1, <4>1, <4>2 DEF Alike
        <3> QED BY ZenonT(30), <1>7, <3>2
    <2>4. CASE ModMade(s, r, m) /\ ModMade(t, u, m)
        <3>1. /\ r.status[m.H] = u.status[m.H] /\ r.replacedBy[m.H] = u.replacedBy[m.H]
              /\ r.links = Append(s.links, ev) /\ u.links = Append(t.links, ev)
            <4>1. r.status[m.H] = "modified" /\ u.status[m.H] = "modified"
                BY ZenonT(30), <1>1, <1>2, <1>3, <2>4 DEF ModMade
            <4>2. r.replacedBy[m.H] = m.E /\ u.replacedBy[m.H] = m.E
                BY ZenonT(30), <1>1, <1>2, <1>3, <2>4 DEF ModMade
            <4> QED BY ZenonT(30), <2>4, <4>1, <4>2 DEF ModMade, ev
        <3> QED BY ZenonT(30), <1>4, <1>7, <3>1, AlikeBoth
    <2>5. CASE LinkMade(s, r, m) /\ LinkMade(t, u, m)
        <3>1. Alike(r, u, m.H)
            BY ZenonT(30), <2>0, <2>5, LinkBoth
        <3> QED BY ZenonT(30), <1>7, <3>1
    <2> QED BY ZenonT(30), <1>1, <2>0, <2>1, <2>2, <2>3, <2>4, <2>5 DEF Turns
<1> QED BY ZenonT(30), <1>6, <1>7

-----------------------------------------------------------------------------
(* The steps keep nodes alike *)

\* t is what m made of a store that s is alike.
Behind(ch, s, t, m, h) == \E old \in Store : Alike(s, old, h) /\ Turns(ch, old, t, m)

\* Store s of n is, as to h, like store t of the author or a change behind it.
Agrees(ch, cl, n, s, t, box, h) ==
    /\ \A c \in Caller : cl[c].pc \in {"spread", "wait"} /\ Awaits(n, cl[c], box) =>
          Behind(ch, s, t, Head(cl[c].todo), h)
    /\ (\A c \in Caller : cl[c].pc = "self" \/ ~Awaits(n, cl[c], box)) => Alike(s, t, h)

AgreeInv ==
    Quiet =>
        /\ \A n \in Peer : queue[n] = << >>
        /\ \A n \in Others, h \in Ordinary : Undeleted(chain, h) =>
              Agrees(chain, call, n, dht[n], dht[Author], inbox[n], h)

\* What is quiet was quiet.
LEMMA QuietStays ==
    ASSUME faults' = faults, mishaps \subseteq mishaps', Quiet'
    PROVE  Quiet /\ mishaps' = {} /\ OneCaller /\ \A n : Smooth(n)
<1>1. faults = 0 /\ mishaps' = {} /\ OneCaller
    BY ZenonT(30) DEF Quiet, OneCaller
<1> QED BY ZenonT(30), <1>1 DEF Quiet, Smooth

\* Who has yet to receive what a call is at.
LEMMA NoneWaits ==
    ASSUME NEW n \in Others, NEW box
    PROVE  /\ \A x : x.pc = "idle" => ~Awaits(n, x, box)
           /\ \A x : x.pc \in {"idle", "self"} => x.pc \notin {"spread", "wait"}
           /\ \A x : x.pc = "spread" => x.pc # "self" /\ Awaits(n, x, box)
           /\ \A x : x.pc = "wait" => x.pc # "self" /\ (Awaits(n, x, box) <=> Head(x.todo) \in box)
<1>1. n # Author
    BY ZenonT(30) DEF Others
<1>2. /\ "idle" \notin {"self", "spread", "wait"} /\ "self" \notin {"spread", "wait"}
      /\ "spread" # "self" /\ "wait" \notin {"self", "spread"}
    OBVIOUS
<1> QED BY ZenonT(30), <1>1, <1>2 DEF Awaits

\* What node n makes of m, and that it queues nothing where all is quiet.
LEMMA ReceiveTurns ==
    ASSUME TypeOK, NEW n \in Peer, NEW m \in Message, NEW k, NEW rest, Receive(n, m, k, rest)
    PROVE  /\ Turns(chain, dht[n], dht'[n], m)
           /\ mishaps' = {} => queue'[n] = rest
           /\ \A p \in Peer : p # n => dht'[p] = dht[p] /\ queue'[p] = queue[p]
           /\ mishaps \subseteq mishaps'
<1> DEFINE s == dht[n]
           r == RunValidationPhase(n, m)
           err == IF m.Type = "PUT_REQUEST" THEN "nil" ELSE GetErr(s, m.H, {})
           late == Append(rest, [msg |-> m, retries |-> k])
<1>1. /\ dht' = IF err = "nil" THEN [dht EXCEPT ![n] = r] ELSE dht
      /\ queue' = [queue EXCEPT ![n] = IF err = "ErrHashNotFound" THEN late ELSE rest]
      /\ mishaps' = mishaps \cup {x \in {"queued"} : err = "ErrHashNotFound"}
    BY ZenonT(30) DEF Receive
<1>2. /\ dht \in [Peer -> Store] /\ queue \in [Peer -> Seq(ToRetry)] /\ m.H \in Hash /\ s \in Store
    BY ZenonT(30), TypedIs, MessageFields
<1>3. err = "nil" <=> m.Type = "PUT_REQUEST" \/ s.status[m.H] = "live"
    BY ZenonT(30), <1>2, DefaultErr
<1>4. err = "nil" => Turns(chain, s, r, m)
    BY ZenonT(30), <1>2, <1>3, PhaseTurns
<1>5. err # "nil" => Turns(chain, s, s, m)
    BY ZenonT(30), <1>3 DEF Turns
<1>6. s = dht[n]
    OBVIOUS
<1> HIDE DEF s, r, err, late
<1>7. Turns(chain, s, dht'[n], m)
    <2>1. CASE err = "nil"
        BY ZenonT(30), <1>1, <1>2, <1>4, <2>1
    <2>2. CASE err # "nil"
        BY ZenonT(30), <1>1, <1>5, <1>6, <2>2
    <2> QED BY ZenonT(30), <2>1, <2>2
<1>8. mishaps' = {} => queue'[n] = rest
    <2>1. CASE err = "ErrHashNotFound"
        BY ZenonT(30), <1>1, <2>1
    <2>2. CASE err # "ErrHashNotFound"
        BY ZenonT(30), <1>1, <1>2, <2>2
    <2> QED BY ZenonT(30), <2>1, <2>2
<1>9. \A p \in Peer : p # n => dht'[p] = dht[p] /\ queue'[p] = queue[p]
    BY ZenonT(30), <1>1, <1>2
<1>10. mishaps \subseteq mishaps'
    BY ZenonT(30), <1>1
<1> QED BY ZenonT(30), <1>6, <1>7, <1>8, <1>9, <1>10

\* A call commits: all its changes so far are everywhere.
LEMMA DoAgree ==
    ASSUME HInv, AgreeInv, NEW c \in Caller, NEW action \in {"commit", "mod", "del"},
           NEW e \in Hash, NEW h \in Hash, NEW sends \in Seq(Message), doCommit(c, action, e, h, sends)
    PROVE  AgreeInv'
<1> DEFINE x == [E |-> e, Action |-> action, H |-> h]
<1>1. x \in Committed
    BY ZenonT(30) DEF Committed
<1>2. /\ chain' = Append(chain, x) /\ dht' = dht /\ inbox' = inbox /\ queue' = queue
      /\ faults' = faults /\ mishaps' = mishaps /\ Proceed(c, sends) /\ call[c].pc = "idle"
    BY ZenonT(30) DEF doCommit
<1> HIDE DEF x
<1>3. chain \in Seq(Committed) /\ TypeOK
    BY ZenonT(30), HInvIs
<1>4. call'[c].pc \in {"idle", "self"}
    BY ZenonT(30), <1>2, <1>3, ProceedStep
<1>5. \A g : Undeleted(chain', g) => Undeleted(chain, g)
    <2>1. \A i \in DOMAIN chain : i \in DOMAIN Append(chain, x) /\ Append(chain, x)[i] = chain[i]
        BY ONLY <1>1, <1>3
    <2> QED BY ZenonT(30), <1>2, <2>1 DEF Undeleted, As
<1>6. ASSUME Quiet', NEW n \in Others, NEW g \in Ordinary, Undeleted(chain', g)
      PROVE  Agrees(chain', call', n, dht'[n], dht'[Author], inbox'[n], g)
    <2> DEFINE s == dht[n]
               t == dht[Author]
               box == inbox[n]
    <2>1. Quiet /\ \A d \in Caller : d = c
        BY ZenonT(30), <1>2, <1>6, QuietStays DEF OneCaller
    <2>2. Agrees(chain, call, n, s, t, box, g)
        BY ZenonT(30), <1>5, <1>6, <2>1 DEF AgreeInv
    <2> HIDE DEF s, t, box
    <2>3. Alike(s, t, g)
        BY ZenonT(30), <1>2, <2>1, <2>2, NoneWaits DEF Agrees
    <2>4. Agrees(chain', call', n, s, t, box, g)
        BY ZenonT(30), <1>4, <2>1, <2>3, NoneWaits DEF Agrees
    <2> QED BY ZenonT(30), <1>2, <2>4 DEF s, t, box
<1>7. Quiet' => \A n \in Peer : queue'[n] = << >>
    BY ZenonT(30), <1>2, QuietStays DEF AgreeInv
<1> QED BY ZenonT(30), <1>6, <1>7 DEF AgreeInv

\* A change that every node has got is done with.
LEMMA NextAgree ==
    ASSUME HInv, AgreeInv, NEW c \in Caller, Answered(c)
    PROVE  AgreeInv'
<1> DEFINE m == Head(call[c].todo)
           rest == Tail(call[c].todo)
<1>1. /\ call[c].pc = "wait" /\ \A n \in Others : m \notin inbox[n]
      /\ Proceed(c, rest) /\ chain' = chain /\ dht' = dht
      /\ inbox' = inbox /\ queue' = queue /\ faults' = faults /\ mishaps' = mishaps
    BY ZenonT(30) DEF Answered
<1>2. TypeOK /\ call[c].pc # "idle"
    BY <1>1, HInvIs
<1>3. rest \in Seq(Message)
    BY ZenonT(30), <1>2, BusyHas
<1>4. call'[c].pc \in {"idle", "self"}
    BY ZenonT(30), <1>1, <1>2, <1>3, ProceedStep
<1>6. ASSUME Quiet', NEW n \in Others, NEW g \in Ordinary, Undeleted(chain', g)
      PROVE  Agrees(chain', call', n, dht'[n], dht'[Author], inbox'[n], g)
    <2> DEFINE s == dht[n]
               t == dht[Author]
               box == inbox[n]
    <2>1. Quiet /\ \A d \in Caller : d = c
        BY ZenonT(30), <1>1, <1>6, QuietStays DEF OneCaller
    <2>2. Agrees(chain, call, n, s, t, box, g) /\ m \notin box
        BY ZenonT(30), <1>1, <1>6, <2>1 DEF AgreeInv
    <2> HIDE DEF s, t, box
    <2>3. Alike(s, t, g)
        BY ZenonT(30), <1>1, <2>1, <2>2, NoneWaits DEF Agrees
    <2>4. Agrees(chain, call', n, s, t, box, g)
        BY ZenonT(30), <1>4, <2>1, <2>3, NoneWaits DEF Agrees
    <2> QED BY ZenonT(30), <1>1, <2>4 DEF s, t, box
<1>7. Quiet' => \A n \in Peer : queue'[n] = << >>
    BY ZenonT(30), <1>1, QuietStays DEF AgreeInv
<1> QED BY ZenonT(30), <1>6, <1>7 DEF AgreeInv

\* The author's own node has a change first.
LEMMA SelfAgree ==
    ASSUME HInv, AgreeInv, NEW c \in Caller, SelfSend(c)
    PROVE  AgreeInv'
<1> DEFINE m == Head(call[c].todo)
<1>1. /\ call[c].pc = "self" /\ Receive(Author, m, MaxRetries, queue[Author])
      /\ call' = [call EXCEPT ![c].pc = "spread"]
      /\ chain' = chain /\ inbox' = inbox /\ faults' = faults
    BY ZenonT(30) DEF SelfSend
<1>2. TypeOK /\ dht \in [Peer -> Store] /\ Author \in Peer /\ call[c].pc # "idle"
    BY <1>1, HInvIs, PublishAssumption
<1>3. m \in Message
    BY ZenonT(30), <1>2, BusyHas
<1>4. call'[c].todo = call[c].todo /\ call'[c].pc = "spread"
    BY ZenonT(30), <1>1, <1>2, PcStep
<1>5. m = Head(call[c].todo)
    OBVIOUS
<1> HIDE DEF m
<1>6. /\ Turns(chain, dht[Author], dht'[Author], m)
      /\ mishaps' = {} => queue'[Author] = queue[Author]
      /\ \A p \in Peer : p # Author => dht'[p] = dht[p] /\ queue'[p] = queue[p]
      /\ mishaps \subseteq mishaps'
    BY ZenonT(30), <1>1, <1>2, <1>3, ReceiveTurns
<1>7. ASSUME Quiet', NEW n \in Others, NEW g \in Ordinary, Undeleted(chain', g)
      PROVE  Agrees(chain', call', n, dht'[n], dht'[Author], inbox'[n], g)
    <2> DEFINE s == dht[n]
               old == dht[Author]
               t == dht'[Author]
               box == inbox[n]
    <2>1. Quiet /\ \A d \in Caller : d = c
        BY ZenonT(30), <1>1, <1>6, <1>7, QuietStays DEF OneCaller
    <2>2. Agrees(chain, call, n, s, old, box, g)
        BY ZenonT(30), <1>1, <1>7, <2>1 DEF AgreeInv
    <2>3. old \in Store /\ Turns(chain, old, t, m) /\ dht'[n] = s
        BY ZenonT(30), <1>2, <1>6 DEF Others
    <2> HIDE DEF s, t, old, box
    <2>4. Alike(s, old, g)
        BY ZenonT(30), <1>1, <2>1, <2>2 DEF Agrees
    <2>5. Behind(chain, s, t, m, g)
        BY ZenonT(30), <2>3, <2>4 DEF Behind
    <2>6. call'[c].pc # "self" /\ Awaits(n, call'[c], box) /\ Head(call'[c].todo) = m
        BY ZenonT(30), <1>4, <1>5, NoneWaits
    <2>7. Agrees(chain, call', n, s, t, box, g)
        BY ZenonT(30), <2>1, <2>5, <2>6 DEF Agrees
    <2> QED BY ZenonT(30), <1>1, <2>3, <2>7 DEF t, box
<1>8. ASSUME Quiet', NEW n \in Peer PROVE queue'[n] = << >>
    <2>1. Quiet /\ mishaps' = {}
        BY ZenonT(30), <1>1, <1>6, <1>8, QuietStays
    <2>2. queue'[n] = queue[n]
        BY ZenonT(30), <1>6, <2>1
    <2> QED BY ZenonT(30), <2>1, <2>2 DEF AgreeInv
<1> QED BY ZenonT(30), <1>7, <1>8 DEF AgreeInv

\* The change is on its way to every peer.
LEMMA SpreadAgree ==
    ASSUME HInv, AgreeInv, NEW c \in Caller, Spread(c)
    PROVE  AgreeInv'
<1> DEFINE m == Head(call[c].todo)
<1>1. /\ call[c].pc = "spread" /\ call' = [call EXCEPT ![c].pc = "wait"]
      /\ inbox' = [n \in Peer |-> inbox[n] \cup IF n = Author THEN {} ELSE {m}]
      /\ chain' = chain /\ dht' = dht /\ queue' = queue /\ faults' = faults /\ mishaps' = mishaps
    BY ZenonT(30) DEF Spread
<1>2. TypeOK /\ call[c].pc # "idle"
    BY <1>1, HInvIs
<1>4. call'[c].todo = call[c].todo /\ call'[c].pc = "wait"
    BY ZenonT(30), <1>1, <1>2, PcStep
<1>5. m = Head(call[c].todo)
    OBVIOUS
<1> HIDE DEF m
<1>7. ASSUME Quiet', NEW n \in Others, NEW g \in Ordinary, Undeleted(chain', g)
      PROVE  Agrees(chain', call', n, dht'[n], dht'[Author], inbox'[n], g)
    <2> DEFINE s == dht[n]
               t == dht[Author]
               box == inbox[n]
               new == inbox'[n]
    <2>1. Quiet /\ \A d \in Caller : d = c
        BY ZenonT(30), <1>1, <1>7, QuietStays DEF OneCaller
    <2>2. Agrees(chain, call, n, s, t, box, g)
        BY ZenonT(30), <1>1, <1>7, <2>1 DEF AgreeInv
    <2>3. m \in new
        BY ZenonT(30), <1>1 DEF Others
    <2> HIDE DEF s, t, box, new
    <2>4. Behind(chain, s, t, m, g)
        BY ZenonT(30), <1>1, <1>5, <2>1, <2>2, NoneWaits DEF Agrees
    <2>6. call'[c].pc # "self" /\ Awaits(n, call'[c], new) /\ Head(call'[c].todo) = m
        BY ZenonT(30), <1>4, <1>5, <2>3, NoneWaits
    <2>7. Agrees(chain, call', n, s, t, new, g)
        BY ZenonT(30), <2>1, <2>4, <2>6 DEF Agrees
    <2> QED BY ZenonT(30), <1>1, <2>7 DEF s, t, new
<1>8. Quiet' => \A n \in Peer : queue'[n] = << >>
    BY ZenonT(30), <1>1, QuietStays DEF AgreeInv
<1> QED BY ZenonT(30), <1>7, <1>8 DEF AgreeInv

\* A node that receives the change it is behind by catches up.
LEMMA ReceiverAgree ==
    ASSUME HInv, OrderInv, AgreeInv, dht' \in [Peer -> Store],
           NEW p \in Peer, NEW m \in inbox[p], ActionReceiver(p, m)
    PROVE  AgreeInv'
<1>1. /\ inbox \in [Peer -> SUBSET Message] /\ inbox[Author] = {} /\ TypeOK /\ BackedInv
      /\ dht \in [Peer -> Store] /\ Author \in Peer
    BY ZenonT(30), HInvIs, PublishAssumption DEF SentInv
<1>2. /\ inbox' = [inbox EXCEPT ![p] = @ \ {m}]
      /\ Receive(p, m, MaxRetries, queue[p]) /\ chain' = chain /\ call' = call /\ faults' = faults
    BY ZenonT(30) DEF ActionReceiver
<1>3. m \in Message /\ Backed(chain, m) /\ p # Author
    BY ZenonT(30), <1>1 DEF BackedInv
<1>6. /\ Turns(chain, dht[p], dht'[p], m)
      /\ mishaps' = {} => queue'[p] = queue[p]
      /\ \A q \in Peer : q # p => dht'[q] = dht[q] /\ queue'[q] = queue[q]
      /\ mishaps \subseteq mishaps'
    BY ZenonT(30), <1>1, <1>2, <1>3, ReceiveTurns
<1>7. ASSUME Quiet', NEW n \in Others, NEW g \in Ordinary, Undeleted(chain', g)
      PROVE  Agrees(chain', call', n, dht'[n], dht'[Author], inbox'[n], g)
    <2>1. Quiet /\ OneCaller /\ \A q : Smooth(q)
        BY ZenonT(30), <1>2, <1>6, <1>7, QuietStays
    <2>2. Agrees(chain, call, n, dht[n], dht[Author], inbox[n], g)
        BY ZenonT(30), <1>2, <1>7, <2>1 DEF AgreeInv
    <2>3. dht'[Author] = dht[Author] /\ n \in Peer
        BY ZenonT(30), <1>1, <1>3, <1>6 DEF Others
    <2>4. CASE n # p
        <3>1. inbox'[n] = inbox[n] /\ dht'[n] = dht[n]
            BY ZenonT(30), <1>1, <1>2, <1>6, <2>3, <2>4
        <3> QED BY ZenonT(30), <1>2, <2>2, <2>3, <3>1
    <2>5. CASE n = p
        <3> DEFINE s == dht[p]
                   r == dht'[p]
                   t == dht[Author]
                   box == inbox[p]
                   new == inbox'[p]
        <3>1. PICK c \in Caller : call[c].pc = "wait" /\ m = Head(call[c].todo)
            BY ZenonT(30), <2>1 DEF OrderInv, Ordered, InTurn
        <3>2. \A d \in Caller : d = c
            BY ZenonT(30), <2>1 DEF OneCaller
        <3>3. m \in box /\ m \notin new
            BY ZenonT(30), <1>1, <1>2
        <3>4. s \in Store /\ r \in Store /\ t \in Store /\ Turns(chain, s, r, m) /\ g \in Hash
            BY ZenonT(30), <1>1, <1>6 DEF Ordinary
        <3>5. Agrees(chain, call, p, s, t, box, g) /\ p \in Others
            BY ZenonT(30), <2>2, <2>5
        <3> HIDE DEF s, r, t, box, new
        <3>6. Behind(chain, s, t, m, g)
            BY ZenonT(30), <3>1, <3>3, <3>5, NoneWaits DEF Agrees
        <3>7. PICK old \in Store : Alike(s, old, g) /\ Turns(chain, old, t, m)
            BY ZenonT(30), <3>6 DEF Behind
        <3>8. Undeleted(chain, g)
            BY ZenonT(30), <1>2, <1>7
        <3>9. Alike(r, t, g)
            BY ZenonT(30), <1>3, <3>4, <3>7, <3>8, BothTurn
        <3>10. ~Awaits(p, call[c], new)
            BY ZenonT(30), <3>1, <3>3, <3>5, NoneWaits
        <3>11. Agrees(chain, call, p, r, t, new, g)
            BY ZenonT(30), <3>2, <3>9, <3>10 DEF Agrees
        <3> QED BY ZenonT(30), <1>2, <2>3, <2>5, <3>11 DEF r, t, new
    <2> QED BY ZenonT(30), <2>4, <2>5
<1>8. ASSUME Quiet', NEW n \in Peer PROVE queue'[n] = << >>
    <2>1. Quiet /\ mishaps' = {}
        BY ZenonT(30), <1>2, <1>6, <1>8, QuietStays
    <2>2. queue'[n] = queue[n]
        BY ZenonT(30), <1>6, <2>1
    <2> QED BY ZenonT(30), <2>1, <2>2 DEF AgreeInv
<1> QED BY ZenonT(30), <1>7, <1>8 DEF AgreeInv

\* There is nothing to try again.
LEMMA RetryAgree ==
    ASSUME HInv, AgreeInv, NEW p \in Peer, RetryTask(p)
    PROVE  AgreeInv'
<1> DEFINE r == Head(queue[p])
<1>1. /\ queue[p] # << >> /\ faults' = faults
      /\ mishaps \subseteq mishaps'
    <2>1. /\ queue[p] # << >> /\ faults' = faults
          /\ Receive(p, r.msg, r.retries - 1, Tail(queue[p])) \/ mishaps' = mishaps
        BY ZenonT(30) DEF RetryTask
    <2>2. ASSUME NEW m, NEW k, NEW rest, Receive(p, m, k, rest) PROVE mishaps \subseteq mishaps'
        BY ZenonT(30), <2>2 DEF Receive
    <2> QED BY ZenonT(30), <2>1, <2>2
<1>2. ~Quiet'
    BY ZenonT(30), <1>1, QuietStays DEF AgreeInv
<1> QED BY ZenonT(30), <1>2 DEF AgreeInv

\* Nodes stay alike, or a change behind, by every step ...
LEMMA ANext ==
    ASSUME HInv, OrderInv, AgreeInv, Next
    PROVE  AgreeInv'
<1>1. ASSUME NEW c \in Caller, NEW e \in Hash \ DOMAIN Deletes, Commit(c, e) PROVE AgreeInv'
    <2>1. CommitSends(e) \in Seq(Message)
        BY ZenonT(30), <1>1, CommitSendable DEF Sendable
    <2> QED BY ZenonT(30), <1>1, <2>1, DoAgree DEF Commit
<1>2. ASSUME NEW c \in Caller, NEW e \in Hash \ DOMAIN Deletes, NEW h \in Hash \ DOMAIN Deletes,
             Mod(c, e, h)
      PROVE  AgreeInv'
    <2>1. ModSends(e, h) \in Seq(Message)
        BY ZenonT(30), <1>2, ModSendable DEF Sendable
    <2> QED BY ZenonT(30), <1>2, <2>1, DoAgree DEF Mod
<1>3. ASSUME NEW c \in Caller, NEW e \in DOMAIN Deletes, Del(c, e) PROVE AgreeInv'
    <2> DEFINE h == Deletes[e]
    <2>1. e \in Hash /\ h \in Hash /\ DelSends(e, h) \in Seq(Message)
        BY ZenonT(30), <1>3, DelSendable DEF Sendable
    <2>2. doCommit(c, "del", e, h, DelSends(e, h))
        BY ZenonT(30), <1>3 DEF Del
    <2> HIDE DEF h
    <2> QED BY ZenonT(30), <1>3, <2>1, <2>2, DoAgree
<1>4. ASSUME Fault PROVE AgreeInv'
    <2>1. faults \in 0..MaxFaults /\ faults' = faults + 1 /\ MaxFaults \in Nat
        BY ZenonT(30), <1>4, HInvIs, PublishAssumption DEF Fault
    <2>2. faults' # 0
        BY ONLY <2>1
    <2> QED BY ZenonT(30), <2>2 DEF AgreeInv, Quiet
<1>5. ASSUME NEW p \in Peer, NEW m \in inbox[p], ActionReceiver(p, m) PROVE AgreeInv'
    <2>1. HInv'
        BY ZenonT(30), <1>5, ReceiverStep
    <2>2. dht' \in [Peer -> Store]
        BY ZenonT(30), <2>1 DEF HInv, TypeOK
    <2> QED BY ZenonT(30), <1>5, <2>2, ReceiverAgree
<1>6. ASSUME NEW c \in Caller, NoPeers(c) \/ TimedOut(c) PROVE AgreeInv'
    BY ZenonT(30), <1>4, <1>6 DEF NoPeers, TimedOut
<1>7. ASSUME NEW p \in Peer, (\E m \in inbox[p] : Lose(p, m)) \/ Crash(p) PROVE AgreeInv'
    BY ZenonT(30), <1>4, <1>7 DEF Lose, Crash
<1> QED BY ZenonT(30), <1>1, <1>2, <1>3, <1>5, <1>6, <1>7, SelfAgree, SpreadAgree, NextAgree,
           RetryAgree DEF Next, ChangeStep

\* They start alike.
LEMMA AInit ==
    ASSUME Init
    PROVE  AgreeInv
<1>1. /\ call = [c \in Caller |-> [pc |-> "idle", todo |-> << >>]] /\ queue = [n \in Peer |-> << >>]
      /\ dht = [n \in Peer |-> IF n = Author THEN SetupDHT
                               ELSE put(NewDHT, NilMsg, DNAHash, "live")]
    BY ZenonT(30) DEF Init
<1>2. \A n \in Peer : Fresh(dht[n])
    <2> DEFINE a == SetupDHT
               b == put(NewDHT, NilMsg, DNAHash, "live")
    <2>1. Fresh(a) /\ Fresh(b)
        BY ZenonT(30), SetupFresh
    <2>2. dht = [n \in Peer |-> IF n = Author THEN a ELSE b]
        BY ZenonT(30), <1>1
    <2> HIDE DEF a, b
    <2> QED BY ZenonT(30), <2>1, <2>2
<1>3. \A c \in Caller : call[c].pc = "idle"
    BY ZenonT(30), <1>1
<1>4. ASSUME NEW n \in Others, NEW h \in Ordinary
      PROVE  Agrees(chain, call, n, dht[n], dht[Author], inbox[n], h)
    <2> DEFINE s == dht[n]
               t == dht[Author]
    <2>1. Fresh(s) /\ Fresh(t) /\ h \in Hash
        BY ZenonT(30), <1>2, PublishAssumption DEF Others, Ordinary
    <2> HIDE DEF s, t
    <2>2. Alike(s, t, h)
        <3>1. t.status[h] = s.status[h] /\ t.replacedBy[h] = s.replacedBy[h] /\ t.links = s.links
            BY ZenonT(30), <2>1 DEF Fresh
        <3> QED BY ZenonT(30), <3>1, AlikeSame
    <2>3. \A c \in Caller : call[c].pc \notin {"spread", "wait"}
        BY <1>3
    <2>4. Agrees(chain, call, n, s, t, inbox[n], h)
        BY ZenonT(30), <2>2, <2>3 DEF Agrees
    <2> QED BY ZenonT(30), <2>4 DEF s, t
<1> QED BY ZenonT(30), <1>1, <1>4 DEF AgreeInv

\* ... and where nothing happens.
LEMMA AStutter ==
    ASSUME AgreeInv, UNCHANGED vars
    PROVE  AgreeInv'
<1>1. /\ chain' = chain /\ call' = call /\ dht' = dht /\ inbox' = inbox /\ queue' = queue
      /\ faults' = faults /\ mishaps' = mishaps
    BY DEF vars
<1> QED BY ZenonT(30), <1>1 DEF AgreeInv, Quiet, OneCaller

\* getLinks shows the links whose last event says so.
LEMMA LinksShown ==
    ASSUME NEW s \in Store, NEW h, NEW tag
    PROVE  getLinks(s, h, tag) = IF s.status[h] \notin {"live", "modified"} THEN {}
                                 ELSE {l \in Hash : Shown(s, h, l, tag)}
<1> DEFINE q == s.links
           P(j) == /\ q[j].Base = h /\ q[j].Tag = tag /\ q[j].Status = "live"
                   /\ \A k \in DOMAIN q : k > j => <<q[k].Base, q[k].Link, q[k].Tag>>
                                                       # <<q[j].Base, q[j].Link, q[j].Tag>>
           S == {q[i].Link : i \in {j \in DOMAIN q : P(j)}}
<1>1. getLinks(s, h, tag) = IF s.status[h] \notin {"live", "modified"} THEN {} ELSE S
    BY ZenonT(30) DEF getLinks
<1>2. \A i \in DOMAIN q : q[i] \in LinkEvent
    <2>1. q \in Seq(LinkEvent)
        BY ZenonT(30) DEF Store
    <2> HIDE DEF q
    <2> QED BY <2>1
<1>3. \A i \in DOMAIN q : q[i].Link \in Hash
    BY ZenonT(30), <1>2 DEF LinkEvent
<1>4. ASSUME NEW j \in DOMAIN q
      PROVE  P(j) <=> /\ IsLink(q[j], h, q[j].Link, tag) /\ q[j].Status = "live"
                      /\ \A k \in DOMAIN q : k > j => ~IsLink(q[k], h, q[j].Link, tag)
    <2>1. \A a, b, c, d, e, f : <<a, b, c>> # <<d, e, f>> <=> ~(a = d /\ b = e /\ c = f)
        OBVIOUS
    <2> HIDE DEF q
    <2> QED BY ZenonT(30), <2>1 DEF IsLink
<1>5. \A l : Shown(s, h, l, tag) <=>
          \E j \in DOMAIN q : /\ IsLink(q[j], h, l, tag) /\ q[j].Status = "live"
                              /\ \A k \in DOMAIN q : k > j => ~IsLink(q[k], h, l, tag)
    BY ZenonT(30) DEF Shown
<1> HIDE DEF q, P
<1>6. \A l : Shown(s, h, l, tag) <=> \E j \in DOMAIN q : P(j) /\ q[j].Link = l
    <2> TAKE l
    <2>1. ASSUME NEW j \in DOMAIN q
          PROVE  (P(j) /\ q[j].Link = l) <=>
                     /\ IsLink(q[j], h, l, tag) /\ q[j].Status = "live"
                     /\ \A k \in DOMAIN q : k > j => ~IsLink(q[k], h, l, tag)
        <3>1. CASE q[j].Link = l
            BY ZenonT(30), <1>4, <3>1
        <3>2. CASE q[j].Link # l
            BY ZenonT(30), <3>2 DEF IsLink
        <3> QED BY ZenonT(30), <3>1, <3>2
    <2> QED BY ZenonT(30), <1>5, <2>1
<1>7. S = {l \in Hash : Shown(s, h, l, tag)}
    BY ZenonT(30), <1>3, <1>6
<1> QED BY ZenonT(30), <1>1, <1>7

\* The invariants have the property.
LEMMA AgreeImplies ==
    ASSUME HInv, AgreeInv
    PROVE  NodesAgree
<1> SUFFICES ASSUME Settled, faults = 0, mishaps = {}, OneCaller, NEW n \in Others,
                    NEW h \in Hash \ {DNAHash, KeyMsg.H, AgentMsg.H},
                    \A e \in Hash : ~CommittedAs("del", e, h)
             PROVE  /\ dht[n].status[h] = dht[Author].status[h]
                    /\ dht[n].replacedBy[h] = dht[Author].replacedBy[h]
                    /\ \A tag \in Tag : getLinks(dht[n], h, tag) = getLinks(dht[Author], h, tag)
    BY ZenonT(30) DEF NodesAgree
<1> DEFINE s == dht[n]
           t == dht[Author]
<1>1. Undeleted(chain, h) /\ h \in Ordinary /\ Quiet
    BY ZenonT(30) DEF Undeleted, CommittedAs, As, Ordinary, Quiet
<1>2. Agrees(chain, call, n, s, t, inbox[n], h)
    BY ZenonT(30), <1>1 DEF AgreeInv
<1>3. \A c \in Caller : call[c].pc = "idle"
    BY ZenonT(30) DEF Settled
<1>4. s \in Store /\ t \in Store
    BY ZenonT(30), HInvIs, PublishAssumption DEF Others
<1> HIDE DEF s, t
<1>5. Alike(s, t, h)
    BY ZenonT(30), <1>2, <1>3, NoneWaits DEF Agrees
<1>6. ASSUME NEW tag \in Tag PROVE getLinks(s, h, tag) = getLinks(t, h, tag)
    <2>1. {l \in Hash : Shown(s, h, l, tag)} = {l \in Hash : Shown(t, h, l, tag)}
        BY ZenonT(30), <1>5 DEF Alike
    <2>2. s.status[h] = t.status[h]
        BY ZenonT(30), <1>5 DEF Alike
    <2> QED BY ZenonT(30), <1>4, <2>1, <2>2, LinksShown
<1>7. s.status[h] = t.status[h] /\ s.replacedBy[h] = t.replacedBy[h]
    BY ZenonT(30), <1>5 DEF Alike
<1> QED BY ZenonT(30), <1>6, <1>7 DEF s, t

\* Where nothing fails, no change comes before what it is about and the author
\* makes one call at a time, all nodes end up with the same entries, replacements
\* and links, of all that was never deleted: Change waits for every answer before
\* the next change, and the Receive methods decide by the author's answer alone.
THEOREM NodesEndAlike == Spec => []NodesAgree
<1>1. (HInv /\ OrderInv /\ AgreeInv) /\ [Next]_vars => (HInv /\ OrderInv /\ AgreeInv)'
    BY ZenonT(30), HNext, HStutter, ONext, OStutter, ANext, AStutter
<1>2. Init => HInv /\ OrderInv /\ AgreeInv
    BY ZenonT(30), HInit, OInit, AInit
<1>3. HInv /\ OrderInv /\ AgreeInv => NodesAgree
    BY ZenonT(30), AgreeImplies
<1> QED BY <1>1, <1>2, <1>3, PTL DEF Spec
=============================================================================
