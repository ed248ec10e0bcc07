----------------------------- MODULE PeersProofs ----------------------------
(***************************************************************************)
(* Proofs about Peers and RoutingTable, for IDs of any length, any peers,  *)
(* any size of buckets and any bounds.                                     *)
(*                                                                         *)
(* The state falls into four parts that do not need each other: the sets   *)
(* of peers (SetsInv), the clock and the bootstrap server (ClockInv), the  *)
(* trackers with the notices still to come (TrackInv) and the routing      *)
(* table (TableInv).  Each is inductive by itself.                         *)
(***************************************************************************)
EXTENDS Peers, FiniteSetTheorems, TLAPS

-----------------------------------------------------------------------------
(* The sets, the clock and the bootstrap server *)

SetsInv ==
    /\ addrs \subseteq Peer
    /\ adding \in [Peer -> {"idle", "connecting", "connected"}]
    /\ gossipers \subseteq Peer /\ list \subseteq Peer /\ blocked \subseteq list

ClockInv ==
    /\ lastSeen \in [Known -> -1..MaxTime] /\ now \in 0..MaxTime
    /\ restarts \in 0..MaxRestarts
    /\ \A n \in Known : lastSeen[n] <= now
    /\ \A n \in Poster : lastSeen[n] >= 0 => now <= lastSeen[n] + Interval

\* What a step of the node itself leaves alone.
ClockSame == UNCHANGED <<lastSeen, now, restarts>>
SetsSame == UNCHANGED <<addrs, adding, gossipers, list, blocked>>

LEMMA Bounds ==
    /\ BootstrapTTL \in Nat \ {0} /\ Interval \in Nat \ {0} /\ Interval <= BootstrapTTL
    /\ MaxTime \in Nat /\ MaxConns \in Nat /\ MaxBlocks \in Nat /\ MaxRestarts \in Nat
    /\ Poster \subseteq Known /\ Early \subseteq Peer
BY PeersAssumption DEF Known

LEMMA PeerIsNotSelf == Self \notin Peer
BY ZenonT(30), TableAssumption

LEMMA SetsInit == Init => SetsInv /\ ClockInv
<1> SUFFICES ASSUME Init PROVE SetsInv /\ ClockInv
    OBVIOUS
<1>1. SetsInv
    BY ZenonT(30) DEF Init, SetsInv
<1>2. -1 \in -1..MaxTime /\ 0 \in 0..MaxTime /\ 0 \in 0..MaxRestarts /\ -1 <= 0 /\ ~(-1 >= 0)
    BY Bounds
<1>3. ClockInv
    <2>1. lastSeen \in [Known -> -1..MaxTime] /\ \A n \in Known : lastSeen[n] = -1
        BY ZenonT(30), <1>2 DEF Init
    <2>2. now = 0 /\ restarts = 0
        BY ZenonT(30) DEF Init
    <2> QED BY ZenonT(30), <1>2, <2>1, <2>2, Bounds DEF ClockInv
<1> QED BY <1>1, <1>3

LEMMA SetsPeerStep ==
    ASSUME SetsInv, NEW p \in Peer, PeerStep(p)
    PROVE  /\ SetsInv' /\ ClockSame /\ blocked \subseteq blocked'
           /\ \A q \in Peer : Out(q) => Out(q)'
<1>1. CASE Dialled(p) \/ ConnectionCloses(p) \/ Connected(p) \/ Disconnected(p)
    BY ZenonT(30), <1>1 DEF Dialled, ConnectionCloses, Connected, Disconnected, SetsInv, ClockSame, Out
<1>2. CASE ConnectOk(p)
    <2>1. /\ adding[p] = "connecting" /\ adding' = [adding EXCEPT ![p] = "connected"]
          /\ UNCHANGED <<addrs, gossipers, list, blocked, lastSeen, now, restarts>>
        BY ZenonT(30), <1>2 DEF ConnectOk
    <2> QED BY ZenonT(30), <2>1 DEF SetsInv, ClockSame, Out
<1>3. CASE ConnectFails(p)
    <2>1. /\ adding[p] = "connecting" /\ adding' = [adding EXCEPT ![p] = "idle"]
          /\ addrs' = addrs \ {p} /\ UNCHANGED <<gossipers, list, blocked, lastSeen, now, restarts>>
        BY ZenonT(30), <1>3 DEF ConnectFails
    <2> QED BY ZenonT(30), <2>1 DEF SetsInv, ClockSame, Out
<1>4. CASE FinishAdd(p)
    <2>1. /\ adding[p] = "connected" /\ adding' = [adding EXCEPT ![p] = "idle"]
          /\ gossipers' = gossipers \cup {p} /\ UNCHANGED <<addrs, list, blocked, lastSeen, now, restarts>>
        BY ZenonT(30), <1>4 DEF FinishAdd
    <2>2. "connected" # "idle"
        OBVIOUS
    <2> QED BY ZenonT(30), <2>1, <2>2 DEF SetsInv, ClockSame, Out
<1>5. CASE AddToList(p)
    <2>1. /\ list' = list \cup {p} /\ UNCHANGED <<addrs, adding, gossipers, blocked, lastSeen, now, restarts>>
        BY ZenonT(30), <1>5 DEF AddToList, peerVars
    <2> QED BY ZenonT(30), <2>1 DEF SetsInv, ClockSame, Out
<1>6. CASE Block(p)
    <2>1. /\ p \in list /\ blocked' = blocked \cup {p} /\ gossipers' = gossipers \ {p}
          /\ UNCHANGED <<addrs, adding, list, lastSeen, now, restarts>>
        BY ZenonT(30), <1>6 DEF Block, peerVars
    <2> QED BY ZenonT(30), <2>1 DEF SetsInv, ClockSame, Out
<1> QED BY ZenonT(30), <1>1, <1>2, <1>3, <1>4, <1>5, <1>6 DEF PeerStep

LEMMA SetsAddPeer ==
    ASSUME SetsInv, NEW n \in Known, AddPeer(n)
    PROVE  /\ n \in Peer /\ SetsInv' /\ ClockSame /\ UNCHANGED <<table, refcount, links, notices, conns>>
           /\ \A q \in Peer : Out(q) => Out(q)'
<1>1. /\ n # Self /\ n \notin blocked /\ adding' = [adding EXCEPT ![n] = "connecting"] /\ addrs' = addrs \cup {n}
      /\ UNCHANGED <<table, refcount, links, notices, conns, gossipers, list, blocked, lastSeen, now, restarts>>
    BY ZenonT(30) DEF AddPeer
<1>2. n \in Peer
    BY ZenonT(30), <1>1 DEF Known
<1> QED BY ZenonT(30), <1>1, <1>2 DEF SetsInv, ClockSame, Out

LEMMA SetsRestart ==
    ASSUME SetsInv, ClockInv, Restart
    PROVE  SetsInv' /\ ClockInv' /\ \A q \in Peer : Out(q) => Out(q)'
<1>1. /\ restarts < MaxRestarts /\ restarts' = restarts + 1 /\ addrs' = {} /\ adding' = [p \in Peer |-> "idle"]
      /\ blocked' = list /\ UNCHANGED <<gossipers, list, lastSeen, now>>
    BY ZenonT(30) DEF Restart
<1>2. restarts' \in 0..MaxRestarts
    BY <1>1, Bounds DEF ClockInv
<1> QED BY ZenonT(30), <1>1, <1>2 DEF SetsInv, ClockInv, Out

LEMMA PostStep ==
    ASSUME ClockInv, NEW n \in Poster, BSpost(n)
    PROVE  ClockInv' /\ SetsSame
<1>1. lastSeen' = [lastSeen EXCEPT ![n] = now] /\ UNCHANGED <<addrs, adding, gossipers, list, blocked, now, restarts>>
    BY ZenonT(30) DEF BSpost, post, peerVars
<1>2. n \in Known
    BY ZenonT(30), Bounds
<1>3. now \in -1..MaxTime /\ now <= now /\ now <= now + Interval
    BY Bounds DEF ClockInv
<1>4. lastSeen' \in [Known -> -1..MaxTime] /\ lastSeen'[n] = now /\ \A m \in Known \ {n} : lastSeen'[m] = lastSeen[m]
    BY ZenonT(30), <1>1, <1>2, <1>3 DEF ClockInv
<1>5. \A m \in Poster : m \in Known
    BY ZenonT(30), Bounds
<1> QED BY ZenonT(30), <1>1, <1>3, <1>4, <1>5 DEF ClockInv, SetsSame

LEMMA TickStep == ASSUME ClockInv, Tick PROVE ClockInv' /\ SetsSame
<1>1. /\ now < MaxTime /\ now' = now + 1 /\ UNCHANGED <<addrs, adding, gossipers, list, blocked, lastSeen, restarts>>
      /\ \A n \in Poster : lastSeen[n] >= 0 => now < lastSeen[n] + Interval
    BY ZenonT(30) DEF Tick, peerVars
<1>2. now \in 0..MaxTime /\ now' \in 0..MaxTime
    BY <1>1, Bounds DEF ClockInv
<1>3. \A n \in Known : lastSeen'[n] \in -1..MaxTime /\ lastSeen'[n] = lastSeen[n] /\ lastSeen[n] <= now
    BY ZenonT(30), <1>1 DEF ClockInv
<1>4. \A n \in Known : lastSeen'[n] <= now'
    BY <1>1, <1>2, <1>3, Bounds
<1>5. \A n \in Poster : n \in Known
    BY ZenonT(30), Bounds
<1>6. \A n \in Poster : lastSeen'[n] >= 0 => now' <= lastSeen'[n] + Interval
    BY <1>1, <1>2, <1>3, <1>5, Bounds
<1> QED BY ZenonT(30), <1>1, <1>2, <1>4, <1>6 DEF ClockInv, SetsSame

LEMMA SetsStep ==
    ASSUME SetsInv, ClockInv, [Next]_vars
    PROVE  SetsInv' /\ ClockInv' /\ \A q \in Peer : Out(q) => Out(q)'
<1>1. ASSUME ClockSame PROVE ClockInv'
    BY ZenonT(30), <1>1 DEF ClockSame, ClockInv
<1>2. ASSUME SetsSame PROVE SetsInv' /\ \A q \in Peer : Out(q) => Out(q)'
    BY ZenonT(30), <1>2 DEF SetsSame, SetsInv, Out
<1>3. CASE \E p \in Peer : PeerStep(p)
    BY ZenonT(30), <1>1, <1>3, SetsPeerStep
<1>4. CASE \E n \in Known : HandlePeerFound(n) \/ BSget(n)
    BY ZenonT(30), <1>1, <1>4, SetsAddPeer DEF HandlePeerFound, BSget
<1>5. CASE \E n \in Poster : BSpost(n)
    BY ZenonT(30), <1>2, <1>5, PostStep
<1>6. CASE Tick
    BY ZenonT(30), <1>2, <1>6, TickStep
<1>7. CASE Restart
    BY ZenonT(30), <1>7, SetsRestart
<1>8. CASE UNCHANGED vars
    <2>1. ClockSame /\ SetsSame
        BY ZenonT(30), <1>8 DEF vars, peerVars, ClockSame, SetsSame
    <2> QED BY ZenonT(30), <1>1, <1>2, <2>1
<1> QED BY ZenonT(30), <1>3, <1>4, <1>5, <1>6, <1>7, <1>8 DEF Next

LEMMA SetsHold == Spec => [](SetsInv /\ ClockInv)
<1>1. (SetsInv /\ ClockInv) /\ [Next]_vars => (SetsInv /\ ClockInv)'
    BY ZenonT(30), SetsStep
<1> QED BY <1>1, SetsInit, PTL DEF Spec

LEMMA ClockLists == ClockInv => ListedBetweenRefreshes
<1> SUFFICES ASSUME ClockInv, NEW n \in Poster, lastSeen[n] >= 0
             PROVE  n \in get \/ now = lastSeen[n] + Interval
    BY ZenonT(30) DEF ListedBetweenRefreshes
<1>1. n \in Known
    BY ZenonT(30), Bounds
<1>2. lastSeen[n] \in -1..MaxTime /\ now \in 0..MaxTime /\ now <= lastSeen[n] + Interval
    BY ZenonT(30), <1>1 DEF ClockInv
<1>3. now = lastSeen[n] + Interval \/ lastSeen[n] + BootstrapTTL > now
    BY <1>2, Bounds
<1> QED BY ZenonT(30), <1>1, <1>3 DEF get

\* However often nodes post, and whatever the interval within the time to live: the
\* bootstrap server lists a node that refreshes its entry until the next refresh is
\* due.
THEOREM PostersAreListed == Spec => []ListedBetweenRefreshes
BY SetsHold, ClockLists, PTL

\* A peer that is blocked, no gossiper and not being added is never added again,
\* by AddPeer, by the bootstrap server or after a restart: blocked only grows, for
\* the list in the database holds all of it.
THEOREM BlockedRemainOut == Spec => BlockedStaysOut
<1>1. (SetsInv /\ ClockInv) /\ [Next]_vars => [\A p \in Peer : Out(p) => Out(p)']_vars
    BY ZenonT(30), SetsStep
<1> QED BY <1>1, SetsHold, PTL DEF Spec, BlockedStaysOut

-----------------------------------------------------------------------------
(* Counting notices *)

LEMMA CountType ==
    ASSUME NEW s \in Seq({"up", "down"}), NEW x
    PROVE  Count(s, x) \in Nat /\ IsFiniteSet({i \in 1..Len(s) : s[i] = x})
<1>1. Len(s) \in Nat
    OBVIOUS
<1>2. IsFiniteSet(1..Len(s))
    BY <1>1, FS_Interval
<1>3. {i \in 1..Len(s) : s[i] = x} \in SUBSET (1..Len(s))
    OBVIOUS
<1>4. IsFiniteSet({i \in 1..Len(s) : s[i] = x})
    BY ZenonT(30), <1>2, <1>3, FS_Subset
<1> QED BY ZenonT(30), <1>4, FS_CardinalityType DEF Count

LEMMA CountEmpty == \A x : Count(<< >>, x) = 0
<1> SUFFICES ASSUME NEW x PROVE Count(<< >>, x) = 0
    OBVIOUS
<1>1. {i \in 1..Len(<< >>) : << >>[i] = x} = {}
    OBVIOUS
<1> QED BY ZenonT(30), <1>1, FS_EmptySet DEF Count

LEMMA CountAppend ==
    ASSUME NEW s \in Seq({"up", "down"}), NEW x \in {"up", "down"}, NEW y
    PROVE  Count(Append(s, x), y) = IF x = y THEN Count(s, y) + 1 ELSE Count(s, y)
<1> DEFINE S == {i \in 1..Len(s) : s[i] = y}
           T == {i \in 1..Len(Append(s, x)) : Append(s, x)[i] = y}
<1>1. T = IF x = y THEN S \cup {Len(s) + 1} ELSE S
    OBVIOUS
<1>2. Len(s) + 1 \notin S
    OBVIOUS
<1>3. IsFiniteSet(S)
    BY ZenonT(30), CountType
<1>4. Count(s, y) = Cardinality(S) /\ Count(Append(s, x), y) = Cardinality(T)
    BY ZenonT(30) DEF Count
<1> HIDE DEF S, T
<1>5. Cardinality(S \cup {Len(s) + 1}) = Cardinality(S) + 1
    BY ZenonT(30), <1>2, <1>3, FS_AddElement
<1> QED BY ZenonT(30), <1>1, <1>4, <1>5

LEMMA CountTail ==
    ASSUME NEW s \in Seq({"up", "down"}), s # << >>, NEW y
    PROVE  Count(s, y) = IF Head(s) = y THEN Count(Tail(s), y) + 1 ELSE Count(Tail(s), y)
<1> DEFINE S == {i \in 1..Len(s) : s[i] = y}
           T == {i \in 1..Len(Tail(s)) : Tail(s)[i] = y}
           f == [i \in T |-> i + 1]
<1>1. Tail(s) \in Seq({"up", "down"}) /\ Len(Tail(s)) = Len(s) - 1 /\ Len(s) \in Nat /\ Head(s) = s[1]
      /\ \A i \in 1..(Len(s) - 1) : Tail(s)[i] = s[i + 1]
    OBVIOUS
<1>2. \A i \in T : i \in Nat /\ i + 1 \in S \ {1}
    BY <1>1
<1>3. \A j \in S \ {1} : j - 1 \in T /\ (j - 1) + 1 = j
    BY <1>1
<1>4. \A i, j \in T : i + 1 = j + 1 => i = j
    BY <1>2
<1>5. 1 \in S <=> Head(s) = y
    BY <1>1
<1>6. IsFiniteSet(S) /\ IsFiniteSet(T)
    BY ZenonT(30), <1>1, CountType
<1>7. Count(s, y) = Cardinality(S) /\ Count(Tail(s), y) = Cardinality(T) /\ Cardinality(S) \in Nat
    BY ZenonT(30), <1>6, FS_CardinalityType DEF Count
<1> HIDE DEF S, T
<1>8. f \in Bijection(T, S \ {1})
    BY ZenonT(30), <1>2, <1>3, <1>4 DEF Bijection, Injection, Surjection, IsInjective
<1>9. Cardinality(S \ {1}) = Cardinality(T)
    BY ZenonT(30), <1>6, <1>8, FS_Bijection DEF ExistsBijection
<1>10. Cardinality(S \ {1}) = IF 1 \in S THEN Cardinality(S) - 1 ELSE Cardinality(S)
    BY ZenonT(30), <1>6, FS_RemoveElement
<1> QED BY <1>5, <1>7, <1>9, <1>10

-----------------------------------------------------------------------------
(* The trackers *)

\* b: the connections of a peer that were open after each notice to come; l are
\* open now.
Walk(b, s, l) ==
    /\ b \in [0..Len(s) -> Nat] /\ b[Len(s)] = l
    /\ \A k \in 1..Len(s) : IF s[k] = "up" THEN b[k] = b[k - 1] + 1 ELSE b[k - 1] = b[k] + 1
    /\ b[0] = l + Count(s, "down") - Count(s, "up")

\* r are counted of l connections, s is to come and n connections were opened.
Tracked(r, l, s, n, early) ==
    /\ r \in Nat /\ l \in 0..(n + 1) /\ s \in Seq({"up", "down"})
    /\ r + Count(s, "up") <= n
    /\ \E b : Walk(b, s, l) /\ (r = b[0] \/ (early /\ r = b[0] - 1))

TrackInv ==
    /\ conns \in 0..MaxConns
    /\ refcount \in [Peer -> Nat] /\ links \in [Peer -> Nat] /\ notices \in [Peer -> Seq({"up", "down"})]
    /\ \A p \in Peer : Tracked(refcount[p], links[p], notices[p], conns, p \in Early)

LEMMA Sums ==
    \A l, d, u \in Nat : /\ (l + 1) + d - (u + 1) = l + d - u
                         /\ (l - 1) + (d + 1) - u = l + d - u
OBVIOUS

LEMMA Differences ==
    \A l, d, u, x \in Nat : /\ x = (l + d - (u + 1)) + 1 => x = l + d - u
                            /\ x + 1 = l + (d + 1) - u => x = l + d - u
OBVIOUS

LEMMA UpIsNotDown == "up" # "down"
OBVIOUS

LEMMA WalkStarts ==
    ASSUME NEW l \in {0, 1} PROVE \E b : Walk(b, << >>, l) /\ b[0] = l
<1> DEFINE b == [k \in 0..0 |-> l]
<1>1. Len(<< >>) = 0 /\ Count(<< >>, "down") = 0 /\ Count(<< >>, "up") = 0
    BY CountEmpty
<1>2. b \in [0..0 -> Nat] /\ b[0] = l /\ l = l + 0 - 0
    OBVIOUS
<1>3. Walk(b, << >>, l)
    BY <1>1, <1>2 DEF Walk
<1> QED BY <1>2, <1>3

LEMMA WalkOpens ==
    ASSUME NEW s \in Seq({"up", "down"}), NEW l \in Nat, NEW b, Walk(b, s, l)
    PROVE  \E c : Walk(c, Append(s, "up"), l + 1) /\ c[0] = b[0]
<1> DEFINE n == Len(s)
           t == Append(s, "up")
           c == [k \in 0..(n + 1) |-> IF k <= n THEN b[k] ELSE l + 1]
<1>1. n \in Nat /\ Len(t) = n + 1 /\ t[n + 1] = "up" /\ \A k \in 1..n : t[k] = s[k]
    OBVIOUS
<1>2. Count(s, "up") \in Nat /\ Count(s, "down") \in Nat
    BY ZenonT(30), CountType
<1>3. Count(t, "up") = Count(s, "up") + 1 /\ Count(t, "down") = Count(s, "down")
    BY ZenonT(30), UpIsNotDown, CountAppend
<1>4. /\ b \in [0..n -> Nat] /\ b[n] = l /\ b[0] = l + Count(s, "down") - Count(s, "up")
      /\ \A k \in 1..n : IF s[k] = "up" THEN b[k] = b[k - 1] + 1 ELSE b[k - 1] = b[k] + 1
    BY ZenonT(30) DEF Walk
<1> HIDE DEF n, t
<1>5. c \in [0..(n + 1) -> Nat] /\ c[n + 1] = l + 1 /\ c[0] = b[0] /\ \A k \in 0..n : c[k] = b[k]
    BY <1>1, <1>4
<1> HIDE DEF c
<1>6. \A k \in 1..(n + 1) : IF t[k] = "up" THEN c[k] = c[k - 1] + 1 ELSE c[k - 1] = c[k] + 1
    <2> TAKE k \in 1..(n + 1)
    <2>1. CASE k \in 1..n
        <3>1. c[k] = b[k] /\ c[k - 1] = b[k - 1] /\ t[k] = s[k]
            BY <1>1, <1>5, <2>1
        <3> QED BY ZenonT(30), <1>4, <2>1, <3>1
    <2>2. CASE k = n + 1
        BY <1>1, <1>4, <1>5, <2>2
    <2> QED BY <1>1, <2>1, <2>2
<1>7. c[0] = (l + 1) + Count(t, "down") - Count(t, "up")
    <2>1. (l + 1) + Count(s, "down") - (Count(s, "up") + 1) = l + Count(s, "down") - Count(s, "up")
        BY ZenonT(30), <1>2, Sums
    <2> QED BY ZenonT(30), <1>3, <1>4, <1>5, <2>1
<1>8. Walk(c, t, l + 1)
    BY ZenonT(30), <1>1, <1>5, <1>6, <1>7 DEF Walk
<1> QED BY ZenonT(30), <1>5, <1>8 DEF t

LEMMA WalkCloses ==
    ASSUME NEW s \in Seq({"up", "down"}), NEW l \in Nat, l > 0, NEW b, Walk(b, s, l)
    PROVE  \E c : Walk(c, Append(s, "down"), l - 1) /\ c[0] = b[0]
<1> DEFINE n == Len(s)
           t == Append(s, "down")
           c == [k \in 0..(n + 1) |-> IF k <= n THEN b[k] ELSE l - 1]
<1>1. n \in Nat /\ Len(t) = n + 1 /\ t[n + 1] = "down" /\ \A k \in 1..n : t[k] = s[k]
    OBVIOUS
<1>2. Count(s, "up") \in Nat /\ Count(s, "down") \in Nat
    BY ZenonT(30), CountType
<1>3. Count(t, "up") = Count(s, "up") /\ Count(t, "down") = Count(s, "down") + 1
    BY ZenonT(30), UpIsNotDown, CountAppend
<1>4. /\ b \in [0..n -> Nat] /\ b[n] = l /\ b[0] = l + Count(s, "down") - Count(s, "up")
      /\ \A k \in 1..n : IF s[k] = "up" THEN b[k] = b[k - 1] + 1 ELSE b[k - 1] = b[k] + 1
    BY ZenonT(30) DEF Walk
<1> HIDE DEF n, t
<1>5. c \in [0..(n + 1) -> Nat] /\ c[n + 1] = l - 1 /\ c[0] = b[0] /\ \A k \in 0..n : c[k] = b[k]
    BY <1>1, <1>4
<1> HIDE DEF c
<1>6. \A k \in 1..(n + 1) : IF t[k] = "up" THEN c[k] = c[k - 1] + 1 ELSE c[k - 1] = c[k] + 1
    <2> TAKE k \in 1..(n + 1)
    <2>1. CASE k \in 1..n
        <3>1. c[k] = b[k] /\ c[k - 1] = b[k - 1] /\ t[k] = s[k]
            BY <1>1, <1>5, <2>1
        <3> QED BY ZenonT(30), <1>4, <2>1, <3>1
    <2>2. CASE k = n + 1
        BY <1>1, <1>4, <1>5, <2>2, UpIsNotDown
    <2> QED BY <1>1, <2>1, <2>2
<1>7. c[0] = (l - 1) + Count(t, "down") - Count(t, "up")
    <2>1. (l - 1) + (Count(s, "down") + 1) - Count(s, "up") = l + Count(s, "down") - Count(s, "up")
        BY ZenonT(30), <1>2, Sums
    <2> QED BY ZenonT(30), <1>3, <1>4, <1>5, <2>1
<1>8. Walk(c, t, l - 1)
    BY ZenonT(30), <1>1, <1>5, <1>6, <1>7 DEF Walk
<1> QED BY ZenonT(30), <1>5, <1>8 DEF t

LEMMA WalkTells ==
    ASSUME NEW s \in Seq({"up", "down"}), s # << >>, NEW l \in Nat, NEW b, Walk(b, s, l)
    PROVE  /\ \E c : Walk(c, Tail(s), l) /\ c[0] = b[1]
           /\ b[0] \in Nat /\ b[1] \in Nat
           /\ IF Head(s) = "up" THEN b[1] = b[0] + 1 ELSE b[0] = b[1] + 1
<1> DEFINE n == Len(s)
           t == Tail(s)
           c == [k \in 0..(n - 1) |-> b[k + 1]]
<1>1. n \in Nat /\ n >= 1 /\ Len(t) = n - 1 /\ Head(s) = s[1] /\ \A k \in 1..(n - 1) : t[k] = s[k + 1]
    OBVIOUS
<1>2. Count(t, "up") \in Nat /\ Count(t, "down") \in Nat
    <2>1. t \in Seq({"up", "down"})
        OBVIOUS
    <2> QED BY ZenonT(30), <2>1, CountType
<1>3. /\ Count(s, "up") = IF Head(s) = "up" THEN Count(t, "up") + 1 ELSE Count(t, "up")
      /\ Count(s, "down") = IF Head(s) = "down" THEN Count(t, "down") + 1 ELSE Count(t, "down")
    BY ZenonT(30), CountTail
<1>4. /\ b \in [0..n -> Nat] /\ b[n] = l /\ b[0] = l + Count(s, "down") - Count(s, "up")
      /\ \A k \in 1..n : IF s[k] = "up" THEN b[k] = b[k - 1] + 1 ELSE b[k - 1] = b[k] + 1
    BY ZenonT(30) DEF Walk
<1>5. Head(s) \in {"up", "down"}
    OBVIOUS
<1> HIDE DEF n, t
<1>6. b[0] \in Nat /\ b[1] \in Nat /\ IF Head(s) = "up" THEN b[1] = b[0] + 1 ELSE b[0] = b[1] + 1
    BY <1>1, <1>4
<1>7. c \in [0..(n - 1) -> Nat] /\ c[n - 1] = l /\ c[0] = b[1] /\ \A k \in 0..(n - 1) : c[k] = b[k + 1]
    BY <1>1, <1>4
<1> HIDE DEF c
<1>8. \A k \in 1..(n - 1) : IF t[k] = "up" THEN c[k] = c[k - 1] + 1 ELSE c[k - 1] = c[k] + 1
    <2> TAKE k \in 1..(n - 1)
    <2>1. c[k] = b[k + 1] /\ c[k - 1] = b[(k + 1) - 1] /\ t[k] = s[k + 1] /\ k + 1 \in 1..n
        BY <1>1, <1>7
    <2> QED BY ZenonT(30), <1>4, <2>1
<1>9. c[0] = l + Count(t, "down") - Count(t, "up")
    <2>1. CASE Head(s) = "up"
        <3>1. b[1] = (l + Count(t, "down") - (Count(t, "up") + 1)) + 1
            BY ZenonT(30), <1>3, <1>4, <1>6, <2>1, UpIsNotDown
        <3>2. b[1] = l + Count(t, "down") - Count(t, "up")
            BY SMTT(30), <1>2, <1>6, <3>1, Differences
        <3> QED BY ZenonT(30), <1>7, <3>2
    <2>2. CASE Head(s) = "down"
        <3>1. b[1] + 1 = l + (Count(t, "down") + 1) - Count(t, "up") /\ b[1] \in Nat
            BY ZenonT(30), <1>3, <1>4, <1>6, <2>2, UpIsNotDown
        <3>2. b[1] = l + Count(t, "down") - Count(t, "up")
            BY SMTT(30), <1>2, <3>1
        <3> QED BY ZenonT(30), <1>7, <3>2
    <2> QED BY <1>5, <2>1, <2>2
<1>10. Walk(c, t, l)
    BY ZenonT(30), <1>1, <1>7, <1>8, <1>9 DEF Walk
<1> QED BY ZenonT(30), <1>6, <1>7, <1>10 DEF t

\* A connection is opened: of this peer or of another.
LEMMA TrackedOpens ==
    ASSUME NEW n \in Nat, NEW r, NEW l, NEW s, NEW early, Tracked(r, l, s, n, early)
    PROVE  /\ Tracked(r, l, s, n + 1, early)
           /\ Tracked(r, l + 1, Append(s, "up"), n + 1, early)
<1>1. /\ r \in Nat /\ l \in 0..(n + 1) /\ s \in Seq({"up", "down"}) /\ r + Count(s, "up") <= n
    BY ZenonT(30) DEF Tracked
<1>2. PICK b : Walk(b, s, l) /\ (r = b[0] \/ (early /\ r = b[0] - 1))
    BY ZenonT(30) DEF Tracked
<1>3. l \in Nat
    BY <1>1
<1>4. PICK c : Walk(c, Append(s, "up"), l + 1) /\ c[0] = b[0]
    BY SMTT(30), <1>1, <1>2, <1>3, WalkOpens
<1>5. Count(s, "up") \in Nat
    BY ZenonT(30), <1>1, CountType
<1>6. Count(Append(s, "up"), "up") = Count(s, "up") + 1
    BY ZenonT(30), <1>1, CountAppend
<1>7. /\ l \in 0..((n + 1) + 1) /\ r + Count(s, "up") <= n + 1
      /\ l + 1 \in 0..((n + 1) + 1) /\ r + (Count(s, "up") + 1) <= n + 1
    BY <1>1, <1>5
<1>8. Append(s, "up") \in Seq({"up", "down"})
    BY <1>1
<1> QED BY ZenonT(30), <1>1, <1>2, <1>4, <1>6, <1>7, <1>8 DEF Tracked

LEMMA TrackedCloses ==
    ASSUME NEW n \in Nat, NEW r, NEW l, NEW s, NEW early, Tracked(r, l, s, n, early), l > 0
    PROVE  Tracked(r, l - 1, Append(s, "down"), n, early)
<1>1. /\ r \in Nat /\ l \in 0..(n + 1) /\ s \in Seq({"up", "down"}) /\ r + Count(s, "up") <= n
    BY ZenonT(30) DEF Tracked
<1>2. PICK b : Walk(b, s, l) /\ (r = b[0] \/ (early /\ r = b[0] - 1))
    BY ZenonT(30) DEF Tracked
<1>3. l \in Nat /\ l - 1 \in 0..(n + 1)
    BY <1>1
<1>4. PICK c : Walk(c, Append(s, "down"), l - 1) /\ c[0] = b[0]
    BY SMTT(30), <1>1, <1>2, <1>3, WalkCloses
<1>5. Count(Append(s, "down"), "up") = Count(s, "up")
    BY ZenonT(30), <1>1, UpIsNotDown, CountAppend
<1>6. Append(s, "down") \in Seq({"up", "down"})
    BY <1>1
<1> QED BY ZenonT(30), <1>1, <1>2, <1>3, <1>4, <1>5, <1>6 DEF Tracked

\* The listener is told of a connection, or of the end of one.
LEMMA TrackedTold ==
    ASSUME NEW n \in Nat, NEW r, NEW l, NEW s, NEW early, Tracked(r, l, s, n, early), s # << >>
    PROVE  /\ Head(s) = "up" => Tracked(r + 1, l, Tail(s), n, early)
           /\ Head(s) = "down" => Tracked(IF r = 0 THEN 0 ELSE r - 1, l, Tail(s), n, early)
<1>1. /\ r \in Nat /\ l \in 0..(n + 1) /\ s \in Seq({"up", "down"}) /\ r + Count(s, "up") <= n
    BY ZenonT(30) DEF Tracked
<1>2. PICK b : Walk(b, s, l) /\ (r = b[0] \/ (early /\ r = b[0] - 1))
    BY ZenonT(30) DEF Tracked
<1>3. l \in Nat /\ Tail(s) \in Seq({"up", "down"})
    BY <1>1
<1>4. /\ \E c : Walk(c, Tail(s), l) /\ c[0] = b[1]
      /\ b[0] \in Nat /\ b[1] \in Nat
      /\ IF Head(s) = "up" THEN b[1] = b[0] + 1 ELSE b[0] = b[1] + 1
    BY ZenonT(30), <1>1, <1>2, <1>3, WalkTells
<1>5. PICK c : Walk(c, Tail(s), l) /\ c[0] = b[1]
    BY ZenonT(30), <1>4
<1>6. Count(Tail(s), "up") \in Nat
    BY ZenonT(30), <1>3, CountType
<1>7. Count(s, "up") = IF Head(s) = "up" THEN Count(Tail(s), "up") + 1 ELSE Count(Tail(s), "up")
    BY ZenonT(30), <1>1, CountTail
<1>8. CASE Head(s) = "up"
    <2>1. r + (Count(Tail(s), "up") + 1) <= n /\ b[1] = b[0] + 1 /\ r \in Nat /\ b[0] \in Nat /\ b[1] \in Nat
        BY ZenonT(30), <1>1, <1>4, <1>7, <1>8
    <2>2. r + 1 \in Nat /\ (r + 1) + Count(Tail(s), "up") <= n /\ (r = b[0] => r + 1 = b[1]) /\ (r = b[0] - 1 => r + 1 = b[1] - 1)
        BY SMTT(30), <1>6, <2>1
    <2>3. Head(s) # "down"
        BY ZenonT(30), <1>8, UpIsNotDown
    <2> QED BY ZenonT(30), <1>1, <1>2, <1>3, <1>5, <2>2, <2>3 DEF Tracked
<1>9. CASE Head(s) = "down"
    <2> DEFINE r2 == IF r = 0 THEN 0 ELSE r - 1
    <2>1. r + Count(Tail(s), "up") <= n /\ b[0] = b[1] + 1 /\ r \in Nat /\ b[0] \in Nat /\ b[1] \in Nat
        BY ZenonT(30), <1>1, <1>4, <1>7, <1>9, UpIsNotDown
    <2>2. r2 \in Nat /\ r2 + Count(Tail(s), "up") <= n /\ (r = b[0] => r2 = b[1]) /\ (r = b[0] - 1 => r2 = b[1] \/ r2 = b[1] - 1)
        BY SMTT(30), <1>6, <2>1
    <2> HIDE DEF r2
    <2>3. Head(s) # "up"
        BY ZenonT(30), <1>9, UpIsNotDown
    <2>4. Tracked(r2, l, Tail(s), n, early)
        BY ZenonT(30), <1>1, <1>2, <1>3, <1>5, <2>2 DEF Tracked
    <2> QED BY ZenonT(30), <2>3, <2>4 DEF r2
<1> QED BY ZenonT(30), <1>8, <1>9

TrackSame == UNCHANGED <<refcount, links, notices, conns>>

LEMMA TrackOpens ==
    ASSUME TrackInv, NEW p \in Peer, OpenConnection(p), UNCHANGED refcount PROVE TrackInv'
<1>1. /\ conns < MaxConns /\ conns' = conns + 1 /\ links' = [links EXCEPT ![p] = links[p] + 1]
      /\ notices' = [notices EXCEPT ![p] = Append(notices[p], "up")]
    BY ZenonT(30) DEF OpenConnection
<1>2. conns \in Nat /\ conns' \in 0..MaxConns
    BY <1>1, Bounds DEF TrackInv
<1>3. \A q \in Peer : /\ links[q] \in Nat /\ notices[q] \in Seq({"up", "down"})
                      /\ Tracked(refcount[q], links[q], notices[q], conns, q \in Early)
    BY ZenonT(30) DEF TrackInv
<1>4. links[p] + 1 \in Nat /\ Append(notices[p], "up") \in Seq({"up", "down"})
    BY <1>3
<1>5. links' \in [Peer -> Nat] /\ notices' \in [Peer -> Seq({"up", "down"})]
    BY ZenonT(30), <1>1, <1>4 DEF TrackInv
<1>6. ASSUME NEW q \in Peer PROVE Tracked(refcount'[q], links'[q], notices'[q], conns', q \in Early)
    <2>1. CASE q = p
        <3>1. links'[p] = links[p] + 1 /\ notices'[p] = Append(notices[p], "up") /\ refcount'[p] = refcount[p]
            BY ZenonT(30), <1>1 DEF TrackInv
        <3>2. Tracked(refcount[p], links[p] + 1, Append(notices[p], "up"), conns + 1, p \in Early)
            BY ZenonT(30), <1>2, <1>3, TrackedOpens
        <3> QED BY ZenonT(30), <1>1, <2>1, <3>1, <3>2
    <2>2. CASE q # p
        <3>1. links'[q] = links[q] /\ notices'[q] = notices[q] /\ refcount'[q] = refcount[q]
            BY ZenonT(30), <1>1, <2>2 DEF TrackInv
        <3>2. Tracked(refcount[q], links[q], notices[q], conns + 1, q \in Early)
            BY ZenonT(30), <1>2, <1>3, TrackedOpens
        <3> QED BY ZenonT(30), <1>1, <3>1, <3>2
    <2> QED BY <2>1, <2>2
<1> QED BY ZenonT(30), <1>2, <1>5, <1>6 DEF TrackInv

LEMMA TrackCloses ==
    ASSUME TrackInv, NEW p \in Peer, ConnectionCloses(p) PROVE TrackInv'
<1>1. /\ links[p] > 0 /\ links' = [links EXCEPT ![p] = links[p] - 1]
      /\ notices' = [notices EXCEPT ![p] = Append(notices[p], "down")] /\ UNCHANGED <<refcount, conns>>
    BY ZenonT(30) DEF ConnectionCloses
<1>2. conns \in Nat
    BY Bounds DEF TrackInv
<1>3. \A q \in Peer : /\ links[q] \in Nat /\ notices[q] \in Seq({"up", "down"})
                      /\ Tracked(refcount[q], links[q], notices[q], conns, q \in Early)
    BY ZenonT(30) DEF TrackInv
<1>4. links[p] - 1 \in Nat /\ Append(notices[p], "down") \in Seq({"up", "down"})
    BY <1>1, <1>3
<1>5. links' \in [Peer -> Nat] /\ notices' \in [Peer -> Seq({"up", "down"})]
    BY ZenonT(30), <1>1, <1>4 DEF TrackInv
<1>6. ASSUME NEW q \in Peer PROVE Tracked(refcount'[q], links'[q], notices'[q], conns', q \in Early)
    <2>1. CASE q = p
        <3>1. links'[p] = links[p] - 1 /\ notices'[p] = Append(notices[p], "down")
            BY ZenonT(30), <1>1 DEF TrackInv
        <3>2. Tracked(refcount[p], links[p] - 1, Append(notices[p], "down"), conns, p \in Early)
            BY ZenonT(30), <1>1, <1>2, <1>3, TrackedCloses
        <3> QED BY ZenonT(30), <1>1, <2>1, <3>1, <3>2
    <2>2. CASE q # p
        <3>1. links'[q] = links[q] /\ notices'[q] = notices[q]
            BY ZenonT(30), <1>1, <2>2 DEF TrackInv
        <3> QED BY ZenonT(30), <1>1, <1>3, <3>1
    <2> QED BY <2>1, <2>2
<1> QED BY ZenonT(30), <1>1, <1>5, <1>6 DEF TrackInv

LEMMA TrackTold ==
    ASSUME TrackInv, NEW p \in Peer, Connected(p) \/ Disconnected(p) PROVE TrackInv'
<1>1. PICK r : /\ notices[p] # << >> /\ notices' = [notices EXCEPT ![p] = Tail(notices[p])]
               /\ refcount' = [refcount EXCEPT ![p] = r] /\ UNCHANGED <<links, conns>>
               /\ \/ Head(notices[p]) = "up" /\ r = refcount[p] + 1
                  \/ Head(notices[p]) = "down" /\ r = IF refcount[p] = 0 THEN 0 ELSE refcount[p] - 1
    BY ZenonT(30) DEF Connected, Disconnected
<1>2. conns \in Nat
    BY Bounds DEF TrackInv
<1>3. \A q \in Peer : /\ notices[q] \in Seq({"up", "down"})
                      /\ Tracked(refcount[q], links[q], notices[q], conns, q \in Early)
    BY ZenonT(30) DEF TrackInv
<1>4. Tracked(r, links[p], Tail(notices[p]), conns, p \in Early)
    <2>1. /\ Head(notices[p]) = "up" => Tracked(refcount[p] + 1, links[p], Tail(notices[p]), conns, p \in Early)
          /\ Head(notices[p]) = "down" =>
                Tracked(IF refcount[p] = 0 THEN 0 ELSE refcount[p] - 1, links[p], Tail(notices[p]), conns, p \in Early)
        BY ZenonT(30), <1>1, <1>2, <1>3, TrackedTold
    <2> QED BY ZenonT(30), <1>1, <2>1
<1>5. r \in Nat /\ Tail(notices[p]) \in Seq({"up", "down"})
    BY ZenonT(30), <1>4 DEF Tracked
<1>6. refcount' \in [Peer -> Nat] /\ notices' \in [Peer -> Seq({"up", "down"})]
    BY ZenonT(30), <1>1, <1>5 DEF TrackInv
<1>7. ASSUME NEW q \in Peer PROVE Tracked(refcount'[q], links'[q], notices'[q], conns', q \in Early)
    <2>1. CASE q = p
        <3>1. refcount'[p] = r /\ notices'[p] = Tail(notices[p])
            BY ZenonT(30), <1>1 DEF TrackInv
        <3> QED BY ZenonT(30), <1>1, <1>4, <2>1, <3>1
    <2>2. CASE q # p
        <3>1. refcount'[q] = refcount[q] /\ notices'[q] = notices[q]
            BY ZenonT(30), <1>1, <2>2 DEF TrackInv
        <3> QED BY ZenonT(30), <1>1, <1>3, <3>1
    <2> QED BY <2>1, <2>2
<1> QED BY ZenonT(30), <1>1, <1>6, <1>7 DEF TrackInv

\* No notices, at the start and after a restart.
LEMMA TrackedFresh ==
    ASSUME NEW n \in Nat, NEW l \in {0, 1}, NEW early, l = 0 \/ early
    PROVE  Tracked(0, l, << >>, n, early)
<1>1. PICK b : Walk(b, << >>, l) /\ b[0] = l
    BY ZenonT(30), WalkStarts
<1>2. Count(<< >>, "up") = 0
    BY ZenonT(30), CountEmpty
<1>3. 0 \in Nat /\ l \in 0..(n + 1) /\ << >> \in Seq({"up", "down"}) /\ 0 + 0 <= n
    OBVIOUS
<1>4. l = 0 => 0 = b[0]
    BY ZenonT(30), <1>1
<1>5. l = 1 => 0 = b[0] - 1
    BY <1>1
<1> QED BY ZenonT(30), <1>1, <1>2, <1>3, <1>4, <1>5 DEF Tracked

LEMMA TrackRestart == ASSUME TrackInv, Restart PROVE TrackInv'
<1>1. /\ refcount' = [p \in Peer |-> 0] /\ links' = [p \in Peer |-> 0]
      /\ notices' = [p \in Peer |-> << >>] /\ UNCHANGED conns
    BY ZenonT(30) DEF Restart
<1>2. conns \in Nat /\ << >> \in Seq({"up", "down"}) /\ 0 \in Nat
    BY Bounds DEF TrackInv
<1>3. \A p \in Peer : Tracked(0, 0, << >>, conns, p \in Early)
    BY ZenonT(30), <1>2, TrackedFresh
<1> QED BY ZenonT(30), <1>1, <1>2, <1>3 DEF TrackInv

LEMMA TrackInit == Init => TrackInv
<1> SUFFICES ASSUME Init PROVE TrackInv
    OBVIOUS
<1>1. conns = 0 /\ 0 \in 0..MaxConns /\ 0 \in Nat /\ 1 \in Nat /\ << >> \in Seq({"up", "down"})
    BY Bounds DEF Init
<1>2. /\ refcount = [p \in Peer |-> 0] /\ links = [p \in Peer |-> IF p \in Early THEN 1 ELSE 0]
      /\ notices = [p \in Peer |-> << >>]
    BY ZenonT(30) DEF Init
<1>3. refcount \in [Peer -> Nat] /\ links \in [Peer -> Nat] /\ notices \in [Peer -> Seq({"up", "down"})]
    <2>1. links \in [Peer -> Nat]
        BY <1>2
    <2> QED BY ZenonT(30), <1>1, <1>2, <2>1
<1>4. ASSUME NEW p \in Peer PROVE Tracked(refcount[p], links[p], notices[p], conns, p \in Early)
    <2>1. refcount[p] = 0 /\ notices[p] = << >> /\ links[p] \in {0, 1} /\ (links[p] = 0 \/ p \in Early)
        <3>1. links[p] = IF p \in Early THEN 1 ELSE 0
            BY ZenonT(30), <1>2
        <3>2. links[p] \in {0, 1} /\ (links[p] = 0 \/ p \in Early)
            BY <3>1
        <3> QED BY ZenonT(30), <1>2, <3>2
    <2>2. Tracked(0, links[p], << >>, 0, p \in Early)
        BY ZenonT(30), <1>1, <2>1, TrackedFresh
    <2> QED BY ZenonT(30), <1>1, <2>1, <2>2
<1>5. conns \in 0..MaxConns
    BY <1>1
<1> QED BY ZenonT(30), <1>3, <1>4, <1>5 DEF TrackInv

LEMMA TrackStep == TrackInv /\ [Next]_vars => TrackInv'
<1> SUFFICES ASSUME TrackInv, [Next]_vars PROVE TrackInv'
    OBVIOUS
<1>1. ASSUME TrackSame PROVE TrackInv'
    BY ZenonT(30), <1>1 DEF TrackSame, TrackInv
<1>2. ASSUME NEW p \in Peer, PeerStep(p) PROVE TrackInv'
    <2>1. CASE Dialled(p)
        BY ZenonT(30), <2>1, TrackOpens DEF Dialled
    <2>2. CASE ConnectionCloses(p)
        BY ZenonT(30), <2>2, TrackCloses
    <2>3. CASE Connected(p) \/ Disconnected(p)
        BY ZenonT(30), <2>3, TrackTold
    <2>4. CASE ConnectOk(p)
        BY ZenonT(30), <1>1, <2>4, TrackOpens DEF ConnectOk, TrackSame
    <2>5. CASE ConnectFails(p) \/ FinishAdd(p)
        BY ZenonT(30), <1>1, <2>5 DEF ConnectFails, FinishAdd, TrackSame
    <2>6. CASE AddToList(p) \/ Block(p)
        BY ZenonT(30), <1>1, <2>6 DEF AddToList, Block, peerVars, TrackSame
    <2> QED BY ZenonT(30), <1>2, <2>1, <2>2, <2>3, <2>4, <2>5, <2>6 DEF PeerStep
<1>3. CASE \E n \in Known : HandlePeerFound(n) \/ BSget(n)
    BY ZenonT(30), <1>1, <1>3 DEF HandlePeerFound, BSget, AddPeer, TrackSame
<1>4. CASE Tick \/ \E n \in Poster : BSpost(n)
    BY ZenonT(30), <1>1, <1>4 DEF Tick, BSpost, peerVars, TrackSame
<1>5. CASE Restart
    BY ZenonT(30), <1>5, TrackRestart
<1>6. CASE UNCHANGED vars
    BY ZenonT(30), <1>1, <1>6 DEF vars, peerVars, TrackSame
<1> QED BY ZenonT(30), <1>2, <1>3, <1>4, <1>5, <1>6 DEF Next

LEMMA TrackHolds == Spec => []TrackInv
BY TrackInit, TrackStep, PTL DEF Spec

LEMMA InvTracks == TrackInv => RefcountTracks
<1>1. ASSUME TrackInv, NEW p \in Peer, NEW open, open = links[p] + Count(notices[p], "down") - Count(notices[p], "up")
      PROVE  refcount[p] = open \/ (p \in Early /\ refcount[p] = open - 1)
    <2>1. PICK b : /\ Walk(b, notices[p], links[p])
                   /\ refcount[p] = b[0] \/ (p \in Early /\ refcount[p] = b[0] - 1)
        BY ZenonT(30), <1>1 DEF TrackInv, Tracked
    <2>2. b[0] = open
        BY ZenonT(30), <1>1, <2>1 DEF Walk
    <2> QED BY ZenonT(30), <2>1, <2>2
<1> QED BY <1>1 DEF RefcountTracks

\* However many connections are opened and closed, and however late the listener is
\* told: a tracker counts the connections it has been told of and not told the end
\* of, but for one that was there before the listener.  The notices of a peer can be
\* walked through from the tracker's count to the connections that are open, never
\* below zero.
THEOREM TrackersCount == Spec => []RefcountTracks
BY TrackHolds, InvTracks, PTL

-----------------------------------------------------------------------------
(* Numbers *)

LEMMA LeastOne ==
    ASSUME NEW T, T \subseteq Nat, T # {} PROVE \E n \in T : \A m \in T : n <= m
<1>1. PICK n \in T : \A m \in T : ~(<<m, n>> \in OpToRel(<, Nat))
    BY ZenonT(30), NatLessThanWellFounded, WFMin
<1>2. \A m \in T : ~(m < n)
    BY ZenonT(30), <1>1 DEF OpToRel
<1> QED BY <1>2

\* A set with zero that has the successor of each of its numbers below n.
LEMMA Counting ==
    ASSUME NEW n \in Nat, NEW T, 0 \in T, \A m \in 0..(n - 1) : m \in T => m + 1 \in T
    PROVE  \A m \in 0..n : m \in T
<1> SUFFICES ASSUME \E m \in 0..n : m \notin T PROVE FALSE
    OBVIOUS
<1> DEFINE F == {m \in 0..n : m \notin T}
<1>1. F \subseteq Nat /\ F # {}
    OBVIOUS
<1>2. PICK k \in F : \A m \in F : k <= m
    BY ZenonT(30), <1>1, LeastOne
<1>3. k \in 0..n /\ k \notin T /\ k # 0
    BY <1>2
<1>4. k - 1 \in 0..(n - 1) /\ k - 1 \in 0..n /\ (k - 1) + 1 = k /\ ~(k <= k - 1)
    BY <1>3
<1>5. k - 1 \in T
    BY ZenonT(30), <1>2, <1>4
<1>6. k \in T
    BY ZenonT(30), <1>4, <1>5
<1> QED BY ZenonT(30), <1>3, <1>6

-----------------------------------------------------------------------------
(* Buckets *)

Distinct(b) == \A i, j \in 1..Len(b) : b[i] = b[j] => i = j

\* The function by which Kept is computed.
KeepFcn(b, S) ==
    CHOOSE f : f = [i \in 0..Len(b) |-> IF i = 0 THEN << >>
                                        ELSE IF b[i] \in S THEN Append(f[i - 1], b[i]) ELSE f[i - 1]]

\* f is right up to m.
KeepsTo(f, b, S, m) ==
    /\ f \in [0..m -> Seq(Peer)] /\ f[0] = << >>
    /\ \A i \in 1..m : f[i] = IF b[i] \in S THEN Append(f[i - 1], b[i]) ELSE f[i - 1]

LEMMA KeepExtends ==
    ASSUME NEW b \in Seq(Peer), NEW S, NEW m \in 0..(Len(b) - 1), NEW f, KeepsTo(f, b, S, m)
    PROVE  \E g : KeepsTo(g, b, S, m + 1)
<1> DEFINE x == IF b[m + 1] \in S THEN Append(f[m], b[m + 1]) ELSE f[m]
           g == [i \in 0..(m + 1) |-> IF i <= m THEN f[i] ELSE x]
<1>1. /\ f \in [0..m -> Seq(Peer)] /\ f[0] = << >>
      /\ \A i \in 1..m : f[i] = IF b[i] \in S THEN Append(f[i - 1], b[i]) ELSE f[i - 1]
    BY ZenonT(30) DEF KeepsTo
<1>2. m \in Nat /\ m + 1 \in 1..Len(b) /\ b[m + 1] \in Peer /\ f[m] \in Seq(Peer)
    BY <1>1
<1>3. x \in Seq(Peer)
    BY <1>2
<1> HIDE DEF x
<1>4. g \in [0..(m + 1) -> Seq(Peer)] /\ g[m + 1] = x /\ \A i \in 0..m : g[i] = f[i]
    BY <1>1, <1>2, <1>3
<1> HIDE DEF g
<1>5. ASSUME NEW i \in 1..(m + 1) PROVE g[i] = IF b[i] \in S THEN Append(g[i - 1], b[i]) ELSE g[i - 1]
    <2>1. CASE i \in 1..m
        <3>1. i \in 0..m /\ i - 1 \in 0..m
            BY <1>2, <2>1
        <3> QED BY ZenonT(30), <1>1, <1>4, <2>1, <3>1
    <2>2. CASE i = m + 1
        <3>1. i - 1 = m /\ m \in 0..m
            BY <1>2, <2>2
        <3> QED BY ZenonT(30), <1>4, <2>2, <3>1 DEF x
    <2> QED BY <1>2, <2>1, <2>2
<1>6. g[0] = << >>
    BY <1>1, <1>2, <1>4
<1> QED BY ZenonT(30), <1>4, <1>5, <1>6 DEF KeepsTo

LEMMA KeepExists ==
    ASSUME NEW b \in Seq(Peer), NEW S
    PROVE  KeepsTo(KeepFcn(b, S), b, S, Len(b)) /\ Kept(b, S) = KeepFcn(b, S)[Len(b)]
<1> DEFINE n == Len(b)
           T == {m \in 0..n : \E f : KeepsTo(f, b, S, m)}
           z == [i \in 0..0 |-> << >>]
<1>1. n \in Nat /\ 0 \in 0..n /\ n \in 0..n
    OBVIOUS
<1>2. KeepsTo(z, b, S, 0)
    BY DEF KeepsTo
<1>3. \A m \in 0..(n - 1) : m \in 0..n /\ m + 1 \in 0..n
    BY <1>1
<1>4. 0 \in T
    BY ZenonT(30), <1>1, <1>2
<1>5. \A m \in 0..(n - 1) : m \in T => m + 1 \in T
    BY ZenonT(30), <1>3, KeepExtends
<1> HIDE DEF T
<1>6. n \in T
    BY ZenonT(30), <1>1, <1>4, <1>5, Counting
<1>7. PICK f : KeepsTo(f, b, S, n)
    BY ZenonT(30), <1>6 DEF T
<1>8. f = [i \in 0..n |-> IF i = 0 THEN << >> ELSE IF b[i] \in S THEN Append(f[i - 1], b[i]) ELSE f[i - 1]]
    <2>1. f \in [0..n -> Seq(Peer)]
        BY ZenonT(30), <1>7 DEF KeepsTo
    <2>2. ASSUME NEW i \in 0..n
          PROVE  f[i] = IF i = 0 THEN << >> ELSE IF b[i] \in S THEN Append(f[i - 1], b[i]) ELSE f[i - 1]
        <3>1. i = 0 \/ i \in 1..n
            BY <1>1
        <3>2. i \in 1..n => i # 0
            BY <1>1
        <3> QED BY ZenonT(30), <1>7, <3>1, <3>2 DEF KeepsTo
    <2> QED BY ZenonT(30), <2>1, <2>2
<1> DEFINE h == KeepFcn(b, S)
<1>9. h = [i \in 0..n |-> IF i = 0 THEN << >> ELSE IF b[i] \in S THEN Append(h[i - 1], b[i]) ELSE h[i - 1]]
    BY ZenonT(30), <1>8 DEF KeepFcn
<1>10. Kept(b, S) = h[n]
    BY ZenonT(30) DEF Kept, KeepFcn
<1> HIDE DEF h
<1>11. /\ DOMAIN h = 0..n
       /\ \A i \in 0..n : h[i] = IF i = 0 THEN << >> ELSE IF b[i] \in S THEN Append(h[i - 1], b[i]) ELSE h[i - 1]
    BY ZenonT(30), <1>9
<1>12. h[0] = << >>
    BY ZenonT(30), <1>1, <1>11
<1>13. \A m \in 0..(n - 1) : h[m + 1] = IF b[m + 1] \in S THEN Append(h[m], b[m + 1]) ELSE h[m]
    <2> TAKE m \in 0..(n - 1)
    <2>1. m + 1 \in 0..n /\ m + 1 # 0 /\ (m + 1) - 1 = m
        BY <1>1
    <2> QED BY ZenonT(30), <1>11, <2>1
<1> DEFINE U == {m \in 0..n : h[m] \in Seq(Peer)}
<1>14. 0 \in U
    <2>1. << >> \in Seq(Peer)
        OBVIOUS
    <2> QED BY ZenonT(30), <1>1, <1>12, <2>1
<1>15. ASSUME NEW m \in 0..(n - 1), m \in U PROVE m + 1 \in U
    <2>1. m + 1 \in 1..n /\ b[m + 1] \in Peer /\ h[m] \in Seq(Peer)
        BY <1>1, <1>15
    <2>2. Append(h[m], b[m + 1]) \in Seq(Peer)
        BY <2>1
    <2> QED BY ZenonT(30), <1>3, <1>13, <2>1, <2>2
<1> HIDE DEF U
<1>16. \A m \in 0..n : m \in U
    BY ZenonT(30), <1>1, <1>14, <1>15, Counting
<1>17. h \in [0..n -> Seq(Peer)]
    <2>1. \A m \in 0..n : h[m] \in Seq(Peer)
        BY ZenonT(30), <1>16 DEF U
    <2> QED BY ZenonT(30), <1>9, <1>11, <2>1
<1>18. \A i \in 1..n : h[i] = IF b[i] \in S THEN Append(h[i - 1], b[i]) ELSE h[i - 1]
    <2> TAKE i \in 1..n
    <2>1. i \in 0..n /\ i # 0
        BY <1>1
    <2> QED BY ZenonT(30), <1>11, <2>1
<1> QED BY ZenonT(30), <1>10, <1>12, <1>17, <1>18 DEF KeepsTo, h

\* What is kept of the first m peers of b.
KeptOf(g, b, S, m) ==
    /\ g \in Seq(Peer) /\ Len(g) <= m
    /\ \A p : p \in Elements(g) <=> p \in S /\ \E i \in 1..m : b[i] = p
    /\ (\E i \in 1..m : b[i] \notin S) => Len(g) < m
    /\ Distinct(b) => Distinct(g)

LEMMA ElementsAppend ==
    ASSUME NEW g \in Seq(Peer), NEW x \in Peer
    PROVE  /\ Append(g, x) \in Seq(Peer) /\ Len(Append(g, x)) = Len(g) + 1
           /\ \A p : p \in Elements(Append(g, x)) <=> p \in Elements(g) \/ p = x
           /\ Distinct(g) /\ x \notin Elements(g) => Distinct(Append(g, x))
<1> DEFINE h == Append(g, x)
<1>1. h \in Seq(Peer) /\ Len(h) = Len(g) + 1 /\ Len(g) \in Nat /\ h[Len(g) + 1] = x /\ \A i \in 1..Len(g) : h[i] = g[i]
    OBVIOUS
<1> HIDE DEF h
<1>2. \A i : i \in 1..Len(h) <=> i \in 1..Len(g) \/ i = Len(g) + 1
    BY <1>1
<1>3. \A p : p \in Elements(h) <=> p \in Elements(g) \/ p = x
    BY ZenonT(30), <1>1, <1>2 DEF Elements
<1>4. ASSUME Distinct(g), x \notin Elements(g) PROVE Distinct(h)
    <2> SUFFICES ASSUME NEW i \in 1..Len(h), NEW j \in 1..Len(h), h[i] = h[j] PROVE i = j
        BY ZenonT(30) DEF Distinct
    <2>1. \A k \in 1..Len(g) : g[k] # x
        BY ZenonT(30), <1>4 DEF Elements
    <2> QED BY ZenonT(30), <1>1, <1>2, <1>4, <2>1 DEF Distinct
<1> QED BY ZenonT(30), <1>1, <1>3, <1>4 DEF h

LEMMA KeptOfNext ==
    ASSUME NEW b \in Seq(Peer), NEW S, NEW m \in 0..(Len(b) - 1), NEW g, KeptOf(g, b, S, m)
    PROVE  KeptOf(IF b[m + 1] \in S THEN Append(g, b[m + 1]) ELSE g, b, S, m + 1)
<1> DEFINE x == b[m + 1]
<1>1. m \in Nat /\ m + 1 \in 1..Len(b) /\ x \in Peer /\ Len(b) \in Nat
    OBVIOUS
<1>2. /\ g \in Seq(Peer) /\ Len(g) <= m /\ Len(g) \in Nat
      /\ \A p : p \in Elements(g) <=> p \in S /\ \E i \in 1..m : b[i] = p
      /\ (\E i \in 1..m : b[i] \notin S) => Len(g) < m
      /\ Distinct(b) => Distinct(g)
    BY DEF KeptOf
<1>3. \A i : i \in 1..(m + 1) <=> i \in 1..m \/ i = m + 1
    BY <1>1
<1>4. Len(g) <= m + 1 /\ Len(g) + 1 <= m + 1 /\ Len(g) < m + 1 /\ (Len(g) < m => Len(g) + 1 < m + 1)
    BY <1>1, <1>2
<1> HIDE DEF x
<1>5. CASE x \in S
    <2> DEFINE h == Append(g, x)
    <2>1. /\ h \in Seq(Peer) /\ Len(h) = Len(g) + 1
          /\ \A p : p \in Elements(h) <=> p \in Elements(g) \/ p = x
          /\ Distinct(g) /\ x \notin Elements(g) => Distinct(h)
        BY ZenonT(30), <1>1, <1>2, ElementsAppend
    <2> HIDE DEF h
    <2>2. \A p : p \in Elements(h) <=> p \in S /\ \E i \in 1..(m + 1) : b[i] = p
        BY ZenonT(30), <1>2, <1>3, <1>5, <2>1 DEF x
    <2>3. (\E i \in 1..(m + 1) : b[i] \notin S) => Len(h) < m + 1
        BY ZenonT(30), <1>2, <1>3, <1>4, <1>5, <2>1 DEF x
    <2>4. ASSUME Distinct(b) PROVE Distinct(h)
        <3>1. \A i \in 1..m : i \in 1..Len(b) /\ i # m + 1
            BY <1>1
        <3>2. \A i \in 1..m : b[i] # x
            BY ZenonT(30), <1>1, <2>4, <3>1 DEF Distinct, x
        <3>3. x \notin Elements(g)
            BY ZenonT(30), <1>2, <3>2
        <3> QED BY ZenonT(30), <1>2, <2>1, <2>4, <3>3
    <2>5. Len(h) <= m + 1
        BY ZenonT(30), <1>4, <2>1
    <2> QED BY ZenonT(30), <1>5, <2>1, <2>2, <2>3, <2>4, <2>5 DEF KeptOf, h, x
<1>6. CASE x \notin S
    <2>1. \A p : p \in Elements(g) <=> p \in S /\ \E i \in 1..(m + 1) : b[i] = p
        BY ZenonT(30), <1>2, <1>3, <1>6 DEF x
    <2> QED BY ZenonT(30), <1>2, <1>4, <1>6, <2>1 DEF KeptOf, x
<1> QED BY ZenonT(30), <1>5, <1>6

\* Kept keeps the members of S, no peer twice, and is shorter if it leaves one out.
LEMMA KeptFacts ==
    ASSUME NEW b \in Seq(Peer), NEW S
    PROVE  /\ Kept(b, S) \in Seq(Peer) /\ Len(Kept(b, S)) <= Len(b)
           /\ Elements(Kept(b, S)) = Elements(b) \cap S
           /\ ~(Elements(b) \subseteq S) => Len(Kept(b, S)) < Len(b)
           /\ Distinct(b) => Distinct(Kept(b, S))
<1> DEFINE n == Len(b)
           h == KeepFcn(b, S)
           T == {m \in 0..n : KeptOf(h[m], b, S, m)}
<1>1. n \in Nat /\ n \in 0..n /\ 0 \in 0..n
    OBVIOUS
<1>2. KeepsTo(h, b, S, n) /\ Kept(b, S) = h[n]
    BY ZenonT(30), KeepExists
<1>3. /\ h[0] = << >>
      /\ \A i \in 1..n : h[i] = IF b[i] \in S THEN Append(h[i - 1], b[i]) ELSE h[i - 1]
    BY ZenonT(30), <1>2 DEF KeepsTo
<1> HIDE DEF h
<1>4. KeptOf(<< >>, b, S, 0)
    BY DEF KeptOf, Elements, Distinct
<1>5. 0 \in T
    BY ZenonT(30), <1>1, <1>3, <1>4
<1>6. ASSUME NEW m \in 0..(n - 1), m \in T PROVE m + 1 \in T
    <2>1. m + 1 \in 1..n /\ m + 1 \in 0..n /\ (m + 1) - 1 = m
        BY <1>1
    <2>2. KeptOf(IF b[m + 1] \in S THEN Append(h[m], b[m + 1]) ELSE h[m], b, S, m + 1)
        BY ZenonT(30), <1>6, KeptOfNext
    <2>3. h[m + 1] = IF b[m + 1] \in S THEN Append(h[m], b[m + 1]) ELSE h[m]
        BY ZenonT(30), <1>3, <2>1
    <2> QED BY ZenonT(30), <2>1, <2>2, <2>3
<1> HIDE DEF T
<1>7. n \in T
    BY ZenonT(30), <1>1, <1>5, <1>6, Counting
<1>8. KeptOf(Kept(b, S), b, S, n)
    BY ZenonT(30), <1>2, <1>7 DEF T
<1> QED BY ZenonT(30), <1>8 DEF KeptOf, Elements

\* A known peer at the front of its bucket.
LEMMA FrontFacts ==
    ASSUME NEW b \in Seq(Peer), NEW p \in Peer, Distinct(b)
    PROVE  LET m == <<p>> \o Without(b, p)
           IN  /\ m \in Seq(Peer) /\ Distinct(m) /\ Len(m) <= Len(b) + 1 /\ Len(m) >= 1
               /\ Elements(m) = Elements(b) \cup {p}
               /\ p \in Elements(b) => Len(m) <= Len(b)
<1> DEFINE w == Without(b, p)
           m == <<p>> \o w
<1>1. /\ w \in Seq(Peer) /\ Len(w) <= Len(b) /\ Elements(w) = Elements(b) \cap (Peer \ {p})
      /\ ~(Elements(b) \subseteq Peer \ {p}) => Len(w) < Len(b)
      /\ Distinct(w)
    BY ZenonT(30), KeptFacts DEF Without
<1>2. Elements(b) \subseteq Peer
    BY DEF Elements
<1>3. Elements(w) = Elements(b) \ {p} /\ (p \in Elements(b) => Len(w) < Len(b))
    BY ZenonT(30), <1>1, <1>2
<1> HIDE DEF w
<1>4. m \in Seq(Peer) /\ Len(m) = Len(w) + 1 /\ m[1] = p /\ Len(w) \in Nat /\ \A i \in 1..Len(w) : m[i + 1] = w[i]
    BY <1>1
<1> HIDE DEF m
<1>5. \A i \in 1..Len(m) : i = 1 \/ (i - 1 \in 1..Len(w) /\ m[i] = w[i - 1])
    <2> TAKE i \in 1..Len(m)
    <2>1. i = 1 \/ (i - 1 \in 1..Len(w) /\ (i - 1) + 1 = i)
        BY <1>4
    <2> QED BY ZenonT(30), <1>4, <2>1
<1>6. 1 \in 1..Len(m) /\ \A i \in 1..Len(w) : i + 1 \in 1..Len(m)
    BY <1>4
<1>7. Elements(m) = Elements(w) \cup {p}
    <2>1. ASSUME NEW q \in Elements(m) PROVE q \in Elements(w) \cup {p}
        <3>1. PICK i \in 1..Len(m) : q = m[i]
            BY ZenonT(30) DEF Elements
        <3>2. i = 1 \/ (i - 1 \in 1..Len(w) /\ m[i] = w[i - 1])
            BY ZenonT(30), <1>5
        <3>3. CASE i = 1
            BY ZenonT(30), <1>4, <3>1, <3>3
        <3>4. CASE i - 1 \in 1..Len(w) /\ m[i] = w[i - 1]
            BY ZenonT(30), <3>1, <3>4 DEF Elements
        <3> QED BY ZenonT(30), <3>2, <3>3, <3>4
    <2>2. ASSUME NEW q \in Elements(w) PROVE q \in Elements(m)
        <3>1. PICK i \in 1..Len(w) : q = w[i]
            BY ZenonT(30) DEF Elements
        <3>2. i + 1 \in 1..Len(m) /\ q = m[i + 1]
            BY ZenonT(30), <1>4, <1>6, <3>1
        <3> QED BY ZenonT(30), <3>2 DEF Elements
    <2>3. p \in Elements(m)
        BY ZenonT(30), <1>4, <1>6 DEF Elements
    <2> QED BY ZenonT(30), <2>1, <2>2, <2>3
<1>8. Distinct(m)
    <2> SUFFICES ASSUME NEW i \in 1..Len(m), NEW j \in 1..Len(m), m[i] = m[j] PROVE i = j
        BY ZenonT(30) DEF Distinct
    <2>1. \A k \in 1..Len(w) : w[k] # p
        BY ZenonT(30), <1>3 DEF Elements
    <2>2. CASE i = 1 \/ j = 1
        BY ZenonT(30), <1>4, <1>5, <2>1, <2>2
    <2>3. CASE i # 1 /\ j # 1
        <3>1. i - 1 \in 1..Len(w) /\ j - 1 \in 1..Len(w) /\ w[i - 1] = w[j - 1]
            BY ZenonT(30), <1>5, <2>3
        <3>2. i - 1 = j - 1
            BY ZenonT(30), <1>1, <3>1 DEF Distinct
        <3> QED BY <1>4, <3>2
    <2> QED BY <2>2, <2>3
<1>9. Len(b) \in Nat
    OBVIOUS
<1>10. Len(m) <= Len(b) + 1 /\ Len(m) >= 1 /\ (p \in Elements(b) => Len(m) <= Len(b))
    BY <1>1, <1>3, <1>4, <1>9
<1>11. Elements(m) = Elements(b) \cup {p}
    BY ZenonT(30), <1>3, <1>7
<1> QED BY ZenonT(30), <1>4, <1>8, <1>10, <1>11 DEF m, w

LEMMA PopFacts ==
    ASSUME NEW b \in Seq(Peer), Len(b) >= 1, Distinct(b)
    PROVE  /\ PopBack(b) \in Seq(Peer) /\ Distinct(PopBack(b)) /\ Len(PopBack(b)) = Len(b) - 1
           /\ Elements(PopBack(b)) \subseteq Elements(b)
<1> DEFINE c == PopBack(b)
<1>1. c \in Seq(Peer) /\ Len(c) = Len(b) - 1 /\ Len(b) \in Nat /\ \A i \in 1..(Len(b) - 1) : c[i] = b[i]
    <2>1. Len(b) \in Nat /\ Len(b) - 1 \in Nat /\ 1 \in 1..Len(b) /\ 1..(Len(b) - 1) \subseteq 1..Len(b)
        OBVIOUS
    <2>2. c = [i \in 1..(Len(b) - 1) |-> b[i]]
        BY <2>1 DEF PopBack
    <2>3. \A i \in 1..(Len(b) - 1) : b[i] \in Peer
        BY <2>1
    <2>4. c \in Seq(Peer) /\ Len(c) = Len(b) - 1
        BY <2>1, <2>2, <2>3
    <2> QED BY ZenonT(30), <2>1, <2>2, <2>4
<1> HIDE DEF c
<1>2. \A i \in 1..Len(c) : i \in 1..Len(b) /\ c[i] = b[i]
    BY <1>1
<1>3. Distinct(c)
    BY ZenonT(30), <1>2 DEF Distinct
<1>4. Elements(c) \subseteq Elements(b)
    BY ZenonT(30), <1>2 DEF Elements
<1> QED BY ZenonT(30), <1>1, <1>3, <1>4 DEF c

-----------------------------------------------------------------------------
(* The metric *)

LEMMA Sizes == Bits \in Nat /\ Bits >= 1 /\ BucketSize \in Nat /\ BucketSize >= 1 /\ Self \in ID
               /\ \A p \in Peer : p \in ID /\ p # Self
BY TableAssumption

LEMMA PrefixFacts ==
    ASSUME NEW a \in ID, NEW b \in ID, a # b
    PROVE  LET c == commonPrefixLen(a, b)
           IN  c \in 0..(Bits - 1) /\ a[c + 1] # b[c + 1] /\ \A j \in 1..c : a[j] = b[j]
<1> DEFINE D == {i \in 1..Bits : a[i] # b[i]}
<1>1. D \subseteq Nat
    BY Sizes
<1>2. D # {}
    <2>1. a = [i \in 1..Bits |-> a[i]] /\ b = [i \in 1..Bits |-> b[i]]
        BY ZenonT(30) DEF ID
    <2>2. ~\A i \in 1..Bits : a[i] = b[i]
        BY ZenonT(30), <2>1
    <2> QED BY ZenonT(30), <2>2
<1>3. PICK k \in D : \A i \in D : k <= i
    BY ZenonT(30), <1>1, <1>2, LeastOne
<1>4. k \in 1..Bits /\ a[k] # b[k]
    BY ZenonT(30), <1>3
<1>5. k - 1 \in 0..(Bits - 1) /\ (k - 1) + 1 = k
    BY <1>4, Sizes
<1>6. \A j \in 1..(k - 1) : j \in 1..Bits /\ ~(k <= j)
    BY <1>4, Sizes
<1>7. \A j \in 1..(k - 1) : a[j] = b[j]
    BY ZenonT(30), <1>3, <1>6
<1>8. \E n \in 0..(Bits - 1) : a[n + 1] # b[n + 1] /\ \A j \in 1..n : a[j] = b[j]
    BY ZenonT(30), <1>4, <1>5, <1>7
<1>9. commonPrefixLen(a, b) = CHOOSE n \in 0..(Bits - 1) : a[n + 1] # b[n + 1] /\ \A j \in 1..n : a[j] = b[j]
    BY ZenonT(30) DEF commonPrefixLen
<1> QED BY ZenonT(30), <1>8, <1>9

\* The bits a peer shares with the node.
Cpl(p) == commonPrefixLen(p, Self)

LEMMA CplType == \A p \in Peer : Cpl(p) \in Nat /\ Cpl(p) < Bits
<1> SUFFICES ASSUME NEW p \in Peer PROVE Cpl(p) \in Nat /\ Cpl(p) < Bits
    OBVIOUS
<1>1. Cpl(p) \in 0..(Bits - 1)
    BY ZenonT(30), Sizes, PrefixFacts DEF Cpl
<1> QED BY <1>1, Sizes

-----------------------------------------------------------------------------
(* The table *)

\* p may be in bucket i of a table with n buckets.
Belongs(n, i, p) == Cpl(p) >= i - 1 /\ (i < n => Cpl(p) = i - 1)

\* b is a sound bucket i of a table with n buckets.
Row(n, i, b) ==
    /\ b \in Seq(Peer) /\ Len(b) <= BucketSize /\ Distinct(b)
    /\ \A p \in Elements(b) : Belongs(n, i, p)

TableInv(t) == t \in Seq(Seq(Peer)) /\ Len(t) >= 1 /\ \A i \in 1..Len(t) : Row(Len(t), i, t[i])

LEMMA ElementsIn == ASSUME NEW b \in Seq(Peer) PROVE Elements(b) \subseteq Peer
BY DEF Elements

\* Every ID has its bucket, and no other.
LEMMA BucketFacts ==
    ASSUME NEW t, Len(t) \in Nat, Len(t) >= 1, NEW p, Cpl(p) \in Nat
    PROVE  /\ BucketOf(t, p) \in 1..Len(t) /\ Belongs(Len(t), BucketOf(t, p), p)
           /\ \A i \in 1..Len(t) : Belongs(Len(t), i, p) => i = BucketOf(t, p)
<1> DEFINE n == Len(t)
           c == Cpl(p)
<1>1. BucketOf(t, p) = IF c >= n THEN n ELSE c + 1
    BY ZenonT(30) DEF BucketOf, Cpl
<1> HIDE DEF n, c
<1>2. n \in Nat /\ n >= 1 /\ c \in Nat
    BY ZenonT(30) DEF n, c
<1>3. \A i \in 1..n : c >= i - 1 /\ (i < n => c = i - 1) => i = IF c >= n THEN n ELSE c + 1
    BY <1>2
<1>4. LET i == IF c >= n THEN n ELSE c + 1 IN i \in 1..n /\ c >= i - 1 /\ (i < n => c = i - 1)
    BY <1>2
<1> QED BY ZenonT(30), <1>1, <1>3, <1>4 DEF Belongs, n, c

\* A bucket is replaced by a sound one.
LEMMA Replaced ==
    ASSUME NEW t, TableInv(t), NEW i \in 1..Len(t), NEW b, Row(Len(t), i, b)
    PROVE  TableInv([t EXCEPT ![i] = b])
<1> DEFINE u == [t EXCEPT ![i] = b]
<1>1. t \in Seq(Seq(Peer)) /\ Len(t) >= 1 /\ b \in Seq(Peer)
    BY ZenonT(30) DEF TableInv, Row
<1>2. u \in Seq(Seq(Peer)) /\ Len(u) = Len(t) /\ u[i] = b /\ \A j \in 1..Len(t) : j # i => u[j] = t[j]
    BY <1>1
<1> HIDE DEF u
<1>3. \A j \in 1..Len(u) : Row(Len(u), j, u[j])
    <2> TAKE j \in 1..Len(u)
    <2>1. Row(Len(t), j, u[j])
        <3>1. CASE j = i
            BY ZenonT(30), <1>2, <3>1
        <3>2. CASE j # i
            BY ZenonT(30), <1>2, <3>2 DEF TableInv
        <3> QED BY ZenonT(30), <3>1, <3>2
    <2> QED BY ZenonT(30), <1>2, <2>1
<1>4. Len(u) >= 1
    BY ZenonT(30), <1>1, <1>2
<1> QED BY ZenonT(30), <1>2, <1>3, <1>4 DEF TableInv, u

LEMMA RowOf == ASSUME NEW t, TableInv(t), NEW i \in 1..Len(t)
               PROVE  Row(Len(t), i, t[i]) /\ t[i] \in Seq(Peer) /\ t \in Seq(Seq(Peer)) /\ Len(t) \in Nat /\ Len(t) >= 1
<1>1. Row(Len(t), i, t[i]) /\ t \in Seq(Seq(Peer)) /\ Len(t) >= 1
    BY ZenonT(30) DEF TableInv
<1>2. Len(t) \in Nat
    BY <1>1
<1> QED BY ZenonT(30), <1>1, <1>2 DEF Row

LEMMA EmptyTable == TableInv(NewRoutingTable)
<1> DEFINE t == << << >> >>
<1>1. t \in Seq(Seq(Peer)) /\ Len(t) = 1 /\ Len(t) >= 1 /\ t[1] = << >>
    OBVIOUS
<1>2. Row(1, 1, << >>)
    BY Sizes DEF Row, Distinct, Elements
<1>3. \A i \in 1..1 : i = 1
    OBVIOUS
<1> HIDE DEF t
<1>4. \A i \in 1..Len(t) : Row(Len(t), i, t[i])
    BY ZenonT(30), <1>1, <1>2, <1>3
<1> QED BY ZenonT(30), <1>1, <1>4 DEF TableInv, NewRoutingTable, t

LEMMA RemoveKeeps ==
    ASSUME NEW t, TableInv(t), NEW p \in Peer PROVE TableInv(Remove(t, p))
<1> DEFINE i == BucketOf(t, p)
           w == Without(t[i], p)
<1>1. t \in Seq(Seq(Peer)) /\ Len(t) >= 1
    BY ZenonT(30) DEF TableInv
<1>2. Len(t) \in Nat
    BY <1>1
<1>3. i \in 1..Len(t)
    BY ZenonT(30), <1>1, <1>2, CplType, BucketFacts
<1>4. Remove(t, p) = [t EXCEPT ![i] = w]
    BY ZenonT(30) DEF Remove
<1> HIDE DEF i
<1>5. Row(Len(t), i, t[i]) /\ t[i] \in Seq(Peer) /\ Len(t[i]) <= BucketSize /\ Distinct(t[i])
    BY ZenonT(30), <1>3 DEF TableInv, Row
<1>6. w \in Seq(Peer) /\ Len(w) <= Len(t[i]) /\ Elements(w) = Elements(t[i]) \cap (Peer \ {p}) /\ Distinct(w)
    BY ZenonT(30), <1>5, KeptFacts DEF Without
<1> HIDE DEF w
<1>7. Len(w) <= BucketSize
    <2>1. Len(w) \in Nat /\ Len(t[i]) \in Nat
        BY <1>5, <1>6
    <2> QED BY <1>5, <1>6, <2>1, Sizes
<1>8. Row(Len(t), i, w)
    BY ZenonT(30), <1>5, <1>6, <1>7 DEF Row
<1> QED BY ZenonT(30), <1>3, <1>4, <1>8, Replaced

-----------------------------------------------------------------------------
(* Splitting the last bucket *)

\* The peers of bucket i when bucket l, the last, has been split n times.
Piece(l, n, i) == {p \in Peer : (i > l => Cpl(p) > i - 2) /\ (i < l + n => Cpl(p) <= i - 1)}

\* The peers of m, which share at least l - 1 bits, go to where they belong.
LEMMA PieceFacts ==
    ASSUME NEW m \in Seq(Peer), Distinct(m), NEW l \in Nat, \A p \in Elements(m) : Cpl(p) >= l - 1,
           NEW n \in Nat, NEW i \in l..(l + n)
    PROVE  LET k == Kept(m, Piece(l, n, i))
           IN  /\ k \in Seq(Peer) /\ Len(k) <= Len(m) /\ Distinct(k)
               /\ \A p \in Elements(k) : p \in Elements(m) /\ Belongs(l + n, i, p)
               /\ ~(Elements(m) \subseteq Piece(l, n, i)) => Len(k) < Len(m)
<1> DEFINE k == Kept(m, Piece(l, n, i))
<1>1. /\ k \in Seq(Peer) /\ Len(k) <= Len(m) /\ Elements(k) = Elements(m) \cap Piece(l, n, i)
      /\ ~(Elements(m) \subseteq Piece(l, n, i)) => Len(k) < Len(m)
      /\ Distinct(k)
    BY ZenonT(30), KeptFacts
<1>2. ASSUME NEW p \in Elements(m), p \in Piece(l, n, i) PROVE Belongs(l + n, i, p)
    <2>1. /\ Cpl(p) \in Nat /\ Cpl(p) >= l - 1
          /\ i > l => Cpl(p) > i - 2
          /\ i < l + n => Cpl(p) <= i - 1
        BY ZenonT(30), <1>2, CplType DEF Piece
    <2>2. Cpl(p) >= i - 1 /\ (i < l + n => Cpl(p) = i - 1)
        BY <2>1
    <2> QED BY ZenonT(30), <2>2 DEF Belongs
<1> QED BY ZenonT(30), <1>1, <1>2

LEMMA NoElements == ASSUME NEW b \in Seq(Peer), \A p : p \notin Elements(b) PROVE Len(b) = 0
<1>1. Len(b) \in Nat
    OBVIOUS
<1>2. \A i \in 1..Len(b) : FALSE
    BY ZenonT(30) DEF Elements
<1> QED BY <1>1, <1>2

\* u is a sound table but for its last bucket, which has a peer too many.
Overfull(u) ==
    /\ u \in Seq(Seq(Peer)) /\ Len(u) >= 1
    /\ \A n \in Nat : \A i \in 1..(Len(u) - 1) : Row(Len(u) + n, i, u[i])
    /\ Distinct(u[Len(u)]) /\ Len(u[Len(u)]) <= BucketSize + 1
    /\ \A p \in Elements(u[Len(u)]) : Cpl(p) >= Len(u) - 1

LEMMA OverfullParts ==
    ASSUME NEW u, Overfull(u)
    PROVE  /\ u \in Seq(Seq(Peer)) /\ Len(u) \in Nat /\ Len(u) >= 1 /\ Len(u) \in 1..Len(u)
           /\ u[Len(u)] \in Seq(Peer)
<1>1. u \in Seq(Seq(Peer)) /\ Len(u) >= 1
    BY ZenonT(30) DEF Overfull
<1> QED BY <1>1

LEMMA SplitFacts ==
    ASSUME NEW u, Overfull(u), NEW n \in Nat
    PROVE  LET l == Len(u)
               s == SplitLast(u, n)
           IN  /\ s \in Seq(Seq(Peer)) /\ Len(s) = l + n
               /\ \A i \in 1..(l - 1) : s[i] = u[i]
               /\ \A i \in l..(l + n) : s[i] = Kept(u[l], Piece(l, n, i))
<1> DEFINE l == Len(u)
           s == SplitLast(u, n)
<1>1. u \in Seq(Seq(Peer)) /\ l \in Nat /\ l >= 1 /\ u[l] \in Seq(Peer)
    BY ZenonT(30), OverfullParts
<1>2. s = [i \in 1..(l + n) |-> IF i < l THEN u[i] ELSE Kept(u[l], Piece(l, n, i))]
    BY ZenonT(30) DEF SplitLast, Piece, Cpl
<1> HIDE DEF s
<1>3. \A i \in 1..(l - 1) : i \in 1..(l + n) /\ i < l /\ u[i] \in Seq(Peer)
    BY <1>1
<1> HIDE DEF l
<1>4. \A i \in l..(l + n) : i \in 1..(l + n) /\ ~(i < l)
    BY <1>1
<1>5. \A i \in 1..(l + n) : i \in 1..(l - 1) \/ i \in l..(l + n)
    BY <1>1
<1>6. /\ \A i \in 1..(l - 1) : s[i] = u[i]
      /\ \A i \in l..(l + n) : s[i] = Kept(u[l], Piece(l, n, i))
    BY ZenonT(30), <1>2, <1>3, <1>4
<1>7. \A i \in 1..(l + n) : s[i] \in Seq(Peer)
    BY ZenonT(30), <1>1, <1>3, <1>5, <1>6, KeptFacts
<1>8. s = [i \in 1..(l + n) |-> s[i]]
    BY ZenonT(30), <1>2
<1>9. s \in Seq(Seq(Peer)) /\ Len(s) = l + n
    <2>1. l + n \in Nat
        BY <1>1
    <2>2. DOMAIN s = 1..(l + n) /\ s \in [1..(l + n) -> Seq(Peer)]
        BY ZenonT(30), <1>7, <1>8
    <2> QED BY <2>1, <2>2
<1> QED BY ZenonT(30), <1>6, <1>9 DEF l, s

\* The bucket that is split off has room after n splits.
Fits(u, n) == Len(SplitLast(u, n)[Len(u) + n]) <= BucketSize

\* No peer shares all bits with the node, so splitting comes to an end.
LEMMA SplitEnds ==
    ASSUME NEW u, Overfull(u)
    PROVE  \E k \in 1..(Bits + 1) : Fits(u, k) /\ \A j \in 1..(k - 1) : ~Fits(u, j)
<1> DEFINE l == Len(u)
           m == u[l]
           N == Bits + 1
           e == Kept(m, Piece(l, N, l + N))
           T == {k \in 1..N : Fits(u, k)}
<1>1. l \in Nat /\ l >= 1 /\ m \in Seq(Peer)
    BY ZenonT(30), OverfullParts
<1>2. Distinct(m) /\ \A p \in Elements(m) : Cpl(p) >= l - 1
    BY ZenonT(30) DEF Overfull
<1> HIDE DEF l, m
<1>3. N \in Nat /\ N \in 1..N /\ l + N \in l..(l + N)
    BY <1>1, Sizes
<1>4. SplitLast(u, N)[l + N] = e
    BY ZenonT(30), <1>3, SplitFacts DEF l, m
<1>5. e \in Seq(Peer) /\ \A p \in Elements(e) : p \in Peer /\ Belongs(l + N, l + N, p)
    BY ZenonT(30), <1>1, <1>2, <1>3, PieceFacts, ElementsIn
<1> HIDE DEF e
<1>6. \A p : p \notin Elements(e)
    <2> SUFFICES ASSUME NEW p \in Elements(e) PROVE FALSE
        OBVIOUS
    <2>1. Cpl(p) >= (l + N) - 1 /\ Cpl(p) \in Nat /\ Cpl(p) < Bits
        BY ZenonT(30), <1>5, CplType DEF Belongs
    <2> QED BY <1>1, <2>1, Sizes
<1>7. Len(e) <= BucketSize
    <2>1. Len(e) = 0
        BY ZenonT(30), <1>5, <1>6, NoElements
    <2> QED BY <2>1, Sizes
<1>8. N \in T
    BY ZenonT(30), <1>3, <1>4, <1>7 DEF Fits, l
<1>9. T \subseteq Nat
    BY <1>3
<1>10. PICK k \in T : \A j \in T : k <= j
    BY ZenonT(30), <1>8, <1>9, LeastOne
<1>11. k \in 1..N /\ Fits(u, k)
    BY ZenonT(30), <1>10
<1>12. \A j \in 1..(k - 1) : j \in 1..N /\ ~(k <= j)
    BY <1>3, <1>11
<1>13. \A j \in 1..(k - 1) : ~Fits(u, j)
    BY ZenonT(30), <1>10, <1>12
<1> QED BY ZenonT(30), <1>11, <1>13

\* A bucket with room after n splits, but not after fewer, has only the bucket
\* that was split last before it; the others between are empty.
LEMMA SplitRows ==
    ASSUME NEW u, Overfull(u), NEW n \in 1..(Bits + 1), Fits(u, n), \A j \in 1..(n - 1) : ~Fits(u, j)
    PROVE  LET s == SplitLast(u, n)
               b == Len(u) + n - 1
           IN  /\ \A i \in 1..Len(s) : i # b => Row(Len(s), i, s[i])
               /\ s[b] \in Seq(Peer) /\ Distinct(s[b]) /\ Len(s[b]) <= BucketSize + 1
               /\ \A p \in Elements(s[b]) : Belongs(Len(s), b, p)
<1> DEFINE l == Len(u)
           m == u[l]
           s == SplitLast(u, n)
           b == l + n - 1
<1>1. l \in Nat /\ l >= 1 /\ m \in Seq(Peer)
    BY ZenonT(30), OverfullParts
<1>2. Distinct(m) /\ Len(m) <= BucketSize + 1 /\ \A p \in Elements(m) : Cpl(p) >= l - 1
    BY ZenonT(30) DEF Overfull
<1>3. n \in Nat /\ n >= 1
    BY Sizes
<1>4. /\ s \in Seq(Seq(Peer)) /\ Len(s) = l + n
      /\ \A i \in 1..(l - 1) : s[i] = u[i]
      /\ \A i \in l..(l + n) : s[i] = Kept(m, Piece(l, n, i))
    BY ZenonT(30), <1>3, SplitFacts
<1>5. Len(s[l + n]) <= BucketSize
    BY ZenonT(30) DEF Fits
<1>6. \A i \in 1..(l - 1) : Row(l + n, i, u[i])
    BY ZenonT(30), <1>3 DEF Overfull
<1>7. n = 1 \/ ~Fits(u, n - 1)
    <2>1. n = 1 \/ n - 1 \in 1..(n - 1)
        BY <1>3
    <2> QED BY ZenonT(30), <2>1
<1> HIDE DEF s
<1>8. \A i \in l..(l + n) : /\ s[i] \in Seq(Peer) /\ Len(s[i]) <= Len(m) /\ Distinct(s[i])
                            /\ \A p \in Elements(s[i]) : p \in Elements(m) /\ Belongs(l + n, i, p)
    BY ZenonT(30), <1>1, <1>2, <1>3, <1>4, PieceFacts
<1>9. ASSUME n # 1, NEW p \in Elements(m) PROVE Cpl(p) > l + n - 3
    <2> DEFINE h == Kept(m, Piece(l, n - 1, l + (n - 1)))
    <2>1. n - 1 \in Nat /\ l + (n - 1) \in l..(l + (n - 1)) /\ l + (n - 1) > l
        BY <1>1, <1>3, <1>9
    <2>2. SplitLast(u, n - 1)[l + (n - 1)] = h
        BY ZenonT(30), <2>1, SplitFacts
    <2>3. ~(Len(h) <= BucketSize)
        BY ZenonT(30), <1>7, <1>9, <2>2 DEF Fits
    <2>4. h \in Seq(Peer) /\ (~(Elements(m) \subseteq Piece(l, n - 1, l + (n - 1))) => Len(h) < Len(m))
        BY ZenonT(30), <1>1, <1>2, <2>1, PieceFacts
    <2> HIDE DEF h
    <2>5. ~(Len(h) < Len(m))
        <3>1. Len(h) \in Nat /\ Len(m) \in Nat
            BY <1>1, <2>4
        <3> QED BY <1>2, <2>3, <3>1, Sizes
    <2>6. Cpl(p) > (l + (n - 1)) - 2
        BY ZenonT(30), <1>9, <2>1, <2>4, <2>5 DEF Piece
    <2>7. Cpl(p) \in Nat
        BY ZenonT(30), <1>1, <1>9, CplType, ElementsIn
    <2> HIDE DEF l
    <2> QED BY <1>1, <1>3, <2>6, <2>7
<1>10. ASSUME NEW i \in l..(l + n), i < b PROVE Len(s[i]) = 0
    <2>1. n # 1
        BY <1>1, <1>3, <1>10
    <2> SUFFICES ASSUME NEW p \in Elements(s[i]) PROVE FALSE
        BY ZenonT(30), <1>8, NoElements
    <2>2. p \in Elements(m) /\ Belongs(l + n, i, p)
        BY ZenonT(30), <1>8
    <2>3. Cpl(p) \in Nat
        BY ZenonT(30), <1>1, <2>2, CplType, ElementsIn
    <2>4. Cpl(p) > l + n - 3 /\ (i < l + n => Cpl(p) = i - 1)
        BY ZenonT(30), <1>9, <2>1, <2>2 DEF Belongs
    <2> HIDE DEF l
    <2> QED BY <1>1, <1>3, <1>10, <2>3, <2>4
<1>11. ASSUME NEW i \in 1..(l + n), i # b PROVE Row(l + n, i, s[i])
    <2>1. i \in 1..(l - 1) \/ (i \in l..(l + n) /\ i < b) \/ (i \in l..(l + n) /\ i = l + n)
        BY <1>1, <1>3, <1>11
    <2>2. CASE i \in 1..(l - 1)
        BY ZenonT(30), <1>4, <1>6, <2>2
    <2>3. CASE i \in l..(l + n) /\ i < b
        <3>1. Len(s[i]) <= BucketSize
            BY <1>10, <2>3, Sizes
        <3> QED BY ZenonT(30), <1>8, <2>3, <3>1 DEF Row
    <2>4. CASE i \in l..(l + n) /\ i = l + n
        BY ZenonT(30), <1>5, <1>8, <2>4 DEF Row
    <2> QED BY ZenonT(30), <2>1, <2>2, <2>3, <2>4
<1>12. b \in l..(l + n)
    BY <1>1, <1>3
<1>13. Len(s[b]) <= BucketSize + 1
    <2>1. s[b] \in Seq(Peer) /\ Len(s[b]) <= Len(m)
        BY ZenonT(30), <1>8, <1>12
    <2>2. Len(s[b]) \in Nat /\ Len(m) \in Nat
        BY <1>1, <2>1
    <2> QED BY <1>2, <2>1, <2>2, Sizes
<1> QED BY ZenonT(30), <1>4, <1>8, <1>11, <1>12, <1>13 DEF s

LEMMA ReplacedOne ==
    ASSUME NEW s \in Seq(Seq(Peer)), NEW b \in 1..Len(s), NEW c, Row(Len(s), b, c),
           \A i \in 1..Len(s) : i # b => Row(Len(s), i, s[i])
    PROVE  TableInv([s EXCEPT ![b] = c])
<1> DEFINE r == [s EXCEPT ![b] = c]
<1>1. c \in Seq(Peer)
    BY ZenonT(30) DEF Row
<1>2. r \in Seq(Seq(Peer)) /\ Len(r) = Len(s) /\ Len(s) \in Nat /\ r[b] = c /\ \A j \in 1..Len(s) : j # b => r[j] = s[j]
    BY <1>1
<1> HIDE DEF r
<1>3. Len(r) >= 1
    BY <1>2
<1>4. ASSUME NEW j \in 1..Len(s) PROVE Row(Len(s), j, r[j])
    <2>1. CASE j = b
        BY ZenonT(30), <1>2, <2>1
    <2>2. CASE j # b
        BY ZenonT(30), <1>2, <2>2
    <2> QED BY ZenonT(30), <2>1, <2>2
<1>5. \A j \in 1..Len(r) : Row(Len(r), j, r[j])
    BY ZenonT(30), <1>2, <1>4
<1> QED BY ZenonT(30), <1>2, <1>3, <1>5 DEF TableInv, r

\* A bucket with a peer too many is sound when the last one is kicked out.
LEMMA PoppedRow ==
    ASSUME NEW b \in Seq(Peer), Distinct(b), Len(b) <= BucketSize + 1, NEW n, NEW i,
           \A p \in Elements(b) : Belongs(n, i, p)
    PROVE  /\ Len(b) <= BucketSize => Row(n, i, b)
           /\ Len(b) > BucketSize => Row(n, i, PopBack(b))
<1>1. ASSUME Len(b) > BucketSize PROVE Row(n, i, PopBack(b))
    <2>1. Len(b) \in Nat /\ Len(b) >= 1 /\ Len(b) - 1 <= BucketSize
        BY <1>1, Sizes
    <2>2. /\ PopBack(b) \in Seq(Peer) /\ Distinct(PopBack(b)) /\ Len(PopBack(b)) = Len(b) - 1
          /\ Elements(PopBack(b)) \subseteq Elements(b)
        BY ZenonT(30), <2>1, PopFacts
    <2> QED BY ZenonT(30), <2>1, <2>2 DEF Row
<1> QED BY ZenonT(30), <1>1 DEF Row

LEMMA NextBucketSound ==
    ASSUME NEW u, Overfull(u) PROVE TableInv(nextBucket(u))
<1> DEFINE n == CHOOSE k \in 1..(Bits + 1) : Fits(u, k) /\ \A j \in 1..(k - 1) : ~Fits(u, j)
           s == SplitLast(u, n)
           b == Len(s) - 1
           c == IF Len(s[b]) > BucketSize THEN PopBack(s[b]) ELSE s[b]
<1>1. nextBucket(u) = [s EXCEPT ![b] = c]
    BY ZenonT(30) DEF nextBucket, Fits
<1>2. n \in 1..(Bits + 1) /\ Fits(u, n) /\ \A j \in 1..(n - 1) : ~Fits(u, j)
    BY ZenonT(30), SplitEnds
<1> HIDE DEF n
<1>3. n \in Nat /\ n >= 1
    BY <1>2, Sizes
<1>4. Len(u) \in Nat /\ Len(u) >= 1
    BY ZenonT(30), OverfullParts
<1>5. s \in Seq(Seq(Peer)) /\ Len(s) = Len(u) + n
    BY ZenonT(30), <1>3, SplitFacts
<1>6. /\ \A i \in 1..Len(s) : i # Len(u) + n - 1 => Row(Len(s), i, s[i])
      /\ s[Len(u) + n - 1] \in Seq(Peer) /\ Distinct(s[Len(u) + n - 1]) /\ Len(s[Len(u) + n - 1]) <= BucketSize + 1
      /\ \A p \in Elements(s[Len(u) + n - 1]) : Belongs(Len(s), Len(u) + n - 1, p)
    BY ZenonT(30), <1>2, SplitRows
<1> HIDE DEF s
<1>7. b = Len(u) + n - 1 /\ b \in 1..Len(s)
    BY <1>3, <1>4, <1>5
<1> HIDE DEF b
<1>8. /\ \A i \in 1..Len(s) : i # b => Row(Len(s), i, s[i])
      /\ s[b] \in Seq(Peer) /\ Distinct(s[b]) /\ Len(s[b]) <= BucketSize + 1
      /\ \A p \in Elements(s[b]) : Belongs(Len(s), b, p)
    BY ZenonT(30), <1>6, <1>7
<1>9. Row(Len(s), b, c)
    <2>1. Len(s[b]) > BucketSize \/ Len(s[b]) <= BucketSize
        BY <1>8, Sizes
    <2>2. /\ Len(s[b]) <= BucketSize => Row(Len(s), b, s[b])
          /\ Len(s[b]) > BucketSize => Row(Len(s), b, PopBack(s[b]))
        BY ZenonT(30), <1>8, PoppedRow
    <2> QED BY ZenonT(30), <2>1, <2>2
<1> HIDE DEF c
<1>10. TableInv([s EXCEPT ![b] = c])
    BY ZenonT(30), <1>5, <1>7, <1>8, <1>9, ReplacedOne
<1> QED BY ZenonT(30), <1>1, <1>10

LEMMA UpdateKeeps ==
    ASSUME NEW t, TableInv(t), NEW p \in Peer PROVE TableInv(Update(t, p))
<1> DEFINE i == BucketOf(t, p)
           m == <<p>> \o Without(t[i], p)
           v == [t EXCEPT ![i] = m]
<1>1. t \in Seq(Seq(Peer)) /\ Len(t) >= 1
    BY ZenonT(30) DEF TableInv
<1>2. Len(t) \in Nat
    BY <1>1
<1>3. i \in 1..Len(t) /\ Belongs(Len(t), i, p)
    BY ZenonT(30), <1>1, <1>2, CplType, BucketFacts
<1>4. Update(t, p) = CASE p \in Elements(t[i]) -> v
                       [] p \notin Elements(t[i]) /\ p \in Slow -> t
                       [] OTHER -> IF Len(v[i]) <= BucketSize THEN v
                                   ELSE IF i = Len(t) THEN nextBucket(v)
                                   ELSE [v EXCEPT ![i] = PopBack(v[i])]
    BY ZenonT(30) DEF Update
<1>5. \/ Update(t, p) = t
      \/ Update(t, p) = v /\ (p \in Elements(t[i]) \/ Len(v[i]) <= BucketSize)
      \/ Update(t, p) = nextBucket(v) /\ i = Len(t) /\ ~(Len(v[i]) <= BucketSize)
      \/ Update(t, p) = [v EXCEPT ![i] = PopBack(v[i])] /\ ~(Len(v[i]) <= BucketSize)
    BY ZenonT(30), <1>4
<1> HIDE DEF i
<1>6. t[i] \in Seq(Peer) /\ Len(t[i]) <= BucketSize /\ Distinct(t[i]) /\ \A q \in Elements(t[i]) : Belongs(Len(t), i, q)
    BY ZenonT(30), <1>3 DEF TableInv, Row
<1>7. /\ m \in Seq(Peer) /\ Distinct(m) /\ Len(m) <= Len(t[i]) + 1
      /\ Elements(m) = Elements(t[i]) \cup {p}
      /\ p \in Elements(t[i]) => Len(m) <= Len(t[i])
    BY ZenonT(30), <1>6, FrontFacts
<1> HIDE DEF m
<1>8. v \in Seq(Seq(Peer)) /\ Len(v) = Len(t) /\ v[i] = m /\ \A j \in 1..Len(t) : j # i => v[j] = t[j]
    BY <1>1, <1>3, <1>7
<1> DEFINE w == [v EXCEPT ![i] = PopBack(v[i])]
           w2 == [t EXCEPT ![i] = PopBack(m)]
<1>9. w = w2
    <2>1. DOMAIN t = 1..Len(t)
        BY <1>1
    <2> QED BY ZenonT(30), <1>3, <1>8, <2>1
<1>10. \A q \in Elements(m) : Belongs(Len(t), i, q)
    BY ZenonT(30), <1>3, <1>6, <1>7
<1>11. Len(m) \in Nat /\ Len(m) <= BucketSize + 1 /\ (p \in Elements(t[i]) => Len(m) <= BucketSize)
    <2>1. Len(m) \in Nat /\ Len(t[i]) \in Nat
        BY <1>6, <1>7
    <2> QED BY <1>6, <1>7, <2>1, Sizes
<1>12. /\ Len(m) <= BucketSize => Row(Len(t), i, m)
       /\ Len(m) > BucketSize => Row(Len(t), i, PopBack(m))
    BY ZenonT(30), <1>7, <1>10, <1>11, PoppedRow
<1> HIDE DEF w, w2
<1>13. CASE Update(t, p) = v /\ (p \in Elements(t[i]) \/ Len(v[i]) <= BucketSize)
    <2>1. Row(Len(t), i, m)
        BY ZenonT(30), <1>8, <1>11, <1>12, <1>13
    <2>2. TableInv(v)
        BY ZenonT(30), <1>3, <2>1, Replaced
    <2> HIDE DEF v
    <2> QED BY ZenonT(30), <1>13, <2>2
<1>14. CASE Update(t, p) = w /\ ~(Len(v[i]) <= BucketSize)
    <2>1. Len(m) > BucketSize
        BY <1>8, <1>11, <1>14, Sizes
    <2>2. TableInv(w2)
        BY ZenonT(30), <1>3, <1>12, <2>1, Replaced DEF w2
    <2> QED BY ZenonT(30), <1>9, <1>14, <2>2
<1>15. CASE Update(t, p) = nextBucket(v) /\ i = Len(t)
    <2> HIDE DEF v
    <2>1. \A q \in Elements(m) : Cpl(q) >= Len(v) - 1
        BY ZenonT(30), <1>8, <1>10, <1>15 DEF Belongs
    <2>2. ASSUME NEW n \in Nat, NEW j \in 1..(Len(v) - 1) PROVE Row(Len(v) + n, j, v[j])
        <3>1. j \in 1..Len(t) /\ j # i /\ j < Len(t) /\ j < Len(v) + n
            BY <1>2, <1>8, <1>15
        <3>2. Row(Len(t), j, t[j]) /\ v[j] = t[j]
            BY ZenonT(30), <1>8, <3>1 DEF TableInv
        <3>3. \A q \in Elements(t[j]) : Belongs(Len(v) + n, j, q)
            <4>1. \A q \in Elements(t[j]) : Belongs(Len(t), j, q)
                BY ZenonT(30), <3>2 DEF Row
            <4> QED BY ZenonT(30), <3>1, <4>1 DEF Belongs
        <3> QED BY ZenonT(30), <3>2, <3>3 DEF Row
    <2>3. v[Len(v)] = m /\ Len(v) >= 1
        BY ZenonT(30), <1>1, <1>8, <1>15
    <2>4. Overfull(v)
        BY ZenonT(30), <1>7, <1>8, <1>11, <2>1, <2>2, <2>3 DEF Overfull
    <2> QED BY ZenonT(30), <1>15, <2>4, NextBucketSound
<1> QED BY ZenonT(30), <1>5, <1>13, <1>14, <1>15 DEF w

LEMMA TableHolds == Spec => []TableInv(table)
<1>1. Init => TableInv(table)
    BY ZenonT(30), EmptyTable DEF Init
<1>2. TableInv(table) /\ [Next]_vars => TableInv(table)'
    <2> SUFFICES ASSUME TableInv(table), [Next]_vars PROVE TableInv(table')
        BY ZenonT(30)
    <2>1. ASSUME table' = table PROVE TableInv(table')
        BY ZenonT(30), <2>1
    <2>2. ASSUME NEW p \in Peer, PeerStep(p) PROVE TableInv(table')
        <3>1. CASE Connected(p)
            BY ZenonT(30), <3>1, UpdateKeeps DEF Connected
        <3>2. CASE Disconnected(p)
            BY ZenonT(30), <3>2, RemoveKeeps DEF Disconnected
        <3>3. CASE FinishAdd(p)
            BY ZenonT(30), <3>3, UpdateKeeps DEF FinishAdd
        <3>4. CASE Dialled(p) \/ ConnectionCloses(p) \/ ConnectOk(p) \/ ConnectFails(p)
            BY ZenonT(30), <2>1, <3>4 DEF Dialled, ConnectionCloses, ConnectOk, ConnectFails
        <3>5. CASE AddToList(p) \/ Block(p)
            BY ZenonT(30), <2>1, <3>5 DEF AddToList, Block, peerVars
        <3> QED BY ZenonT(30), <2>2, <3>1, <3>2, <3>3, <3>4, <3>5 DEF PeerStep
    <2>3. CASE \E n \in Known : HandlePeerFound(n) \/ BSget(n)
        BY ZenonT(30), <2>1, <2>3 DEF HandlePeerFound, BSget, AddPeer
    <2>4. CASE Tick \/ \E n \in Poster : BSpost(n)
        BY ZenonT(30), <2>1, <2>4 DEF Tick, BSpost, peerVars
    <2>5. CASE Restart
        BY ZenonT(30), <2>5, EmptyTable DEF Restart
    <2>6. CASE UNCHANGED vars
        BY ZenonT(30), <2>1, <2>6 DEF vars, peerVars
    <2> QED BY ZenonT(30), <2>2, <2>3, <2>4, <2>5, <2>6 DEF Next
<1> QED BY <1>1, <1>2, PTL DEF Spec

-----------------------------------------------------------------------------
(* Distance *)

\* Two numbers of 1..Bits are equal or one is among those below the other.
LEMMA Trichotomy ==
    \A i, j \in 1..Bits : /\ i = j \/ i \in 1..(j - 1) \/ j \in 1..(i - 1)
                          /\ j \in 1..(i - 1) => \A k \in 1..(j - 1) : k \in 1..(i - 1)
BY Sizes

LEMMA CloserTotal ==
    ASSUME NEW t \in ID, NEW a \in ID, NEW b \in ID, a # b
    PROVE  Closer(t, a, b) \/ Closer(t, b, a)
<1> DEFINE c == commonPrefixLen(a, b)
<1>1. c \in 0..(Bits - 1) /\ a[c + 1] # b[c + 1] /\ \A j \in 1..c : a[j] = b[j]
    BY ZenonT(30), PrefixFacts
<1> HIDE DEF c
<1>2. c + 1 \in 1..Bits /\ (c + 1) - 1 = c
    BY <1>1, Sizes
<1>3. a[c + 1] \in {0, 1} /\ b[c + 1] \in {0, 1} /\ t[c + 1] \in {0, 1}
    BY ZenonT(30), <1>2 DEF ID
<1>4. a[c + 1] = t[c + 1] \/ b[c + 1] = t[c + 1]
    BY ZenonT(30), <1>1, <1>3
<1>5. \A j \in 1..((c + 1) - 1) : a[j] = b[j] /\ b[j] = a[j]
    BY ZenonT(30), <1>1, <1>2
<1> QED BY ZenonT(30), <1>1, <1>2, <1>4, <1>5 DEF Closer

LEMMA CloserNotBack ==
    ASSUME NEW t, NEW a, NEW b, Closer(t, a, b), Closer(t, b, a) PROVE FALSE
<1>1. PICK i \in 1..Bits : a[i] # b[i] /\ a[i] = t[i] /\ \A j \in 1..(i - 1) : a[j] = b[j]
    BY DEF Closer
<1>2. PICK k \in 1..Bits : b[k] # a[k] /\ b[k] = t[k] /\ \A j \in 1..(k - 1) : b[j] = a[j]
    BY DEF Closer
<1> QED BY ZenonT(30), <1>1, <1>2, Trichotomy

LEMMA CloserTransitive ==
    ASSUME NEW t, NEW a, NEW b, NEW c, Closer(t, a, b), Closer(t, b, c) PROVE Closer(t, a, c)
<1>1. PICK i \in 1..Bits : a[i] # b[i] /\ a[i] = t[i] /\ \A j \in 1..(i - 1) : a[j] = b[j]
    BY DEF Closer
<1>2. PICK k \in 1..Bits : b[k] # c[k] /\ b[k] = t[k] /\ \A j \in 1..(k - 1) : b[j] = c[j]
    BY DEF Closer
<1>3. CASE i \in 1..(k - 1)
    <2>1. a[i] # c[i] /\ a[i] = t[i]
        BY ZenonT(30), <1>1, <1>2, <1>3
    <2>2. \A j \in 1..(i - 1) : a[j] = c[j]
        BY ZenonT(30), <1>1, <1>2, <1>3, Trichotomy
    <2> QED BY ZenonT(30), <2>1, <2>2 DEF Closer
<1>4. CASE k \in 1..(i - 1)
    <2>1. a[k] # c[k] /\ a[k] = t[k]
        BY ZenonT(30), <1>1, <1>2, <1>4
    <2>2. \A j \in 1..(k - 1) : a[j] = c[j]
        BY ZenonT(30), <1>1, <1>2, <1>4, Trichotomy
    <2> QED BY ZenonT(30), <2>1, <2>2 DEF Closer
<1>5. CASE i = k
    BY ZenonT(30), <1>1, <1>2, <1>5
<1> QED BY ZenonT(30), <1>3, <1>4, <1>5, Trichotomy

LEMMA CloserNotSelf == ASSUME NEW t, NEW a PROVE ~Closer(t, t, t) /\ ~Closer(t, a, a) /\ ~Closer(t, a, t)
BY ZenonT(30) DEF Closer

\* Where a first agrees with t and b does not.
LEMMA CloserByPrefix ==
    ASSUME NEW t, NEW a, NEW b, NEW m \in 1..Bits, \A j \in 1..m : a[j] = t[j],
           \E j \in 1..m : b[j] # t[j]
    PROVE  Closer(t, a, b)
<1> DEFINE D == {j \in 1..m : b[j] # t[j]}
<1>1. D \subseteq Nat /\ D # {}
    BY Sizes
<1>2. PICK i \in D : \A j \in D : i <= j
    BY ZenonT(30), <1>1, LeastOne
<1>3. i \in 1..m /\ b[i] # t[i]
    BY ZenonT(30), <1>2
<1>4. i \in 1..Bits /\ \A j \in 1..(i - 1) : j \in 1..m /\ ~(i <= j)
    BY <1>3, Sizes
<1>5. \A j \in 1..(i - 1) : a[j] = b[j]
    <2> TAKE j \in 1..(i - 1)
    <2>1. b[j] = t[j]
        BY ZenonT(30), <1>2, <1>4
    <2>2. a[j] = t[j]
        BY ZenonT(30), <1>4
    <2> QED BY ZenonT(30), <2>1, <2>2
<1>6. a[i] # b[i] /\ a[i] = t[i]
    BY ZenonT(30), <1>3
<1> QED BY ZenonT(30), <1>4, <1>5, <1>6 DEF Closer

-----------------------------------------------------------------------------
(* Sorting by distance *)

LEMMA UpTo == \A n \in Nat : IsFiniteSet(1..n) /\ Cardinality(1..n) = n
<1>1. \A n \in Nat : IsFiniteSet(1..n) /\ Cardinality(1..n) = IF 1 > n THEN 0 ELSE n - 1 + 1
    BY FS_Interval
<1> QED BY <1>1

\* The peers of P that are closer to t than x.
Nearer(P, t, x) == {y \in P : Closer(t, y, x)}

LEMMA RankFacts ==
    ASSUME NEW P, IsFiniteSet(P), NEW t
    PROVE  \A x \in P : /\ Cardinality(Nearer(P, t, x)) \in Nat /\ Cardinality(Nearer(P, t, x)) < Cardinality(P)
                        /\ \A y \in P : Closer(t, y, x) => Cardinality(Nearer(P, t, y)) < Cardinality(Nearer(P, t, x))
<1> SUFFICES ASSUME NEW x \in P
             PROVE  /\ Cardinality(Nearer(P, t, x)) \in Nat /\ Cardinality(Nearer(P, t, x)) < Cardinality(P)
                    /\ \A y \in P : Closer(t, y, x) => Cardinality(Nearer(P, t, y)) < Cardinality(Nearer(P, t, x))
    BY ZenonT(30)
<1> DEFINE X == Nearer(P, t, x)
<1>1. X \in SUBSET P /\ x \notin X
    BY ZenonT(30), CloserNotSelf DEF Nearer
<1>2. IsFiniteSet(X) /\ Cardinality(X) <= Cardinality(P) /\ Cardinality(X) # Cardinality(P)
    BY ZenonT(30), <1>1, FS_Subset
<1>3. Cardinality(X) \in Nat /\ Cardinality(P) \in Nat
    BY ZenonT(30), <1>2, FS_CardinalityType
<1>4. ASSUME NEW y \in P, Closer(t, y, x) PROVE Cardinality(Nearer(P, t, y)) < Cardinality(X)
    <2> DEFINE Y == Nearer(P, t, y)
    <2>1. \A z \in Y : z \in P /\ Closer(t, z, x)
        BY ZenonT(30), <1>4, CloserTransitive DEF Nearer
    <2>2. Y \in SUBSET X /\ y \in X /\ y \notin Y
        BY ZenonT(30), <1>4, <2>1, CloserNotSelf DEF Nearer
    <2> HIDE DEF X, Y
    <2>3. IsFiniteSet(Y) /\ Cardinality(Y) <= Cardinality(X) /\ Cardinality(Y) # Cardinality(X)
        BY ZenonT(30), <1>2, <2>2, FS_Subset
    <2>4. Cardinality(Y) \in Nat
        BY ZenonT(30), <2>3, FS_CardinalityType
    <2>5. Cardinality(Y) < Cardinality(X)
        BY <1>3, <2>3, <2>4
    <2> QED BY ZenonT(30), <2>5 DEF Y
<1>5. Cardinality(X) < Cardinality(P)
    BY <1>2, <1>3
<1> QED BY ZenonT(30), <1>3, <1>4, <1>5

Sorted(s, P, t) ==
    /\ s \in [1..Cardinality(P) -> P]
    /\ \A i, j \in 1..Cardinality(P) : i < j => Closer(t, s[i], s[j])

\* The number of nearer peers places every peer.
LEMMA SortedExists ==
    ASSUME NEW P \in SUBSET ID, IsFiniteSet(P), NEW t \in ID PROVE \E s : Sorted(s, P, t)
<1> DEFINE n == Cardinality(P)
           r == [x \in P |-> Cardinality(Nearer(P, t, x)) + 1]
           s == [i \in 1..n |-> CHOOSE x \in P : r[x] = i]
<1>1. n \in Nat
    BY ZenonT(30), FS_CardinalityType
<1>2. \A x \in P : /\ Cardinality(Nearer(P, t, x)) \in Nat /\ Cardinality(Nearer(P, t, x)) < n
                   /\ \A y \in P : Closer(t, y, x) => Cardinality(Nearer(P, t, y)) < Cardinality(Nearer(P, t, x))
    BY ZenonT(30), RankFacts
<1>3. ASSUME NEW x \in P PROVE r[x] \in 1..n
    <2>1. Cardinality(Nearer(P, t, x)) \in Nat /\ Cardinality(Nearer(P, t, x)) < n
        BY ZenonT(30), <1>2
    <2> HIDE DEF n
    <2>2. Cardinality(Nearer(P, t, x)) + 1 \in 1..n
        BY <1>1, <2>1
    <2> QED BY ZenonT(30), <2>2
<1>4. ASSUME NEW x \in P, NEW y \in P, Closer(t, y, x) PROVE r[y] < r[x] /\ r[y] # r[x] /\ ~(r[x] < r[y])
    <2> DEFINE a == Cardinality(Nearer(P, t, y))
               b == Cardinality(Nearer(P, t, x))
    <2>1. a \in Nat /\ b \in Nat /\ a < b
        BY ZenonT(30), <1>2, <1>4
    <2>2. r[y] = a + 1 /\ r[x] = b + 1
        BY ZenonT(30)
    <2> HIDE DEF a, b, r
    <2> QED BY <2>1, <2>2
<1>5. r \in [P -> 1..n]
    BY ZenonT(30), <1>3
<1> HIDE DEF r
<1>6. \A x, y \in P : r[x] = r[y] => x = y
    BY ZenonT(30), <1>4, CloserTotal
<1>7. r \in Injection(P, 1..n)
    BY ZenonT(30), <1>5, <1>6 DEF Injection, IsInjective
<1>8. r \in Surjection(P, 1..n)
    BY ZenonT(30), <1>1, <1>7, UpTo, FS_Injection
<1>9. \A i \in 1..n : s[i] \in P /\ r[s[i]] = i
    BY ZenonT(30), <1>8 DEF Surjection
<1>10. s \in [1..n -> P]
    BY ZenonT(30), <1>9
<1> HIDE DEF s, n
<1>11. ASSUME NEW i \in 1..n, NEW j \in 1..n, i < j PROVE Closer(t, s[i], s[j])
    <2>1. i # j /\ ~(j < i)
        BY <1>1, <1>11
    <2>2. s[i] # s[j] /\ s[i] \in P /\ s[j] \in P
        BY ZenonT(30), <1>9, <2>1
    <2>3. ~Closer(t, s[j], s[i])
        <3> SUFFICES ASSUME Closer(t, s[j], s[i]) PROVE FALSE
            OBVIOUS
        <3>1. r[s[j]] < r[s[i]]
            BY ZenonT(30), <1>4, <2>2
        <3> QED BY ZenonT(30), <1>9, <2>1, <3>1
    <2>4. s[i] \in ID /\ s[j] \in ID
        BY ZenonT(30), <2>2
    <2> QED BY ZenonT(30), <2>2, <2>3, <2>4, CloserTotal
<1> QED BY ZenonT(30), <1>10, <1>11 DEF Sorted, n

\* SortClosestPeers lists all of P, each once, by their distance.
LEMMA SortFacts ==
    ASSUME NEW P \in SUBSET ID, IsFiniteSet(P), NEW t \in ID
    PROVE  LET s == SortClosestPeers(P, t)
               n == Cardinality(P)
           IN  /\ n \in Nat /\ s \in [1..n -> P] /\ s \in Seq(P) /\ Len(s) = n
               /\ \A i, j \in 1..n : i < j => Closer(t, s[i], s[j])
               /\ \A x \in P : \E i \in 1..n : s[i] = x
<1> DEFINE s == SortClosestPeers(P, t)
           n == Cardinality(P)
<1>1. s \in [1..n -> P] /\ \A i, j \in 1..n : i < j => Closer(t, s[i], s[j])
    <2>1. \E q \in [1..n -> P] : \A i, j \in 1..n : i < j => Closer(t, q[i], q[j])
        BY ZenonT(30), SortedExists DEF Sorted
    <2> QED BY ZenonT(30), <2>1 DEF SortClosestPeers
<1>2. n \in Nat
    BY ZenonT(30), FS_CardinalityType
<1> HIDE DEF s, n
<1>3. s \in Seq(P) /\ Len(s) = n
    BY <1>1, <1>2
<1>4. \A i, j \in 1..n : i = j \/ i < j \/ j < i
    BY <1>2
<1>5. \A i, j \in 1..n : s[i] = s[j] => i = j
    BY ZenonT(30), <1>1, <1>4, CloserNotSelf
<1>6. s \in Injection(1..n, P)
    BY ZenonT(30), <1>1, <1>5 DEF Injection, IsInjective
<1>7. s \in Surjection(1..n, P)
    BY ZenonT(30), <1>2, <1>6, UpTo, FS_Injection DEF n
<1>8. \A x \in P : \E i \in 1..n : s[i] = x
    BY ZenonT(30), <1>7 DEF Surjection
<1> QED BY ZenonT(30), <1>1, <1>2, <1>3, <1>8 DEF s, n

LEMMA ElementsFinite ==
    ASSUME NEW b \in Seq(Peer)
    PROVE  IsFiniteSet(Elements(b)) /\ (Distinct(b) => Cardinality(Elements(b)) = Len(b))
<1> DEFINE n == Len(b)
           E == Elements(b)
<1>1. n \in Nat /\ b \in [1..n -> Peer]
    OBVIOUS
<1>2. E = {b[i] : i \in 1..n}
    BY ZenonT(30) DEF Elements
<1> HIDE DEF E
<1>3. b \in [1..n -> E]
    BY ZenonT(30), <1>1, <1>2
<1>4. b \in Surjection(1..n, E)
    BY ZenonT(30), <1>2, <1>3 DEF Surjection
<1>5. Distinct(b) => b \in Injection(1..n, E)
    BY ZenonT(30), <1>3 DEF Injection, IsInjective, Distinct
<1>6. IsFiniteSet(E) /\ (b \in Injection(1..n, E) => Cardinality(E) = Cardinality(1..n))
    BY ZenonT(30), <1>1, <1>4, UpTo, FS_Surjection
<1>7. Cardinality(1..n) = n
    BY ZenonT(30), <1>1, UpTo
<1> QED BY ZenonT(30), <1>5, <1>6, <1>7 DEF E

LEMMA ListedIn ==
    ASSUME NEW t, TableInv(t), NEW p \in ListPeers(t)
    PROVE  p \in Peer /\ p \in Elements(t[BucketOf(t, p)])
<1>1. PICK i \in 1..Len(t) : p \in Elements(t[i])
    BY ZenonT(30) DEF ListPeers
<1>2. Row(Len(t), i, t[i]) /\ t[i] \in Seq(Peer) /\ Len(t) \in Nat /\ Len(t) >= 1
    BY ZenonT(30), RowOf
<1>3. p \in Peer /\ Belongs(Len(t), i, p)
    BY ZenonT(30), <1>1, <1>2, ElementsIn DEF Row
<1>4. i = BucketOf(t, p)
    BY ZenonT(30), <1>2, <1>3, CplType, BucketFacts
<1> QED BY ZenonT(30), <1>1, <1>3, <1>4

\* NearestPeers looks at a finite set of peers of the table.
LEMMA CandidatesFacts ==
    ASSUME NEW t, TableInv(t), NEW x, BucketOf(t, x) \in 1..Len(t), NEW count
    PROVE  LET C == Candidates(t, x, count)
           IN  /\ IsFiniteSet(C) /\ C \subseteq ListPeers(t) /\ C \subseteq Peer
               /\ Elements(t[BucketOf(t, x)]) \subseteq C
               /\ Len(t[BucketOf(t, x)]) >= count => C = Elements(t[BucketOf(t, x)])
<1> DEFINE i == BucketOf(t, x)
           C == Candidates(t, x, count)
           E(j) == {y \in Peer : j \in 1..Len(t) /\ y \in Elements(t[j])}
<1>1. C = IF Len(t[i]) >= count THEN Elements(t[i])
          ELSE UNION {Elements(t[j]) : j \in {k \in {i - 1, i, i + 1} : k \in 1..Len(t)}}
    BY ZenonT(30) DEF Candidates
<1> HIDE DEF i, C
<1>2. i \in 1..Len(t)
    BY ZenonT(30) DEF i
<1>3. \A j \in 1..Len(t) : Elements(t[j]) \subseteq Peer /\ IsFiniteSet(Elements(t[j]))
    BY ZenonT(30), RowOf, ElementsIn, ElementsFinite
<1>4. ASSUME NEW j PROVE IsFiniteSet(E(j))
    <2>1. CASE j \in 1..Len(t)
        <3>1. E(j) \subseteq Elements(t[j])
            BY ZenonT(30)
        <3> HIDE DEF E
        <3> QED BY ZenonT(30), <1>3, <2>1, <3>1, FS_Subset
    <2>2. CASE j \notin 1..Len(t)
        <3>1. E(j) = {}
            BY ZenonT(30), <2>2
        <3> HIDE DEF E
        <3> QED BY ZenonT(30), <3>1, FS_EmptySet
    <2> QED BY ZenonT(30), <2>1, <2>2
<1>5. C \subseteq E(i - 1) \cup (E(i) \cup E(i + 1))
    <2> SUFFICES ASSUME NEW y \in C PROVE y \in E(i - 1) \/ y \in E(i) \/ y \in E(i + 1)
        BY ZenonT(30)
    <2>1. PICK j \in {i - 1, i, i + 1} : j \in 1..Len(t) /\ y \in Elements(t[j])
        BY ZenonT(30), <1>1, <1>2
    <2>2. y \in E(j)
        BY ZenonT(30), <1>3, <2>1
    <2> HIDE DEF E
    <2> QED BY ZenonT(30), <2>1, <2>2
<1>6. C \subseteq ListPeers(t) /\ C \subseteq Peer /\ Elements(t[i]) \subseteq C
    <2>1. C \subseteq ListPeers(t) /\ Elements(t[i]) \subseteq C
        BY ZenonT(30), <1>1, <1>2 DEF ListPeers
    <2>2. ListPeers(t) \subseteq Peer
        BY ZenonT(30), ListedIn
    <2> QED BY ZenonT(30), <2>1, <2>2
<1> HIDE DEF E
<1>7. IsFiniteSet(E(i - 1) \cup (E(i) \cup E(i + 1)))
    BY ZenonT(30), <1>4, FS_Union
<1>8. IsFiniteSet(C)
    BY ZenonT(30), <1>5, <1>7, FS_Subset
<1>9. Len(t[i]) >= count => C = Elements(t[i])
    BY ZenonT(30), <1>1
<1> QED BY ZenonT(30), <1>6, <1>8, <1>9 DEF i, C

Fewer(m, n) == IF m < n THEN m ELSE n

\* near are the first of s, the members of C by their distance to x.
Nearest(near, s, C, x, count) ==
    LET n == Cardinality(C)
        k == Fewer(n, count)
    IN  /\ n \in Nat /\ near \in Seq(Peer) /\ Len(near) = k
        /\ \A i \in 1..k : i \in 1..n /\ near[i] = s[i]
        /\ s \in [1..n -> C]
        /\ \A i, j \in 1..n : i < j => Closer(x, s[i], s[j])
        /\ \A y \in C : \E i \in 1..n : s[i] = y

\* NearestPeers returns the first of the sorted candidates.
LEMMA NearestFacts ==
    ASSUME NEW t, NEW x \in ID, NEW count \in Nat, count >= 1,
           IsFiniteSet(Candidates(t, x, count)), Candidates(t, x, count) \subseteq Peer
    PROVE  \E s : Nearest(NearestPeers(t, x, count), s, Candidates(t, x, count), x, count)
<1> DEFINE C == Candidates(t, x, count)
           s == SortClosestPeers(C, x)
           n == Cardinality(C)
           near == NearestPeers(t, x, count)
           k == Fewer(n, count)
<1>1. C \in SUBSET ID
    BY ZenonT(30), Sizes
<1>2. near = SubSeq(s, 1, IF Len(s) < count THEN Len(s) ELSE count)
    BY ZenonT(30) DEF NearestPeers
<1>3. /\ n \in Nat /\ s \in [1..n -> C] /\ s \in Seq(C) /\ Len(s) = n
      /\ \A i, j \in 1..n : i < j => Closer(x, s[i], s[j])
      /\ \A y \in C : \E i \in 1..n : s[i] = y
    BY ZenonT(30), <1>1, SortFacts
<1> HIDE DEF C
<1>4. C \subseteq Peer
    BY ZenonT(30) DEF C
<1> HIDE DEF s, n, near
<1>5. k \in Nat /\ k <= n
    BY <1>3 DEF Fewer
<1>6. near = SubSeq(s, 1, k)
    BY ZenonT(30), <1>2, <1>3 DEF Fewer
<1> HIDE DEF k
<1>7. near = [i \in 1..k |-> s[i]] /\ \A i \in 1..k : i \in 1..n
    <2>1. \A i \in 1..k : i \in 1..n
        BY <1>3, <1>5
    <2>2. SubSeq(s, 1, k) = [i \in 1..k |-> s[i]]
        BY <1>3, <1>5
    <2> QED BY ZenonT(30), <1>6, <2>1, <2>2
<1>8. \A i \in 1..k : s[i] \in Peer
    BY ZenonT(30), <1>3, <1>4, <1>7
<1>9. near \in [1..k -> Peer] /\ \A i \in 1..k : near[i] = s[i]
    BY ZenonT(30), <1>7, <1>8
<1>10. near \in Seq(Peer) /\ Len(near) = k
    BY <1>5, <1>9
<1>11. Nearest(near, s, C, x, count)
    BY ZenonT(30), <1>3, <1>7, <1>9, <1>10 DEF Nearest, n, k
<1> QED BY ZenonT(30), <1>11 DEF near, C

\* Find finds just the peers of the table.
LEMMA FindFacts ==
    ASSUME NEW t, TableInv(t), NEW p \in Peer PROVE Find(t, p) # {} <=> p \in ListPeers(t)
<1> DEFINE C == Candidates(t, p, 1)
           n == Cardinality(C)
           near == NearestPeers(t, p, 1)
           k == Fewer(n, 1)
           b == BucketOf(t, p)
<1>1. t \in Seq(Seq(Peer)) /\ Len(t) >= 1
    BY ZenonT(30) DEF TableInv
<1>2. Len(t) \in Nat
    BY <1>1
<1>3. b \in 1..Len(t)
    BY ZenonT(30), <1>1, <1>2, CplType, BucketFacts
<1>4. IsFiniteSet(C) /\ C \subseteq ListPeers(t) /\ C \subseteq Peer /\ Elements(t[b]) \subseteq C
    BY ZenonT(30), <1>3, CandidatesFacts
<1>5. 1 \in Nat /\ 1 >= 1 /\ p \in ID
    BY Sizes
<1>6. PICK s : Nearest(near, s, C, p, 1)
    BY ZenonT(30), <1>4, <1>5, NearestFacts
<1>7. /\ n \in Nat /\ near \in Seq(Peer) /\ Len(near) = k
      /\ \A i \in 1..k : i \in 1..n /\ near[i] = s[i]
      /\ s \in [1..n -> C]
      /\ \A i, j \in 1..n : i < j => Closer(p, s[i], s[j])
      /\ \A y \in C : \E i \in 1..n : s[i] = y
    BY ZenonT(30), <1>6 DEF Nearest
<1>8. Find(t, p) # {} <=> near # << >> /\ near[1] = p
    BY ZenonT(30) DEF Find
<1> HIDE DEF C, n, near, b
<1>9. ASSUME near # << >>, near[1] = p PROVE p \in ListPeers(t)
    <2>1. k # 0
        BY <1>7, <1>9
    <2>2. 1 \in 1..k
        BY <1>7, <2>1 DEF Fewer
    <2>3. 1 \in 1..n /\ s[1] = p
        BY ZenonT(30), <1>7, <1>9, <2>2
    <2>4. s[1] \in C
        BY ZenonT(30), <1>7, <2>3
    <2> QED BY ZenonT(30), <1>4, <2>3, <2>4
<1>10. ASSUME p \in ListPeers(t) PROVE near # << >> /\ near[1] = p
    <2>1. p \in C
        BY ZenonT(30), <1>4, <1>10, ListedIn DEF b
    <2>2. PICK i \in 1..n : s[i] = p
        BY ZenonT(30), <1>7, <2>1
    <2>3. k = 1 /\ 1 \in 1..k /\ 1 \in 1..n /\ (i = 1 \/ 1 < i)
        BY <1>7, <2>2 DEF Fewer
    <2>4. ~Closer(p, s[1], p)
        BY ZenonT(30), CloserNotSelf
    <2>5. i = 1
        BY ZenonT(30), <1>7, <2>2, <2>3, <2>4
    <2>6. near[1] = p
        BY ZenonT(30), <1>7, <2>2, <2>3, <2>5
    <2>7. near # << >>
        BY <1>7, <2>3
    <2> QED BY ZenonT(30), <2>6, <2>7
<1> QED BY ZenonT(30), <1>8, <1>9, <1>10

LEMMA TypesHold == SetsInv /\ ClockInv /\ TrackInv /\ TableInv(table) => TypeOK
<1> SUFFICES ASSUME SetsInv, ClockInv, TrackInv, TableInv(table) PROVE TypeOK
    OBVIOUS
<1>1. conns \in 0..MaxConns /\ MaxConns \in Nat
    BY ZenonT(30), Bounds DEF TrackInv
<1>2. ASSUME NEW p \in Peer PROVE refcount[p] \in 0..MaxConns /\ links[p] \in 0..(MaxConns + 1)
    <2>1. /\ refcount[p] \in Nat /\ links[p] \in 0..(conns + 1) /\ notices[p] \in Seq({"up", "down"})
          /\ refcount[p] + Count(notices[p], "up") <= conns
        BY ZenonT(30) DEF TrackInv, Tracked
    <2>2. Count(notices[p], "up") \in Nat
        BY ZenonT(30), <2>1, CountType
    <2> QED BY <1>1, <2>1, <2>2
<1>3. refcount \in [Peer -> 0..MaxConns] /\ links \in [Peer -> 0..(MaxConns + 1)] /\ notices \in [Peer -> Seq({"up", "down"})]
    BY ZenonT(30), <1>2 DEF TrackInv
<1>4. table \in Seq(Seq(Peer))
    BY ZenonT(30) DEF TableInv
<1> QED BY ZenonT(30), <1>1, <1>3, <1>4 DEF TypeOK, SetsInv, ClockInv

LEMMA InvSound == SetsInv /\ ClockInv /\ TrackInv /\ TableInv(table) => TableSound
<1> SUFFICES ASSUME SetsInv, ClockInv, TrackInv, TableInv(table) PROVE TableSound
    OBVIOUS
<1>1. TypeOK
    BY ZenonT(30), TypesHold
<1>2. {p \in Peer : Find(table, p) # {}} = ListPeers(table)
    <2>1. \A p \in Peer : Find(table, p) # {} <=> p \in ListPeers(table)
        BY ZenonT(30), FindFacts
    <2>2. \A p \in ListPeers(table) : p \in Peer
        BY ZenonT(30), ListedIn
    <2> QED BY ZenonT(30), <2>1, <2>2
<1>3. ASSUME NEW i \in 1..Len(table)
      PROVE  /\ Len(table[i]) <= BucketSize
             /\ Cardinality(Elements(table[i])) = Len(table[i])
             /\ \A p \in Elements(table[i]) :
                    Cpl(p) >= i - 1 /\ (i < Len(table) => Cpl(p) = i - 1)
    <2>1. Row(Len(table), i, table[i])
        BY ZenonT(30) DEF TableInv
    <2>2. Cardinality(Elements(table[i])) = Len(table[i])
        BY ZenonT(30), <2>1, ElementsFinite DEF Row
    <2> QED BY ZenonT(30), <2>1, <2>2 DEF Row, Belongs
<1> QED BY ZenonT(30), <1>1, <1>2, <1>3 DEF TableSound, Cpl

\* Whatever order peers connect, disconnect and are added in, for any IDs and any
\* size of bucket: every peer of the routing table is in the bucket of the bits it
\* shares with the node, no bucket is overfull, none has a peer twice, and Find finds
\* just the peers of the table.  nextBucket splits the last bucket until there is
\* room, and then only the bucket that was split last can have one peer too many.
THEOREM TablesAreSound == Spec => []TableSound
BY SetsHold, TrackHolds, TableHolds, InvSound, PTL

-----------------------------------------------------------------------------
(* The nearest peers *)

LEMMA SharedBits ==
    ASSUME NEW y \in ID, y # Self
    PROVE  /\ Cpl(y) \in Nat /\ Cpl(y) + 1 \in 1..Bits /\ y[Cpl(y) + 1] # Self[Cpl(y) + 1]
           /\ \A j \in 1..Cpl(y) : y[j] = Self[j]
<1>1. Cpl(y) \in 0..(Bits - 1) /\ y[Cpl(y) + 1] # Self[Cpl(y) + 1] /\ \A j \in 1..Cpl(y) : y[j] = Self[j]
    BY ZenonT(30), Sizes, PrefixFacts DEF Cpl
<1>2. Cpl(y) \in Nat /\ Cpl(y) + 1 \in 1..Bits
    BY <1>1, Sizes
<1> QED BY ZenonT(30), <1>1, <1>2

\* A peer of the bucket of x is closer to x than a peer of another bucket.
LEMMA BucketIsCloser ==
    ASSUME NEW n \in Nat, NEW i \in 1..n, NEW k \in 1..n, i # k,
           NEW x \in ID, x # Self, NEW q \in ID, q # Self, NEW p \in ID, p # Self,
           Belongs(n, i, x), Belongs(n, i, q), Belongs(n, k, p)
    PROVE  Closer(x, q, p)
<1>1. /\ Cpl(x) \in Nat /\ Cpl(x) + 1 \in 1..Bits /\ x[Cpl(x) + 1] # Self[Cpl(x) + 1]
      /\ \A j \in 1..Cpl(x) : x[j] = Self[j]
    BY ZenonT(30), SharedBits
<1>2. /\ Cpl(q) \in Nat /\ Cpl(q) + 1 \in 1..Bits /\ q[Cpl(q) + 1] # Self[Cpl(q) + 1]
      /\ \A j \in 1..Cpl(q) : q[j] = Self[j]
    BY ZenonT(30), SharedBits
<1>3. /\ Cpl(p) \in Nat /\ Cpl(p) + 1 \in 1..Bits /\ p[Cpl(p) + 1] # Self[Cpl(p) + 1]
      /\ \A j \in 1..Cpl(p) : p[j] = Self[j]
    BY ZenonT(30), SharedBits
<1>4. /\ Cpl(x) >= i - 1 /\ (i < n => Cpl(x) = i - 1)
      /\ Cpl(q) >= i - 1 /\ (i < n => Cpl(q) = i - 1)
      /\ Cpl(p) >= k - 1 /\ (k < n => Cpl(p) = k - 1)
    BY ZenonT(30) DEF Belongs
<1>5. i \in Nat /\ k \in Nat /\ (k < i \/ i < k)
    OBVIOUS
<1>6. CASE k < i
    <2>1. Cpl(p) = k - 1 /\ Cpl(p) + 1 = k /\ k \in 1..k /\ \A j \in 1..k : j \in 1..Cpl(q) /\ j \in 1..Cpl(x)
        BY <1>1, <1>2, <1>3, <1>4, <1>5, <1>6
    <2>2. \A j \in 1..k : q[j] = x[j]
        BY ZenonT(30), <1>1, <1>2, <2>1
    <2>3. p[k] # x[k]
        BY ZenonT(30), <1>1, <1>3, <2>1
    <2>4. k \in 1..Bits
        BY ZenonT(30), <1>3, <2>1
    <2> QED BY ZenonT(30), <2>1, <2>2, <2>3, <2>4, CloserByPrefix
<1>7. CASE i < k
    <2>1. /\ Cpl(q) = i - 1 /\ Cpl(x) = i - 1 /\ Cpl(q) + 1 = i /\ Cpl(x) + 1 = i
          /\ i \in 1..Cpl(p) /\ i \in 1..i /\ \A j \in 1..i : j = i \/ j \in 1..(i - 1)
        BY <1>1, <1>2, <1>3, <1>4, <1>5, <1>7
    <2>2. i \in 1..Bits /\ q[i] # Self[i] /\ x[i] # Self[i] /\ p[i] = Self[i]
        BY ZenonT(30), <1>1, <1>2, <1>3, <2>1
    <2>3. q[i] \in {0, 1} /\ x[i] \in {0, 1} /\ Self[i] \in {0, 1}
        BY ZenonT(30), <2>2, Sizes DEF ID
    <2>4. q[i] = x[i]
        BY ZenonT(30), <2>2, <2>3
    <2>5. \A j \in 1..i : q[j] = x[j]
        BY ZenonT(30), <1>1, <1>2, <2>1, <2>4
    <2>6. p[i] # x[i]
        BY ZenonT(30), <2>2
    <2> QED BY ZenonT(30), <2>1, <2>2, <2>5, <2>6, CloserByPrefix
<1> QED BY ZenonT(30), <1>5, <1>6, <1>7

LEMMA BucketSuffices ==
    ASSUME NEW t, TableInv(t), NEW x \in ID \ {Self}, NEW count \in 1..BucketSize,
           Len(t[BucketOf(t, x)]) >= count
    PROVE  LET near == NearestPeers(t, x, count)
           IN  /\ Len(near) = count
               /\ \A p \in ListPeers(t) \ Elements(near) : Closer(x, near[count], p)
<1> DEFINE i == BucketOf(t, x)
           C == Candidates(t, x, count)
           n == Cardinality(C)
           near == NearestPeers(t, x, count)
<1>1. t \in Seq(Seq(Peer)) /\ Len(t) >= 1
    BY ZenonT(30) DEF TableInv
<1>2. Len(t) \in Nat
    BY <1>1
<1>3. x \in ID /\ x # Self /\ Cpl(x) \in Nat
    BY ZenonT(30), SharedBits
<1>4. i \in 1..Len(t) /\ Belongs(Len(t), i, x)
    BY ZenonT(30), <1>1, <1>2, <1>3, BucketFacts
<1>5. IsFiniteSet(C) /\ C \subseteq Peer /\ C = Elements(t[i])
    BY ZenonT(30), <1>4, CandidatesFacts
<1>6. count \in Nat /\ count >= 1
    BY Sizes
<1>7. PICK s : Nearest(near, s, C, x, count)
    BY ZenonT(30), <1>3, <1>5, <1>6, NearestFacts
<1>8. Len(t[i]) >= count
    BY ZenonT(30)
<1> HIDE DEF i, C, near
<1>9. Row(Len(t), i, t[i]) /\ t[i] \in Seq(Peer) /\ Distinct(t[i])
    BY ZenonT(30), <1>4, RowOf DEF Row
<1>10. n = Len(t[i])
    BY ZenonT(30), <1>5, <1>9, ElementsFinite
<1>11. n \in Nat /\ Fewer(n, count) = count
    <2>1. Len(t[i]) \in Nat
        BY <1>9
    <2> QED BY <1>6, <1>8, <1>10, <2>1 DEF Fewer
<1>12. /\ near \in Seq(Peer) /\ Len(near) = count
       /\ \A j \in 1..count : j \in 1..n /\ near[j] = s[j]
       /\ s \in [1..n -> C]
       /\ \A j, k \in 1..n : j < k => Closer(x, s[j], s[k])
       /\ \A y \in C : \E j \in 1..n : s[j] = y
    BY ZenonT(30), <1>7, <1>11 DEF Nearest
<1> HIDE DEF n
<1>13. count \in 1..count /\ \A j \in 1..n : j \in 1..count \/ count < j
    BY <1>6, <1>11
<1>14. near[count] = s[count] /\ count \in 1..n /\ s[count] \in C
    BY ZenonT(30), <1>12, <1>13
<1>15. ASSUME NEW p \in ListPeers(t), p \notin Elements(near) PROVE Closer(x, near[count], p)
    <2>1. CASE p \in C
        <3>1. PICK j \in 1..n : s[j] = p
            BY ZenonT(30), <1>12, <2>1
        <3>2. j \notin 1..count
            BY ZenonT(30), <1>12, <1>15, <3>1 DEF Elements
        <3> QED BY ZenonT(30), <1>12, <1>13, <1>14, <3>1, <3>2
    <2>2. CASE p \notin C
        <3>1. PICK k \in 1..Len(t) : p \in Elements(t[k])
            BY ZenonT(30) DEF ListPeers
        <3>2. k # i
            BY ZenonT(30), <1>5, <2>2, <3>1
        <3>3. Row(Len(t), k, t[k]) /\ t[k] \in Seq(Peer)
            BY ZenonT(30), RowOf
        <3>4. p \in Peer /\ Belongs(Len(t), k, p)
            BY ZenonT(30), <3>1, <3>3, ElementsIn DEF Row
        <3>5. s[count] \in Peer /\ Belongs(Len(t), i, s[count])
            BY ZenonT(30), <1>5, <1>9, <1>14 DEF Row
        <3>6. p \in ID /\ p # Self /\ s[count] \in ID /\ s[count] # Self
            BY ZenonT(30), <3>4, <3>5, Sizes
        <3>7. Closer(x, s[count], p)
            BY ZenonT(30), <1>2, <1>3, <1>4, <3>2, <3>4, <3>5, <3>6, BucketIsCloser
        <3> QED BY ZenonT(30), <1>14, <3>7
    <2> QED BY ZenonT(30), <2>1, <2>2
<1> QED BY ZenonT(30), <1>12, <1>15 DEF near

\* NearestPeers may stop at the bucket of an ID when it has enough peers: whatever
\* the table has become, no peer of it that is not returned is closer to the ID than
\* the last one returned.  The peers of the bucket agree with the ID on more leading
\* bits than those of any other bucket.
THEOREM BucketsHoldTheNearest == Spec => []NearestInBucket
<1>1. TableInv(table) => NearestInBucket
    BY ZenonT(30), BucketSuffices DEF NearestInBucket
<1> QED BY <1>1, TableHolds, PTL
=============================================================================
