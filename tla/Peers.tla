------------------------------- MODULE Peers --------------------------------
(***************************************************************************)
(* How a node comes to know its peers (AddPeer, addPeer, Block of node.go, *)
(* notifi.go, bs.go, the bootstrap server cmd/bs/bs.go, and what           *)
(* ActionListAdd.Receive does to the peers it blocks).                     *)
(*                                                                         *)
(* The network calls Connected and Disconnected for every connection, in   *)
(* order for each peer but some time after the fact; a tracker counts the  *)
(* connections, and the routing table has the peer while there is one.     *)
(* Meanwhile AddPeer runs for peers that mDNS or the bootstrap server have *)
(* told of: it connects, which takes time, and then puts the peer into the *)
(* routing table and the gossipers.  The gossipers and the blocked list    *)
(* are in the database and survive a restart, nothing else does.           *)
(***************************************************************************)
EXTENDS RoutingTable

CONSTANTS Early,        \* peers connected before the listener was registered
          Local,        \* nodes that mDNS tells of
          Poster,       \* nodes that post to the bootstrap server, Self among them or not
          BootstrapTTL, \* how long the server lists a node
          Interval,     \* bootstrapRefreshInterval of the posters
          MaxTime,      \* bound: the clock
          MaxConns,     \* bound: connections opened in a behaviour
          MaxBlocks,    \* bound: peers put on the blocked list
          MaxRestarts   \* bound: restarts of the node

ASSUME PeersAssumption ==
    /\ Early \subseteq Peer /\ Local \cup Poster \subseteq Peer \cup {Self}
    /\ BootstrapTTL \in Nat \ {0} /\ Interval \in 1..BootstrapTTL
    /\ {MaxTime, MaxConns, MaxBlocks, MaxRestarts} \subseteq Nat

VARIABLES table,     \* routingTable
          refcount,  \* per peer: its peerTracker, 0 if there is none
          links,     \* per peer: connections that are open (the network's view)
          notices,   \* per peer: calls of Connected and Disconnected to come
          addrs,     \* peers with an address in the peerstore; PeerTTL has not passed
          adding,    \* per peer: where its addPeer call is
          gossipers, \* peers with a peer: record in the database
          list,      \* the blocked list in the database
          blocked,   \* blockedlist of the node
          lastSeen,  \* bootstrap server: when a node posted last, -1 if never
          now,       \* the clock
          conns,     \* connections opened so far
          restarts   \* restarts so far

peerVars == <<table, refcount, links, notices, addrs, adding, conns>>
vars == <<peerVars, gossipers, list, blocked, lastSeen, now, restarts>>

Known == Peer \cup {Self}

TypeOK ==
    /\ table \in Seq(Seq(Peer))
    /\ refcount \in [Peer -> 0..MaxConns] /\ links \in [Peer -> 0..(MaxConns + 1)]
    /\ notices \in [Peer -> Seq({"up", "down"})]
    /\ addrs \subseteq Peer
    /\ adding \in [Peer -> {"idle", "connecting", "connected"}]
    /\ gossipers \subseteq Peer /\ list \subseteq Peer /\ blocked \subseteq list
    /\ lastSeen \in [Known -> -1..MaxTime] /\ now \in 0..MaxTime
    /\ conns \in 0..MaxConns /\ restarts \in 0..MaxRestarts

Init ==
    /\ table = NewRoutingTable
    /\ refcount = [p \in Peer |-> 0]
    /\ links = [p \in Peer |-> IF p \in Early THEN 1 ELSE 0]
    /\ notices = [p \in Peer |-> << >>]
    /\ addrs = {} /\ adding = [p \in Peer |-> "idle"]
    /\ gossipers = {} /\ list = {} /\ blocked = {}
    /\ lastSeen = [n \in Known |-> -1] /\ now = 0
    /\ conns = 0 /\ restarts = 0

-----------------------------------------------------------------------------
(* Connections *)

OpenConnection(p) ==
    /\ conns < MaxConns
    /\ conns' = conns + 1
    /\ links' = [links EXCEPT ![p] = @ + 1]
    /\ notices' = [notices EXCEPT ![p] = Append(@, "up")]

\* The peer opens a connection, or a query of this node dials it.
Dialled(p) ==
    /\ OpenConnection(p)
    /\ UNCHANGED <<table, refcount, addrs, adding, gossipers, list, blocked, lastSeen, now, restarts>>

ConnectionCloses(p) ==
    /\ links[p] > 0
    /\ links' = [links EXCEPT ![p] = @ - 1]
    /\ notices' = [notices EXCEPT ![p] = Append(@, "down")]
    /\ UNCHANGED <<table, refcount, addrs, adding, conns, gossipers, list, blocked, lastSeen, now, restarts>>

\* Mutant of Connected: a further connection is not counted.
ConnectedOnce(p) ==
    /\ notices[p] # << >> /\ Head(notices[p]) = "up"
    /\ notices' = [notices EXCEPT ![p] = Tail(@)]
    /\ refcount' = [refcount EXCEPT ![p] = 1]
    /\ table' = IF refcount[p] = 0 THEN Update(table, p) ELSE table
    /\ UNCHANGED <<links, addrs, adding, conns, gossipers, list, blocked, lastSeen, now, restarts>>

\* Only the first of several connections concerns the routing table.
Connected(p) ==
    /\ notices[p] # << >> /\ Head(notices[p]) = "up"
    /\ notices' = [notices EXCEPT ![p] = Tail(@)]
    /\ refcount' = [refcount EXCEPT ![p] = @ + 1]
    /\ table' = IF refcount[p] = 0 THEN Update(table, p) ELSE table
    /\ UNCHANGED <<links, addrs, adding, conns, gossipers, list, blocked, lastSeen, now, restarts>>

\* With the last connection the peer leaves the routing table.
Disconnected(p) ==
    /\ notices[p] # << >> /\ Head(notices[p]) = "down"
    /\ notices' = [notices EXCEPT ![p] = Tail(@)]
    /\ refcount' = [refcount EXCEPT ![p] = IF @ = 0 THEN 0 ELSE @ - 1]
    /\ table' = IF refcount[p] = 1 THEN Remove(table, p) ELSE table
    /\ UNCHANGED <<links, addrs, adding, conns, gossipers, list, blocked, lastSeen, now, restarts>>

-----------------------------------------------------------------------------
(* Adding peers *)

\* AddPeer for one of the nodes told of; nothing is done for the node itself
\* and for a peer that is blocked now.
AddPeer(n) ==
    /\ n # Self
    /\ n \notin blocked
    /\ adding[n] = "idle"
    /\ adding' = [adding EXCEPT ![n] = "connecting"]
    /\ addrs' = addrs \cup {n}
    /\ UNCHANGED <<table, refcount, links, notices, conns, gossipers, list, blocked, lastSeen, now, restarts>>

\* The connection is there, an open one or a new one.
ConnectOk(p) ==
    /\ adding[p] = "connecting"
    /\ adding' = [adding EXCEPT ![p] = "connected"]
    /\ IF links[p] > 0 THEN UNCHANGED <<links, notices, conns>> ELSE OpenConnection(p)
    /\ UNCHANGED <<table, refcount, addrs, gossipers, list, blocked, lastSeen, now, restarts>>

ConnectFails(p) ==
    /\ adding[p] = "connecting" /\ links[p] = 0
    /\ adding' = [adding EXCEPT ![p] = "idle"]
    /\ addrs' = addrs \ {p}
    /\ UNCHANGED <<table, refcount, links, notices, conns, gossipers, list, blocked, lastSeen, now, restarts>>

\* The rest of addPeer.  When the table was empty it goes on to run
\* RoutingRefreshTask, which dials other peers (Dialled).
FinishAdd(p) ==
    /\ adding[p] = "connected"
    /\ adding' = [adding EXCEPT ![p] = "idle"]
    /\ table' = Update(table, p)
    /\ gossipers' = gossipers \cup {p}
    /\ UNCHANGED <<refcount, links, notices, addrs, conns, list, blocked, lastSeen, now, restarts>>

\* mDNS tells of a node.
HandlePeerFound(n) == n \in Local /\ AddPeer(n)

-----------------------------------------------------------------------------
(* The bootstrap server *)

post(n) == lastSeen' = [lastSeen EXCEPT ![n] = now]

\* Mutant of get: a node is dropped before its time.
getEarly == {n \in Known : lastSeen[n] >= 0 /\ lastSeen[n] + BootstrapTTL > now + 1}

\* The nodes the server lists.
get == {n \in Known : lastSeen[n] >= 0 /\ lastSeen[n] + BootstrapTTL > now}

BSpost(n) ==
    /\ post(n)
    /\ UNCHANGED <<peerVars, gossipers, list, blocked, now, restarts>>

\* checkBSResponses starts an AddPeer for every node listed but this one; the
\* goroutines run independently, here one by one.
BSget(n) ==
    /\ n \in get \ {Self}
    /\ AddPeer(n)

\* Time passes; the posters that run refresh their entry every Interval.
Tick ==
    /\ now < MaxTime
    /\ \A n \in Poster : lastSeen[n] >= 0 => now < lastSeen[n] + Interval
    /\ now' = now + 1
    /\ UNCHANGED <<peerVars, gossipers, list, blocked, lastSeen, restarts>>

-----------------------------------------------------------------------------
(* Blocking, and restarts *)

\* addToList of ActionListAdd.Receive: the peer is on the list in the database.
AddToList(p) ==
    /\ Cardinality(list) < MaxBlocks
    /\ list' = list \cup {p}
    /\ UNCHANGED <<peerVars, gossipers, blocked, lastSeen, now, restarts>>

\* The rest of it: the peer is blocked and is a gossiper no more.
Block(p) ==
    /\ p \in list \ blocked
    /\ blocked' = blocked \cup {p}
    /\ gossipers' = gossipers \ {p}
    /\ UNCHANGED <<peerVars, list, lastSeen, now, restarts>>

\* Mutant of Restart: the blocked list is not read.
RestartUnblocked ==
    /\ restarts < MaxRestarts
    /\ restarts' = restarts + 1
    /\ table' = NewRoutingTable
    /\ refcount' = [p \in Peer |-> 0] /\ links' = [p \in Peer |-> 0]
    /\ notices' = [p \in Peer |-> << >>]
    /\ addrs' = {} /\ adding' = [p \in Peer |-> "idle"]
    /\ blocked' = {}
    /\ UNCHANGED <<gossipers, list, lastSeen, now, conns>>

\* The node stops and is prepared again: its connections are closed without
\* the listener being told, and InitBlockedList reads the list.
Restart ==
    /\ restarts < MaxRestarts
    /\ restarts' = restarts + 1
    /\ table' = NewRoutingTable
    /\ refcount' = [p \in Peer |-> 0] /\ links' = [p \in Peer |-> 0]
    /\ notices' = [p \in Peer |-> << >>]
    /\ addrs' = {} /\ adding' = [p \in Peer |-> "idle"]
    /\ blocked' = list
    /\ UNCHANGED <<gossipers, list, lastSeen, now, conns>>

PeerStep(p) ==
    \/ Dialled(p) \/ ConnectionCloses(p) \/ Connected(p) \/ Disconnected(p)
    \/ ConnectOk(p) \/ ConnectFails(p) \/ FinishAdd(p)
    \/ AddToList(p) \/ Block(p)

Next ==
    \/ \E p \in Peer : PeerStep(p)
    \/ \E n \in Known : HandlePeerFound(n) \/ BSget(n)
    \/ \E n \in Poster : BSpost(n)
    \/ Tick
    \/ Restart

Spec == Init /\ [][Next]_vars

-----------------------------------------------------------------------------
(* Properties *)

\* Whatever order peers come and go in, every peer of the routing table is in
\* the bucket of the bits it shares with the node, no bucket is overfull, no peer
\* is there twice (Update, nextBucket and Split), and Find, which looks at one
\* bucket or three, finds just the peers of the table.  Every variable has a value
\* of its type.
TableSound ==
    /\ TypeOK
    /\ {p \in Peer : Find(table, p) # {}} = ListPeers(table)
    /\ \A i \in 1..Len(table) :
          /\ Len(table[i]) <= BucketSize
          /\ Cardinality(Elements(table[i])) = Len(table[i])
          /\ \A p \in Elements(table[i]) :
                 LET cpl == commonPrefixLen(p, Self)
                 IN  cpl >= i - 1 /\ (i < Len(table) => cpl = i - 1)

\* When the bucket of an ID has count peers, NearestPeers need not look
\* further: no peer of the whole table is closer to the ID than the last one
\* it returns.
NearestInBucket ==
    \A t \in ID \ {Self}, count \in 1..BucketSize :
        Len(table[BucketOf(table, t)]) >= count =>
            LET near == NearestPeers(table, t, count)
            IN  /\ Len(near) = count
                /\ \A p \in ListPeers(table) \ Elements(near) : Closer(t, near[count], p)

Count(s, x) == Cardinality({i \in 1..Len(s) : s[i] = x})

\* A tracker has counted exactly the connections of its peer that the listener
\* has been told of and not told the end of; a connection that was there before
\* the listener may be missed, once.
RefcountTracks ==
    \A p \in Peer :
        LET open == links[p] + Count(notices[p], "down") - Count(notices[p], "up")
        IN  \/ refcount[p] = open
            \/ p \in Early /\ refcount[p] = open - 1

\* A node that posts to the bootstrap server every refresh interval is listed
\* by the server at all times but the instant its refresh is due.
ListedBetweenRefreshes ==
    \A n \in Poster : lastSeen[n] >= 0 => n \in get \/ now = lastSeen[n] + Interval

\* A peer is out when it is blocked, no gossiper, and not being added.
Out(p) == p \in blocked \ gossipers /\ adding[p] = "idle"

\* A peer that is out stays out, whoever tells the node of it, whatever AddPeer
\* calls end, and even when the node is restarted.
BlockedStaysOut == [][\A p \in Peer : Out(p) => Out(p)']_vars

=============================================================================
