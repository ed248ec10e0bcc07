------------------------------- MODULE Gossip -------------------------------
(***************************************************************************)
(* How changes of the DHT spread (gossip.go, dht.Change, AddPeer of        *)
(* node.go, ActionListAdd.Receive of action.go).                           *)
(*                                                                         *)
(* Every node keeps a log of the change messages it has applied, and for   *)
(* each peer it gossips with the index up to which it has taken over that  *)
(* peer's log.  Three goroutines work on each node: a ticker picks a peer  *)
(* (GossipTask), HandleGossipWiths asks the picked peer for its log after  *)
(* the known index and queues what it gets, HandleGossipPuts applies what  *)
(* is queued.  A node that is asked by a peer which is ahead of what it    *)
(* knows of it gossips back.  A published change is also sent directly to  *)
(* the other nodes; that may fail, so only gossip is sure to spread it.    *)
(*                                                                         *)
(* Messages are numbered as they are published; a message has the          *)
(* fingerprint of no other.  The messages here are those that their        *)
(* receiver can apply or refuse at once (puts and list adds); the ones     *)
(* that wait in the retry queue are in DHTNode.                            *)
(***************************************************************************)
EXTENDS Integers, Sequences, FiniteSets

CONSTANTS Node,
          Publisher,           \* nodes that publish changes
          Reached,             \* nodes that direct messages may reach
          Discovered,          \* pairs of a node and a peer it is told of
          Ticking,             \* nodes whose gossip interval is not 0
          MaxMessages,         \* bound: changes published in a behaviour
          Blocks,              \* per message: the peers it puts on the blocked list
          GossipWithQueueSize, \* capacity of gchan
          GossipPutQueueSize,  \* capacity of gossipPuts
          MaxFaults            \* bound: crashes, failed sends and refused puts

Message == 1..MaxMessages

ASSUME GossipAssumption ==
    /\ Publisher \subseteq Node /\ Ticking \subseteq Node /\ Reached \subseteq Node
    /\ Discovered \subseteq Node \X Node
    /\ MaxMessages \in Nat /\ MaxFaults \in Nat
    /\ Blocks \in [Message -> SUBSET Node]
    /\ GossipWithQueueSize \in Nat \ {0} /\ GossipPutQueueSize \in Nat \ {0}

VARIABLES published,  \* number of messages published
          log,        \* per node: the idx: records, its change messages in order
          gossipers,  \* per node: the peers it has a peer: record of
          peerIdx,    \* per node and peer: the value of that record, 0 if none
          blocked,    \* per node: the blocked list
          adding,     \* per node: peers that AddPeer is connecting to
          gchan,      \* per node: peers to gossip with
          back,       \* per node: peers to gossip back with, not yet in gchan
          gossiping,  \* per node: what gossipWith is doing
          gossipPuts, \* per node: puts to handle
          handling,   \* per node: the put in ActionReceiver, if any
          direct,     \* messages sent directly: pairs of receiver and message
          dropped,    \* per node: messages lost in a crash or refused
          faults      \* faults so far

gossipVars == <<published, log, gossipers, peerIdx, blocked, adding, gchan, back,
          gossiping, gossipPuts, handling, direct, dropped, faults>>

peerVars == <<gossipers, peerIdx, blocked>>
queueVars == <<gchan, back, gossiping, gossipPuts>>

Put == [Idx : Nat, M : Message]

Idle == [pc |-> "idle"]

Gossiping ==
    {Idle}
        \cup [pc : {"sent"}, id : Node, MyIdx : Nat, yourIdx : Nat]
        \cup [pc : {"queueing"}, id : Node, idx : Nat, puts : Seq(Put)]

GossipTypeOK ==
    /\ published \in 0..MaxMessages
    /\ log \in [Node -> Seq(Message)]
    /\ gossipers \in [Node -> SUBSET Node]
    /\ peerIdx \in [Node -> [Node -> Nat]]
    /\ blocked \in [Node -> SUBSET Node]
    /\ adding \in [Node -> SUBSET Node]
    /\ gchan \in [Node -> Seq(Node)]
    /\ back \in [Node -> SUBSET Node]
    /\ gossiping \in [Node -> Gossiping]
    /\ gossipPuts \in [Node -> Seq(Put)]
    /\ handling \in [Node -> SUBSET Message]
    /\ direct \subseteq Node \X Message
    /\ dropped \in [Node -> SUBSET Message]
    /\ faults \in 0..MaxFaults
    /\ \A n \in Node : /\ Len(gchan[n]) <= GossipWithQueueSize
                       /\ Len(gossipPuts[n]) <= GossipPutQueueSize

GossipInit ==
    /\ published = 0
    /\ log = [n \in Node |-> << >>]
    /\ gossipers = [n \in Node |-> {}]
    /\ peerIdx = [n \in Node |-> [p \in Node |-> 0]]
    /\ blocked = [n \in Node |-> {}]
    /\ adding = [n \in Node |-> {}]
    /\ gchan = [n \in Node |-> << >>]
    /\ back = [n \in Node |-> {}]
    /\ gossiping = [n \in Node |-> Idle]
    /\ gossipPuts = [n \in Node |-> << >>]
    /\ handling = [n \in Node |-> {}]
    /\ direct = {}
    /\ dropped = [n \in Node |-> {}]
    /\ faults = 0

Fault ==
    /\ faults < MaxFaults
    /\ faults' = faults + 1

Logged(n, m) == \E i \in 1..Len(log[n]) : log[n][i] = m

-----------------------------------------------------------------------------
(* Applying a message *)

DeleteGossipers(n, P) ==
    /\ gossipers' = [gossipers EXCEPT ![n] = @ \ P]
    /\ peerIdx' = [peerIdx EXCEPT ![n] = [p \in Node |-> IF p \in P THEN 0 ELSE @[p]]]

\* The message is logged with its change; peers it adds to the blocked list
\* are blocked, and are gossipers no more.
Apply(n, m) ==
    /\ log' = [log EXCEPT ![n] = Append(@, m)]
    /\ blocked' = [blocked EXCEPT ![n] = @ \cup Blocks[m]]
    /\ DeleteGossipers(n, Blocks[m])

\* Change: the message is applied on the node itself and sent to the others.
Publish(n) ==
    /\ published < MaxMessages
    /\ published' = published + 1
    /\ Apply(n, published + 1)
    /\ direct' = direct \cup {<<p, published + 1>> : p \in Reached \ {n}}
    /\ UNCHANGED <<adding, queueVars, handling, dropped, faults>>

\* Change on a node that fails to apply the message itself: the error is
\* written to the debug log, and the others are sent the message all the same.
PublishFails(n) ==
    /\ published < MaxMessages
    /\ published' = published + 1
    /\ Fault
    /\ direct' = direct \cup {<<p, published + 1>> : p \in Reached \ {n}}
    /\ UNCHANGED <<log, peerVars, adding, queueVars, handling, dropped>>

\* A message sent directly arrives, and is applied without a look at its
\* fingerprint.  A message that never arrives is a lost one.
Deliver(n, m) ==
    /\ <<n, m>> \in direct
    /\ direct' = direct \ {<<n, m>>}
    /\ Apply(n, m)
    /\ UNCHANGED <<published, adding, queueVars, handling, dropped, faults>>

-----------------------------------------------------------------------------
(* Peers *)

\* AddPeer goes on to connect if the peer is not blocked now.
AddPeer(n, p) ==
    /\ <<n, p>> \in Discovered
    /\ p # n
    /\ p \notin blocked[n]
    /\ adding' = [adding EXCEPT ![n] = @ \cup {p}]
    /\ UNCHANGED <<published, log, peerVars, queueVars, handling, direct, dropped, faults>>

\* The connection is there: addPeer makes the peer a gossiper.
AddGossiper(n, p) ==
    /\ p \in adding[n]
    /\ adding' = [adding EXCEPT ![n] = @ \ {p}]
    /\ gossipers' = [gossipers EXCEPT ![n] = @ \cup {p}]
    /\ UNCHANGED <<published, log, peerIdx, blocked, queueVars, handling, direct, dropped, faults>>

\* The connection fails.
ConnectFails(n, p) ==
    /\ p \in adding[n]
    /\ adding' = [adding EXCEPT ![n] = @ \ {p}]
    /\ UNCHANGED <<published, log, peerVars, queueVars, handling, direct, dropped, faults>>

-----------------------------------------------------------------------------
(* Asking a peer *)

\* GossipTask picks a gossiper and queues a request, when there is room.
GossipTask(n, p) ==
    /\ p \in gossipers[n]
    /\ Len(gchan[n]) < GossipWithQueueSize
    /\ gchan' = [gchan EXCEPT ![n] = Append(@, p)]
    /\ UNCHANGED <<published, log, peerVars, adding, back, gossiping, gossipPuts,
                   handling, direct, dropped, faults>>

\* The first half of gossipWith, to the sending of the request; node.Send
\* refuses to send to a blocked peer.
GossipWith(n) ==
    /\ gossiping[n] = Idle
    /\ gchan[n] # << >>
    /\ gchan' = [gchan EXCEPT ![n] = Tail(@)]
    /\ LET id == Head(gchan[n])
       IN  gossiping' = [gossiping EXCEPT ![n] =
               IF id \in blocked[n] THEN Idle
               ELSE [pc |-> "sent", id |-> id, MyIdx |-> Len(log[n]),
                     yourIdx |-> peerIdx[n][id]]]
    /\ UNCHANGED <<published, log, peerVars, adding, back, gossipPuts, handling,
                   direct, dropped, faults>>

(***************************************************************************)
(* The pivot with which GetPuts enters the integer index of the store:     *)
(* string(since) is the character with that code, which reads as a number  *)
(* if it is one of the digits (codes 48 to 57) and as 0 if it is not.  The *)
(* values of the index are messages, which all read as 0.                  *)
(***************************************************************************)
Pivot(since) == IF since \in 48..57 THEN since - 48 ELSE 0

\* The puts of a log from an index on.
GetPuts(l, since) ==
    IF Pivot(since) > 0 \/ since > Len(l)
    THEN << >>
    ELSE [i \in 1..(Len(l) - since + 1) |->
             [Idx |-> since + i - 1, M |-> l[since + i - 1]]]

\* Mutant: the peer does not gossip back.
GossipBackNever(q, n, MyIdx) == UNCHANGED back

\* The peer gossips back if the asking node is ahead of what it has of it.
GossipBack(q, n, MyIdx) ==
    back' = IF peerIdx[q][n] < MyIdx THEN [back EXCEPT ![q] = @ \cup {n}] ELSE back

\* The peer handles the request, and its response arrives or is late.  A
\* peer that has blocked the node answers with an error.
GossipReceiver(n) ==
    /\ gossiping[n].pc = "sent"
    /\ LET g == gossiping[n]
           refused == n \in blocked[g.id]
           puts == GetPuts(log[g.id], g.yourIdx + 1)
       IN  /\ IF refused THEN UNCHANGED back ELSE GossipBack(g.id, n, g.MyIdx)
           /\ \/ /\ gossiping' = [gossiping EXCEPT ![n] =
                       IF refused \/ puts = << >> THEN Idle
                       ELSE [pc   |-> "queueing", id |-> g.id,
                             idx  |-> g.yourIdx + Len(puts), puts |-> puts]]
                 /\ UNCHANGED faults
              \/ /\ Fault
                 /\ gossiping' = [gossiping EXCEPT ![n] = Idle]
    /\ UNCHANGED <<published, log, peerVars, adding, gchan, gossipPuts, handling,
                   direct, dropped>>

\* The request does not reach the peer.
GossipFails(n) ==
    /\ gossiping[n].pc = "sent"
    /\ Fault
    /\ gossiping' = [gossiping EXCEPT ![n] = Idle]
    /\ UNCHANGED <<published, log, peerVars, adding, gchan, back, gossipPuts,
                   handling, direct, dropped>>

\* The request to gossip back is queued after its delay.
QueueGossipBack(q, n) ==
    /\ n \in back[q]
    /\ Len(gchan[q]) < GossipWithQueueSize
    /\ back' = [back EXCEPT ![q] = @ \ {n}]
    /\ gchan' = [gchan EXCEPT ![q] = Append(@, n)]
    /\ UNCHANGED <<published, log, peerVars, adding, gossiping, gossipPuts, handling,
                   direct, dropped, faults>>

\* gossipWith queues the next put, when there is room.
QueuePut(n) ==
    /\ gossiping[n].pc = "queueing"
    /\ gossiping[n].puts # << >>
    /\ Len(gossipPuts[n]) < GossipPutQueueSize
    /\ gossipPuts' = [gossipPuts EXCEPT ![n] = Append(@, Head(gossiping[n].puts))]
    /\ gossiping' = [gossiping EXCEPT ![n].puts = Tail(@)]
    /\ UNCHANGED <<published, log, peerVars, adding, gchan, back, handling, direct,
                   dropped, faults>>

\* What UpdateGossiper does: a blocked peer is deleted, and an index never
\* goes back.
StoreIdx(n, id, idx) ==
    IF id \in blocked[n]
    THEN DeleteGossipers(n, {id})
    ELSE /\ gossipers' = [gossipers EXCEPT ![n] = @ \cup {id}]
         /\ peerIdx' = IF idx < peerIdx[n][id] THEN peerIdx
                       ELSE [peerIdx EXCEPT ![n][id] = idx]

\* Mutant: nothing is stored.
UpdateGossiperNever(n, id, idx) == UNCHANGED <<gossipers, peerIdx>>

UpdateGossiper(n, id, idx) == StoreIdx(n, id, idx)

\* Mutant: the index is stored before the puts are queued.
FinishGossipEarly(n) ==
    /\ gossiping[n].pc = "queueing"
    /\ UpdateGossiper(n, gossiping[n].id, gossiping[n].idx)
    /\ gossiping' = IF gossiping[n].puts = << >>
                    THEN [gossiping EXCEPT ![n] = Idle] ELSE gossiping
    /\ UNCHANGED <<published, log, blocked, adding, gchan, back, gossipPuts, handling,
                   direct, dropped, faults>>

\* All puts are queued: gossipWith stores how far the peer's log is known.
FinishGossip(n) ==
    /\ gossiping[n].pc = "queueing"
    /\ gossiping[n].puts = << >>
    /\ UpdateGossiper(n, gossiping[n].id, gossiping[n].idx)
    /\ gossiping' = [gossiping EXCEPT ![n] = Idle]
    /\ UNCHANGED <<published, log, blocked, adding, gchan, back, gossipPuts, handling,
                   direct, dropped, faults>>

-----------------------------------------------------------------------------
(* Handling what was received *)

\* Mutant: the fingerprint is not looked up.
HandlePutAlways(n) ==
    /\ handling[n] = {}
    /\ gossipPuts[n] # << >>
    /\ gossipPuts' = [gossipPuts EXCEPT ![n] = Tail(@)]
    /\ handling' = [handling EXCEPT ![n] = {Head(gossipPuts[n]).M}]
    /\ UNCHANGED <<published, log, peerVars, adding, gchan, back, gossiping, direct,
                   dropped, faults>>

\* gossipPut hands the message to ActionReceiver unless its fingerprint is
\* known.
HandlePut(n) ==
    /\ handling[n] = {}
    /\ gossipPuts[n] # << >>
    /\ gossipPuts' = [gossipPuts EXCEPT ![n] = Tail(@)]
    /\ LET m == Head(gossipPuts[n]).M
       IN  handling' = [handling EXCEPT ![n] = IF Logged(n, m) THEN {} ELSE {m}]
    /\ UNCHANGED <<published, log, peerVars, adding, gchan, back, gossiping, direct,
                   dropped, faults>>

\* ActionReceiver has validated the message with its source, and applies it.
ApplyPut(n, m) ==
    /\ m \in handling[n]
    /\ handling' = [handling EXCEPT ![n] = @ \ {m}]
    /\ Apply(n, m)
    /\ UNCHANGED <<published, adding, queueVars, direct, dropped, faults>>

\* ActionReceiver returns an error, that of a source which does not answer
\* for example.
RefusePut(n, m) ==
    /\ m \in handling[n]
    /\ Fault
    /\ handling' = [handling EXCEPT ![n] = @ \ {m}]
    /\ dropped' = [dropped EXCEPT ![n] = @ \cup {m}]
    /\ UNCHANGED <<published, log, peerVars, adding, queueVars, direct>>

\* The node stops and starts again.  What is in the store stays (the blocked
\* list is read from it), what is queued is gone.
Crash(n) ==
    /\ Fault
    /\ adding' = [adding EXCEPT ![n] = {}]
    /\ gchan' = [gchan EXCEPT ![n] = << >>]
    /\ back' = [back EXCEPT ![n] = {}]
    /\ gossiping' = [gossiping EXCEPT ![n] = Idle]
    /\ gossipPuts' = [gossipPuts EXCEPT ![n] = << >>]
    /\ handling' = [handling EXCEPT ![n] = {}]
    /\ dropped' = [dropped EXCEPT ![n] =
           @ \cup handling[n]
             \cup {gossipPuts[n][i].M : i \in 1..Len(gossipPuts[n])}]
    /\ UNCHANGED <<published, log, peerVars, direct>>

-----------------------------------------------------------------------------
GossipNext ==
    \/ \E n \in Publisher : Publish(n) \/ PublishFails(n)
    \/ \E n \in Ticking, p \in Node : GossipTask(n, p)
    \/ \E n, p \in Node :
          \/ AddPeer(n, p)
          \/ AddGossiper(n, p)
          \/ ConnectFails(n, p)
          \/ QueueGossipBack(n, p)
    \/ \E n \in Node, m \in Message :
          \/ Deliver(n, m)
          \/ ApplyPut(n, m)
          \/ RefusePut(n, m)
    \/ \E n \in Node :
          \/ GossipWith(n)
          \/ GossipReceiver(n)
          \/ GossipFails(n)
          \/ QueuePut(n)
          \/ FinishGossip(n)
          \/ HandlePut(n)
          \/ Crash(n)

GossipSpec == GossipInit /\ [][GossipNext]_gossipVars

(***************************************************************************)
(* Goroutines are scheduled, requests are answered (the faults that keep   *)
(* them from it are bounded), and the ticker picks each gossiper again and *)
(* again, since it picks at random.  Nothing is assumed of direct messages *)
(* and of AddPeer.                                                         *)
(***************************************************************************)
HandleGossipWiths(n) ==
    GossipWith(n) \/ GossipReceiver(n) \/ QueuePut(n) \/ FinishGossip(n)

HandleGossipPuts(n) == HandlePut(n) \/ \E m \in Message : ApplyPut(n, m)

Fairness ==
    /\ \A n \in Node : /\ WF_gossipVars(HandleGossipWiths(n))
                       /\ WF_gossipVars(HandleGossipPuts(n))
                       /\ \A p \in Node \ {n} : SF_gossipVars(QueueGossipBack(n, p))
    /\ \A n \in Ticking : \A p \in Node \ {n} : SF_gossipVars(GossipTask(n, p))

GossipFairSpec == GossipSpec /\ Fairness

-----------------------------------------------------------------------------
(* Properties *)

\* What a node believes to have of a peer's log, and what it is about to
\* believe, never goes beyond that log.
IndexWithinLog ==
    \A n, p \in Node :
        /\ peerIdx[n][p] <= Len(log[p])
        /\ gossiping[n].pc = "queueing" /\ gossiping[n].id = p
              => gossiping[n].idx <= Len(log[p])

Covered(n, m) ==
    \/ Logged(n, m)
    \/ \E j \in 1..Len(gossipPuts[n]) : gossipPuts[n][j].M = m
    \/ m \in handling[n]
    \/ m \in dropped[n]

\* Whatever a peer has logged up to the index that a node has stored for it,
\* the node has logged, has queued or is handling, unless it was refused or a
\* crash lost it: queueing and storing the index cannot be interleaved so
\* that a change slips through.
NoGap == \A n, p \in Node : \A i \in 1..peerIdx[n][p] : Covered(n, log[p][i])

\* No index goes beyond the log it is about, nothing below it is passed over, the
\* queues of gossipWith and gossipPut never hold more than their capacity, and
\* every variable has a value of its type.
GossipSound == GossipTypeOK /\ IndexWithinLog /\ NoGap

\* A message is logged at most twice on a node: a direct message may come
\* between gossipPut's look at the fingerprint and the change, and that is all.
LoggedAtMostTwice ==
    \A n \in Node, m \in Message : \A i, j, k \in 1..Len(log[n]) :
        log[n][i] = m /\ log[n][j] = m /\ log[n][k] = m => i = j \/ j = k \/ i = k

Known(n, m) == Logged(n, m) \/ m \in dropped[n]

Connected(n, p) ==
    /\ p \in gossipers[n] /\ p \notin blocked[n] /\ n \notin blocked[p]

\* A node that ticks and a gossiper of it come to have each other's changes,
\* the latter by gossiping back even if it does not tick itself.
Converges ==
    \A n \in Ticking, p \in Node, m \in Message :
        /\ (Connected(n, p) /\ Logged(p, m)) ~> (Known(n, m) \/ ~Connected(n, p))
        /\ (Connected(n, p) /\ Logged(n, m)) ~> (Known(p, m) \/ ~Connected(n, p))

\* Once all is published gossip falls silent: nobody sends puts for ever.
QuietsDown == <>[](\A n \in Node : gossipPuts[n] = << >>)

\* "put receiver error so do what? probably nothing because put will get
\* retried" (gossip.go:450): a put whose handling failed is handled again.
PutsRetried ==
    \A n \in Node, m \in Message : m \in dropped[n] ~> Logged(n, m)

\* "GetPuts returns a list of puts after the given index" (gossip.go:189):
\* from whatever index of its log a node is asked, it returns all that follow.
PutsAfterIndex ==
    \A n \in Node : \A since \in 1..Len(log[n]) :
        Len(GetPuts(log[n], since)) = Len(log[n]) - since + 1

\* "add blockedlist peers to node cache and delete them from the gossipers
\* list" (action.go:1664): a blocked peer is not a gossiper.
BlockedNotGossiper == \A n \in Node : gossipers[n] \cap blocked[n] = {}
=============================================================================
