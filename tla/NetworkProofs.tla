--------------------------- MODULE NetworkProofs ----------------------------
(***************************************************************************)
(* Proofs about Gossip, for any number of nodes, messages and faults: the  *)
(* indexes stay within the logs, and no change slips through.              *)
(*                                                                         *)
(* The inductive invariant says of a request and of an answer under way    *)
(* what NoGap says of a stored index.                                      *)
(*                                                                         *)
(* That a message is logged at most twice is a matter of where it still    *)
(* is: on its way directly, or past the look at the fingerprint.           *)
(*                                                                         *)
(* Proofs about QueryRunner, for any number of peers and tokens and any    *)
(* question: the peers remaining and the tokens are never miscounted, and  *)
(* the answer is about every peer that could be heard of.                  *)
(*                                                                         *)
(* While proc is closing a new peer is counted and may not be queued, so   *)
(* the count is that of the peers seen whose worker has not ended.  The    *)
(* end is therefore never signalled while a worker is under way.           *)
(*                                                                         *)
(* A peer is seen only if the chain of those that told of each other leads *)
(* to it, and a worker ends only when all it was told is seen; so when the *)
(* end is signalled, the peers seen are those that could be heard of.      *)
(***************************************************************************)
EXTENDS Gossip, QueryRunner, FiniteSetTheorems, TLAPS

-----------------------------------------------------------------------------
(* Gossip *)

\* A request asks for no more than the changes after those that are covered.
RequestCovered ==
    \A n \in Node : gossiping[n].pc = "sent" =>
        LET g == gossiping[n]
        IN  /\ g.yourIdx <= Len(log[g.id])
            /\ \A i \in 1..g.yourIdx : Covered(n, log[g.id][i])

\* Up to the index that gossipWith is about to store, every change is covered
\* or still to be queued.
AnswerCovered ==
    \A n \in Node : gossiping[n].pc = "queueing" =>
        LET g == gossiping[n]
        IN  \A i \in 1..g.idx :
                \/ Covered(n, log[g.id][i])
                \/ \E j \in 1..Len(g.puts) : g.puts[j].M = log[g.id][i]

IInv == GossipTypeOK /\ IndexWithinLog /\ NoGap /\ RequestCovered /\ AnswerCovered

-----------------------------------------------------------------------------
(* The answer to a request *)

\* A function on 1..k is a sequence of length k.
LEMMA FunctionIsSeq ==
    ASSUME NEW S, NEW k \in Nat, NEW f \in [1..k -> S]
    PROVE  f \in Seq(S) /\ Len(f) = k
OBVIOUS

\* GetPuts returns nothing, or the whole log from an index on.
LEMMA GetPutsResult ==
    ASSUME NEW l \in Seq(Message), NEW since \in Nat \ {0}
    PROVE  /\ GetPuts(l, since) \in Seq(Put)
           /\ GetPuts(l, since) # << >> =>
                 /\ since <= Len(l)
                 /\ Len(GetPuts(l, since)) = Len(l) - since + 1
                 /\ \A i \in 1..Len(GetPuts(l, since)) :
                        GetPuts(l, since)[i].M = l[since + i - 1]
<1>1. CASE Pivot(since) > 0 \/ since > Len(l)
    BY <1>1 DEF GetPuts
<1>2. CASE ~(Pivot(since) > 0 \/ since > Len(l))
    <2> DEFINE k == Len(l) - since + 1
               put(i) == [Idx |-> since + i - 1, M |-> l[since + i - 1]]
    <2>1. k \in Nat /\ since <= Len(l)
        BY <1>2 DEF Pivot
    <2>2. GetPuts(l, since) = [i \in 1..k |-> put(i)]
        BY ZenonT(30), <1>2 DEF GetPuts
    <2>3. \A i \in 1..k : put(i) \in Put
        <3> SUFFICES ASSUME NEW i \in 1..k PROVE put(i) \in Put
            BY ZenonT(30)
        <3>1. since + i - 1 \in Nat /\ since + i - 1 \in 1..Len(l)
            BY <2>1
        <3>2. l[since + i - 1] \in Message
            BY <3>1
        <3> QED BY ZenonT(30), <3>1, <3>2 DEF Put
    <2>4. GetPuts(l, since) \in [1..k -> Put]
        BY ZenonT(30), <2>2, <2>3
    <2>5. GetPuts(l, since) \in Seq(Put) /\ Len(GetPuts(l, since)) = k
        BY <2>1, <2>4, FunctionIsSeq
    <2>6. \A i \in 1..k : GetPuts(l, since)[i].M = l[since + i - 1]
        BY <2>2
    <2> QED BY ZenonT(30), <2>1, <2>5, <2>6
<1> QED BY ZenonT(30), <1>1, <1>2

-----------------------------------------------------------------------------
(* Type correctness *)

\* The initial state is of the types declared.
LEMMA TypeInit == GossipInit => GossipTypeOK
BY GossipAssumption DEF GossipInit, GossipTypeOK, Gossiping, Idle, Message

\* The fields of a request under way.
LEMMA SentType ==
    ASSUME NEW g \in Gossiping, g.pc = "sent"
    PROVE  g \in [pc : {"sent"}, id : Node, MyIdx : Nat, yourIdx : Nat]
BY DEF Gossiping, Idle

\* The fields of an answer under way.
LEMMA QueueingType ==
    ASSUME NEW g \in Gossiping, g.pc = "queueing"
    PROVE  g \in [pc : {"queueing"}, id : Node, idx : Nat, puts : Seq(Put)]
BY DEF Gossiping, Idle

\* Applying a message keeps the types.
LEMMA ApplyType ==
    ASSUME GossipTypeOK, NEW n \in Node, NEW m \in Message, Apply(n, m)
    PROVE  /\ log' \in [Node -> Seq(Message)]
           /\ blocked' \in [Node -> SUBSET Node]
           /\ gossipers' \in [Node -> SUBSET Node]
           /\ peerIdx' \in [Node -> [Node -> Nat]]
BY GossipAssumption DEF GossipTypeOK, Apply, DeleteGossipers

\* So does storing an index.
LEMMA StoreIdxType ==
    ASSUME GossipTypeOK, NEW n \in Node, NEW id \in Node, NEW idx \in Nat,
           UpdateGossiper(n, id, idx)
    PROVE  /\ gossipers' \in [Node -> SUBSET Node]
           /\ peerIdx' \in [Node -> [Node -> Nat]]
<1>1. /\ \/ gossipers' = [gossipers EXCEPT ![n] = @ \ {id}]
         \/ gossipers' = [gossipers EXCEPT ![n] = @ \cup {id}]
      /\ \/ peerIdx' = peerIdx
         \/ peerIdx' = [peerIdx EXCEPT ![n] = [p \in Node |-> IF p \in {id} THEN 0 ELSE @[p]]]
         \/ peerIdx' = [peerIdx EXCEPT ![n] = [@ EXCEPT ![id] = idx]]
    BY ZenonT(30) DEF UpdateGossiper, StoreIdx, DeleteGossipers
<1>2. gossipers' \in [Node -> SUBSET Node]
    <2>1. gossipers \in [Node -> SUBSET Node]
        BY ZenonT(30) DEF GossipTypeOK
    <2> QED BY <1>1, <2>1
<1>3. /\ [p \in Node |-> IF p \in {id} THEN 0 ELSE peerIdx[n][p]] \in [Node -> Nat]
      /\ [peerIdx[n] EXCEPT ![id] = idx] \in [Node -> Nat]
    BY DEF GossipTypeOK
<1>4. peerIdx' \in [Node -> [Node -> Nat]]
    BY ZenonT(60), <1>1, <1>3 DEF GossipTypeOK
<1> QED BY ZenonT(30), <1>2, <1>4

\* Every step keeps the types.
LEMMA TypeStep == GossipTypeOK /\ [GossipNext]_gossipVars => GossipTypeOK'
<1> SUFFICES ASSUME GossipTypeOK, [GossipNext]_gossipVars PROVE GossipTypeOK'
    BY ZenonT(30)
<1> USE GossipAssumption
<1>1. ASSUME NEW n \in Publisher, Publish(n) \/ PublishFails(n) PROVE GossipTypeOK'
    <2>1. published + 1 \in Message /\ n \in Node
        BY <1>1 DEF GossipTypeOK, Publish, PublishFails, Message
    <2>2. published' \in 0..MaxMessages /\ direct' \subseteq Node \X Message
        <3>1. /\ published \in 0..MaxMessages /\ direct \subseteq Node \X Message
              /\ published < MaxMessages /\ published' = published + 1
              /\ direct' = direct \cup {<<p, published + 1>> : p \in Reached \ {n}}
            BY ZenonT(30), <1>1 DEF GossipTypeOK, Publish, PublishFails
        <3>2. published' \in 0..MaxMessages
            BY <3>1
        <3>3. Reached \subseteq Node
            BY ZenonT(30)
        <3>4. \A p \in Reached : <<p, published + 1>> \in Node \X Message
            BY <2>1, <3>3
        <3> QED BY ZenonT(30), <3>1, <3>2, <3>4
    <2>3. CASE Publish(n)
        BY ZenonT(30), <2>1, <2>2, <2>3, ApplyType DEF GossipTypeOK, Publish, queueVars
    <2>4. CASE PublishFails(n)
        BY SMTT(60), <2>2, <2>4 DEF GossipTypeOK, PublishFails, Fault, peerVars, queueVars
    <2> QED BY ZenonT(30), <1>1, <2>3, <2>4
<1>2. ASSUME NEW n \in Ticking, NEW p \in Node, GossipTask(n, p) PROVE GossipTypeOK'
    <2>1. /\ gchan' \in [Node -> Seq(Node)]
          /\ \A k \in Node : Len(gchan'[k]) <= GossipWithQueueSize
        BY <1>2 DEF GossipTypeOK, GossipTask
    <2> QED BY ZenonT(30), <1>2, <2>1 DEF GossipTypeOK, GossipTask, peerVars
<1>3. ASSUME NEW n \in Node, NEW p \in Node, AddPeer(n, p) PROVE GossipTypeOK'
    BY ZenonT(30), <1>3 DEF GossipTypeOK, AddPeer, peerVars, queueVars
<1>4. ASSUME NEW n \in Node, NEW p \in Node, AddGossiper(n, p) PROVE GossipTypeOK'
    BY ZenonT(30), <1>4 DEF GossipTypeOK, AddGossiper, queueVars
<1>5. ASSUME NEW n \in Node, NEW p \in Node, ConnectFails(n, p) PROVE GossipTypeOK'
    BY ZenonT(30), <1>5 DEF GossipTypeOK, ConnectFails, peerVars, queueVars
<1>6. ASSUME NEW n \in Node, NEW p \in Node, QueueGossipBack(n, p) PROVE GossipTypeOK'
    <2>1. /\ gchan' \in [Node -> Seq(Node)]
          /\ \A k \in Node : Len(gchan'[k]) <= GossipWithQueueSize
        BY <1>6 DEF GossipTypeOK, QueueGossipBack
    <2> QED BY ZenonT(30), <1>6, <2>1 DEF GossipTypeOK, QueueGossipBack, peerVars
<1>7. ASSUME NEW n \in Node, NEW m \in Message, Deliver(n, m) PROVE GossipTypeOK'
    <2>1. direct' \subseteq Node \X Message
        BY ZenonT(30), <1>7 DEF GossipTypeOK, Deliver
    <2> QED BY ZenonT(30), <1>7, <2>1, ApplyType DEF GossipTypeOK, Deliver, queueVars
<1>8. ASSUME NEW n \in Node, NEW m \in Message, ApplyPut(n, m) PROVE GossipTypeOK'
    <2>1. handling' \in [Node -> SUBSET Message]
        BY ZenonT(30), <1>8 DEF GossipTypeOK, ApplyPut
    <2> QED BY ZenonT(30), <1>8, <2>1, ApplyType DEF GossipTypeOK, ApplyPut, queueVars
<1>9. ASSUME NEW n \in Node, NEW m \in Message, RefusePut(n, m) PROVE GossipTypeOK'
    <2>1. /\ handling' \in [Node -> SUBSET Message]
          /\ dropped' \in [Node -> SUBSET Message]
        BY ZenonT(30), <1>9 DEF GossipTypeOK, RefusePut
    <2> QED BY <1>9, <2>1 DEF GossipTypeOK, RefusePut, Fault, peerVars, queueVars
<1>10. ASSUME NEW n \in Node, GossipWith(n) PROVE GossipTypeOK'
    <2>1. /\ Head(gchan[n]) \in Node /\ Tail(gchan[n]) \in Seq(Node)
          /\ Len(Tail(gchan[n])) <= GossipWithQueueSize
        <3>1. gchan[n] \in Seq(Node) /\ gchan[n] # << >>
            BY ZenonT(30), <1>10 DEF GossipTypeOK, GossipWith
        <3>2. Len(gchan[n]) <= GossipWithQueueSize
            BY ZenonT(30) DEF GossipTypeOK
        <3> QED BY <3>1, <3>2
    <2>2. /\ gchan' \in [Node -> Seq(Node)]
          /\ \A k \in Node : Len(gchan'[k]) <= GossipWithQueueSize
        BY ZenonT(30), <1>10, <2>1 DEF GossipTypeOK, GossipWith
    <2>3. gossiping' \in [Node -> Gossiping]
        <3> DEFINE id == Head(gchan[n])
                   sent == [pc |-> "sent", id |-> id, MyIdx |-> Len(log[n]),
                            yourIdx |-> peerIdx[n][id]]
        <3>1. Len(log[n]) \in Nat /\ peerIdx[n][id] \in Nat
            <4>1. log[n] \in Seq(Message) /\ peerIdx[n] \in [Node -> Nat]
                BY ZenonT(30) DEF GossipTypeOK
            <4> QED BY <2>1, <4>1
        <3>2. Idle \in Gossiping /\ sent \in Gossiping
            BY ZenonT(30), <2>1, <3>1 DEF Gossiping
        <3>3. \/ gossiping' = [gossiping EXCEPT ![n] = Idle]
              \/ gossiping' = [gossiping EXCEPT ![n] = sent]
            BY ZenonT(30), <1>10 DEF GossipWith
        <3> QED BY ZenonT(60), <3>2, <3>3 DEF GossipTypeOK
    <2> QED BY ZenonT(30), <1>10, <2>2, <2>3 DEF GossipTypeOK, GossipWith, peerVars
<1>11. ASSUME NEW n \in Node, GossipReceiver(n) PROVE GossipTypeOK'
    <2> DEFINE g == gossiping[n]
               puts == GetPuts(log[g.id], g.yourIdx + 1)
    <2>1. g \in [pc : {"sent"}, id : Node, MyIdx : Nat, yourIdx : Nat]
        BY SMTT(60), <1>11 DEF GossipTypeOK, GossipReceiver, Gossiping, Idle
    <2>2. puts \in Seq(Put)
        BY <2>1, GetPutsResult DEF GossipTypeOK
    <2>3. back' \in [Node -> SUBSET Node]
        <3>1. back' = back \/ back' = [back EXCEPT ![g.id] = @ \cup {n}]
            BY ZenonT(30), <1>11 DEF GossipReceiver, GossipBack
        <3>2. back \in [Node -> SUBSET Node] /\ g.id \in Node
            BY ZenonT(30), <2>1 DEF GossipTypeOK
        <3> QED BY <3>1, <3>2
    <2>4. faults' \in 0..MaxFaults
        BY <1>11 DEF GossipTypeOK, GossipReceiver, Fault
    <2>5. /\ Idle \in Gossiping
          /\ [pc |-> "queueing", id |-> g.id, idx |-> g.yourIdx + Len(puts),
               puts |-> puts] \in Gossiping
        BY <2>1, <2>2 DEF Gossiping
    <2>6. gossiping' \in [Node -> Gossiping]
        BY ZenonT(60), <1>11, <2>5 DEF GossipTypeOK, GossipReceiver
    <2> QED BY ZenonT(30), <1>11, <2>3, <2>4, <2>6 DEF GossipTypeOK, GossipReceiver, peerVars
<1>12. ASSUME NEW n \in Node, GossipFails(n) PROVE GossipTypeOK'
    <2>1. Idle \in Gossiping
        BY ZenonT(30) DEF Gossiping
    <2>2. gossiping' \in [Node -> Gossiping]
        BY ZenonT(30), <1>12, <2>1 DEF GossipTypeOK, GossipFails
    <2>3. faults \in 0..MaxFaults /\ faults < MaxFaults /\ faults' = faults + 1
        BY ZenonT(30), <1>12 DEF GossipTypeOK, GossipFails, Fault
    <2>4. faults' \in 0..MaxFaults
        BY <2>3
    <2> QED BY ZenonT(30), <1>12, <2>2, <2>4 DEF GossipTypeOK, GossipFails, peerVars
<1>13. ASSUME NEW n \in Node, QueuePut(n) PROVE GossipTypeOK'
    <2> DEFINE g == gossiping[n]
    <2>1. g \in [pc : {"queueing"}, id : Node, idx : Nat, puts : Seq(Put)]
        BY <1>13 DEF GossipTypeOK, QueuePut, Gossiping, Idle
    <2>2. Head(g.puts) \in Put /\ Tail(g.puts) \in Seq(Put)
        BY <1>13, <2>1 DEF QueuePut
    <2>3. /\ gossipPuts' \in [Node -> Seq(Put)]
          /\ \A k \in Node : Len(gossipPuts'[k]) <= GossipPutQueueSize
        BY SMTT(60), <1>13, <2>2 DEF GossipTypeOK, QueuePut
    <2>4. [g EXCEPT !.puts = Tail(g.puts)] \in Gossiping
        BY ZenonT(30), <2>1, <2>2 DEF Gossiping
    <2>5. gossiping' \in [Node -> Gossiping]
        BY ZenonT(30), <1>13, <2>4 DEF GossipTypeOK, QueuePut
    <2> QED BY ZenonT(30), <1>13, <2>3, <2>5 DEF GossipTypeOK, QueuePut, peerVars
<1>14. ASSUME NEW n \in Node, FinishGossip(n) PROVE GossipTypeOK'
    <2> DEFINE g == gossiping[n]
    <2>1. g \in [pc : {"queueing"}, id : Node, idx : Nat, puts : Seq(Put)]
        BY SMTT(60), <1>14 DEF GossipTypeOK, FinishGossip, Gossiping, Idle
    <2>2. /\ gossipers' \in [Node -> SUBSET Node]
          /\ peerIdx' \in [Node -> [Node -> Nat]]
        BY ZenonT(30), <1>14, <2>1, StoreIdxType DEF FinishGossip
    <2>3. Idle \in Gossiping
        BY ZenonT(30) DEF Gossiping
    <2> QED BY ZenonT(30), <1>14, <2>2, <2>3 DEF GossipTypeOK, FinishGossip
<1>15. ASSUME NEW n \in Node, HandlePut(n) PROVE GossipTypeOK'
    <2>1. Head(gossipPuts[n]) \in Put /\ Tail(gossipPuts[n]) \in Seq(Put)
        BY <1>15 DEF GossipTypeOK, HandlePut
    <2>2. /\ gossipPuts' \in [Node -> Seq(Put)]
          /\ \A k \in Node : Len(gossipPuts'[k]) <= GossipPutQueueSize
        BY <1>15, <2>1 DEF GossipTypeOK, HandlePut
    <2>3. handling' \in [Node -> SUBSET Message]
        BY ZenonT(30), <1>15, <2>1 DEF GossipTypeOK, HandlePut, Put
    <2> QED BY ZenonT(30), <1>15, <2>2, <2>3 DEF GossipTypeOK, HandlePut, peerVars
<1>16. ASSUME NEW n \in Node, Crash(n) PROVE GossipTypeOK'
    <2>1. Idle \in Gossiping
        BY ZenonT(30) DEF Gossiping
    <2>2. {gossipPuts[n][i].M : i \in 1..Len(gossipPuts[n])} \subseteq Message
        <3>1. \A i \in 1..Len(gossipPuts[n]) : gossipPuts[n][i] \in Put
            BY DEF GossipTypeOK
        <3>2. \A i \in 1..Len(gossipPuts[n]) : gossipPuts[n][i].M \in Message
            BY ZenonT(30), <3>1 DEF Put
        <3> QED BY ZenonT(30), <3>2
    <2>3. dropped' \in [Node -> SUBSET Message]
        BY ZenonT(30), <1>16, <2>2 DEF GossipTypeOK, Crash
    <2>4. /\ gchan' \in [Node -> Seq(Node)]
          /\ gossipPuts' \in [Node -> Seq(Put)]
          /\ \A k \in Node : /\ Len(gchan'[k]) <= GossipWithQueueSize
                              /\ Len(gossipPuts'[k]) <= GossipPutQueueSize
        BY <1>16 DEF GossipTypeOK, Crash
    <2> QED BY SMTT(60), <1>16, <2>1, <2>3, <2>4 DEF GossipTypeOK, Crash, Fault, peerVars
<1>17. CASE UNCHANGED gossipVars
    BY ZenonT(30), <1>17 DEF GossipTypeOK, gossipVars
<1> QED
    BY ZenonT(30), <1>1, <1>2, <1>3, <1>4, <1>5, <1>6, <1>7, <1>8, <1>9, <1>10, <1>11, <1>12,
       <1>13, <1>14, <1>15, <1>16, <1>17 DEF GossipNext

-----------------------------------------------------------------------------
(* What a step may do *)

\* A step leaves the logs alone or appends one message to one of them.
LEMMA LogStep ==
    ASSUME GossipTypeOK, [GossipNext]_gossipVars
    PROVE  \/ log' = log
           \/ \E n \in Node, m \in Message : log' = [log EXCEPT ![n] = Append(@, m)]
<1> USE GossipAssumption
<1>1. ASSUME NEW n \in Publisher, Publish(n)
      PROVE  \E k \in Node, m \in Message : log' = [log EXCEPT ![k] = Append(@, m)]
    <2>1. published + 1 \in Message /\ n \in Node
        BY <1>1 DEF GossipTypeOK, Publish, Message
    <2> QED BY ZenonT(30), <1>1, <2>1 DEF Publish, Apply
<1>2. ASSUME NEW n \in Node, NEW m \in Message, Deliver(n, m) \/ ApplyPut(n, m)
      PROVE  \E k \in Node, l \in Message : log' = [log EXCEPT ![k] = Append(@, l)]
    BY ZenonT(30), <1>2 DEF Deliver, ApplyPut, Apply
<1>3. ASSUME NEW n \in Node, NEW p \in Node,
             \/ GossipTask(n, p) \/ AddPeer(n, p) \/ AddGossiper(n, p)
             \/ ConnectFails(n, p) \/ QueueGossipBack(n, p)
      PROVE  log' = log
    BY ZenonT(30), <1>3 DEF GossipTask, AddPeer, AddGossiper, ConnectFails, QueueGossipBack
<1>4. ASSUME NEW n \in Node, NEW m \in Message, RefusePut(n, m)
      PROVE  log' = log
    BY ZenonT(30), <1>4 DEF RefusePut
<1>5. ASSUME NEW n \in Node,
             \/ GossipWith(n) \/ GossipReceiver(n) \/ GossipFails(n) \/ QueuePut(n)
             \/ FinishGossip(n) \/ HandlePut(n) \/ Crash(n)
      PROVE  log' = log
    BY ZenonT(30), <1>5 DEF GossipWith, GossipReceiver, GossipFails, QueuePut, FinishGossip,
                HandlePut, Crash
<1>6. ASSUME NEW n \in Publisher, PublishFails(n) PROVE log' = log
    BY ZenonT(30), <1>6 DEF PublishFails
<1>7. CASE UNCHANGED gossipVars
    BY ZenonT(30), <1>7 DEF gossipVars
<1> QED BY ZenonT(30), <1>1, <1>2, <1>3, <1>4, <1>5, <1>6, <1>7 DEF GossipNext

\* Logs only grow.
LEMMA LogsGrow ==
    ASSUME GossipTypeOK, [GossipNext]_gossipVars, NEW p \in Node
    PROVE  /\ Len(log[p]) <= Len(log'[p])
           /\ \A i \in 1..Len(log[p]) : log'[p][i] = log[p][i]
<1>1. log \in [Node -> Seq(Message)]
    BY ZenonT(30) DEF GossipTypeOK
<1>2. CASE log' = log
    BY <1>1, <1>2
<1>3. ASSUME NEW n \in Node, NEW m \in Message, log' = [log EXCEPT ![n] = Append(@, m)]
      PROVE  /\ Len(log[p]) <= Len(log'[p])
             /\ \A i \in 1..Len(log[p]) : log'[p][i] = log[p][i]
    <2>1. log'[p] = log[p] \/ log'[p] = Append(log[p], m)
        BY ZenonT(30), <1>1, <1>3
    <2>2. log[p] \in Seq(Message)
        BY ZenonT(30), <1>1
    <2> QED BY <2>1, <2>2
<1> QED BY ZenonT(30), <1>2, <1>3, LogStep

\* A message that is logged stays logged.
LEMMA LoggedKept ==
    ASSUME GossipTypeOK, [GossipNext]_gossipVars, NEW n \in Node, NEW m, Logged(n, m)
    PROVE  Logged(n, m)'
<1>1. PICK i \in 1..Len(log[n]) : log[n][i] = m
    BY ZenonT(30) DEF Logged
<1>2. log[n] \in Seq(Message) /\ log'[n] \in Seq(Message)
    BY ZenonT(30), TypeStep DEF GossipTypeOK
<1>3. i \in 1..Len(log'[n]) /\ log'[n][i] = m
    BY <1>1, <1>2, LogsGrow
<1> QED BY ZenonT(30), <1>3 DEF Logged

Queued(n, m) == \E j \in 1..Len(gossipPuts[n]) : gossipPuts[n][j].M = m

\* A queued put stays queued, or is being handled, logged or dropped.
LEMMA QueuedKept ==
    ASSUME GossipTypeOK, [GossipNext]_gossipVars, NEW n \in Node, NEW m, Queued(n, m)
    PROVE  Covered(n, m)'
<1>0. gossipPuts \in [Node -> Seq(Put)] /\ handling \in [Node -> SUBSET Message]
      /\ dropped \in [Node -> SUBSET Message]
    BY ZenonT(30) DEF GossipTypeOK
<1>1. PICK j \in 1..Len(gossipPuts[n]) : gossipPuts[n][j].M = m
    BY ZenonT(30) DEF Queued
<1>2. CASE gossipPuts'[n] = gossipPuts[n]
    BY ZenonT(30), <1>1, <1>2 DEF Covered
<1>3. ASSUME NEW k \in Node, QueuePut(k) PROVE Covered(n, m)'
    <2> DEFINE h == Head(gossiping[k].puts)
    <2>1. gossipPuts'[n] = gossipPuts[n] \/ gossipPuts'[n] = Append(gossipPuts[n], h)
        BY ZenonT(30), <1>0, <1>3 DEF QueuePut
    <2>2. gossipPuts[n] \in Seq(Put)
        BY ZenonT(30), <1>0
    <2> HIDE DEF h
    <2>3. j \in 1..Len(gossipPuts'[n]) /\ gossipPuts'[n][j] = gossipPuts[n][j]
        BY <1>1, <2>1, <2>2
    <2> QED BY ZenonT(30), <1>1, <2>3 DEF Covered
<1>4. ASSUME NEW k \in Node, HandlePut(k) PROVE Covered(n, m)'
    <2>1. CASE k # n
        BY ZenonT(30), <1>0, <1>2, <1>4, <2>1 DEF HandlePut
    <2>2. CASE k = n /\ j = 1
        <3>1. Head(gossipPuts[n]) = gossipPuts[n][1]
            BY <1>0, <1>1
        <3>2. handling'[n] = IF Logged(n, m) THEN {} ELSE {m}
            BY ZenonT(30), <1>0, <1>1, <1>4, <2>2, <3>1 DEF HandlePut
        <3>3. CASE Logged(n, m)
            BY ZenonT(30), <3>3, LoggedKept DEF Covered
        <3>4. CASE ~Logged(n, m)
            BY ZenonT(30), <3>2, <3>4 DEF Covered
        <3> QED BY ZenonT(30), <3>3, <3>4
    <2>3. CASE k = n /\ j # 1
        <3>1. gossipPuts'[n] = Tail(gossipPuts[n]) /\ gossipPuts[n] \in Seq(Put)
            BY ZenonT(30), <1>0, <1>4, <2>3 DEF HandlePut
        <3>2. j - 1 \in 1..Len(gossipPuts'[n]) /\ gossipPuts'[n][j - 1] = gossipPuts[n][j]
            BY <1>1, <2>3, <3>1
        <3> QED BY ZenonT(30), <1>1, <3>2 DEF Covered
    <2> QED BY ZenonT(30), <2>1, <2>2, <2>3
<1>5. ASSUME NEW k \in Node, Crash(k) PROVE Covered(n, m)'
    <2>1. CASE k # n
        BY ZenonT(30), <1>0, <1>2, <1>5, <2>1 DEF Crash
    <2>2. CASE k = n
        <3>1. m \in {gossipPuts[n][i].M : i \in 1..Len(gossipPuts[n])}
            BY ZenonT(30), <1>1
        <3>2. m \in dropped'[n]
            BY ZenonT(30), <1>0, <1>5, <2>2, <3>1 DEF Crash
        <3> QED BY ZenonT(30), <3>2 DEF Covered
    <2> QED BY ZenonT(30), <2>1, <2>2
<1>6. ASSUME NEW k \in Publisher, Publish(k) \/ PublishFails(k) PROVE Covered(n, m)'
    BY ZenonT(30), <1>2, <1>6 DEF Publish, PublishFails, queueVars
<1>7. ASSUME NEW k \in Node, NEW l \in Message,
             Deliver(k, l) \/ ApplyPut(k, l) \/ RefusePut(k, l)
      PROVE  Covered(n, m)'
    BY ZenonT(30), <1>2, <1>7 DEF Deliver, ApplyPut, RefusePut, queueVars
<1>8. ASSUME NEW k \in Node, NEW p \in Node,
             \/ GossipTask(k, p) \/ AddPeer(k, p) \/ AddGossiper(k, p)
             \/ ConnectFails(k, p) \/ QueueGossipBack(k, p)
      PROVE  Covered(n, m)'
    BY ZenonT(30), <1>2, <1>8 DEF GossipTask, AddPeer, AddGossiper, ConnectFails, QueueGossipBack,
                      queueVars
<1>9. ASSUME NEW k \in Node,
             GossipWith(k) \/ GossipReceiver(k) \/ GossipFails(k) \/ FinishGossip(k)
      PROVE  Covered(n, m)'
    BY ZenonT(30), <1>2, <1>9 DEF GossipWith, GossipReceiver, GossipFails, FinishGossip
<1>10. CASE UNCHANGED gossipVars
    BY ZenonT(30), <1>2, <1>10 DEF gossipVars
<1> QED
    BY ZenonT(30), <1>3, <1>4, <1>5, <1>6, <1>7, <1>8, <1>9, <1>10, GossipAssumption DEF GossipNext

\* So does a put that is being handled, and what is dropped stays so.
LEMMA HandledKept ==
    ASSUME GossipTypeOK, [GossipNext]_gossipVars, NEW n \in Node, NEW m,
           m \in handling[n] \/ m \in dropped[n]
    PROVE  Covered(n, m)'
<1>0. handling \in [Node -> SUBSET Message] /\ dropped \in [Node -> SUBSET Message]
      /\ log \in [Node -> Seq(Message)]
    BY ZenonT(30) DEF GossipTypeOK
<1>1. CASE handling'[n] = handling[n] /\ dropped'[n] = dropped[n]
    BY ZenonT(30), <1>1 DEF Covered
<1>2. ASSUME NEW k \in Node, HandlePut(k) PROVE Covered(n, m)'
    <2>1. CASE k # n
        BY ZenonT(30), <1>0, <1>1, <1>2, <2>1 DEF HandlePut
    <2>2. CASE k = n
        <3>1. m \in dropped'[n]
            BY ZenonT(30), <1>2, <2>2 DEF HandlePut
        <3> QED BY ZenonT(30), <3>1 DEF Covered
    <2> QED BY ZenonT(30), <2>1, <2>2
<1>3. ASSUME NEW k \in Node, NEW l \in Message, ApplyPut(k, l) PROVE Covered(n, m)'
    <2>1. CASE ~(k = n /\ l = m)
        <3>1. m \in handling'[n] \/ m \in dropped'[n]
            BY ZenonT(30), <1>0, <1>3, <2>1 DEF ApplyPut
        <3> QED BY ZenonT(30), <3>1 DEF Covered
    <2>2. CASE k = n /\ l = m
        <3>1. log'[n] = Append(log[n], m) /\ log[n] \in Seq(Message)
            BY ZenonT(30), <1>0, <1>3, <2>2 DEF ApplyPut, Apply
        <3>2. Len(log'[n]) = Len(log[n]) + 1 /\ log'[n][Len(log[n]) + 1] = m
            BY <1>3, <2>2, <3>1
        <3> QED BY <3>1, <3>2 DEF Covered, Logged
    <2> QED BY ZenonT(30), <2>1, <2>2
<1>4. ASSUME NEW k \in Node, NEW l \in Message, RefusePut(k, l) PROVE Covered(n, m)'
    <2>1. m \in handling'[n] \/ m \in dropped'[n]
        BY ZenonT(30), <1>0, <1>4 DEF RefusePut
    <2> QED BY ZenonT(30), <2>1 DEF Covered
<1>5. ASSUME NEW k \in Node, Crash(k) PROVE Covered(n, m)'
    <2>1. m \in handling'[n] \/ m \in dropped'[n]
        BY ZenonT(30), <1>0, <1>5 DEF Crash
    <2> QED BY ZenonT(30), <2>1 DEF Covered
<1>6. ASSUME NEW k \in Publisher, Publish(k) \/ PublishFails(k) PROVE Covered(n, m)'
    BY ZenonT(30), <1>1, <1>6 DEF Publish, PublishFails
<1>7. ASSUME NEW k \in Node, NEW l \in Message, Deliver(k, l) PROVE Covered(n, m)'
    BY ZenonT(30), <1>1, <1>7 DEF Deliver
<1>8. ASSUME NEW k \in Node, NEW p \in Node,
             \/ GossipTask(k, p) \/ AddPeer(k, p) \/ AddGossiper(k, p)
             \/ ConnectFails(k, p) \/ QueueGossipBack(k, p)
      PROVE  Covered(n, m)'
    BY ZenonT(30), <1>1, <1>8 DEF GossipTask, AddPeer, AddGossiper, ConnectFails, QueueGossipBack
<1>9. ASSUME NEW k \in Node,
             \/ GossipWith(k) \/ GossipReceiver(k) \/ GossipFails(k)
             \/ FinishGossip(k) \/ QueuePut(k)
      PROVE  Covered(n, m)'
    BY ZenonT(30), <1>1, <1>9 DEF GossipWith, GossipReceiver, GossipFails, FinishGossip, QueuePut
<1>10. CASE UNCHANGED gossipVars
    BY ZenonT(30), <1>1, <1>10 DEF gossipVars
<1> QED
    BY ZenonT(30), <1>2, <1>3, <1>4, <1>5, <1>6, <1>7, <1>8, <1>9, <1>10, GossipAssumption DEF GossipNext

\* What is covered stays covered.
LEMMA CoveredKept ==
    ASSUME GossipTypeOK, [GossipNext]_gossipVars, NEW n \in Node, NEW m, Covered(n, m)
    PROVE  Covered(n, m)'
<1>1. CASE Logged(n, m)
    BY ZenonT(30), <1>1, LoggedKept DEF Covered
<1>2. CASE Queued(n, m)
    BY ZenonT(30), <1>2, QueuedKept
<1>3. CASE m \in handling[n] \/ m \in dropped[n]
    BY ZenonT(30), <1>3, HandledKept
<1> QED BY ZenonT(30), <1>1, <1>2, <1>3 DEF Covered, Queued

\* Only gossipWith raises an index, to the one it has got the puts of.
LEMMA PeerIdxStep ==
    ASSUME GossipTypeOK, [GossipNext]_gossipVars, NEW n \in Node, NEW p \in Node
    PROVE  \/ peerIdx'[n][p] <= peerIdx[n][p]
           \/ /\ gossiping[n].pc = "queueing" /\ gossiping[n].id = p
              /\ gossiping[n].puts = << >>
              /\ peerIdx'[n][p] = gossiping[n].idx
<1> DEFINE Goal == \/ peerIdx'[n][p] <= peerIdx[n][p]
                   \/ /\ gossiping[n].pc = "queueing" /\ gossiping[n].id = p
                      /\ gossiping[n].puts = << >>
                      /\ peerIdx'[n][p] = gossiping[n].idx
<1>0. peerIdx \in [Node -> [Node -> Nat]] /\ peerIdx[n][p] \in Nat
    BY ZenonT(30) DEF GossipTypeOK
<1>1. CASE peerIdx' = peerIdx
    BY <1>0, <1>1
<1>2. ASSUME NEW k \in Node, NEW P, DeleteGossipers(k, P) PROVE Goal
    <2>1. peerIdx'[n][p] = peerIdx[n][p] \/ peerIdx'[n][p] = 0
        BY ZenonT(30), <1>0, <1>2 DEF DeleteGossipers
    <2> QED BY <1>0, <2>1
<1>3. ASSUME NEW k \in Publisher, Publish(k) \/ PublishFails(k) PROVE Goal
    <2>1. k \in Node
        BY ZenonT(30), GossipAssumption
    <2> QED BY ZenonT(30), <1>1, <1>2, <1>3, <2>1 DEF Publish, PublishFails, peerVars, Apply
<1>4. ASSUME NEW k \in Node, NEW l \in Message, Deliver(k, l) \/ ApplyPut(k, l)
      PROVE  Goal
    BY ZenonT(30), <1>2, <1>4 DEF Deliver, ApplyPut, Apply
<1>5. ASSUME NEW k \in Node, FinishGossip(k) PROVE Goal
    <2> DEFINE g == gossiping[k]
    <2>1. UpdateGossiper(k, g.id, g.idx) /\ g.pc = "queueing" /\ g.puts = << >>
        BY ZenonT(30), <1>5 DEF FinishGossip
    <2>2. g \in [pc : {"queueing"}, id : Node, idx : Nat, puts : Seq(Put)]
        BY ZenonT(30), <2>1, QueueingType DEF GossipTypeOK
    <2>3. CASE DeleteGossipers(k, {g.id}) \/ peerIdx' = peerIdx
        BY ZenonT(30), <1>1, <1>2, <2>3
    <2>4. CASE peerIdx' = [peerIdx EXCEPT ![k] = [@ EXCEPT ![g.id] = g.idx]]
        <3>1. CASE k = n /\ g.id = p
            BY ZenonT(30), <1>0, <2>1, <2>4, <3>1
        <3>2. CASE ~(k = n /\ g.id = p)
            <4>1. peerIdx'[n][p] = peerIdx[n][p]
                BY ZenonT(30), <1>0, <2>2, <2>4, <3>2
            <4> QED BY <1>0, <4>1
        <3> QED BY ZenonT(30), <3>1, <3>2
    <2> QED BY ZenonT(30), <2>1, <2>3, <2>4 DEF UpdateGossiper, StoreIdx
<1>6. ASSUME NEW k \in Node, NEW u \in Node,
             \/ GossipTask(k, u) \/ AddPeer(k, u) \/ AddGossiper(k, u)
             \/ ConnectFails(k, u) \/ QueueGossipBack(k, u)
      PROVE  Goal
    BY ZenonT(30), <1>1, <1>6 DEF GossipTask, AddPeer, AddGossiper, ConnectFails, QueueGossipBack,
                      peerVars
<1>7. ASSUME NEW k \in Node, NEW l \in Message, RefusePut(k, l) PROVE Goal
    BY ZenonT(30), <1>1, <1>7 DEF RefusePut, peerVars
<1>8. ASSUME NEW k \in Node,
             \/ GossipWith(k) \/ GossipReceiver(k) \/ GossipFails(k) \/ QueuePut(k)
             \/ HandlePut(k) \/ Crash(k)
      PROVE  Goal
    BY ZenonT(30), <1>1, <1>8 DEF GossipWith, GossipReceiver, GossipFails, QueuePut, HandlePut,
                      Crash, peerVars
<1>9. CASE UNCHANGED gossipVars
    BY ZenonT(30), <1>1, <1>9 DEF gossipVars
<1> QED
    BY ZenonT(30), <1>3, <1>4, <1>5, <1>6, <1>7, <1>8, <1>9, GossipAssumption DEF GossipNext

\* What a step may make of the gossipWith of a node.
LEMMA GossipingStep ==
    ASSUME GossipTypeOK, [GossipNext]_gossipVars, NEW n \in Node
    PROVE  \/ gossiping'[n] = gossiping[n]
           \/ gossiping'[n] = Idle
           \/ /\ gossiping'[n].pc = "sent"
              /\ gossiping'[n].yourIdx = peerIdx[n][gossiping'[n].id]
           \/ GossipReceiver(n)
           \/ QueuePut(n)
<1> DEFINE Goal == \/ gossiping'[n] = gossiping[n]
                   \/ gossiping'[n] = Idle
                   \/ /\ gossiping'[n].pc = "sent"
                      /\ gossiping'[n].yourIdx = peerIdx[n][gossiping'[n].id]
                   \/ GossipReceiver(n)
                   \/ QueuePut(n)
<1>0. gossiping \in [Node -> Gossiping]
    BY ZenonT(30) DEF GossipTypeOK
<1>1. CASE gossiping' = gossiping
    BY ZenonT(30), <1>1
<1>2. ASSUME NEW k \in Node, GossipWith(k) PROVE Goal
    <2> DEFINE id == Head(gchan[k])
               sent == [pc |-> "sent", id |-> id, MyIdx |-> Len(log[k]),
                        yourIdx |-> peerIdx[k][id]]
    <2>1. \/ gossiping' = [gossiping EXCEPT ![k] = Idle]
          \/ gossiping' = [gossiping EXCEPT ![k] = sent]
        BY ZenonT(30), <1>2 DEF GossipWith
    <2>2. sent.pc = "sent" /\ sent.yourIdx = peerIdx[k][sent.id]
        BY ZenonT(30)
    <2> HIDE DEF sent
    <2>3. \/ gossiping'[n] = gossiping[n] \/ gossiping'[n] = Idle
          \/ k = n /\ gossiping'[n] = sent
        BY ZenonT(30), <1>0, <2>1
    <2> QED BY ZenonT(30), <2>2, <2>3
<1>3. ASSUME NEW k \in Node, GossipFails(k) \/ FinishGossip(k) \/ Crash(k) PROVE Goal
    <2>1. gossiping' = [gossiping EXCEPT ![k] = Idle]
        BY ZenonT(30), <1>3 DEF GossipFails, FinishGossip, Crash
    <2> QED BY ZenonT(30), <1>0, <2>1
<1>4. ASSUME NEW k \in Node, GossipReceiver(k) PROVE Goal
    <2>1. CASE k = n
        BY ZenonT(30), <1>4, <2>1
    <2>2. CASE k # n
        BY ZenonT(30), <1>0, <1>4, <2>2 DEF GossipReceiver
    <2> QED BY ZenonT(30), <2>1, <2>2
<1>5. ASSUME NEW k \in Node, QueuePut(k) PROVE Goal
    <2>1. CASE k = n
        BY ZenonT(30), <1>5, <2>1
    <2>2. CASE k # n
        BY ZenonT(30), <1>0, <1>5, <2>2 DEF QueuePut
    <2> QED BY ZenonT(30), <2>1, <2>2
<1>6. ASSUME NEW k \in Publisher, Publish(k) \/ PublishFails(k) PROVE Goal
    BY ZenonT(30), <1>1, <1>6 DEF Publish, PublishFails, queueVars
<1>7. ASSUME NEW k \in Node, NEW l \in Message,
             Deliver(k, l) \/ ApplyPut(k, l) \/ RefusePut(k, l)
      PROVE  Goal
    BY ZenonT(30), <1>1, <1>7 DEF Deliver, ApplyPut, RefusePut, queueVars
<1>8. ASSUME NEW k \in Node, NEW p \in Node,
             \/ GossipTask(k, p) \/ AddPeer(k, p) \/ AddGossiper(k, p)
             \/ ConnectFails(k, p) \/ QueueGossipBack(k, p)
      PROVE  Goal
    BY ZenonT(30), <1>1, <1>8 DEF GossipTask, AddPeer, AddGossiper, ConnectFails, QueueGossipBack,
                      queueVars
<1>9. ASSUME NEW k \in Node, HandlePut(k) PROVE Goal
    BY ZenonT(30), <1>1, <1>9 DEF HandlePut
<1>10. CASE UNCHANGED gossipVars
    BY ZenonT(30), <1>1, <1>10 DEF gossipVars
<1> QED
    BY ZenonT(30), <1>2, <1>3, <1>4, <1>5, <1>6, <1>7, <1>8, <1>9, <1>10, GossipAssumption DEF GossipNext

-----------------------------------------------------------------------------
(* The invariant *)

\* At the start nothing is stored and nothing is under way.
LEMMA InvInit == GossipInit => IInv
<1> SUFFICES ASSUME GossipInit PROVE IInv
    BY ZenonT(30)
<1>1. GossipTypeOK
    BY ZenonT(30), TypeInit
<1>2. \A n, p \in Node : peerIdx[n][p] = 0 /\ gossiping[n] = Idle
    BY ZenonT(30) DEF GossipInit
<1>3. IndexWithinLog /\ NoGap
    BY SMTT(60), <1>1, <1>2 DEF IndexWithinLog, NoGap, GossipTypeOK, Idle
<1>4. RequestCovered /\ AnswerCovered
    BY <1>2 DEF RequestCovered, AnswerCovered, Idle
<1> QED BY ZenonT(30), <1>1, <1>3, <1>4 DEF IInv

\* A covered entry of a peer's log is the same entry and covered after a step.
LEMMA EntryKept ==
    ASSUME GossipTypeOK, [GossipNext]_gossipVars, NEW n \in Node, NEW p \in Node,
           NEW i \in 1..Len(log[p]), Covered(n, log[p][i])
    PROVE  Covered(n, log[p][i])'
<1>1. log'[p][i] = log[p][i]
    BY ZenonT(30), LogsGrow
<1> QED BY ZenonT(30), <1>1, CoveredKept

\* What gossipWith has of an answer just received.
LEMMA AnswerReceived ==
    ASSUME IInv, NEW n \in Node, GossipReceiver(n), gossiping'[n].pc = "queueing"
    PROVE  LET g == gossiping[n]
               h == gossiping'[n]
           IN  /\ g.pc = "sent" /\ g.id \in Node /\ g.yourIdx \in Nat
               /\ h.id = g.id /\ h.idx = Len(log[g.id])
               /\ \A i \in 1..h.idx : i > g.yourIdx =>
                     \E j \in 1..Len(h.puts) : h.puts[j].M = log[g.id][i]
<1> DEFINE g == gossiping[n]
           puts == GetPuts(log[g.id], g.yourIdx + 1)
           h == [pc |-> "queueing", id |-> g.id, idx |-> g.yourIdx + Len(puts),
                 puts |-> puts]
<1>1. g.pc = "sent" /\ gossiping \in [Node -> Gossiping]
    BY ZenonT(30) DEF IInv, GossipTypeOK, GossipReceiver
<1>2. g \in [pc : {"sent"}, id : Node, MyIdx : Nat, yourIdx : Nat]
    BY ZenonT(30), <1>1, SentType
<1>3. gossiping'[n] = h /\ puts # << >>
    <2>1. \/ gossiping' = [gossiping EXCEPT ![n] = Idle]
          \/ puts # << >> /\ gossiping' = [gossiping EXCEPT ![n] = h]
        BY ZenonT(30) DEF GossipReceiver
    <2> HIDE DEF h, puts
    <2>2. \/ gossiping'[n] = Idle
          \/ puts # << >> /\ gossiping'[n] = h
        BY ZenonT(30), <1>1, <2>1
    <2> QED BY <2>2 DEF Idle
<1>4. log[g.id] \in Seq(Message) /\ g.yourIdx + 1 \in Nat \ {0}
    BY SMTT(60), <1>2 DEF IInv, GossipTypeOK
<1>5. /\ puts \in Seq(Put)
      /\ g.yourIdx + 1 <= Len(log[g.id])
      /\ Len(puts) = Len(log[g.id]) - (g.yourIdx + 1) + 1
      /\ \A i \in 1..Len(puts) : puts[i].M = log[g.id][g.yourIdx + 1 + i - 1]
    <2> HIDE DEF g
    <2> QED BY ZenonT(30), <1>3, <1>4, GetPutsResult
<1> HIDE DEF puts
<1>6. h.idx = Len(log[g.id])
    <2>1. h.idx = g.yourIdx + Len(puts)
        BY ZenonT(30)
    <2>2. g.yourIdx \in Nat /\ Len(log[g.id]) \in Nat
        BY <1>2, <1>4
    <2> HIDE DEF g, h
    <2> QED BY <1>5, <2>1, <2>2
<1>7. ASSUME NEW i \in 1..Len(log[g.id]), i > g.yourIdx
      PROVE  \E j \in 1..Len(puts) : puts[j].M = log[g.id][i]
    <2>1. i - g.yourIdx \in 1..Len(puts)
        BY SMTT(60), <1>2, <1>4, <1>5, <1>7
    <2>2. g.yourIdx + 1 + (i - g.yourIdx) - 1 = i
        BY <1>2, <1>7
    <2> QED BY ZenonT(30), <1>5, <2>1, <2>2
<1> QED BY SMTT(60), <1>1, <1>2, <1>3, <1>6, <1>7

\* Stored indexes, and those about to be stored, stay within the logs.
LEMMA IndexStep == IInv /\ [GossipNext]_gossipVars => IndexWithinLog'
<1> SUFFICES ASSUME IInv, [GossipNext]_gossipVars, NEW n \in Node, NEW p \in Node
             PROVE  /\ peerIdx'[n][p] <= Len(log'[p])
                    /\ gossiping'[n].pc = "queueing" /\ gossiping'[n].id = p
                          => gossiping'[n].idx <= Len(log'[p])
    BY ZenonT(30) DEF IndexWithinLog
<1>1. GossipTypeOK /\ GossipTypeOK'
    BY ZenonT(30), TypeStep DEF IInv
<1>2. /\ peerIdx[n][p] \in Nat /\ peerIdx'[n][p] \in Nat
      /\ Len(log[p]) \in Nat /\ Len(log'[p]) \in Nat
    <2>1. /\ peerIdx \in [Node -> [Node -> Nat]] /\ peerIdx' \in [Node -> [Node -> Nat]]
          /\ log \in [Node -> Seq(Message)] /\ log' \in [Node -> Seq(Message)]
        BY ZenonT(30), <1>1 DEF GossipTypeOK
    <2>2. log[p] \in Seq(Message) /\ log'[p] \in Seq(Message)
        BY ZenonT(30), <2>1
    <2> QED BY <2>1, <2>2
<1>3. Len(log[p]) <= Len(log'[p])
    BY ZenonT(30), <1>1, LogsGrow
<1>4. peerIdx'[n][p] <= Len(log'[p])
    <2>1. peerIdx[n][p] <= Len(log[p])
        BY ZenonT(30) DEF IInv, IndexWithinLog
    <2>2. CASE peerIdx'[n][p] <= peerIdx[n][p]
        BY <1>2, <1>3, <2>1, <2>2
    <2>3. CASE /\ gossiping[n].pc = "queueing" /\ gossiping[n].id = p
               /\ peerIdx'[n][p] = gossiping[n].idx
        BY <1>2, <1>3, <2>3 DEF IInv, IndexWithinLog
    <2> QED BY ZenonT(30), <1>1, <2>2, <2>3, PeerIdxStep
<1>5. ASSUME gossiping'[n].pc = "queueing", gossiping'[n].id = p
      PROVE  gossiping'[n].idx <= Len(log'[p])
    <2>1. CASE gossiping'[n] = gossiping[n]
        <3>1. gossiping[n] \in Gossiping /\ gossiping[n].pc = "queueing"
            BY ZenonT(30), <1>1, <1>5, <2>1 DEF GossipTypeOK
        <3>2. gossiping[n].idx \in Nat
            BY ZenonT(30), <3>1, QueueingType
        <3>3. gossiping[n].idx <= Len(log[p])
            BY ZenonT(30), <1>5, <2>1 DEF IInv, IndexWithinLog
        <3> QED BY <1>2, <1>3, <2>1, <3>2, <3>3
    <2>2. CASE QueuePut(n)
        <3>1. gossiping[n] \in [pc : {"queueing"}, id : Node, idx : Nat, puts : Seq(Put)]
            BY ZenonT(30), <1>1, <2>2, QueueingType DEF QueuePut, GossipTypeOK
        <3>2. gossiping'[n].id = gossiping[n].id /\ gossiping'[n].idx = gossiping[n].idx
            BY ZenonT(30), <1>1, <2>2, <3>1 DEF QueuePut, GossipTypeOK
        <3>3. gossiping[n].idx <= Len(log[p])
            BY ZenonT(30), <1>5, <3>1, <3>2 DEF IInv, IndexWithinLog
        <3> QED BY <1>2, <1>3, <3>1, <3>2, <3>3
    <2>3. CASE GossipReceiver(n)
        <3>1. gossiping'[n].id = gossiping[n].id
              /\ gossiping'[n].idx = Len(log[gossiping[n].id])
            BY ZenonT(30), <1>5, <2>3, AnswerReceived
        <3> QED BY ZenonT(30), <1>2, <1>3, <1>5, <3>1
    <2> QED BY <1>1, <1>5, <2>1, <2>2, <2>3, GossipingStep DEF Idle
<1> QED BY ZenonT(30), <1>4, <1>5

\* Stored indexes stay covered, with those that FinishGossip stores.
LEMMA NoGapStep == IInv /\ [GossipNext]_gossipVars => NoGap'
<1> SUFFICES ASSUME IInv, [GossipNext]_gossipVars, NEW n \in Node, NEW p \in Node,
                    NEW i \in 1..peerIdx'[n][p]
             PROVE  Covered(n, log[p][i])'
    BY ZenonT(30) DEF NoGap
<1>1. GossipTypeOK /\ GossipTypeOK'
    BY ZenonT(30), TypeStep DEF IInv
<1>2. peerIdx[n][p] \in Nat /\ peerIdx'[n][p] \in Nat /\ Len(log[p]) \in Nat
    <2>1. /\ peerIdx \in [Node -> [Node -> Nat]] /\ peerIdx' \in [Node -> [Node -> Nat]]
          /\ log[p] \in Seq(Message)
        BY ZenonT(30), <1>1 DEF GossipTypeOK
    <2> QED BY SMTT(60), <2>1
<1>3. CASE peerIdx'[n][p] <= peerIdx[n][p]
    <2>1. i \in 1..peerIdx[n][p] /\ peerIdx[n][p] <= Len(log[p])
        BY <1>2, <1>3 DEF IInv, IndexWithinLog
    <2>2. i \in 1..Len(log[p]) /\ Covered(n, log[p][i])
        BY <1>2, <2>1 DEF IInv, NoGap
    <2> QED BY ZenonT(30), <1>1, <2>2, EntryKept
<1>4. CASE /\ gossiping[n].pc = "queueing" /\ gossiping[n].id = p
           /\ gossiping[n].puts = << >>
           /\ peerIdx'[n][p] = gossiping[n].idx
    <2>1. i \in 1..gossiping[n].idx /\ gossiping[n].idx <= Len(log[p])
        BY ZenonT(30), <1>4 DEF IInv, IndexWithinLog
    <2>2. i \in 1..Len(log[p])
        BY <1>2, <1>4, <2>1
    <2>3. Covered(n, log[p][i])
        BY SMTT(60), <1>4, <2>1 DEF IInv, AnswerCovered
    <2> QED BY ZenonT(30), <1>1, <2>2, <2>3, EntryKept
<1> QED BY ZenonT(30), <1>1, <1>3, <1>4, PeerIdxStep

\* A request under way stays covered.
LEMMA RequestStep == IInv /\ [GossipNext]_gossipVars => RequestCovered'
<1> SUFFICES ASSUME IInv, [GossipNext]_gossipVars, NEW n \in Node, gossiping'[n].pc = "sent",
                    NEW p, p = gossiping'[n].id, NEW y, y = gossiping'[n].yourIdx
             PROVE  /\ y <= Len(log'[p])
                    /\ \A i \in 1..y : Covered(n, log[p][i])'
    BY ZenonT(30) DEF RequestCovered
<1>1. GossipTypeOK /\ GossipTypeOK'
    BY ZenonT(30), TypeStep DEF IInv
<1>2. p \in Node /\ y \in Nat
    <2>1. gossiping'[n] \in Gossiping
        BY ZenonT(30), <1>1 DEF GossipTypeOK
    <2> QED BY ZenonT(30), <2>1, SentType
<1>3. y <= Len(log[p]) /\ \A i \in 1..y : Covered(n, log[p][i])
    <2>1. CASE gossiping'[n] = gossiping[n]
        BY ZenonT(30), <2>1 DEF IInv, RequestCovered
    <2>2. CASE y = peerIdx[n][p]
        BY ZenonT(30), <1>2, <2>2 DEF IInv, IndexWithinLog, NoGap
    <2>3. ASSUME GossipReceiver(n) PROVE FALSE
        <3>1. \/ gossiping'[n] = Idle
              \/ gossiping'[n].pc = "queueing"
            BY SMTT(60), <1>1, <2>3 DEF GossipReceiver, GossipTypeOK
        <3> QED BY SMTT(60), <3>1 DEF Idle
    <2>4. ASSUME QueuePut(n) PROVE FALSE
        <3>1. gossiping[n].pc = "queueing" /\ gossiping[n] \in Gossiping
            BY ZenonT(30), <1>1, <2>4 DEF QueuePut, GossipTypeOK
        <3>2. gossiping[n] \in [pc : {"queueing"}, id : Node, idx : Nat, puts : Seq(Put)]
            BY ZenonT(30), <3>1, QueueingType
        <3>3. gossiping'[n].pc = gossiping[n].pc
            BY ZenonT(30), <1>1, <2>4, <3>2 DEF QueuePut, GossipTypeOK
        <3> QED BY ZenonT(30), <3>1, <3>3
    <2> QED BY SMTT(60), <1>1, <2>1, <2>2, <2>3, <2>4, GossipingStep DEF Idle
<1>4. Len(log[p]) \in Nat /\ Len(log'[p]) \in Nat
    <2>1. log[p] \in Seq(Message) /\ log'[p] \in Seq(Message)
        BY ZenonT(30), <1>1, <1>2 DEF GossipTypeOK
    <2> QED BY <2>1
<1>5. y <= Len(log'[p])
    BY <1>1, <1>2, <1>3, <1>4, LogsGrow
<1>6. ASSUME NEW i \in 1..y PROVE Covered(n, log[p][i])'
    <2>1. i \in 1..Len(log[p])
        BY SMTT(60), <1>2, <1>3, <1>4
    <2> QED BY ZenonT(30), <1>1, <1>2, <1>3, <2>1, EntryKept
<1> QED BY ZenonT(30), <1>5, <1>6

\* An answer being queued stays covered: what it loses is in gossipPuts.
LEMMA AnswerStep == IInv /\ [GossipNext]_gossipVars => AnswerCovered'
<1> SUFFICES ASSUME IInv, [GossipNext]_gossipVars, NEW n \in Node, gossiping'[n].pc = "queueing",
                    NEW h, h = gossiping'[n], NEW p, p = h.id, NEW i \in 1..h.idx
             PROVE  \/ Covered(n, log[p][i])'
                    \/ \E j \in 1..Len(h.puts) : h.puts[j].M = log'[p][i]
    BY DEF AnswerCovered
<1>1. GossipTypeOK /\ GossipTypeOK'
    BY ZenonT(30), TypeStep DEF IInv
<1>2. h \in [pc : {"queueing"}, id : Node, idx : Nat, puts : Seq(Put)]
    <2>1. gossiping'[n] \in Gossiping
        BY ZenonT(30), <1>1 DEF GossipTypeOK
    <2> QED BY ZenonT(30), <2>1, QueueingType
<1>3. p \in Node /\ log[p] \in Seq(Message) /\ Len(log[p]) \in Nat /\ i \in Nat
    <2>1. p \in Node /\ h.idx \in Nat
        BY ZenonT(30), <1>2
    <2>2. log[p] \in Seq(Message)
        BY ZenonT(30), <1>1, <2>1 DEF GossipTypeOK
    <2> QED BY <2>1, <2>2
<1>4. ASSUME i \in 1..Len(log[p]), Covered(n, log[p][i]) PROVE Covered(n, log[p][i])'
    BY ZenonT(30), <1>1, <1>3, <1>4, EntryKept
<1>5. ASSUME i \in 1..Len(log[p]) PROVE log'[p][i] = log[p][i]
    BY ZenonT(30), <1>1, <1>3, <1>5, LogsGrow
<1>6. CASE gossiping'[n] = gossiping[n]
    <2>1. h = gossiping[n]
        BY ZenonT(30), <1>6
    <2>2. \/ Covered(n, log[p][i])
          \/ \E j \in 1..Len(h.puts) : h.puts[j].M = log[p][i]
        BY ZenonT(30), <2>1 DEF IInv, AnswerCovered
    <2>3. h.idx <= Len(log[p])
        BY ZenonT(30), <1>3, <2>1 DEF IInv, IndexWithinLog
    <2>4. i \in 1..Len(log[p])
        BY SMTT(60), <1>2, <1>3, <2>3
    <2> QED BY ZenonT(30), <1>4, <1>5, <2>2, <2>4
<1>7. CASE QueuePut(n)
    <2> DEFINE g == gossiping[n]
    <2>1. g \in [pc : {"queueing"}, id : Node, idx : Nat, puts : Seq(Put)]
        <3>1. g \in Gossiping /\ g.pc = "queueing"
            BY ZenonT(30), <1>1, <1>7 DEF QueuePut, GossipTypeOK
        <3> HIDE DEF g
        <3> QED BY ZenonT(30), <3>1, QueueingType
    <2>2. h.id = g.id /\ h.idx = g.idx /\ h.puts = Tail(g.puts)
        BY ZenonT(30), <1>1, <1>7, <2>1 DEF QueuePut, GossipTypeOK
    <2>3. g.puts # << >> /\ gossipPuts'[n] = Append(gossipPuts[n], Head(g.puts))
        BY ZenonT(30), <1>1, <1>7 DEF QueuePut, GossipTypeOK
    <2>4. \/ Covered(n, log[p][i])
          \/ \E j \in 1..Len(g.puts) : g.puts[j].M = log[p][i]
        BY SMTT(60), <2>1, <2>2 DEF IInv, AnswerCovered
    <2>5. h.idx <= Len(log[p])
        BY ZenonT(30), <1>3, <2>1, <2>2 DEF IInv, IndexWithinLog
    <2>6. i \in 1..Len(log[p])
        BY SMTT(60), <1>2, <1>3, <2>5
    <2>7. gossipPuts[n] \in Seq(Put) /\ g.puts \in Seq(Put)
        BY ZenonT(30), <1>1, <2>1 DEF GossipTypeOK
    <2>8. ASSUME NEW j \in 1..Len(g.puts), g.puts[j].M = log[p][i]
          PROVE  \/ Covered(n, log[p][i])'
                 \/ \E k \in 1..Len(h.puts) : h.puts[k].M = log'[p][i]
        <3> HIDE DEF g
        <3>1. CASE j = 1
            <4> DEFINE l == Len(gossipPuts[n]) + 1
            <4>1. l \in 1..Len(gossipPuts'[n]) /\ gossipPuts'[n][l] = g.puts[1]
                BY <2>3, <2>7
            <4>2. gossipPuts'[n][l].M = log'[p][i]
                BY ZenonT(30), <1>5, <2>6, <2>8, <3>1, <4>1
            <4> QED BY ZenonT(30), <4>1, <4>2 DEF Covered
        <3>2. CASE j # 1
            <4>1. j - 1 \in 1..Len(h.puts) /\ h.puts[j - 1] = g.puts[j]
                BY SMTT(60), <2>2, <2>3, <2>7, <3>2
            <4> QED BY ZenonT(30), <1>5, <2>6, <2>8, <4>1
        <3> QED BY ZenonT(30), <3>1, <3>2
    <2> QED BY ZenonT(30), <1>4, <2>4, <2>6, <2>8
<1>8. CASE GossipReceiver(n)
    <2> DEFINE g == gossiping[n]
    <2>1. /\ g.pc = "sent" /\ g.id \in Node /\ g.yourIdx \in Nat
          /\ h.id = g.id /\ h.idx = Len(log[g.id])
          /\ \A k \in 1..h.idx : k > g.yourIdx =>
                \E j \in 1..Len(h.puts) : h.puts[j].M = log[g.id][k]
        BY ZenonT(30), <1>8, AnswerReceived
    <2>2. i \in 1..Len(log[p])
        BY ZenonT(30), <2>1
    <2>3. CASE i > g.yourIdx
        BY ZenonT(30), <1>5, <2>1, <2>2, <2>3
    <2>4. CASE i \in 1..g.yourIdx
        BY ZenonT(30), <1>4, <2>1, <2>2, <2>4 DEF IInv, RequestCovered
    <2> QED BY SMTT(60), <1>3, <2>1, <2>2, <2>3, <2>4
<1> QED BY SMTT(60), <1>1, <1>6, <1>7, <1>8, GossipingStep DEF Idle

\* The invariant holds in every reachable state of every instance.
THEOREM Invariance == GossipSpec => []IInv
<1>1. IInv /\ [GossipNext]_gossipVars => IInv'
    <2>1. IInv /\ [GossipNext]_gossipVars => GossipTypeOK'
        BY ZenonT(30), TypeStep DEF IInv
    <2> QED BY ZenonT(30), <2>1, IndexStep, NoGapStep, RequestStep, AnswerStep DEF IInv
<1> QED BY InvInit, <1>1, PTL DEF GossipSpec

\* The queues of gossipWith and gossipPut never hold more than their capacity,
\* and every index and message stays in its range.
THEOREM TypeCorrect == GossipSpec => []GossipTypeOK
<1>1. IInv => GossipTypeOK
    BY ZenonT(30) DEF IInv
<1> QED BY Invariance, <1>1, PTL

\* No node believes to have more of a peer's log than the peer has logged,
\* whatever is lost, refused or restarted.
THEOREM IndexesStayWithinLogs == GossipSpec => []IndexWithinLog
<1>1. IInv => IndexWithinLog
    BY ZenonT(30) DEF IInv
<1> QED BY Invariance, <1>1, PTL

\* What lies below a stored index was logged, is queued, is being handled, or
\* was refused or lost in a crash: gossipWith never skips a change.
THEOREM NothingSkipped == GossipSpec => []NoGap
<1>1. IInv => NoGap
    BY ZenonT(30) DEF IInv
<1> QED BY Invariance, <1>1, PTL

\* What gossip keeps true for any number of nodes, messages, crashes and losses,
\* and queues of any capacity.
THEOREM GossipIsSound == GossipSpec => []GossipSound
  BY TypeCorrect, IndexesStayWithinLogs, NothingSkipped, PTL DEF GossipSound

-----------------------------------------------------------------------------
(* How often a message is logged *)

\* Nothing is logged or under way that was not published.
Numbered == 1..published

LogPublished(n) == \A i \in 1..Len(log[n]) : log[n][i] \in Numbered
QueuePublished(n) == \A i \in 1..Len(gossipPuts[n]) : gossipPuts[n][i].M \in Numbered
AnswerPublished(n) ==
    gossiping[n].pc = "queueing" =>
        \A i \in 1..Len(gossiping[n].puts) : gossiping[n].puts[i].M \in Numbered

AllPublished ==
    /\ \A n \in Node : /\ LogPublished(n) /\ handling[n] \subseteq Numbered
                       /\ QueuePublished(n) /\ AnswerPublished(n)
    /\ \A n \in Node, m \in Message : <<n, m>> \in direct => m \in Numbered

Places(l, m) == {i \in 1..Len(l) : l[i] = m}

AtMostOne(S) == \A i, j \in S : i = j
AtMostTwo(S) == \A i, j, k \in S : i = j \/ j = k \/ i = k

\* A message on its way directly, and one past the look at its fingerprint, are
\* each still to be logged once.
StillToCome(n, m) ==
    /\ AtMostTwo(Places(log[n], m))
    /\ <<n, m>> \in direct \/ m \in handling[n] => AtMostOne(Places(log[n], m))
    /\ <<n, m>> \in direct /\ m \in handling[n] => Places(log[n], m) = {}

TwiceInv == GossipTypeOK /\ AllPublished /\ \A n \in Node, m \in Message : StillToCome(n, m)

\* The entries of a sequence that has grown, and of one that has lost its head.
LEMMA Entries ==
    ASSUME NEW S, NEW s \in Seq(S), NEW x \in S
    PROVE  /\ Len(Append(s, x)) = Len(s) + 1 /\ Len(s) \in Nat
           /\ \A i \in 1..Len(Append(s, x)) : Append(s, x)[i] = IF i = Len(s) + 1 THEN x ELSE s[i]
           /\ \A i \in 1..Len(Append(s, x)) : i = Len(s) + 1 \/ i \in 1..Len(s)
           /\ s # << >> => /\ 1 \in 1..Len(s) /\ Head(s) = s[1]
                           /\ \A i \in 1..Len(Tail(s)) : i + 1 \in 1..Len(s) /\ Tail(s)[i] = s[i + 1]
OBVIOUS

\* Numbers are only added.
LEMMA NumbersGrow ==
    ASSUME GossipTypeOK, [GossipNext]_gossipVars
    PROVE  Numbered \subseteq Numbered' /\ (published' = published \/ published' = published + 1)
<1>1. published' = published \/ published' = published + 1
    BY ZenonT(30) DEF GossipNext, gossipVars, Publish, PublishFails, GossipTask, AddPeer, AddGossiper, ConnectFails,
                      QueueGossipBack, Deliver, ApplyPut, RefusePut, GossipWith, GossipReceiver,
                      GossipFails, QueuePut, FinishGossip, HandlePut, Crash
<1>2. published \in Nat
    BY SMTT(30) DEF GossipTypeOK
<1> QED BY <1>1, <1>2 DEF Numbered

\* Logging a message.
LEMMA ApplyPublished ==
    ASSUME GossipTypeOK, AllPublished, NEW k \in Node, NEW m \in Message, Apply(k, m), m \in Numbered',
           Numbered \subseteq Numbered', NEW n \in Node
    PROVE  LogPublished(n)'
<1>1. log[n] \in Seq(Message) /\ (log'[n] = log[n] \/ log'[n] = Append(log[n], m))
    BY ZenonT(30) DEF GossipTypeOK, Apply
<1>2. \A i \in 1..Len(log[n]) : log[n][i] \in Numbered'
    BY ZenonT(30) DEF AllPublished, LogPublished
<1>3. CASE log'[n] = log[n]
    BY ZenonT(30), <1>2, <1>3 DEF LogPublished
<1>4. CASE log'[n] = Append(log[n], m)
    <2>1. \A i \in 1..Len(log'[n]) : /\ i = Len(log[n]) + 1 \/ i \in 1..Len(log[n])
                                    /\ log'[n][i] = IF i = Len(log[n]) + 1 THEN m ELSE log[n][i]
        <3>1. /\ \A i \in 1..Len(Append(log[n], m)) :
                     Append(log[n], m)[i] = IF i = Len(log[n]) + 1 THEN m ELSE log[n][i]
              /\ \A i \in 1..Len(Append(log[n], m)) : i = Len(log[n]) + 1 \/ i \in 1..Len(log[n])
            BY <1>1, Entries
        <3> QED BY ZenonT(30), <1>4, <3>1
    <2> QED BY ZenonT(30), <1>2, <2>1 DEF LogPublished
<1> QED BY ZenonT(30), <1>1, <1>3, <1>4

\* An answer has what its sender has logged.
LEMMA AnswerIsLogged ==
    ASSUME GossipTypeOK, AllPublished, NEW n \in Node, GossipReceiver(n), Numbered \subseteq Numbered'
    PROVE  \A k \in Node : AnswerPublished(k)'
<1> DEFINE g == gossiping[n]
           puts == GetPuts(log[g.id], g.yourIdx + 1)
           h == [pc |-> "queueing", id |-> g.id, idx |-> g.yourIdx + Len(puts),
                 puts |-> puts]
<1>1. g.pc = "sent" /\ gossiping \in [Node -> Gossiping] /\ log \in [Node -> Seq(Message)]
    BY ZenonT(30), SMTT(30) DEF GossipTypeOK, GossipReceiver
<1>2. g \in [pc : {"sent"}, id : Node, MyIdx : Nat, yourIdx : Nat]
    BY ZenonT(30), <1>1, SentType
<1>3. \/ gossiping' = [gossiping EXCEPT ![n] = Idle]
      \/ puts # << >> /\ gossiping' = [gossiping EXCEPT ![n] = h]
    BY ZenonT(30) DEF GossipReceiver
<1>4. log[g.id] \in Seq(Message) /\ g.yourIdx + 1 \in Nat \ {0} /\ g.id \in Node
    BY SMTT(30), <1>1, <1>2
<1>5. puts # << >> => \A i \in 1..Len(puts) : puts[i].M \in Numbered'
    <2> SUFFICES ASSUME puts # << >>, NEW i \in 1..Len(puts) PROVE puts[i].M \in Numbered'
        BY ZenonT(30)
    <2> DEFINE l == log[g.id]
               since == g.yourIdx + 1
    <2>1. /\ puts \in Seq(Put) /\ since <= Len(l) /\ Len(puts) = Len(l) - since + 1
          /\ puts[i].M = l[since + i - 1]
        <3>1. l \in Seq(Message) /\ since \in Nat \ {0} /\ puts = GetPuts(l, since)
            BY ZenonT(30), <1>4
        <3> HIDE DEF l, since, puts
        <3>2. /\ puts \in Seq(Put)
              /\ puts # << >> => /\ since <= Len(l) /\ Len(puts) = Len(l) - since + 1
                                 /\ \A j \in 1..Len(puts) : puts[j].M = l[since + j - 1]
            BY ZenonT(30), <3>1, GetPutsResult
        <3> QED BY ZenonT(30), <3>2
    <2>2. since + i - 1 \in 1..Len(l)
        <3>1. Len(l) \in Nat /\ since \in Nat \ {0} /\ i \in 1..Len(puts)
            BY <1>4
        <3> HIDE DEF l, since, puts
        <3> QED BY <2>1, <3>1
    <2> QED BY ZenonT(30), <1>4, <2>1, <2>2 DEF AllPublished, LogPublished
<1>6. h.pc = "queueing" /\ h.puts = puts /\ Idle.pc # "queueing"
    BY ZenonT(30) DEF Idle
<1> HIDE DEF h, puts
<1> SUFFICES ASSUME NEW k \in Node PROVE AnswerPublished(k)'
    BY ZenonT(30)
<1>7. CASE gossiping'[k] = gossiping[k]
    BY ZenonT(30), <1>7 DEF AllPublished, AnswerPublished
<1>8. CASE gossiping'[k] = Idle
    BY ZenonT(30), <1>6, <1>8 DEF AnswerPublished
<1>9. CASE puts # << >> /\ gossiping'[k] = h
    <2>1. \A i \in 1..Len(gossiping'[k].puts) : gossiping'[k].puts[i].M \in Numbered'
        BY ZenonT(30), <1>5, <1>6, <1>9
    <2> QED BY ZenonT(30), <2>1 DEF AnswerPublished
<1> QED BY ZenonT(30), <1>1, <1>3, <1>7, <1>8, <1>9

\* gossipWith moves a put from the answer to the queue.
LEMMA QueuePutPublished ==
    ASSUME GossipTypeOK, AllPublished, NEW k \in Node, QueuePut(k), NEW n \in Node, published' = published
    PROVE  QueuePublished(n)' /\ AnswerPublished(n)'
<1> DEFINE g == gossiping[k]
<1>1. /\ gossiping \in [Node -> Gossiping] /\ gossipPuts \in [Node -> Seq(Put)]
      /\ g.pc = "queueing" /\ g.puts # << >>
    BY ZenonT(30), SMTT(30) DEF GossipTypeOK, QueuePut
<1>2. g \in [pc : {"queueing"}, id : Node, idx : Nat, puts : Seq(Put)]
    BY ZenonT(30), <1>1, QueueingType
<1>3. g.puts \in Seq(Put) /\ Head(g.puts) \in Put
    BY <1>1, <1>2
<1>4. \A i \in 1..Len(g.puts) : g.puts[i].M \in Numbered
    BY ZenonT(30), <1>1 DEF AllPublished, AnswerPublished
<1>5. /\ gossipPuts'[n] = gossipPuts[n] \/ gossipPuts'[n] = Append(gossipPuts[n], Head(g.puts))
      /\ gossiping'[n] = gossiping[n] \/ gossiping'[n].puts = Tail(g.puts)
    BY ZenonT(30), <1>1, <1>2 DEF QueuePut
<1>6. Head(g.puts).M \in Numbered /\ \A i \in 1..Len(Tail(g.puts)) : Tail(g.puts)[i].M \in Numbered
    BY <1>1, <1>3, <1>4, Entries
<1>7. Numbered' = Numbered
    BY ZenonT(30) DEF Numbered
<1> HIDE DEF g
<1>8. QueuePublished(n)'
    <2>1. \A i \in 1..Len(gossipPuts[n]) : gossipPuts[n][i].M \in Numbered
        BY ZenonT(30) DEF AllPublished, QueuePublished
    <2>2. gossipPuts[n] \in Seq(Put)
        BY ZenonT(30), <1>1
    <2>3. \A i \in 1..Len(gossipPuts'[n]) : gossipPuts'[n][i].M \in Numbered
        <3>1. CASE gossipPuts'[n] = gossipPuts[n]
            BY ZenonT(30), <2>1, <3>1
        <3>2. CASE gossipPuts'[n] = Append(gossipPuts[n], Head(g.puts))
            <4>1. \A i \in 1..Len(Append(gossipPuts[n], Head(g.puts))) :
                     (i \in 1..Len(gossipPuts[n]) /\ Append(gossipPuts[n], Head(g.puts))[i] = gossipPuts[n][i])
                     \/ Append(gossipPuts[n], Head(g.puts))[i] = Head(g.puts)
                BY <1>3, <2>2, Entries
            <4> QED BY ZenonT(30), <1>6, <2>1, <3>2, <4>1
        <3> QED BY ZenonT(30), <1>5, <3>1, <3>2
    <2> QED BY ZenonT(30), <1>7, <2>3 DEF QueuePublished
<1>9. AnswerPublished(n)'
    BY ZenonT(30), <1>5, <1>6, <1>7 DEF AllPublished, AnswerPublished
<1> QED BY ZenonT(30), <1>8, <1>9

\* gossipPut takes a put from the queue.
LEMMA HandlePutPublished ==
    ASSUME GossipTypeOK, AllPublished, NEW k \in Node, HandlePut(k), NEW n \in Node
    PROVE  /\ QueuePublished(n)' /\ handling'[n] \subseteq Numbered'
           /\ \A m \in handling'[n] : m \in handling[n] \/ ~Logged(n, m)
<1>1. /\ gossipPuts \in [Node -> Seq(Put)] /\ handling \in [Node -> SUBSET Message]
      /\ gossipPuts[k] # << >> /\ Numbered' = Numbered
    BY ZenonT(30), SMTT(30) DEF GossipTypeOK, HandlePut, Numbered
<1>2. \A i \in 1..Len(gossipPuts[n]) : gossipPuts[n][i].M \in Numbered
    BY ZenonT(30) DEF AllPublished, QueuePublished
<1>3. gossipPuts[n] \in Seq(Put)
    BY ZenonT(30), <1>1
<1>4. gossipPuts'[n] = gossipPuts[n] \/ (n = k /\ gossipPuts'[n] = Tail(gossipPuts[n]))
    BY ZenonT(30), <1>1 DEF HandlePut
<1>5. /\ gossipPuts[n] # << >> => Head(gossipPuts[n]).M \in Numbered
      /\ gossipPuts[n] # << >> => \A i \in 1..Len(Tail(gossipPuts[n])) : Tail(gossipPuts[n])[i].M \in Numbered
    <2>1. gossipPuts[n] # << >> => Head(gossipPuts[n]) \in Put
        BY <1>3
    <2> QED BY <1>2, <1>3, <2>1, Entries
<1>6. QueuePublished(n)'
    BY ZenonT(30), <1>1, <1>2, <1>4, <1>5 DEF QueuePublished
<1>7. \/ handling'[n] = handling[n] \/ handling'[n] = {}
      \/ n = k /\ handling'[n] = {Head(gossipPuts[n]).M} /\ ~Logged(n, Head(gossipPuts[n]).M)
    BY ZenonT(30), <1>1 DEF HandlePut
<1> QED BY ZenonT(30), <1>1, <1>5, <1>6, <1>7 DEF AllPublished

\* A crash empties the queues.
LEMMA CrashPublished ==
    ASSUME GossipTypeOK, AllPublished, NEW k \in Node, Crash(k) PROVE AllPublished'
<1>1. /\ gossipPuts \in [Node -> Seq(Put)] /\ handling \in [Node -> SUBSET Message]
      /\ gossiping \in [Node -> Gossiping]
    BY ZenonT(30), SMTT(30) DEF GossipTypeOK
<1>2. UNCHANGED <<published, log, direct>> /\ Numbered' = Numbered
    BY ZenonT(30) DEF Crash, Numbered
<1>3. \A n \in Node : /\ handling'[n] = handling[n] \/ handling'[n] = {}
                      /\ gossipPuts'[n] = gossipPuts[n] \/ gossipPuts'[n] = << >>
                      /\ gossiping'[n] = gossiping[n] \/ gossiping'[n] = Idle
    BY ZenonT(30), <1>1 DEF Crash
<1>4. \A n \in Node : LogPublished(n)' /\ QueuePublished(n)'
    BY <1>2, <1>3 DEF AllPublished, LogPublished, QueuePublished
<1>5. \A n \in Node : AnswerPublished(n)'
    BY <1>2, <1>3 DEF AllPublished, AnswerPublished, Idle
<1> QED BY ZenonT(30), <1>2, <1>3, <1>4, <1>5 DEF AllPublished

\* The steps that leave the queues alone, and those that fill and empty gchan.
LEMMA QuietPublished ==
    ASSUME AllPublished, UNCHANGED <<gossipPuts, gossiping>>, Numbered \subseteq Numbered', NEW n \in Node
    PROVE  QueuePublished(n)' /\ AnswerPublished(n)'
BY ZenonT(30) DEF AllPublished, QueuePublished, AnswerPublished

\* Nothing unpublished comes up.
LEMMA PublishedStep ==
    ASSUME GossipTypeOK, AllPublished, [GossipNext]_gossipVars PROVE AllPublished'
<1> USE GossipAssumption
<1>1. Numbered \subseteq Numbered' /\ published \in Nat
    BY NumbersGrow, SMTT(30) DEF GossipTypeOK
<1>2. /\ gossiping \in [Node -> Gossiping] /\ handling \in [Node -> SUBSET Message]
      /\ log \in [Node -> Seq(Message)]
    BY ZenonT(30), SMTT(30) DEF GossipTypeOK
<1>3. log' = log => \A n \in Node : LogPublished(n)'
    BY ZenonT(30), <1>1 DEF AllPublished, LogPublished
<1>4. (\A n \in Node : handling'[n] \subseteq handling[n]) => \A n \in Node : handling'[n] \subseteq Numbered'
    BY ZenonT(30), <1>1 DEF AllPublished
<1>5. direct' \subseteq direct => \A n \in Node, m \in Message : <<n, m>> \in direct' => m \in Numbered'
    BY ZenonT(30), <1>1 DEF AllPublished
<1>6. ASSUME NEW k \in Publisher, Publish(k) \/ PublishFails(k) PROVE AllPublished'
    <2>1. /\ k \in Node /\ published + 1 \in Message /\ published + 1 \in Numbered'
          /\ UNCHANGED <<gossipPuts, gossiping, handling>>
          /\ direct' = direct \cup {<<p, published + 1>> : p \in Reached \ {k}}
        BY SMTT(30), <1>1, <1>6 DEF Publish, PublishFails, queueVars, Numbered, Message
    <2>2. \A n \in Node : LogPublished(n)'
        <3>1. CASE Publish(k)
            BY ZenonT(30), <1>1, <2>1, <3>1, ApplyPublished DEF Publish
        <3>2. CASE PublishFails(k)
            BY ZenonT(40), <1>3, <3>2 DEF PublishFails
        <3> QED BY ZenonT(30), <1>6, <3>1, <3>2
    <2>3. \A n \in Node, m \in Message : <<n, m>> \in direct' => m \in Numbered'
        BY ZenonT(30), <1>1, <2>1 DEF AllPublished
    <2> QED BY ZenonT(30), <1>1, <1>4, <2>1, <2>2, <2>3, QuietPublished DEF AllPublished
<1>7. ASSUME NEW k \in Node, NEW m \in Message, Deliver(k, m) \/ ApplyPut(k, m) \/ RefusePut(k, m)
      PROVE  AllPublished'
    <2>1. /\ UNCHANGED <<gossipPuts, gossiping>> /\ direct' \subseteq direct
          /\ \A n \in Node : handling'[n] \subseteq handling[n]
        BY ZenonT(30), <1>2, <1>7 DEF Deliver, ApplyPut, RefusePut, queueVars
    <2>2. Deliver(k, m) \/ ApplyPut(k, m) => Apply(k, m) /\ m \in Numbered
        BY ZenonT(30), <1>7 DEF Deliver, ApplyPut, AllPublished
    <2>3. \A n \in Node : LogPublished(n)'
        <3>1. CASE Deliver(k, m) \/ ApplyPut(k, m)
            BY ZenonT(30), <1>1, <2>2, <3>1, ApplyPublished
        <3>2. CASE RefusePut(k, m)
            BY ZenonT(30), <1>3, <3>2 DEF RefusePut
        <3> QED BY ZenonT(30), <1>7, <3>1, <3>2
    <2> QED BY ZenonT(30), <1>1, <1>4, <1>5, <2>1, <2>3, QuietPublished DEF AllPublished
<1>8. ASSUME NEW k \in Node, NEW p \in Node,
             \/ GossipTask(k, p) \/ AddPeer(k, p) \/ AddGossiper(k, p)
             \/ ConnectFails(k, p) \/ QueueGossipBack(k, p)
      PROVE  AllPublished'
    <2>1. UNCHANGED <<log, handling, direct, gossipPuts, gossiping>>
        BY ZenonT(30), <1>8 DEF GossipTask, AddPeer, AddGossiper, ConnectFails, QueueGossipBack, queueVars
    <2> QED BY ZenonT(30), <1>1, <1>3, <1>4, <1>5, <2>1, QuietPublished DEF AllPublished
<1>9. ASSUME NEW k \in Node, GossipWith(k) \/ GossipFails(k) \/ FinishGossip(k) PROVE AllPublished'
    <2>1. UNCHANGED <<log, handling, direct, gossipPuts>>
        BY ZenonT(30), <1>9 DEF GossipWith, GossipFails, FinishGossip
    <2>2. \A n \in Node : gossiping'[n] = gossiping[n] \/ gossiping'[n].pc # "queueing"
        <3>1. CASE GossipFails(k) \/ FinishGossip(k)
            <4>1. gossiping' = [gossiping EXCEPT ![k] = Idle] /\ Idle.pc # "queueing"
                BY ZenonT(30), <3>1 DEF GossipFails, FinishGossip, Idle
            <4> QED BY ZenonT(30), <1>2, <4>1
        <3>2. CASE GossipWith(k)
            BY ZenonT(30), <1>2, <3>2 DEF GossipWith, Idle
        <3> QED BY ZenonT(30), <1>9, <3>1, <3>2
    <2>3. \A n \in Node : AnswerPublished(n)' /\ QueuePublished(n)'
        BY ZenonT(30), <1>1, <2>1, <2>2 DEF AllPublished, AnswerPublished, QueuePublished
    <2> QED BY ZenonT(30), <1>3, <1>4, <1>5, <2>1, <2>3 DEF AllPublished
<1>10. ASSUME NEW k \in Node, GossipReceiver(k) PROVE AllPublished'
    <2>1. UNCHANGED <<log, handling, direct, gossipPuts>>
        BY ZenonT(30), <1>10 DEF GossipReceiver
    <2>2. \A n \in Node : QueuePublished(n)'
        BY ZenonT(30), <1>1, <2>1 DEF AllPublished, QueuePublished
    <2>3. \A n \in Node : AnswerPublished(n)'
        BY ZenonT(30), <1>1, <1>10, AnswerIsLogged
    <2> QED BY ZenonT(30), <1>3, <1>4, <1>5, <2>1, <2>2, <2>3 DEF AllPublished
<1>11. ASSUME NEW k \in Node, QueuePut(k) PROVE AllPublished'
    <2>1. UNCHANGED <<log, handling, direct, published>>
        BY ZenonT(30), <1>11 DEF QueuePut
    <2>2. \A n \in Node : QueuePublished(n)' /\ AnswerPublished(n)'
        BY ZenonT(30), <1>11, <2>1, QueuePutPublished
    <2> QED BY ZenonT(30), <1>3, <1>4, <1>5, <2>1, <2>2 DEF AllPublished
<1>12. ASSUME NEW k \in Node, HandlePut(k) PROVE AllPublished'
    <2>1. UNCHANGED <<log, direct, gossiping>>
        BY ZenonT(30), <1>12 DEF HandlePut
    <2>2. \A n \in Node : AnswerPublished(n)'
        BY ZenonT(30), <1>1, <2>1 DEF AllPublished, AnswerPublished
    <2>3. \A n \in Node : QueuePublished(n)' /\ handling'[n] \subseteq Numbered'
        BY ZenonT(30), <1>12, HandlePutPublished
    <2> QED BY ZenonT(30), <1>3, <1>5, <2>1, <2>2, <2>3 DEF AllPublished
<1>13. ASSUME NEW k \in Node, Crash(k) PROVE AllPublished'
    BY ZenonT(30), <1>13, CrashPublished
<1>14. CASE UNCHANGED gossipVars
    <2>1. UNCHANGED <<log, handling, direct, gossipPuts, gossiping>>
        BY ZenonT(30), <1>14 DEF gossipVars
    <2> QED BY ZenonT(30), <1>1, <1>3, <1>4, <1>5, <2>1, QuietPublished DEF AllPublished
<1> QED
    BY ZenonT(30), <1>6, <1>7, <1>8, <1>9, <1>10, <1>11, <1>12, <1>13, <1>14 DEF GossipNext

\* Where a message is in a log that has grown.
LEMMA PlacesGrow ==
    ASSUME NEW l \in Seq(Message), NEW m \in Message, NEW x \in Message
    PROVE  Places(Append(l, x), m) = IF x = m THEN Places(l, m) \cup {Len(l) + 1} ELSE Places(l, m)
<1>1. /\ Len(Append(l, x)) = Len(l) + 1 /\ Len(l) \in Nat
      /\ \A i \in 1..Len(Append(l, x)) : Append(l, x)[i] = IF i = Len(l) + 1 THEN x ELSE l[i]
      /\ \A i \in 1..Len(Append(l, x)) : i = Len(l) + 1 \/ i \in 1..Len(l)
    BY Entries
<1>2. Len(l) + 1 \in 1..Len(Append(l, x)) /\ Len(l) + 1 \notin 1..Len(l) /\ 1..Len(l) \subseteq 1..Len(Append(l, x))
    BY SMTT(60), <1>1
<1> QED BY ZenonT(30), <1>1, <1>2 DEF Places

\* A step that does not log the message on the node: nothing new is to come, or
\* it was not logged before.
LEMMA NotLoggedNow ==
    ASSUME NEW n \in Node, NEW m \in Message, StillToCome(n, m),
           Places(log'[n], m) = Places(log[n], m),
           \/ Places(log[n], m) = {}
           \/ (<<n, m>> \in direct' => <<n, m>> \in direct) /\ (m \in handling'[n] => m \in handling[n])
    PROVE  StillToCome(n, m)'
BY ZenonT(30) DEF StillToCome, AtMostOne, AtMostTwo

\* Only a message that was published before can be logged, handled or on its way.
LEMMA NewIsNowhere ==
    ASSUME GossipTypeOK, AllPublished, NEW n \in Node, published + 1 \in Message
    PROVE  /\ Places(log[n], published + 1) = {} /\ published + 1 \notin handling[n]
           /\ <<n, published + 1>> \notin direct
<1>1. published + 1 \notin Numbered
    BY SMTT(30) DEF GossipTypeOK, Numbered
<1> QED BY ZenonT(30), <1>1 DEF AllPublished, LogPublished, Places

LEMMA TwiceStep ==
    ASSUME TwiceInv, [GossipNext]_gossipVars PROVE TwiceInv'
<1> USE GossipAssumption
<1>1. GossipTypeOK /\ AllPublished /\ GossipTypeOK' /\ AllPublished'
    BY ZenonT(30), TypeStep, PublishedStep DEF TwiceInv
<1>2. /\ log \in [Node -> Seq(Message)] /\ handling \in [Node -> SUBSET Message]
    BY ZenonT(30), SMTT(30), <1>1 DEF GossipTypeOK
<1> SUFFICES ASSUME NEW n \in Node, NEW m \in Message PROVE StillToCome(n, m)'
    BY ZenonT(30), <1>1 DEF TwiceInv
<1>3. StillToCome(n, m) /\ log[n] \in Seq(Message)
    BY ZenonT(30), <1>2 DEF TwiceInv
<1>4. ASSUME UNCHANGED <<log, direct>>, m \in handling'[n] => m \in handling[n] PROVE StillToCome(n, m)'
    BY ZenonT(30), <1>3, <1>4, NotLoggedNow
<1>5. ASSUME NEW k \in Publisher, Publish(k) \/ PublishFails(k) PROVE StillToCome(n, m)'
    <2> DEFINE new == published + 1
    <2>1. /\ k \in Node /\ new \in Message /\ UNCHANGED handling
          /\ direct' = direct \cup {<<p, new>> : p \in Reached \ {k}}
        <3>1. published \in Nat /\ published < MaxMessages
            <4>1. published \in 0..MaxMessages
                BY ZenonT(30), <1>1 DEF GossipTypeOK
            <4>2. published < MaxMessages
                BY ZenonT(30), <1>5 DEF Publish, PublishFails
            <4> QED BY <4>1, <4>2
        <3>2. k \in Node /\ new \in Message
            BY SMTT(60), <3>1 DEF Message
        <3> QED BY ZenonT(30), <1>5, <3>2 DEF Publish, PublishFails
    <2>2. Places(log[n], new) = {} /\ new \notin handling[n] /\ <<n, new>> \notin direct
        BY ZenonT(30), <1>1, <2>1, NewIsNowhere
    <2>3. /\ log'[n] = log[n] \/ (n = k /\ log'[n] = Append(log[n], new))
          /\ <<n, m>> \in direct' => <<n, m>> \in direct \/ (m = new /\ n # k)
        BY ZenonT(30), <1>2, <1>5, <2>1 DEF Publish, PublishFails, Apply
    <2> HIDE DEF new
    <2>4. CASE m = new /\ log'[n] # log[n]
        <3>1. Places(log'[n], m) = {Len(log[n]) + 1}
            BY ZenonT(30), <1>3, <2>1, <2>2, <2>3, <2>4, PlacesGrow
        <3> QED BY ZenonT(30), <2>1, <2>2, <2>3, <2>4, <3>1 DEF StillToCome, AtMostOne, AtMostTwo
    <2>5. CASE m # new \/ log'[n] = log[n]
        <3>1. Places(log'[n], m) = Places(log[n], m)
            <4>1. new # m => Places(Append(log[n], new), m) = Places(log[n], m)
                BY ZenonT(30), <1>3, <2>1, PlacesGrow
            <4> QED BY ZenonT(30), <2>3, <2>5, <4>1
        <3> QED BY ZenonT(30), <1>3, <2>1, <2>2, <2>3, <2>5, <3>1, NotLoggedNow
    <2> QED BY ZenonT(30), <2>4, <2>5
<1>6. ASSUME NEW k \in Node, NEW x \in Message, Deliver(k, x) \/ ApplyPut(k, x) PROVE StillToCome(n, m)'
    <2>1. /\ log'[n] = log[n] \/ (n = k /\ log'[n] = Append(log[n], x))
          /\ <<n, m>> \in direct' => <<n, m>> \in direct
          /\ m \in handling'[n] => m \in handling[n]
        BY ZenonT(30), <1>2, <1>6 DEF Deliver, ApplyPut, Apply
    <2>2. CASE x # m \/ log'[n] = log[n]
        <3>1. Places(log'[n], m) = Places(log[n], m)
            <4>1. x # m => Places(Append(log[n], x), m) = Places(log[n], m)
                BY ZenonT(30), <1>3, PlacesGrow
            <4> QED BY ZenonT(30), <2>1, <2>2, <4>1
        <3> QED BY ZenonT(30), <1>3, <2>1, <3>1, NotLoggedNow
    <2>3. CASE x = m /\ log'[n] # log[n]
        <3>1. Places(log'[n], m) = Places(log[n], m) \cup {Len(log[n]) + 1} /\ n = k
            BY ZenonT(30), <1>3, <2>1, <2>3, PlacesGrow
        <3>2. \/ <<n, m>> \in direct /\ <<n, m>> \notin direct' /\ handling' = handling
              \/ m \in handling[n] /\ m \notin handling'[n] /\ direct' = direct
            BY ZenonT(30), <1>2, <1>6, <2>3, <3>1 DEF Deliver, ApplyPut
        <3> QED BY ZenonT(30), <1>3, <3>1, <3>2 DEF StillToCome, AtMostOne, AtMostTwo
    <2> QED BY ZenonT(30), <2>2, <2>3
<1>7. ASSUME NEW k \in Node, HandlePut(k) PROVE StillToCome(n, m)'
    <2>1. UNCHANGED <<log, direct>>
        BY ZenonT(30), <1>7 DEF HandlePut
    <2>2. m \in handling'[n] => m \in handling[n] \/ ~Logged(n, m)
        BY ZenonT(30), <1>1, <1>7, HandlePutPublished
    <2>3. ~Logged(n, m) => Places(log[n], m) = {}
        BY ZenonT(30) DEF Logged, Places
    <2> QED BY ZenonT(30), <1>3, <2>1, <2>2, <2>3, NotLoggedNow
<1>8. ASSUME NEW k \in Node, (\E x \in Message : RefusePut(k, x)) \/ Crash(k) PROVE StillToCome(n, m)'
    <2>1. UNCHANGED <<log, direct>> /\ (m \in handling'[n] => m \in handling[n])
        BY ZenonT(30), <1>2, <1>8 DEF RefusePut, Crash
    <2> QED BY ZenonT(30), <1>4, <2>1
<1>9. ASSUME NEW k \in Node, NEW p \in Node,
             \/ GossipTask(k, p) \/ AddPeer(k, p) \/ AddGossiper(k, p)
             \/ ConnectFails(k, p) \/ QueueGossipBack(k, p)
             \/ GossipWith(k) \/ GossipReceiver(k) \/ GossipFails(k) \/ QueuePut(k) \/ FinishGossip(k)
      PROVE  StillToCome(n, m)'
    <2>1. UNCHANGED <<log, direct, handling>>
        BY ZenonT(30), <1>9 DEF GossipTask, AddPeer, AddGossiper, ConnectFails, QueueGossipBack,
                    GossipWith, GossipReceiver, GossipFails, QueuePut, FinishGossip
    <2> QED BY ZenonT(30), <1>4, <2>1
<1>10. CASE UNCHANGED gossipVars
    BY ZenonT(30), <1>4, <1>10 DEF gossipVars
<1> QED BY ZenonT(30), <1>5, <1>6, <1>7, <1>8, <1>9, <1>10 DEF GossipNext

\* A message is logged at most twice: a direct message may come between the look
\* at the fingerprint (gossipPut) and the change, and nothing else can (Change,
\* ActionReceiver, gossipPut).
THEOREM LoggedTwice == GossipSpec => []LoggedAtMostTwice
<1>1. GossipInit => TwiceInv
    <2> SUFFICES ASSUME GossipInit PROVE TwiceInv
        BY ZenonT(30)
    <2>1. GossipTypeOK
        BY ZenonT(30), TypeInit
    <2>2. /\ \A n \in Node : /\ log[n] = << >> /\ handling[n] = {} /\ gossipPuts[n] = << >>
                             /\ gossiping[n] = Idle
          /\ direct = {}
        BY ZenonT(30) DEF GossipInit
    <2>3. AllPublished
        BY <2>2 DEF AllPublished, LogPublished, QueuePublished, AnswerPublished, Idle
    <2>4. \A n \in Node, m \in Message : Places(log[n], m) = {}
        BY <2>2 DEF Places
    <2>5. \A n \in Node, m \in Message : StillToCome(n, m)
        BY ZenonT(30), <2>2, <2>4 DEF StillToCome, AtMostOne, AtMostTwo
    <2> QED BY ZenonT(30), <2>1, <2>3, <2>5 DEF TwiceInv
<1>2. TwiceInv /\ [GossipNext]_gossipVars => TwiceInv'
    BY ZenonT(30), TwiceStep
<1>3. TwiceInv => LoggedAtMostTwice
    <2> SUFFICES ASSUME TwiceInv, NEW n \in Node, NEW m \in Message PROVE AtMostTwo(Places(log[n], m))
        BY DEF LoggedAtMostTwice, Places, AtMostTwo
    <2> QED BY ZenonT(30) DEF TwiceInv, StillToCome
<1> QED BY <1>1, <1>2, <1>3, PTL DEF GossipSpec

-----------------------------------------------------------------------------
(* QueryRunner *)

WorkStage == {"start", "dialling", "regrab", "regrabFailed", "querying", "adding", "ending"}
HoldStage == {"start", "querying", "adding", "ending", "putting"}

\* The peers that have a worker, or had one.
Started == {p \in Peer : wk[p] # "none"}

Failure == [peer : Peer, err : Error]

Typed ==
    /\ q \in Questions
    /\ run \in {"local", "running", "closing", "done"}
    /\ spawner \in {"outer", "inner", "exited"}
    /\ tokens \in 0..Concurrency
    /\ queue \subseteq seen /\ seen \subseteq Peer
    /\ remaining \in Nat /\ finished \in BOOLEAN
    /\ wk \in [Peer -> Stage] /\ todo \in [Peer -> SUBSET (Peer \cup {Self})]
    /\ linked \subseteq Peer
    /\ errs \in Seq(Failure) /\ \A i \in 1..Len(errs) : errs[i].peer \in seen
    /\ result \in Peer \cup {Nothing}
    /\ toClose \in BOOLEAN /\ closing \in BOOLEAN
    /\ answer \in Answer

\* No peer is queued again after a worker was started for it.
Apart == Started \subseteq seen /\ queue \cap Started = {}

\* The peers seen whose worker has not ended.
Pending == {p \in seen : wk[p] \in WorkStage \cup {"none"}}

\* They are the ones counted; while proc is not closing those without a worker
\* are queued, later some may have been dropped.
Counted ==
    /\ remaining = Cardinality(Pending)
    /\ ~closing => \A p \in seen : wk[p] = "none" => p \in queue
    /\ finished => remaining = 0

InHand == IF spawner = "inner" THEN 1 ELSE 0

Tokened == spawner # "exited" => tokens + Cardinality(Holding) + InHand = Concurrency

\* Nothing has begun before Run.
Fresh ==
    run = "local" =>
        /\ spawner = "exited" /\ Started = {} /\ seen = {} /\ queue = {} /\ errs = << >>
        /\ remaining = 0 /\ ~finished /\ ~closing

Sums == Typed /\ Apart /\ Counted /\ Tokened /\ Fresh

-----------------------------------------------------------------------------
(* Sets of peers *)

\* Sets of peers are finite.
LEMMA FinitePeers ==
    ASSUME NEW S \in SUBSET Peer
    PROVE  IsFiniteSet(S) /\ Cardinality(S) \in Nat
BY ZenonT(30), QueryAssumption, FS_Subset, FS_CardinalityType

\* Adding a peer to a set of peers, or taking one out, changes its size by one.
LEMMA OneMore ==
    ASSUME NEW S \in SUBSET Peer, NEW p \in Peer
    PROVE  /\ p \notin S => Cardinality(S \cup {p}) = Cardinality(S) + 1
           /\ p \in S => Cardinality(S \ {p}) = Cardinality(S) - 1
BY ZenonT(30), FinitePeers, FS_AddElement, FS_RemoveElement

\* What Goto does to the workers with a token, to those started and to those pending.
LEMMA Moves ==
    ASSUME wk \in [Peer -> Stage], NEW p \in Peer, NEW stage \in Stage \ {"none"}, Goto(p, stage),
           seen \in SUBSET Peer, p \in seen, UNCHANGED seen
    PROVE  /\ wk' \in [Peer -> Stage] /\ Started' = Started \cup {p}
           /\ \A x \in Peer : wk'[x] = IF x = p THEN stage ELSE wk[x]
           /\ (wk[p] \in HoldStage <=> stage \in HoldStage) => Holding' = Holding
           /\ wk[p] \notin HoldStage /\ stage \in HoldStage => Cardinality(Holding') = Cardinality(Holding) + 1
           /\ wk[p] \in HoldStage /\ stage \notin HoldStage => Cardinality(Holding') = Cardinality(Holding) - 1
           /\ (wk[p] \in WorkStage \cup {"none"} <=> stage \in WorkStage) => Pending' = Pending
           /\ wk[p] \in WorkStage /\ stage \notin WorkStage =>
                 Pending' = Pending \ {p} /\ Cardinality(Pending') = Cardinality(Pending) - 1
<1>1. wk' = [wk EXCEPT ![p] = stage]
    BY ZenonT(30) DEF Goto
<1>2. /\ wk' \in [Peer -> Stage] /\ Started' = Started \cup {p}
      /\ \A x \in Peer : wk'[x] = IF x = p THEN stage ELSE wk[x]
    BY ZenonT(30), <1>1 DEF Started
<1>3. /\ Holding = {x \in Peer : wk[x] \in HoldStage} /\ Holding' = {x \in Peer : wk'[x] \in HoldStage}
      /\ Pending = {x \in seen : wk[x] \in WorkStage \cup {"none"}}
      /\ Pending' = {x \in seen : wk'[x] \in WorkStage \cup {"none"}}
    BY ZenonT(30) DEF Pending, Holding, WorkStage, HoldStage
<1>4. Holding \in SUBSET Peer /\ Pending \in SUBSET Peer
    BY ZenonT(30), <1>3
<1>5. /\ (wk[p] \in HoldStage <=> stage \in HoldStage) => Holding' = Holding
      /\ wk[p] \notin HoldStage /\ stage \in HoldStage => p \notin Holding /\ Holding' = Holding \cup {p}
      /\ wk[p] \in HoldStage /\ stage \notin HoldStage => p \in Holding /\ Holding' = Holding \ {p}
    BY ZenonT(30), <1>2, <1>3
<1>6. /\ (wk[p] \in WorkStage \cup {"none"} <=> stage \in WorkStage) => Pending' = Pending
      /\ wk[p] \in WorkStage /\ stage \notin WorkStage => p \in Pending /\ Pending' = Pending \ {p}
    BY ZenonT(30), <1>2, <1>3
<1> QED BY ZenonT(30), <1>2, <1>4, <1>5, <1>6, OneMore

\* The counted and the held are numbers.
LEMMA Numbers ==
    ASSUME Typed
    PROVE  /\ Cardinality(Holding) \in Nat /\ Cardinality(Pending) \in Nat /\ Concurrency \in Nat
           /\ IsFiniteSet(Pending)
<1>1. Holding \in SUBSET Peer /\ Pending \in SUBSET Peer
    BY ZenonT(30) DEF Typed, Holding, Pending
<1> QED BY ZenonT(30), <1>1, FinitePeers, QueryAssumption

-----------------------------------------------------------------------------
(* The counts *)

LEMMA InitSums ==
    ASSUME Init PROVE Sums
<1>1. Typed
    <2>1. q \in Questions /\ linked \subseteq Peer
        BY ZenonT(30), QuestionsAssumption DEF Init
    <2>2. tokens \in 0..Concurrency /\ remaining \in Nat
        BY QueryAssumption DEF Init
    <2>3. wk \in [Peer -> Stage] /\ todo \in [Peer -> SUBSET (Peer \cup {Self})]
        BY ZenonT(30) DEF Init, Stage
    <2>4. errs \in Seq(Failure) /\ \A i \in 1..Len(errs) : errs[i].peer \in seen
        BY DEF Init
    <2> QED BY ZenonT(30), <2>1, <2>2, <2>3, <2>4 DEF Init, Typed, Answer
<1>2. Started = {} /\ Pending = {}
    BY ZenonT(30) DEF Init, Started, Pending
<1> QED BY ZenonT(30), <1>1, <1>2, FS_EmptySet DEF Init, Sums, Apart, Counted, Tokened, Fresh

\* A worker that moves on while it is counted, or when it is no longer, with the
\* tokens that the move takes or gives back.
LEMMA WorkerMove ==
    ASSUME Sums, Typed', NEW p \in Peer, NEW stage \in Stage \ {"none"}, Goto(p, stage), wk[p] # "none",
           UNCHANGED <<run, spawner, queue, seen, remaining, finished, closing>>,
           wk[p] \in WorkStage <=> stage \in WorkStage,
           \/ (wk[p] \in HoldStage <=> stage \in HoldStage) /\ tokens' = tokens
           \/ wk[p] \in HoldStage /\ stage \notin HoldStage /\ tokens' = tokens + 1
           \/ wk[p] \notin HoldStage /\ stage \in HoldStage /\ tokens' = tokens - 1
    PROVE  Sums'
<1>1. Typed /\ Apart /\ Counted /\ Tokened /\ Fresh
    BY ZenonT(30) DEF Sums
<1>2. p \in seen /\ p \in Started /\ run # "local"
    BY ZenonT(30), <1>1 DEF Apart, Started, Fresh
<1>3. /\ Started' = Started \cup {p}
      /\ \A x \in Peer : wk'[x] = IF x = p THEN stage ELSE wk[x]
      /\ (wk[p] \in HoldStage <=> stage \in HoldStage) => Holding' = Holding
      /\ wk[p] \notin HoldStage /\ stage \in HoldStage => Cardinality(Holding') = Cardinality(Holding) + 1
      /\ wk[p] \in HoldStage /\ stage \notin HoldStage => Cardinality(Holding') = Cardinality(Holding) - 1
      /\ Pending' = Pending
    BY ZenonT(30), <1>1, <1>2, Moves DEF Typed
<1>4. Apart'
    BY ZenonT(30), <1>1, <1>2, <1>3 DEF Apart
<1>5. Counted'
    BY ZenonT(30), <1>1, <1>3 DEF Counted, Typed
<1>6. Tokened'
    <2>1. /\ tokens \in Int /\ InHand \in Int /\ InHand' = InHand
          /\ Cardinality(Holding) \in Int /\ Concurrency \in Int
        BY <1>1, Numbers DEF Typed, InHand
    <2>2. tokens' + Cardinality(Holding') = tokens + Cardinality(Holding)
        BY <2>1, <1>3
    <2>3. tokens' \in Int /\ Cardinality(Holding') \in Int
        BY <2>1, <1>3
    <2> QED BY ZenonT(30), <1>1, <2>1, <2>2, <2>3 DEF Tokened
<1>7. Fresh'
    BY ZenonT(30), <1>2 DEF Fresh
<1> QED BY ZenonT(30), <1>4, <1>5, <1>6, <1>7 DEF Sums

\* What a peer tells of are peers.
LEMMA CloserPeers ==
    ASSUME Typed, NEW p \in Peer PROVE Closer(p) \in SUBSET Peer
<1>1. q.knows[p] \subseteq Peer \cup {Self}
    BY ZenonT(30), QuestionsAssumption DEF Typed
<1> QED BY ZenonT(30), <1>1 DEF Closer, KademliaReceiver, betterPeersForHash

\* What Fail does to the list of errors.
LEMMA FailTyped ==
    ASSUME Typed, NEW p \in seen, NEW e \in Error, Fail(p, e), UNCHANGED seen
    PROVE  /\ errs' \in Seq(Failure) /\ \A i \in 1..Len(errs') : errs'[i].peer \in seen
           /\ Len(errs') = Len(errs) + 1 /\ errs'[Len(errs) + 1].peer = p
           /\ \A i \in 1..Len(errs) : errs'[i] = errs[i]
<1>1. [peer |-> p, err |-> e] \in Failure /\ errs \in Seq(Failure)
    BY ZenonT(30) DEF Failure, Typed
<1>2. errs' = Append(errs, [peer |-> p, err |-> e])
    BY ZenonT(30) DEF Fail
<1>3. /\ errs' \in Seq(Failure) /\ Len(errs') = Len(errs) + 1 /\ Len(errs) \in Nat
      /\ errs'[Len(errs) + 1] = [peer |-> p, err |-> e]
      /\ \A i \in 1..Len(errs) : errs'[i] = errs[i]
    BY <1>1, <1>2
<1>4. \A i \in 1..Len(errs') : i \in 1..Len(errs) \/ i = Len(errs) + 1
    BY <1>3
<1> QED BY <1>3, <1>4 DEF Typed

\* The workers up to the answer of their peer, and when they have told everything.
LEMMA WorkerSums ==
    ASSUME Sums, NEW p \in Peer,
           \/ WorkerStart(p) \/ Dial(p) \/ Regrab(p) \/ Answered(p) \/ AskFails(p)
           \/ Added(p) \/ WorkerPut(p)
    PROVE  Sums'
<1>1. Typed /\ Apart
    BY ZenonT(30) DEF Sums
<1>2. wk[p] # "none" => p \in seen
    BY ZenonT(30), <1>1 DEF Apart, Started
<1>3. tokens \in Int /\ Concurrency \in Nat /\ wk \in [Peer -> Stage] /\ tokens \in 0..Concurrency
    BY <1>1, QueryAssumption DEF Typed
<1>4. \A stage \in Stage : Goto(p, stage) => wk' \in [Peer -> Stage]
    BY ZenonT(30), <1>3 DEF Goto
<1>5. CASE WorkerStart(p)
    <2>1. CASE p \in linked
        <3>1. Goto(p, "querying") /\ Typed'
            BY ZenonT(30), <1>1, <1>4, <1>5, <2>1 DEF WorkerStart, Typed, Stage
        <3> QED BY ZenonT(30), <3>1, <1>5, <2>1, WorkerMove DEF WorkerStart, Stage, WorkStage, HoldStage
    <2>2. CASE p \notin linked
        <3>1. Goto(p, "dialling") /\ tokens' \in 0..Concurrency
            BY <1>3, <1>5, <2>2 DEF WorkerStart
        <3>2. Typed'
            BY ZenonT(30), <1>1, <1>4, <1>5, <3>1 DEF WorkerStart, Typed, Stage
        <3> QED BY ZenonT(30), <3>1, <3>2, <1>5, <2>2, WorkerMove DEF WorkerStart, Stage, WorkStage, HoldStage
    <2> QED BY ZenonT(30), <2>1, <2>2
<1>6. CASE Dial(p)
    <2>1. CASE Goto(p, "regrab") /\ linked' = linked \cup {p} /\ UNCHANGED errs
        <3>1. Typed'
            BY ZenonT(30), <1>1, <1>4, <1>6, <2>1 DEF Dial, Typed, Stage
        <3> QED BY ZenonT(30), <3>1, <1>6, <2>1, WorkerMove DEF Dial, Stage, WorkStage, HoldStage
    <2>2. CASE Goto(p, "regrabFailed") /\ Fail(p, "net") /\ UNCHANGED linked
        <3>1. errs' \in Seq(Failure) /\ \A i \in 1..Len(errs') : errs'[i].peer \in seen
            BY ZenonT(30), <1>1, <1>2, <1>6, <2>2, FailTyped DEF Dial, Error
        <3>2. Typed'
            BY ZenonT(30), <1>1, <1>4, <1>6, <2>2, <3>1 DEF Dial, Typed, Stage
        <3> QED BY ZenonT(30), <3>2, <1>6, <2>2, WorkerMove DEF Dial, Stage, WorkStage, HoldStage
    <2> QED BY ZenonT(30), <1>6, <2>1, <2>2 DEF Dial
<1>7. CASE Regrab(p)
    <2> DEFINE stage == IF wk[p] = "regrab" THEN "querying" ELSE "ending"
    <2>1. Goto(p, stage) /\ tokens' \in 0..Concurrency /\ stage \in Stage \ {"none"}
        BY <1>3, <1>7 DEF Regrab, Stage
    <2>2. Typed'
        BY ZenonT(30), <1>1, <1>4, <1>7, <2>1 DEF Regrab, Typed
    <2>3. /\ wk[p] \in WorkStage /\ stage \in WorkStage
          /\ wk[p] \notin HoldStage /\ stage \in HoldStage
        BY ZenonT(30), <1>7 DEF Regrab, WorkStage, HoldStage
    <2> HIDE DEF stage
    <2> QED BY ZenonT(30), <2>1, <2>2, <2>3, <1>7, WorkerMove DEF Regrab
<1>8. CASE Answered(p) \/ AskFails(p)
    <2>1. wk[p] = "querying" /\ UNCHANGED AskVars
        BY ZenonT(30), <1>8 DEF Answered, AskFails
    <2>2. ASSUME NEW e \in Error, Fail(p, e), UNCHANGED <<todo, result, toClose>>, Goto(p, "ending")
          PROVE  Typed'
        <3>1. errs' \in Seq(Failure) /\ \A i \in 1..Len(errs') : errs'[i].peer \in seen
            BY ZenonT(30), <1>1, <1>2, <2>1, <2>2, FailTyped DEF AskVars
        <3> QED BY ZenonT(30), <1>1, <1>4, <2>1, <2>2, <3>1 DEF AskVars, Typed, Stage
    <2>3. ASSUME result' = p, toClose' = TRUE, Goto(p, "ending"), UNCHANGED <<todo, errs>>
          PROVE  Typed'
        BY ZenonT(30), <1>1, <1>4, <2>1, <2>3 DEF AskVars, Typed, Stage
    <2>4. ASSUME todo' = [todo EXCEPT ![p] = Closer(p)], Goto(p, "adding"),
                 UNCHANGED <<errs, result, toClose>>
          PROVE  Typed'
        BY ZenonT(30), <1>1, <1>4, <2>1, <2>4, CloserPeers DEF AskVars, Typed, Stage
    <2>5. Refuses(p) \subseteq Error
        BY ZenonT(30) DEF Refuses, Error
    <2>6. Typed' /\ (Goto(p, "ending") \/ Goto(p, "adding"))
        BY ZenonT(30), <1>8, <2>2, <2>3, <2>4, <2>5 DEF Answered, AskFails, Error
    <2> QED BY ZenonT(30), <2>1, <2>6, WorkerMove DEF AskVars, Stage, WorkStage, HoldStage
<1>9. CASE Added(p)
    <2>1. Typed'
        BY ZenonT(30), <1>1, <1>4, <1>9 DEF Added, Typed, Stage
    <2> QED BY ZenonT(30), <2>1, <1>9, WorkerMove DEF Added, Stage, WorkStage, HoldStage
<1>10. CASE WorkerPut(p)
    <2>1. tokens' \in 0..Concurrency
        BY <1>3, <1>10 DEF WorkerPut
    <2>2. Typed'
        BY ZenonT(30), <1>1, <1>4, <1>10, <2>1 DEF WorkerPut, Typed, Stage
    <2> QED BY ZenonT(30), <2>2, <1>10, WorkerMove DEF WorkerPut, Stage, WorkStage, HoldStage
<1> QED BY ZenonT(30), <1>5, <1>6, <1>7, <1>8, <1>9, <1>10

\* The caller, up to Run.
LEMMA CallerSums ==
    ASSUME Sums, GetLocally \/ FindLocally \/ ClosestOfNone \/ StartRun PROVE Sums'
<1>1. Typed /\ Apart /\ Counted /\ Tokened /\ Fresh
    BY ZenonT(30) DEF Sums
<1>2. ASSUME NEW a \in Answer, Return(a) PROVE Sums'
    <2>1. Typed'
        BY ZenonT(30), <1>1, <1>2 DEF Return, Typed
    <2>2. Pending' = Pending /\ Started' = Started /\ Holding' = Holding /\ InHand' = InHand
        BY ZenonT(30), <1>2 DEF Return, Pending, Started, Holding, InHand
    <2> QED BY ZenonT(30), <1>1, <1>2, <2>1, <2>2 DEF Return, Sums, Apart, Counted, Tokened, Fresh
<1>3. CASE StartRun
    <2>1. q.start \in SUBSET Peer /\ q.start \subseteq Peer
        BY ZenonT(30), <1>1, QuestionsAssumption DEF Typed
    <2>2. remaining' \in Nat /\ Concurrency \in Nat /\ Concurrency \in 0..Concurrency
        BY <1>3, <2>1, FinitePeers, QueryAssumption DEF StartRun
    <2>3. errs = << >> /\ Started = {} /\ ~finished /\ ~closing
        BY ZenonT(30), <1>1, <1>3 DEF Fresh, StartRun
    <2>4. Typed'
        BY SMTT(60), <1>1, <1>3, <2>1, <2>2, <2>3 DEF Typed, StartRun
    <2>5. Started' = {} /\ Pending' = q.start /\ Holding = {} /\ Holding' = {}
        BY ZenonT(30), <1>1, <1>3, <2>1, <2>3 DEF StartRun, Started, Pending, Holding
    <2>6. Apart' /\ Fresh'
        BY ZenonT(30), <1>3, <2>5 DEF Apart, Fresh, StartRun
    <2>7. Counted'
        BY ZenonT(30), <1>3, <2>3, <2>5 DEF Counted, StartRun
    <2>8. Tokened'
        BY <1>3, <2>2, <2>5, FS_EmptySet DEF Tokened, StartRun, InHand
    <2> QED BY ZenonT(30), <2>4, <2>6, <2>7, <2>8 DEF Sums
<1> QED BY ZenonT(30), <1>2, <1>3 DEF GetLocally, FindLocally, ClosestOfNone, Answer

\* spawnWorkers.
LEMMA SpawnerSums ==
    ASSUME Sums, TakeToken \/ Spawn \/ SpawnerExit PROVE Sums'
<1>1. Typed /\ Apart /\ Counted /\ Tokened /\ Fresh
    BY ZenonT(30) DEF Sums
<1>2. tokens \in Int /\ Cardinality(Holding) \in Int /\ Concurrency \in Int /\ tokens \in 0..Concurrency
    BY <1>1, Numbers DEF Typed
<1>3. UNCHANGED SpawnerVars /\ run # "local"
    BY ZenonT(30), <1>1 DEF TakeToken, Spawn, SpawnerExit, Fresh
<1>4. CASE TakeToken
    <2>1. Typed'
        BY <1>1, <1>2, <1>4 DEF TakeToken, Typed, SpawnerVars
    <2>2. Pending' = Pending /\ Started' = Started /\ Holding' = Holding
        BY ZenonT(30), <1>4 DEF TakeToken, SpawnerVars, Pending, Started, Holding
    <2>3. Tokened'
        BY <1>1, <1>2, <1>4, <2>2 DEF TakeToken, Tokened, InHand
    <2> QED BY <1>1, <1>3, <1>4, <2>1, <2>2, <2>3 DEF TakeToken, SpawnerVars, Sums, Apart, Counted, Fresh
<1>5. CASE Spawn
    <2>1. PICK p \in queue : Goto(p, "start") /\ queue' = queue \ {p}
        BY ZenonT(30), <1>5 DEF Spawn, Dequeue, Goto
    <2>2. p \in Peer /\ p \in seen /\ wk[p] = "none"
        BY ZenonT(30), <1>1, <2>1 DEF Typed, Apart, Started
    <2>3. Typed'
        BY ZenonT(30), <1>1, <1>5, <2>1, <2>2, <1>3 DEF Spawn, Typed, SpawnerVars, Goto, Stage
    <2>4. /\ Started' = Started \cup {p} /\ Pending' = Pending
          /\ Cardinality(Holding') = Cardinality(Holding) + 1
          /\ \A x \in Peer : wk'[x] = IF x = p THEN "start" ELSE wk[x]
        BY ZenonT(30), <1>1, <1>3, <2>1, <2>2, Moves DEF Typed, SpawnerVars, Stage, HoldStage, WorkStage
    <2>5. Apart'
        BY ZenonT(30), <1>1, <1>3, <2>1, <2>2, <2>4 DEF Apart, SpawnerVars
    <2>6. Counted'
        BY ZenonT(30), <1>1, <1>3, <2>1, <2>4 DEF Counted, SpawnerVars, Typed
    <2>7. Tokened'
        BY <1>1, <1>2, <1>5, <2>4 DEF Spawn, Tokened, InHand
    <2> QED BY ZenonT(30), <1>3, <2>3, <2>5, <2>6, <2>7 DEF Sums, Fresh, SpawnerVars
<1>6. CASE SpawnerExit
    <2>1. Typed'
        BY ZenonT(30), <1>1, <1>6 DEF SpawnerExit, Typed, SpawnerVars
    <2>2. Pending' = Pending /\ Started' = Started
        BY ZenonT(30), <1>6 DEF SpawnerExit, SpawnerVars, Pending, Started
    <2> QED BY <1>1, <1>3, <1>6, <2>1, <2>2 DEF SpawnerExit, SpawnerVars, Sums, Apart, Counted, Tokened, Fresh
<1> QED BY ZenonT(30), <1>4, <1>5, <1>6

\* addPeerToQuery: the worker that adds a peer is counted itself, so the end is
\* not signalled.
LEMMA AddSums ==
    ASSUME Sums, NEW p \in Peer, AddCloser(p) PROVE Sums'
<1>1. Typed /\ Apart /\ Counted /\ Tokened /\ Fresh
    BY ZenonT(30) DEF Sums
<1> DEFINE r == CHOOSE x \in todo[p] : TRUE
<1>2. r \in todo[p] /\ r \in Peer \cup {Self}
    BY ZenonT(30), <1>1 DEF AddCloser, Typed
<1>3. /\ wk[p] = "adding" /\ todo' = [todo EXCEPT ![p] = @ \ {r}]
      /\ UNCHANGED <<q, run, spawner, tokens, finished, wk, linked, errs, result, toClose, closing, answer>>
    BY ZenonT(30) DEF AddCloser
<1>4. \/ UNCHANGED <<seen, remaining, queue>>
      \/ /\ r # Self /\ r \notin seen /\ seen' = seen \cup {r} /\ remaining' = remaining + 1
         /\ queue' = queue \cup {r} \/ (queue' = queue /\ closing)
    BY ZenonT(30) DEF AddCloser
<1> HIDE DEF r
<1>5. todo' \in [Peer -> SUBSET (Peer \cup {Self})]
    BY ZenonT(30), <1>1, <1>3 DEF Typed
<1>6. Started' = Started /\ Holding' = Holding /\ InHand' = InHand /\ p \in Started /\ p \in seen
    BY ZenonT(30), <1>1, <1>3 DEF Started, Holding, InHand, Apart
<1>7. Tokened' /\ Fresh' /\ run # "local"
    BY ZenonT(30), <1>1, <1>3, <1>6 DEF Tokened, Fresh
<1>8. CASE UNCHANGED <<seen, remaining, queue>>
    <2>1. Typed'
        BY ZenonT(30), <1>1, <1>3, <1>5, <1>8 DEF Typed
    <2>2. Pending' = Pending
        BY ZenonT(30), <1>3, <1>8 DEF Pending
    <2> QED BY ZenonT(30), <1>1, <1>3, <1>6, <1>7, <1>8, <2>1, <2>2 DEF Sums, Apart, Counted
<1>9. CASE /\ r # Self /\ r \notin seen /\ seen' = seen \cup {r} /\ remaining' = remaining + 1
           /\ queue' = queue \cup {r} \/ (queue' = queue /\ closing)
    <2>1. r \in Peer /\ wk[r] = "none"
        BY ZenonT(30), <1>1, <1>2, <1>9 DEF Apart, Started
    <2>2. remaining' \in Nat /\ queue' \subseteq seen' /\ seen' \subseteq Peer
        BY <1>1, <1>9, <2>1 DEF Typed
    <2>3. Typed'
        BY ZenonT(30), <1>1, <1>3, <1>5, <1>9, <2>2 DEF Typed
    <2>4. Pending' = Pending \cup {r} /\ r \notin Pending /\ Pending \in SUBSET Peer /\ p \in Pending
        BY ZenonT(30), <1>1, <1>3, <1>6, <1>9, <2>1 DEF Pending, Typed, WorkStage
    <2>5. Cardinality(Pending') = Cardinality(Pending) + 1 /\ Cardinality(Pending) # 0
        BY ZenonT(30), <2>1, <2>4, OneMore, FinitePeers, FS_EmptySet
    <2>6. ~finished
        BY ZenonT(30), <1>1, <2>5 DEF Counted
    <2>7. Counted'
        BY ZenonT(30), <1>1, <1>3, <1>9, <2>5, <2>6 DEF Counted
    <2>8. Apart'
        BY ZenonT(30), <1>1, <1>6, <1>9, <2>1 DEF Apart, Started
    <2> QED BY ZenonT(30), <1>7, <2>3, <2>7, <2>8 DEF Sums
<1> QED BY ZenonT(30), <1>4, <1>8, <1>9

\* The end of a worker, which signals the end of the search when it is the last.
LEMMA EndSums ==
    ASSUME Sums, NEW p \in Peer, WorkerEnd(p) PROVE Sums'
<1>1. Typed /\ Apart /\ Counted /\ Tokened /\ Fresh
    BY ZenonT(30) DEF Sums
<1>2. /\ wk[p] = "ending" /\ remaining' = remaining - 1 /\ finished' = (remaining' = 0)
      /\ Goto(p, "putting")
      /\ UNCHANGED <<q, run, spawner, tokens, queue, seen, todo, linked, errs, result, toClose, closing, answer>>
    BY ZenonT(30) DEF WorkerEnd
<1>3. p \in seen /\ p \in Started /\ run # "local"
    BY ZenonT(30), <1>1, <1>2 DEF Apart, Started, Fresh
<1>4. /\ wk' \in [Peer -> Stage] /\ Started' = Started \cup {p}
      /\ \A x \in Peer : wk'[x] = IF x = p THEN "putting" ELSE wk[x]
      /\ Holding' = Holding
      /\ Cardinality(Pending') = Cardinality(Pending) - 1
    <2>1. /\ "putting" \in Stage \ {"none"} /\ wk[p] \in HoldStage /\ "putting" \in HoldStage
          /\ wk[p] \in WorkStage /\ "putting" \notin WorkStage
        BY <1>2 DEF Stage, HoldStage, WorkStage
    <2>2. wk \in [Peer -> Stage] /\ seen \in SUBSET Peer /\ UNCHANGED seen
        BY ZenonT(30), <1>1, <1>2 DEF Typed
    <2> QED BY ZenonT(30), <1>2, <1>3, <2>1, <2>2, Moves
<1>5. Pending' \in SUBSET Peer
    BY ZenonT(30), <1>1, <1>2 DEF Pending, Typed
<1>6. remaining' = Cardinality(Pending') /\ remaining' \in Nat /\ finished' \in BOOLEAN
    BY ZenonT(30), <1>1, <1>2, <1>4, <1>5, FinitePeers DEF Counted
<1>7. Typed'
    BY ZenonT(30), <1>1, <1>2, <1>4, <1>6 DEF Typed
<1>8. Apart'
    BY ZenonT(30), <1>1, <1>2, <1>3, <1>4 DEF Apart
<1>9. Counted'
    BY ZenonT(30), <1>1, <1>2, <1>4, <1>6 DEF Counted, Typed
<1>10. Tokened' /\ Fresh'
    BY ZenonT(30), <1>1, <1>2, <1>3, <1>4 DEF Tokened, InHand, Fresh
<1> QED BY ZenonT(30), <1>7, <1>8, <1>9, <1>10 DEF Sums

\* The end of the search.
LEMMA CloseSums ==
    ASSUME Sums, CloseProc \/ DoneReceived \/ RunReturns \/ UNCHANGED vars PROVE Sums'
<1>1. Typed /\ Apart /\ Counted /\ Tokened /\ Fresh
    BY ZenonT(30) DEF Sums
<1>2. UNCHANGED <<q, spawner, tokens, queue, seen, remaining, finished, wk, todo, linked, errs, result, toClose>>
    BY ZenonT(30) DEF CloseProc, DoneReceived, RunReturns, Finish, vars
<1>3. /\ Pending' = Pending /\ Started' = Started /\ Holding' = Holding /\ InHand' = InHand
    BY ZenonT(30), <1>2 DEF Pending, Started, Holding, InHand
<1>4. ASSUME NEW err \in {"ErrNotFound", "DeadlineExceeded"} PROVE Outcome(err) \in Answer
    <2>1. ASSUME errs # << >> PROVE errs[1].err \in Error
        <3>1. errs \in Seq(Failure)
            BY ZenonT(30), <1>1 DEF Typed
        <3>2. errs[1] \in Failure
            BY <2>1, <3>1
        <3> QED BY ZenonT(30), <3>2 DEF Failure
    <2> QED BY ZenonT(30), <1>1, <2>1 DEF Outcome, Answer, Error, Typed
<1>5. answer' \in Answer /\ run' \in {"local", "running", "closing", "done"} /\ closing' \in BOOLEAN
    BY ZenonT(30), <1>1, <1>4 DEF CloseProc, DoneReceived, RunReturns, Finish, vars, Typed
<1>6. (closing => closing') /\ (run' = "local" => run = "local" /\ closing' = closing)
    BY DEF CloseProc, DoneReceived, RunReturns, Finish, vars
<1>7. Typed'
    BY ZenonT(30), <1>1, <1>2, <1>5 DEF Typed
<1> QED BY ZenonT(30), <1>1, <1>2, <1>3, <1>6, <1>7 DEF Sums, Apart, Counted, Tokened, Fresh

LEMMA NextSums ==
    ASSUME Sums, [Next]_vars PROVE Sums'
BY ZenonT(30), CallerSums, SpawnerSums, WorkerSums, AddSums, EndSums, CloseSums DEF Next, Worker

\* The queued and the working are pending, apart from each other.
LEMMA PendingParts ==
    ASSUME Sums
    PROVE  /\ Pending \in SUBSET Peer /\ Pending \in SUBSET seen /\ seen \in SUBSET Peer
           /\ queue \in SUBSET Pending /\ Working \in SUBSET Pending
           /\ queue \cap Working = {} /\ (~closing => Pending = queue \cup Working)
           /\ finished => Pending = {}
<1>1. Typed /\ Apart /\ Counted
    BY ZenonT(30) DEF Sums
<1>2. Working = {p \in Peer : wk[p] \in WorkStage}
    BY ZenonT(30) DEF Working, WorkStage
<1>3. Pending \in SUBSET Peer /\ Pending \in SUBSET seen /\ seen \in SUBSET Peer
    BY ZenonT(30), <1>1 DEF Typed, Pending
<1>4. /\ \A p \in Working : p \in Started /\ p \in seen /\ wk[p] \in WorkStage
      /\ \A p \in queue : p \in Peer /\ p \in seen /\ wk[p] = "none"
    BY ZenonT(30), <1>1, <1>2 DEF Typed, Apart, Started, WorkStage
<1>5. queue \in SUBSET Pending /\ Working \in SUBSET Pending /\ queue \cap Working = {}
    BY ZenonT(30), <1>4 DEF Pending, WorkStage
<1>6. ~closing => Pending = queue \cup Working
    BY ZenonT(30), <1>1, <1>2, <1>3, <1>5 DEF Counted, Pending
<1>7. finished => Pending = {}
    BY ZenonT(30), <1>1, <1>3, FinitePeers, FS_EmptySet DEF Counted
<1> QED BY ZenonT(30), <1>3, <1>5, <1>6, <1>7

LEMMA SumsCount ==
    ASSUME Sums PROVE RemainingCounts
<1>1. Typed /\ Counted /\ Tokened
    BY ZenonT(30) DEF Sums
<1>2. IsFiniteSet(seen) /\ IsFiniteSet(queue) /\ IsFiniteSet(Working)
    BY ZenonT(30), PendingParts, FinitePeers
<1>3. Cardinality(Pending) <= Cardinality(seen) /\ Cardinality(seen) \in Nat
    BY ZenonT(30), <1>2, PendingParts, FS_Subset, FinitePeers
<1>4. remaining \in 0..Cardinality(seen)
    BY <1>1, <1>3 DEF Counted, Typed
<1>5. \A i \in 1..Len(errs) : errs[i].err \in Error
    <2>1. errs \in Seq(Failure)
        BY ZenonT(30), <1>1 DEF Typed
    <2>2. \A i \in 1..Len(errs) : errs[i] \in Failure
        BY <2>1
    <2> QED BY ZenonT(30), <2>2 DEF Failure
<1>6. TypeOK
    BY <1>1, <1>4, <1>5, ZenonT(30) DEF TypeOK, Typed
<1>7. ~closing => remaining = Cardinality(queue) + Cardinality(Working)
    <2>1. Cardinality(queue \cup Working) = Cardinality(queue) + Cardinality(Working) - Cardinality(queue \cap Working)
        BY ZenonT(30), <1>2, FS_Union
    <2>2. Cardinality(queue) \in Nat /\ Cardinality(Working) \in Nat /\ Cardinality(queue \cap Working) = 0
        BY ZenonT(30), <1>2, PendingParts, FS_CardinalityType, FS_EmptySet
    <2>3. ~closing => remaining = Cardinality(queue \cup Working)
        BY ZenonT(30), <1>1, PendingParts DEF Counted
    <2> QED BY <2>1, <2>2, <2>3
<1>8. finished => remaining = 0 /\ queue = {} /\ Working = {}
    BY ZenonT(30), <1>1, PendingParts DEF Counted
<1> QED BY ZenonT(30), <1>1, <1>6, <1>7, <1>8 DEF RemainingCounts, Tokened, InHand

\* peersRemaining counts the peers queued and being processed, so its end is
\* signalled exactly once and never while a worker is under way, and the tokens of
\* rateLimit are never lost nor doubled (spawnWorkers, queryPeer, addPeerToQuery).
THEOREM QueryCounts == Spec => []RemainingCounts
<1>1. Init => Sums
    BY ZenonT(30), InitSums
<1>2. Sums /\ [Next]_vars => Sums'
    BY ZenonT(30), NextSums
<1>3. Sums => RemainingCounts
    BY ZenonT(30), SumsCount
<1> QED BY <1>1, <1>2, <1>3, PTL DEF Spec

-----------------------------------------------------------------------------
EndStage == {"ending", "putting", "exited"}

\* A worker reports at most one error.
FailsOnce ==
    /\ \A i, j \in 1..Len(errs) : errs[i].peer = errs[j].peer => i = j
    /\ \A p \in Failed : wk[p] \in EndStage \cup {"regrabFailed"}
    /\ \A p \in Peer : wk[p] = "regrabFailed" => p \in Failed

\* The peers whose answer was that others are closer.
Tellers == {p \in Peer : /\ wk[p] \in EndStage \cup {"adding"}
                         /\ p \notin Failed /\ ~Holds(p)}

\* Every peer seen was told of by one that has not failed.
Heard ==
    /\ seen # {} => q.start \subseteq seen
    /\ \A S \in SUBSET Peer :
          q.start \subseteq S /\ (\A p \in S \cap Tellers : Closer(p) \subseteq S) => seen \subseteq S

\* What a worker was told is seen when it ends, or is about to be.
Told ==
    \A p \in Peer :
        /\ wk[p] = "adding" => /\ ~Holds(p) /\ todo[p] \subseteq Closer(p)
                               /\ Closer(p) \subseteq seen \cup todo[p]
        /\ wk[p] \in EndStage /\ p \notin Failed =>
              IF Holds(p) THEN result # Nothing ELSE Closer(p) \subseteq seen

\* A result is that of a peer that had it, and proc closes for a reason.
Reasons ==
    /\ result # Nothing => /\ result \in seen \ Failed /\ Holds(result)
                           /\ wk[result] \in EndStage
    /\ toClose => result # Nothing
    /\ closing => finished \/ toClose \/ q.op = "find"
    /\ run = "closing" => finished
    /\ finished => seen # {}

\* Run has returned when all workers have, with what was found by then.
Ended ==
    /\ answer # Nothing => run = "done"
    /\ run = "done" => spawner = "exited" /\ \A p \in Peer : wk[p] \in {"none", "exited"}
    /\ answer = "peers" => finished /\ q.op = "closest"
    /\ run = "done" /\ seen # {} =>
          /\ answer = "found" => result # Nothing
          /\ answer \in Error => Len(errs) = Cardinality(seen)
          /\ answer = "ErrNotFound" => /\ finished /\ result = Nothing
                                       /\ errs = << >> \/ Len(errs) # Cardinality(seen)

Findings == FailsOnce /\ Heard /\ Told /\ Reasons /\ Ended

-----------------------------------------------------------------------------
(* The findings *)

\* The question stays, and with it what a peer tells and holds.
LEMMA SameQuestion ==
    ASSUME UNCHANGED q
    PROVE  \A x : Closer(x)' = Closer(x) /\ (Holds(x)' <=> Holds(x))
<1>1. \A x : Closer(x)' = Closer(x)
    BY ZenonT(30) DEF Closer, KademliaReceiver, betterPeersForHash
<1> QED BY ZenonT(30), <1>1 DEF Holds, HoldsHash, KnowsTarget

\* A worker that has not come to its end has reported nothing, and Run waits for it.
LEMMA NotYet ==
    ASSUME Sums, Findings, NEW p \in Peer, wk[p] # "none", wk[p] # "exited"
    PROVE  /\ run # "done" /\ run # "local" /\ p \in seen /\ answer = Nothing
           /\ wk[p] \notin EndStage \cup {"regrabFailed"} => p \notin Failed
           /\ wk[p] \notin EndStage => result # p
           /\ p \in Pending => ~finished
<1>1. run # "done" /\ answer = Nothing
    BY ZenonT(30) DEF Findings, Ended
<1>2. p \in Started
    BY ZenonT(30) DEF Started
<1>3. p \in seen /\ run # "local"
    BY ZenonT(30), <1>2 DEF Sums, Apart, Fresh
<1>4. wk[p] \notin EndStage \cup {"regrabFailed"} => p \notin Failed
    BY ZenonT(30) DEF Findings, FailsOnce
<1>5. wk[p] \notin EndStage => result # p
    BY ZenonT(30), QueryAssumption DEF Findings, Reasons
<1>6. p \in Pending => ~finished
    BY ZenonT(30), PendingParts
<1> QED BY ZenonT(30), <1>1, <1>3, <1>4, <1>5, <1>6

\* A worker that goes on without telling or reporting anything.
LEMMA StageFindings ==
    ASSUME Sums, Findings, NEW p \in Peer, NEW stage \in Stage, Goto(p, stage), run # "done",
           UNCHANGED <<q, run, seen, todo, errs, result, toClose, closing, answer>>,
           finished => finished', finished' => seen # {},
           \/ /\ wk[p] \notin EndStage \cup {"adding", "regrabFailed"}
              /\ stage \notin EndStage \cup {"adding", "regrabFailed"}
           \/ wk[p] = "regrabFailed" /\ stage = "ending"
           \/ wk[p] = "adding" /\ todo[p] = {} /\ stage = "ending"
           \/ wk[p] \in EndStage /\ stage \in EndStage
    PROVE  Findings'
<1>1. FailsOnce /\ Heard /\ Told /\ Reasons /\ Ended /\ wk \in [Peer -> Stage]
    BY ZenonT(30) DEF Findings, Sums, Typed
<1>2. \A x \in Peer : wk'[x] = IF x = p THEN stage ELSE wk[x]
    BY ZenonT(30), <1>1 DEF Goto
<1>3. Failed' = Failed
    BY ZenonT(30) DEF Failed
<1>4. /\ wk[p] \notin EndStage \cup {"regrabFailed"} => p \notin Failed
      /\ wk[p] = "regrabFailed" => p \in Failed
      /\ result = p => wk[p] \in EndStage
    BY ZenonT(30), <1>1, QueryAssumption DEF FailsOnce, Reasons
<1>5. FailsOnce'
    <2>1. /\ \A x \in Failed : wk'[x] \in EndStage \cup {"regrabFailed"}
          /\ \A x \in Peer : wk'[x] = "regrabFailed" => x \in Failed
        <3>1. Failed \subseteq Peer
            BY ZenonT(30) DEF Failed, Sums, Typed
        <3> QED BY ZenonT(30), <1>1, <1>2, <1>4, <3>1 DEF FailsOnce, EndStage
    <2> QED BY ZenonT(30), <1>1, <1>3, <2>1 DEF FailsOnce
<1>6. \A x : Closer(x)' = Closer(x) /\ (Holds(x)' <=> Holds(x))
    BY ZenonT(30), SameQuestion
<1>7. Tellers' = Tellers
    <2>1. \A x \in Peer : x \notin Failed =>
             (wk'[x] \in EndStage \cup {"adding"} <=> wk[x] \in EndStage \cup {"adding"})
        BY ZenonT(30), <1>2, <1>4 DEF EndStage
    <2> QED BY ZenonT(30), <1>3, <1>6, <2>1 DEF Tellers
<1>8. Heard'
    BY ZenonT(30), <1>1, <1>6, <1>7 DEF Heard
<1>9. Told'
    <2> SUFFICES ASSUME NEW x \in Peer
                 PROVE  /\ wk'[x] = "adding" => /\ ~Holds(x) /\ todo[x] \subseteq Closer(x)
                                                /\ Closer(x) \subseteq seen \cup todo[x]
                        /\ wk'[x] \in EndStage /\ x \notin Failed =>
                              IF Holds(x) THEN result # Nothing ELSE Closer(x) \subseteq seen
        BY ZenonT(30), <1>3, <1>6 DEF Told
    <2>1. /\ wk[x] = "adding" => /\ ~Holds(x) /\ todo[x] \subseteq Closer(x)
                                 /\ Closer(x) \subseteq seen \cup todo[x]
          /\ wk[x] \in EndStage /\ x \notin Failed =>
                IF Holds(x) THEN result # Nothing ELSE Closer(x) \subseteq seen
        BY ZenonT(30), <1>1 DEF Told
    <2>2. CASE x # p
        BY ZenonT(30), <1>2, <2>1, <2>2
    <2>3. CASE x = p
        BY ZenonT(30), <1>2, <1>4, <2>1, <2>3 DEF EndStage
    <2> QED BY ZenonT(30), <2>2, <2>3
<1>10. Reasons'
    <2>1. result # Nothing => wk'[result] \in EndStage
        BY ZenonT(30), <1>1, <1>2, <1>4 DEF Reasons, Sums, Typed, EndStage
    <2> QED BY ZenonT(30), <1>1, <1>3, <1>6, <2>1 DEF Reasons
<1>11. Ended'
    BY ZenonT(30), <1>1 DEF Ended
<1> QED BY ZenonT(30), <1>5, <1>8, <1>9, <1>10, <1>11 DEF Findings

\* A worker whose peer cannot be reached, does not answer or refuses.
LEMMA FailFindings ==
    ASSUME Sums, Findings, NEW p \in Peer, NEW e \in Error, Fail(p, e),
           NEW stage \in {"ending", "regrabFailed"}, Goto(p, stage), wk[p] \in {"dialling", "querying"},
           UNCHANGED <<q, run, seen, todo, result, toClose, closing, answer, finished>>
    PROVE  Findings'
<1>1. FailsOnce /\ Heard /\ Told /\ Reasons /\ Ended /\ wk \in [Peer -> Stage] /\ Typed
    BY ZenonT(30) DEF Findings, Sums, Typed
<1>2. \A x \in Peer : wk'[x] = IF x = p THEN stage ELSE wk[x]
    BY ZenonT(30), <1>1 DEF Goto
<1>3. p \in seen /\ p \notin Failed /\ result # p /\ run # "done"
    BY ZenonT(30), NotYet DEF EndStage
<1>4. /\ Len(errs') = Len(errs) + 1 /\ errs'[Len(errs) + 1].peer = p
      /\ \A i \in 1..Len(errs) : errs'[i] = errs[i]
    BY ZenonT(30), <1>1, <1>3, FailTyped
<1>5. Len(errs) \in Nat /\ 1..Len(errs') = 1..Len(errs) \cup {Len(errs) + 1} /\ Len(errs) + 1 \notin 1..Len(errs)
    <2>1. errs \in Seq(Failure)
        BY ZenonT(30), <1>1 DEF Typed
    <2>2. Len(errs) \in Nat
        BY ONLY <2>1
    <2> DEFINE k == Len(errs)
               k2 == Len(errs')
    <2>3. k \in Nat /\ k2 = k + 1
        BY ZenonT(30), <1>4, <2>2
    <2> HIDE DEF k, k2
    <2>4. 1..k2 = 1..k \cup {k + 1} /\ k + 1 \notin 1..k
        BY ONLY <2>3
    <2> QED BY ZenonT(30), <2>3, <2>4 DEF k, k2
<1>6. Failed' = Failed \cup {p}
    <2>1. Failed' = {errs'[i].peer : i \in 1..Len(errs')}
        BY ZenonT(30) DEF Failed
    <2>2. \A x \in Failed' : x \in Failed \cup {p}
        <3>1. ASSUME NEW i \in 1..Len(errs') PROVE errs'[i].peer \in Failed \cup {p}
            <4>1. CASE i \in 1..Len(errs)
                BY ZenonT(30), <1>4, <4>1 DEF Failed
            <4>2. CASE i = Len(errs) + 1
                BY ZenonT(30), <1>4, <4>2
            <4> QED BY ZenonT(30), <1>5, <4>1, <4>2
        <3> QED BY ZenonT(30), <2>1, <3>1
    <2>3. \A i \in 1..Len(errs) : errs[i].peer \in Failed'
        BY ZenonT(30), <1>4, <1>5, <2>1
    <2>4. p \in Failed'
        BY ZenonT(30), <1>4, <1>5, <2>1
    <2> QED BY ZenonT(30), <2>2, <2>3, <2>4 DEF Failed
<1>7. FailsOnce'
    <2>1. ASSUME NEW i \in 1..Len(errs'), NEW j \in 1..Len(errs'), errs'[i].peer = errs'[j].peer
          PROVE  i = j
        <3>1. \A k \in 1..Len(errs) : errs'[k].peer = errs[k].peer /\ errs[k].peer # p
            BY ZenonT(30), <1>3, <1>4 DEF Failed
        <3> QED BY ZenonT(30), <1>1, <1>4, <1>5, <2>1, <3>1 DEF FailsOnce
    <2>2. \A x \in Failed' : wk'[x] \in EndStage \cup {"regrabFailed"}
        <3>1. Failed \subseteq Peer
            BY ZenonT(30), <1>1 DEF Failed, Typed
        <3> QED BY ZenonT(30), <1>1, <1>2, <1>6, <3>1 DEF FailsOnce, EndStage
    <2>3. \A x \in Peer : wk'[x] = "regrabFailed" => x \in Failed'
        BY ZenonT(30), <1>1, <1>2, <1>6 DEF FailsOnce
    <2> QED BY ZenonT(30), <2>1, <2>2, <2>3 DEF FailsOnce
<1>8. \A x : Closer(x)' = Closer(x) /\ (Holds(x)' <=> Holds(x))
    BY ZenonT(30), SameQuestion
<1>9. Tellers' = Tellers
    <2>1. \A x \in Peer : (wk'[x] \in EndStage \cup {"adding"} /\ x \notin Failed')
                             <=> (wk[x] \in EndStage \cup {"adding"} /\ x \notin Failed)
        BY ZenonT(30), <1>2, <1>6 DEF EndStage
    <2> QED BY ZenonT(30), <1>8, <2>1 DEF Tellers
<1>10. Heard'
    BY ZenonT(30), <1>1, <1>8, <1>9 DEF Heard
<1>11. Told'
    <2> SUFFICES ASSUME NEW x \in Peer
                 PROVE  /\ wk'[x] = "adding" => /\ ~Holds(x) /\ todo[x] \subseteq Closer(x)
                                                /\ Closer(x) \subseteq seen \cup todo[x]
                        /\ wk'[x] \in EndStage /\ x \notin Failed' =>
                              IF Holds(x) THEN result # Nothing ELSE Closer(x) \subseteq seen
        BY ZenonT(30), <1>8 DEF Told
    <2>1. /\ wk[x] = "adding" => /\ ~Holds(x) /\ todo[x] \subseteq Closer(x)
                                 /\ Closer(x) \subseteq seen \cup todo[x]
          /\ wk[x] \in EndStage /\ x \notin Failed =>
                IF Holds(x) THEN result # Nothing ELSE Closer(x) \subseteq seen
        BY ZenonT(30), <1>1 DEF Told
    <2> QED BY ZenonT(30), <1>2, <1>6, <2>1
<1>12. Reasons'
    <2>1. result # Nothing => wk'[result] \in EndStage /\ result \notin Failed'
        BY ZenonT(30), <1>1, <1>2, <1>3, <1>6 DEF Reasons, Typed
    <2> QED BY ZenonT(30), <1>1, <1>8, <2>1 DEF Reasons
<1>13. Ended'
    BY ZenonT(30), <1>1, <1>3 DEF Ended
<1> QED BY ZenonT(30), <1>7, <1>10, <1>11, <1>12, <1>13 DEF Findings

\* A worker whose peer has what is looked for, or tells of others.
LEMMA AnswerFindings ==
    ASSUME Sums, Findings, NEW p \in Peer, wk[p] = "querying", UNCHANGED errs, UNCHANGED AskVars,
           \/ /\ Holds(p) /\ result' = p /\ toClose' = TRUE /\ Goto(p, "ending") /\ UNCHANGED todo
           \/ /\ ~Holds(p) /\ todo' = [todo EXCEPT ![p] = Closer(p)] /\ Goto(p, "adding")
              /\ UNCHANGED <<result, toClose>>
    PROVE  Findings'
<1>1. FailsOnce /\ Heard /\ Told /\ Reasons /\ Ended /\ wk \in [Peer -> Stage] /\ Typed
    BY ZenonT(30) DEF Findings, Sums, Typed
<1>2. UNCHANGED <<q, run, seen, errs, closing, answer, finished>>
    BY ZenonT(30) DEF AskVars
<1>3. p \in seen /\ p \notin Failed /\ result # p /\ run # "done"
    BY ZenonT(30), NotYet DEF EndStage
<1>4. Failed' = Failed
    BY ZenonT(30) DEF Failed
<1>5. \A x : Closer(x)' = Closer(x) /\ (Holds(x)' <=> Holds(x))
    BY ZenonT(30), <1>2, SameQuestion
<1>6. PICK stage \in {"ending", "adding"} : Goto(p, stage)
    BY ZenonT(30)
<1>7. \A x \in Peer : wk'[x] = IF x = p THEN stage ELSE wk[x]
    BY ZenonT(30), <1>1, <1>6 DEF Goto
<1>8. FailsOnce'
    <2>1. Failed \subseteq Peer
        BY ZenonT(30), <1>1 DEF Failed, Typed
    <2>2. /\ \A x \in Failed : wk'[x] \in EndStage \cup {"regrabFailed"}
          /\ \A x \in Peer : wk'[x] = "regrabFailed" => x \in Failed
        BY ZenonT(30), <1>1, <1>3, <1>7, <2>1 DEF FailsOnce, EndStage
    <2> QED BY ZenonT(30), <1>1, <1>4, <2>2 DEF FailsOnce
<1>9. Heard'
    <2>1. Tellers \subseteq Tellers'
        BY ZenonT(30), <1>4, <1>5, <1>7 DEF Tellers, EndStage
    <2> QED BY ZenonT(30), <1>1, <1>2, <1>5, <2>1 DEF Heard
<1>10. result # Nothing => result' # Nothing
    BY ZenonT(30), QueryAssumption
<1>11. Told'
    <2> SUFFICES ASSUME NEW x \in Peer
                 PROVE  /\ wk'[x] = "adding" => /\ ~Holds(x) /\ todo'[x] \subseteq Closer(x)
                                                /\ Closer(x) \subseteq seen \cup todo'[x]
                        /\ wk'[x] \in EndStage /\ x \notin Failed =>
                              IF Holds(x) THEN result' # Nothing ELSE Closer(x) \subseteq seen
        BY ZenonT(30), <1>2, <1>4, <1>5 DEF Told
    <2>1. /\ wk[x] = "adding" => /\ ~Holds(x) /\ todo[x] \subseteq Closer(x)
                                 /\ Closer(x) \subseteq seen \cup todo[x]
          /\ wk[x] \in EndStage /\ x \notin Failed =>
                IF Holds(x) THEN result # Nothing ELSE Closer(x) \subseteq seen
        BY ZenonT(30), <1>1 DEF Told
    <2>2. CASE x # p
        <3>1. todo'[x] = todo[x] /\ wk'[x] = wk[x]
            BY ZenonT(30), <1>1, <1>7, <2>2 DEF Typed
        <3> QED BY ZenonT(30), <1>10, <2>1, <3>1
    <2>3. CASE x = p /\ Goto(p, "ending") /\ Holds(p) /\ result' = p
        BY ZenonT(30), <1>1, <2>3, QueryAssumption DEF Goto
    <2>4. CASE x = p /\ Goto(p, "adding") /\ ~Holds(p) /\ todo' = [todo EXCEPT ![p] = Closer(p)]
        BY ZenonT(30), <1>1, <2>4 DEF Goto, EndStage, Typed
    <2> QED BY ZenonT(30), <2>2, <2>3, <2>4
<1>12. Reasons'
    <2>1. CASE result' = p /\ Holds(p) /\ toClose' = TRUE /\ Goto(p, "ending")
        <3>1. wk'[p] \in EndStage /\ p # Nothing
            BY ZenonT(30), <1>1, <2>1, QueryAssumption DEF Goto, EndStage
        <3> QED BY ZenonT(30), <1>1, <1>2, <1>3, <1>4, <1>5, <2>1, <3>1 DEF Reasons
    <2>2. CASE UNCHANGED <<result, toClose>>
        <3>1. result # Nothing => wk'[result] \in EndStage
            BY ZenonT(30), <1>1, <1>3, <1>7 DEF Reasons, Typed
        <3> QED BY ZenonT(30), <1>1, <1>2, <1>4, <1>5, <2>2, <3>1 DEF Reasons
    <2> QED BY ZenonT(30), <2>1, <2>2
<1>13. Ended'
    BY ZenonT(30), <1>1, <1>2, <1>3 DEF Ended
<1> QED BY ZenonT(30), <1>8, <1>9, <1>11, <1>12, <1>13 DEF Findings

\* addPeerToQuery: what is added was told of by a peer that was itself seen.
LEMMA AddFindings ==
    ASSUME Sums, Findings, NEW p \in Peer, AddCloser(p) PROVE Findings'
<1>1. FailsOnce /\ Heard /\ Told /\ Reasons /\ Ended /\ Typed
    BY ZenonT(30) DEF Findings, Sums
<1> DEFINE r == CHOOSE x \in todo[p] : TRUE
<1>2. r \in todo[p]
    BY ZenonT(30) DEF AddCloser
<1>3. /\ wk[p] = "adding" /\ todo' = [todo EXCEPT ![p] = @ \ {r}]
      /\ UNCHANGED <<q, run, spawner, tokens, finished, wk, linked, errs, result, toClose, closing, answer>>
    BY ZenonT(30) DEF AddCloser
<1>4. ((r = Self \/ r \in seen) /\ seen' = seen) \/ seen' = seen \cup {r}
    BY ZenonT(30) DEF AddCloser
<1> HIDE DEF r
<1>5. p \in seen /\ p \notin Failed /\ result # p /\ run # "done"
    BY ZenonT(30), <1>3, NotYet DEF EndStage
<1>6. Failed' = Failed
    BY ZenonT(30), <1>3 DEF Failed
<1>7. \A x : Closer(x)' = Closer(x) /\ (Holds(x)' <=> Holds(x))
    BY ZenonT(30), <1>3, SameQuestion
<1>8. ~Holds(p) /\ todo[p] \subseteq Closer(p) /\ Closer(p) \subseteq seen \cup todo[p] /\ Closer(p) \subseteq Peer
    BY ZenonT(30), <1>1, <1>3, CloserPeers DEF Told
<1>9. r \in Peer /\ r # Self /\ seen \subseteq seen' /\ r \in seen'
    BY ZenonT(30), <1>2, <1>4, <1>8, QueryAssumption
<1>10. Tellers' = Tellers /\ p \in Tellers
    BY ZenonT(30), <1>3, <1>5, <1>6, <1>7, <1>8 DEF Tellers
<1>11. FailsOnce'
    BY ZenonT(30), <1>1, <1>3, <1>6 DEF FailsOnce
<1>12. Heard'
    <2>1. ASSUME NEW S \in SUBSET Peer, q.start \subseteq S, \A x \in S \cap Tellers : Closer(x) \subseteq S
          PROVE  seen' \subseteq S
        <3>1. seen \subseteq S
            BY ZenonT(30), <1>1, <2>1 DEF Heard
        <3>2. Closer(p) \subseteq S
            BY ZenonT(30), <1>5, <1>10, <2>1, <3>1
        <3> QED BY ZenonT(30), <1>2, <1>4, <1>8, <3>1, <3>2
    <2>2. q.start \subseteq seen'
        BY ZenonT(30), <1>1, <1>5, <1>9 DEF Heard
    <2> QED BY ZenonT(30), <1>3, <1>7, <1>10, <2>1, <2>2 DEF Heard
<1>13. Told'
    <2> SUFFICES ASSUME NEW x \in Peer
                 PROVE  /\ wk[x] = "adding" => /\ ~Holds(x) /\ todo'[x] \subseteq Closer(x)
                                               /\ Closer(x) \subseteq seen' \cup todo'[x]
                        /\ wk[x] \in EndStage /\ x \notin Failed =>
                              IF Holds(x) THEN result # Nothing ELSE Closer(x) \subseteq seen'
        BY ZenonT(30), <1>3, <1>6, <1>7 DEF Told
    <2>1. /\ wk[x] = "adding" => /\ ~Holds(x) /\ todo[x] \subseteq Closer(x)
                                 /\ Closer(x) \subseteq seen \cup todo[x]
          /\ wk[x] \in EndStage /\ x \notin Failed =>
                IF Holds(x) THEN result # Nothing ELSE Closer(x) \subseteq seen
        BY ZenonT(30), <1>1 DEF Told
    <2>2. todo'[x] = IF x = p THEN todo[p] \ {r} ELSE todo[x]
        BY ZenonT(30), <1>1, <1>3 DEF Typed
    <2>3. todo'[x] \subseteq todo[x] /\ todo[x] \subseteq todo'[x] \cup {r}
        BY ZenonT(30), <2>2
    <2> QED BY ZenonT(30), <1>9, <2>1, <2>3
<1>14. Reasons'
    BY ZenonT(30), <1>1, <1>3, <1>6, <1>7, <1>9 DEF Reasons
<1>15. Ended'
    BY ZenonT(30), <1>1, <1>3, <1>5 DEF Ended
<1> QED BY ZenonT(30), <1>11, <1>12, <1>13, <1>14, <1>15 DEF Findings

\* The workers.
LEMMA WorkerFindings ==
    ASSUME Sums, Sums', Findings, NEW p \in Peer, Worker(p) PROVE Findings'
<1>1. CASE WorkerStart(p)
    <2>1. run # "done" /\ wk[p] = "start" /\ (finished => seen # {})
        BY ZenonT(30), <1>1, NotYet DEF WorkerStart, Findings, Reasons
    <2> QED BY ZenonT(30), <1>1, <2>1, StageFindings DEF WorkerStart, Stage, EndStage
<1>2. CASE Dial(p)
    <2>1. run # "done" /\ wk[p] = "dialling" /\ (finished => seen # {})
        BY ZenonT(30), <1>2, NotYet DEF Dial, Findings, Reasons
    <2>2. CASE Goto(p, "regrab") /\ UNCHANGED errs
        BY ZenonT(30), <1>2, <2>1, <2>2, StageFindings DEF Dial, Stage, EndStage
    <2>3. CASE Goto(p, "regrabFailed") /\ Fail(p, "net")
        BY ZenonT(30), <1>2, <2>1, <2>3, FailFindings DEF Dial, Error
    <2> QED BY ZenonT(30), <1>2, <2>2, <2>3 DEF Dial
<1>3. CASE Regrab(p)
    <2>1. run # "done" /\ wk[p] \in {"regrab", "regrabFailed"} /\ (finished => seen # {})
        BY ZenonT(30), <1>3, NotYet DEF Regrab, Findings, Reasons
    <2> QED BY ZenonT(30), <1>3, <2>1, StageFindings DEF Regrab, Stage, EndStage
<1>4. CASE Answered(p)
    <2>1. wk[p] = "querying" /\ UNCHANGED AskVars
        BY ZenonT(30), <1>4 DEF Answered
    <2>2. CASE (\E e \in Refuses(p) : Fail(p, e)) /\ Goto(p, "ending") /\ UNCHANGED <<todo, result, toClose>>
        <3>1. \E e \in Error : Fail(p, e)
            BY ZenonT(30), <2>2 DEF Refuses, Error
        <3> QED BY ZenonT(30), <2>1, <2>2, <3>1, FailFindings DEF AskVars
    <2>3. CASE ~((\E e \in Refuses(p) : Fail(p, e)) /\ Goto(p, "ending") /\ UNCHANGED <<todo, result, toClose>>)
        BY ZenonT(30), <1>4, <2>1, <2>3, AnswerFindings DEF Answered
    <2> QED BY ZenonT(30), <2>2, <2>3
<1>5. CASE AskFails(p)
    BY ZenonT(30), <1>5, FailFindings DEF AskFails, AskVars, Error
<1>6. CASE AddCloser(p)
    BY ZenonT(30), <1>6, AddFindings
<1>7. CASE Added(p)
    <2>1. run # "done" /\ wk[p] = "adding" /\ (finished => seen # {})
        BY ZenonT(30), <1>7, NotYet DEF Added, Findings, Reasons
    <2> QED BY ZenonT(30), <1>7, <2>1, StageFindings DEF Added, Stage
<1>8. CASE WorkerEnd(p)
    <2>1. run # "done" /\ wk[p] = "ending" /\ p \in seen
        BY ZenonT(30), <1>8, NotYet DEF WorkerEnd
    <2>2. ~finished
        BY ZenonT(30), <2>1, NotYet DEF Pending, WorkStage
    <2> QED BY ZenonT(30), <1>8, <2>1, <2>2, StageFindings DEF WorkerEnd, Stage, EndStage
<1>9. CASE WorkerPut(p)
    <2>1. run # "done" /\ wk[p] = "putting" /\ (finished => seen # {})
        BY ZenonT(30), <1>9, NotYet DEF WorkerPut, Findings, Reasons
    <2> QED BY ZenonT(30), <1>9, <2>1, StageFindings DEF WorkerPut, Stage, EndStage
<1> QED BY ZenonT(30), <1>1, <1>2, <1>3, <1>4, <1>5, <1>6, <1>7, <1>8, <1>9 DEF Worker

\* Steps that neither a worker nor the set of peers seen has a part in.
LEMMA SameFindings ==
    ASSUME FailsOnce, Heard, Told, UNCHANGED <<q, seen, wk, todo, errs, result>>
    PROVE  /\ FailsOnce' /\ Heard' /\ Told' /\ Failed' = Failed
           /\ \A x : Closer(x)' = Closer(x) /\ (Holds(x)' <=> Holds(x))
<1>1. Failed' = Failed
    BY ZenonT(30) DEF Failed
<1>2. \A x : Closer(x)' = Closer(x) /\ (Holds(x)' <=> Holds(x))
    BY ZenonT(30), SameQuestion
<1>3. Tellers' = Tellers
    BY ZenonT(30), <1>1, <1>2 DEF Tellers
<1>4. FailsOnce'
    BY ZenonT(30), <1>1 DEF FailsOnce
<1>5. Heard'
    BY ZenonT(30), <1>2, <1>3 DEF Heard
<1>6. Told'
    BY ZenonT(30), <1>1, <1>2 DEF Told
<1> QED BY ZenonT(30), <1>1, <1>2, <1>4, <1>5, <1>6

LEMMA InitFindings ==
    ASSUME Init PROVE Findings
<1>1. Failed = {} /\ errs = << >> /\ Len(errs) = 0
    BY DEF Init, Failed
<1>2. FailsOnce
    BY <1>1 DEF FailsOnce, Init
<1>3. Heard /\ Told
    BY ZenonT(30) DEF Heard, Told, Init, EndStage
<1> QED BY ZenonT(30), <1>2, <1>3 DEF Findings, Reasons, Ended, Init, Nothing

\* The caller, up to Run.
LEMMA CallerFindings ==
    ASSUME Sums, Findings, GetLocally \/ FindLocally \/ ClosestOfNone \/ StartRun PROVE Findings'
<1>1. FailsOnce /\ Heard /\ Told /\ Reasons /\ Ended /\ Typed /\ Fresh
    BY ZenonT(30) DEF Findings, Sums
<1>2. run = "local" /\ UNCHANGED <<q, finished, wk, todo, linked, errs, result, toClose, closing>>
    BY ZenonT(30) DEF GetLocally, FindLocally, ClosestOfNone, StartRun, Return
<1>3. /\ spawner = "exited" /\ seen = {} /\ errs = << >> /\ ~finished /\ ~closing
      /\ \A x \in Peer : wk[x] = "none"
    BY ZenonT(30), <1>1, <1>2 DEF Fresh, Started
<1>4. result = Nothing /\ toClose = FALSE /\ answer = Nothing
    BY ZenonT(30), <1>1, <1>2, <1>3 DEF Reasons, Ended, Typed
<1>5. Reasons' /\ (run' = "closing" => FALSE)
    BY ZenonT(30), <1>2, <1>3, <1>4 DEF Reasons, GetLocally, FindLocally, ClosestOfNone, StartRun, Return
<1>6. CASE StartRun
    <2>1. Failed' = Failed /\ Failed = {} /\ (\A x : Closer(x)' = Closer(x) /\ (Holds(x)' <=> Holds(x)))
        BY <1>2, <1>3, SameQuestion DEF Failed
    <2>2. FailsOnce' /\ Told'
        BY <1>2, <1>3, <2>1 DEF FailsOnce, Told, EndStage
    <2>3. Heard'
        BY ZenonT(30), <1>2, <1>6 DEF Heard, StartRun
    <2>4. Ended'
        BY ZenonT(30), <1>2, <1>4, <1>6 DEF Ended, StartRun, Nothing
    <2> QED BY ZenonT(30), <1>5, <2>2, <2>3, <2>4 DEF Findings
<1>7. ASSUME NEW a \in Answer \ {"peers"}, Return(a) PROVE Findings'
    <2>1. UNCHANGED <<q, seen, wk, todo, errs, result>>
        BY ZenonT(30), <1>7 DEF Return
    <2>2. Ended'
        BY ZenonT(30), <1>3, <1>7 DEF Ended, Return
    <2> QED BY ZenonT(30), <1>1, <1>5, <2>1, <2>2, SameFindings DEF Findings
<1> QED BY ZenonT(30), <1>6, <1>7 DEF GetLocally, FindLocally, ClosestOfNone, Answer

\* spawnWorkers.
LEMMA SpawnerFindings ==
    ASSUME Sums, Findings, TakeToken \/ Spawn \/ SpawnerExit PROVE Findings'
<1>1. FailsOnce /\ Heard /\ Told /\ Reasons /\ Ended /\ Typed /\ Apart
    BY ZenonT(30) DEF Findings, Sums
<1>2. UNCHANGED SpawnerVars /\ run # "done"
    BY ZenonT(30), <1>1 DEF TakeToken, Spawn, SpawnerExit, Ended
<1>3. CASE Spawn
    <2>1. PICK p \in queue : Goto(p, "start")
        BY ZenonT(30), <1>3 DEF Spawn, Goto
    <2>2. p \in Peer /\ wk[p] = "none" /\ (finished => seen # {})
        BY ZenonT(30), <1>1, <2>1 DEF Typed, Apart, Started, Reasons
    <2> QED BY ZenonT(30), <1>2, <2>1, <2>2, StageFindings DEF SpawnerVars, Stage, EndStage
<1>4. CASE TakeToken \/ SpawnerExit
    <2>1. UNCHANGED <<q, run, seen, wk, todo, errs, result, toClose, closing, finished, answer>>
        BY ZenonT(30), <1>2, <1>4 DEF SpawnerVars, TakeToken, SpawnerExit
    <2>2. FailsOnce' /\ Heard' /\ Told' /\ Failed' = Failed /\ \A x : Holds(x)' <=> Holds(x)
        BY ZenonT(30), <1>1, <2>1, SameFindings
    <2>3. Reasons'
        BY ZenonT(30), <1>1, <2>1, <2>2 DEF Reasons
    <2>4. Ended'
        BY ZenonT(30), <1>1, <1>2, <2>1 DEF Ended
    <2> QED BY ZenonT(30), <2>2, <2>3, <2>4 DEF Findings
<1> QED BY ZenonT(30), <1>3, <1>4

\* The end of the search.
LEMMA CloseFindings ==
    ASSUME Sums, Findings, CloseProc \/ DoneReceived \/ RunReturns \/ UNCHANGED vars PROVE Findings'
<1>1. FailsOnce /\ Heard /\ Told /\ Reasons /\ Ended /\ Typed
    BY ZenonT(30) DEF Findings, Sums
<1>2. UNCHANGED <<q, spawner, seen, finished, wk, todo, errs, result, toClose>>
    BY ZenonT(30) DEF CloseProc, DoneReceived, RunReturns, Finish, vars
<1>3. FailsOnce' /\ Heard' /\ Told' /\ Failed' = Failed /\ \A x : Holds(x)' <=> Holds(x)
    BY ZenonT(30), <1>1, <1>2, SameFindings
<1>4. /\ closing' => closing \/ toClose \/ q.op = "find" \/ finished
      /\ run' = "closing" => run = "closing" \/ finished
    BY DEF CloseProc, DoneReceived, RunReturns, Finish, vars
<1>5. Reasons'
    BY ZenonT(30), <1>1, <1>2, <1>3, <1>4 DEF Reasons
<1>6. CASE CloseProc \/ DoneReceived
    <2>1. run' # "done" /\ answer = Nothing /\ answer' = answer
        BY ZenonT(30), <1>1, <1>6 DEF CloseProc, DoneReceived, Ended
    <2>2. Ended'
        BY ZenonT(30), <1>1, <1>2, <2>1 DEF Ended, Nothing
    <2> QED BY ZenonT(30), <1>3, <1>5, <2>2 DEF Findings
<1>7. CASE UNCHANGED vars
    <2>1. Ended'
        BY ZenonT(30), <1>1, <1>7 DEF Ended, vars
    <2> QED BY ZenonT(30), <1>3, <1>5, <2>1 DEF Findings
<1>8. CASE RunReturns
    <2>1. PICK err \in {"ErrNotFound", "DeadlineExceeded"} :
             Closed /\ answer' = Outcome(err) /\ (err = "ErrNotFound" => run = "closing")
        BY ZenonT(30), <1>8 DEF RunReturns, Finish
    <2>2. ASSUME errs # << >> PROVE errs[1].err \in Error
        <3>1. errs \in Seq(Failure)
            BY ZenonT(30), <1>1 DEF Typed
        <3>2. errs[1] \in Failure
            BY <2>2, <3>1
        <3> QED BY ZenonT(30), <3>2 DEF Failure
    <2>3. /\ answer' = "found" => result # Nothing
          /\ answer' = "peers" => result = Nothing /\ q.op = "closest"
          /\ answer' \in Error => Len(errs) = Cardinality(seen)
          /\ answer' = "ErrNotFound" => /\ err = "ErrNotFound" /\ result = Nothing
                                        /\ errs = << >> \/ Len(errs) # Cardinality(seen)
        BY ZenonT(30), <2>1, <2>2 DEF Outcome, Error
    <2>4. answer' = "peers" => finished
        BY ZenonT(30), <1>1, <2>1, <2>3 DEF Closed, Reasons
    <2>5. answer' = "ErrNotFound" => finished
        BY ZenonT(30), <1>1, <2>1, <2>3 DEF Reasons
    <2>6. run' = "done"
        BY ZenonT(30), <1>8 DEF RunReturns, Finish
    <2>7. Ended'
        BY ZenonT(30), <1>2, <2>1, <2>3, <2>4, <2>5, <2>6 DEF Ended, Closed
    <2> QED BY ZenonT(30), <1>3, <1>5, <2>7 DEF Findings
<1> QED BY ZenonT(30), <1>6, <1>7, <1>8

LEMMA NextFindings ==
    ASSUME Sums, Findings, [Next]_vars PROVE Sums' /\ Findings'
BY ZenonT(30), NextSums, CallerFindings, SpawnerFindings, WorkerFindings, CloseFindings DEF Next

-----------------------------------------------------------------------------
(* The closest of a set of peers *)

\* A non-empty set of naturals has a least member.
LEMMA LeastNatural ==
    ASSUME NEW T, T \subseteq Nat, T # {}
    PROVE  \E n \in T : \A m \in T : n <= m
<1>1. PICK n \in T : \A m \in T : ~(<<m, n>> \in OpToRel(<, Nat))
    BY ZenonT(30), NatLessThanWellFounded, WFMin
<1>2. \A m \in T : ~(m < n)
    BY ZenonT(30), <1>1 DEF OpToRel
<1> QED BY <1>2

\* How many of S are nearer to the key than p.
Below(S, p) == {r \in S : Dist[r] < Dist[p]}
Rank(S, p) == Cardinality(Below(S, p))

\* The rank of a peer grows with its distance.
LEMMA RankGrows ==
    ASSUME NEW S \in SUBSET Peer, NEW p \in S, NEW r \in S
    PROVE  /\ Rank(S, p) \in Nat /\ Rank(S, r) \in Nat
           /\ Dist[p] < Dist[r] => Rank(S, p) + 1 <= Rank(S, r)
<1>1. Below(S, p) \in SUBSET Peer /\ Below(S, r) \in SUBSET Peer /\ p \notin Below(S, p)
    BY QueryAssumption DEF Below
<1>2. Rank(S, p) \in Nat /\ Rank(S, r) \in Nat /\ IsFiniteSet(Below(S, r))
    BY ZenonT(30), <1>1, FinitePeers DEF Rank
<1>3. ASSUME Dist[p] < Dist[r] PROVE Rank(S, p) + 1 <= Rank(S, r)
    <2>1. Below(S, p) \cup {p} \in SUBSET Below(S, r)
        BY <1>3, QueryAssumption DEF Below
    <2>2. Cardinality(Below(S, p) \cup {p}) = Rank(S, p) + 1
        BY ZenonT(30), <1>1, OneMore DEF Rank
    <2> QED BY <1>2, <2>1, <2>2, FS_Subset DEF Rank
<1> QED BY ZenonT(30), <1>2, <1>3

\* closestOf returns the KValue nearest, or all if there are not so many
\* (GetClosestPeers sorts the peers seen by distance and cuts the list).
LEMMA ClosestAreNearest ==
    ASSUME NEW S \in SUBSET Peer
    PROVE  /\ Cardinality(closestOf(S)) = Min({KValue, Cardinality(S)})
           /\ \A p \in closestOf(S), r \in S \ closestOf(S) : Dist[p] < Dist[r]
<1> DEFINE C == closestOf(S)
<1>1. C \in SUBSET S /\ \A p \in S : p \in C <=> Rank(S, p) < KValue
    BY ZenonT(30) DEF closestOf, Rank, Below
<1> HIDE DEF C
<1>2. KValue \in Nat /\ KValue > 0 /\ \A p \in S : Dist[p] \in Nat /\ p \in Peer
    BY QueryAssumption
<1>3. \A p \in C, r \in S \ C : Dist[p] < Dist[r]
    <2> SUFFICES ASSUME NEW p \in C, NEW r \in S \ C, ~(Dist[p] < Dist[r]) PROVE FALSE
        BY ZenonT(30)
    <2>1. p # r /\ Dist[r] < Dist[p]
        BY <1>1, <1>2, QueryAssumption
    <2>2. Rank(S, p) \in Nat /\ Rank(S, r) \in Nat /\ Rank(S, r) + 1 <= Rank(S, p)
        BY ZenonT(30), <1>1, <2>1, RankGrows
    <2> QED BY <1>1, <1>2, <2>2
<1>4. IsFiniteSet(C) /\ Cardinality(C) \in Nat /\ Cardinality(S) \in Nat /\ Cardinality(C) <= Cardinality(S)
    BY ZenonT(30), <1>1, FinitePeers, FS_Subset
<1>5. Cardinality(C) <= KValue
    <2> DEFINE f == [p \in C |-> Rank(S, p)]
    <2>1. ASSUME NEW p \in C, NEW r \in C, p # r PROVE Rank(S, p) # Rank(S, r)
        <3>1. Dist[p] < Dist[r] \/ Dist[r] < Dist[p]
            BY <1>1, <1>2, <2>1, QueryAssumption
        <3> QED BY <1>1, <3>1, RankGrows
    <2>2. \A p \in C : Rank(S, p) \in 0..(KValue - 1)
        BY <1>1, <1>2, RankGrows
    <2>3. f \in Injection(C, 0..(KValue - 1))
        BY ZenonT(30), <2>1, <2>2 DEF Injection, IsInjective
    <2>4. IsFiniteSet(0..(KValue - 1)) /\ Cardinality(0..(KValue - 1)) = KValue
        BY <1>2, FS_Interval
    <2> HIDE DEF f
    <2> QED BY <2>3, <2>4, FS_Injection
<1>6. S \ C # {} => Cardinality(C) >= KValue
    <2> SUFFICES ASSUME S \ C # {} PROVE Cardinality(C) >= KValue
        BY ZenonT(30)
    <2> DEFINE T == {Dist[p] : p \in S \ C}
    <2>1. T \subseteq Nat /\ T # {}
        BY ZenonT(30), <1>2
    <2>2. PICK n \in T : \A m \in T : n <= m
        BY ZenonT(30), <2>1, LeastNatural
    <2>3. PICK d \in S \ C : \A p \in S \ C : Dist[d] <= Dist[p]
        BY ZenonT(30), <2>2
    <2>4. Below(S, d) \in SUBSET C
        BY <1>2, <2>3 DEF Below
    <2>5. Rank(S, d) <= Cardinality(C) /\ Rank(S, d) >= KValue /\ Rank(S, d) \in Nat
        BY SMTT(60), <1>1, <1>2, <1>4, <2>3, <2>4, FS_Subset, RankGrows DEF Rank
    <2> QED BY <1>2, <1>4, <2>5
<1>7. Cardinality(C) = IF KValue <= Cardinality(S) THEN KValue ELSE Cardinality(S)
    <2>1. CASE S \ C = {}
        <3>1. C = S
            BY ZenonT(30), <1>1, <2>1
        <3> QED BY <1>2, <1>4, <1>5, <3>1
    <2>2. CASE S \ C # {}
        BY <1>2, <1>4, <1>5, <1>6, <2>2
    <2> QED BY ZenonT(30), <2>1, <2>2
<1>8. ASSUME NEW a \in Nat, NEW b \in Nat PROVE Min({a, b}) = IF a <= b THEN a ELSE b
    BY DEF Min
<1>9. Min({KValue, Cardinality(S)}) = IF KValue <= Cardinality(S) THEN KValue ELSE Cardinality(S)
    BY ZenonT(30), <1>2, <1>4, <1>8
<1> QED BY <1>3, <1>7, <1>9 DEF C

-----------------------------------------------------------------------------
(* The answers *)

\* There are as many errors as peers that failed.
LEMMA ErrorsOfPeers ==
    ASSUME Sums, Findings
    PROVE  Failed \in SUBSET seen /\ Cardinality(Failed) = Len(errs)
<1>1. Typed /\ FailsOnce
    BY ZenonT(30) DEF Sums, Findings
<1>2. Failed \in SUBSET seen /\ Len(errs) \in Nat
    BY <1>1 DEF Typed, Failed
<1> DEFINE I == 1..Len(errs)
           f == [i \in I |-> errs[i].peer]
<1>3. f \in Injection(I, Failed)
    BY ZenonT(30), <1>1 DEF Injection, IsInjective, FailsOnce, Failed
<1>4. f \in Surjection(I, Failed)
    BY ZenonT(30) DEF Surjection, Failed
<1>5. ExistsBijection(I, Failed)
    BY ZenonT(30), <1>3, <1>4 DEF ExistsBijection, Bijection
<1>6. IsFiniteSet(I) /\ Cardinality(I) = Len(errs)
    <2>1. \A n \in Nat : IsFiniteSet(1..n) /\ Cardinality(1..n) = IF 1 > n THEN 0 ELSE n - 1 + 1
        BY FS_Interval
    <2>2. \A n \in Nat : Cardinality(1..n) = n
        BY <2>1
    <2> QED BY ZenonT(30), <1>2, <2>1, <2>2
<1> HIDE DEF I, f
<1> QED BY ZenonT(30), <1>2, <1>5, <1>6, FS_Bijection

\* When the end is signalled every worker has told all it was told.
LEMMA FindingsExhaustive ==
    ASSUME Sums, Findings, finished, result = Nothing
    PROVE  /\ Explored(seen) /\ (\A p \in seen \ Failed : ~Holds(p))
           /\ \A S \in SUBSET Peer : Explored(S) => seen \subseteq S
<1>1. Typed /\ Heard /\ Told /\ Reasons
    BY ZenonT(30) DEF Sums, Findings
<1>2. \A p \in seen : p \in Peer /\ wk[p] \in EndStage
    <2>1. \A p \in seen : wk[p] \notin WorkStage \cup {"none"}
        BY ZenonT(30), PendingParts DEF Pending
    <2> QED BY ZenonT(30), <1>1, <2>1 DEF Typed, Stage, WorkStage, EndStage
<1>3. \A p \in seen \ Failed : ~Holds(p) /\ Closer(p) \subseteq seen
    BY ZenonT(30), <1>1, <1>2 DEF Told
<1>4. Explored(seen)
    BY ZenonT(30), <1>1, <1>3 DEF Explored, Heard, Reasons
<1>5. ASSUME NEW S \in SUBSET Peer, Explored(S) PROVE seen \subseteq S
    <2>1. q.start \subseteq S /\ \A p \in S \cap Tellers : Closer(p) \subseteq S
        BY ZenonT(30), <1>5 DEF Explored, Tellers
    <2> QED BY ZenonT(30), <1>1, <2>1 DEF Heard
<1> QED BY ZenonT(30), <1>3, <1>4, <1>5

LEMMA FindingsJust ==
    ASSUME Sums, Findings PROVE AnswerJust
<1>1. Typed /\ Reasons /\ Ended
    BY ZenonT(30) DEF Sums, Findings
<1>2. seen \in SUBSET Peer /\ IsFiniteSet(seen)
    BY ZenonT(30), PendingParts, FinitePeers
<1>3. Exhaustive
    <2> SUFFICES ASSUME finished, result = Nothing
                 PROVE  /\ Explored(seen) /\ \A S \in SUBSET seen : Explored(S) => S = seen
                        /\ \A p \in seen \ Failed : ~Holds(p)
                        /\ Cardinality(Failed) = Len(errs)
        BY ZenonT(30) DEF Exhaustive
    <2>1. \A S \in SUBSET seen : Explored(S) => S = seen
        BY ZenonT(30), <1>2, FindingsExhaustive
    <2> QED BY ZenonT(30), <2>1, FindingsExhaustive, ErrorsOfPeers
<1>4. ClosestFound
    <2> DEFINE reach == {p \in Peer : \A S \in SUBSET Peer : Explored(S) => p \in S}
    <2> SUFFICES ASSUME answer = "peers", errs = << >>
                 PROVE  /\ Cardinality(closestOf(seen)) = Min({KValue, Cardinality(reach)})
                        /\ \A p \in closestOf(seen), r \in reach \ closestOf(seen) : Dist[p] < Dist[r]
        BY ZenonT(30) DEF ClosestFound
    <2>1. finished /\ result = Nothing
        BY ZenonT(30), <1>1 DEF Ended, Reasons, Holds, HoldsHash, KnowsTarget
    <2>2. reach = seen
        BY ZenonT(30), <1>2, <2>1, FindingsExhaustive
    <2> HIDE DEF reach
    <2> QED BY ZenonT(30), <1>2, <2>2, ClosestAreNearest
<1>5. ASSUME run = "done", seen # {}
      PROVE  /\ answer = "found" => result \in seen \ Failed /\ Holds(result)
             /\ answer \in Error => Failed = seen
             /\ answer = "ErrNotFound" => \E p \in seen \ Failed : ~Holds(p)
    <2>1. answer = "found" => result \in seen \ Failed /\ Holds(result)
        BY ZenonT(30), <1>1, <1>5 DEF Ended, Reasons
    <2>2. answer \in Error => Failed = seen
        <3>1. answer \in Error => Len(errs) = Cardinality(seen)
            BY ZenonT(30), <1>1, <1>5 DEF Ended
        <3> QED BY ZenonT(30), <1>2, <3>1, ErrorsOfPeers, FS_Subset
    <2>3. ASSUME answer = "ErrNotFound" PROVE \E p \in seen \ Failed : ~Holds(p)
        <3>1. finished /\ result = Nothing /\ (errs = << >> \/ Len(errs) # Cardinality(seen))
            BY ZenonT(30), <1>1, <1>5, <2>3 DEF Ended
        <3>2. errs = << >> => Failed = {}
            BY DEF Failed
        <3>3. Failed # seen /\ Failed \subseteq seen
            BY ZenonT(30), <1>5, <3>1, <3>2, ErrorsOfPeers
        <3> QED BY ZenonT(30), <3>1, <3>3, FindingsExhaustive
    <2> QED BY ZenonT(30), <2>1, <2>2, <2>3
<1> QED BY ZenonT(30), <1>3, <1>4, <1>5 DEF AnswerJust

\* A search that ends empty-handed has asked every peer it could hear of, "found"
\* is what a peer had, an error is reported only if every peer failed, and
\* GetClosestPeers returns the nearest of all that can be reached (Run,
\* queryPeer, GetClosestPeers): with any number of peers and for any question.
THEOREM AnswersAreJust == Spec => []AnswerJust
<1>1. Init => Sums /\ Findings
    BY ZenonT(30), InitSums, InitFindings
<1>2. Sums /\ Findings /\ [Next]_vars => Sums' /\ Findings'
    BY ZenonT(30), NextFindings
<1>3. Sums /\ Findings => AnswerJust
    BY ZenonT(30), FindingsJust
<1> QED BY <1>1, <1>2, <1>3, PTL DEF Spec
=============================================================================
