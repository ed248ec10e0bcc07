---------------------------- MODULE AgentChange ----------------------------
(***************************************************************************)
(* A running application changes its agent: updateAgent gives it another   *)
(* identity, or revokes its key for a new one.  The agent, the node's id,  *)
(* the network node, the agent entries of the chain, the keys in the DHT   *)
(* and the blocked list are changed one after the other, without a lock.   *)
(*                                                                         *)
(* A key is its number, and stands for the hash and the peer id that are   *)
(* made from it.  Peers get the DHT's log by gossip with the node.         *)
(***************************************************************************)
EXTENDS Integers, Sequences, FiniteSets

CONSTANTS Caller,      \* the calls of updateAgent that can be under way at once
          OtherNode,   \* other nodes
          MaxKey,      \* bound: keys that are generated
          MaxUpdates,  \* bound: calls of updateAgent
          MaxFaults    \* bound: errors and restarts

ASSUME AgentAssumption == MaxKey \in Nat /\ MaxUpdates \in Nat /\ MaxFaults \in Nat

Key == 0 .. MaxKey
NoKey == -1

VARIABLES
    up,       \* the process runs
    agent,    \* h.agent
    nodeID,   \* h.nodeID and h.nodeIDStr
    node,     \* h.node: its id, whether protocols are started on it, its blocked list
    chain,    \* the agent entries of the source chain
    top,      \* h.agentTopHash
    keys,     \* the key entries of the DHT: a status, and the replacedBy record
    blockedList, \* the blocked list of the DHT
    log,      \* the DHT's change log
    call,     \* the calls of updateAgent
    peer,     \* per peer: the key entries, the blocked list, the index for each node id,
              \* and the messages handled and queued for a retry
    made, updates, faults,
    alone,    \* no call has been started while another one was under way
    calm      \* no call has failed, and the process was not restarted after an update

agentVars == <<up, agent, nodeID, node, chain, top, keys, blockedList, log, call, peer,
               made, updates, faults, alone, calm>>

NoCall == [pc |-> "idle"]
Absent == [status |-> "absent", by |-> NoKey, pub |-> NoKey]
Live(k) == [status |-> "live", by |-> NoKey, pub |-> k]
Entry(a, revokes) == [key |-> a.key, identity |-> a.identity, revokes |-> revokes]

Put(k, from) == [type |-> "put", key |-> k, from |-> from]
ModReq(k, n, from) == [type |-> "mod", key |-> k, new |-> n, from |-> from]
ListAddReq(p, old, new, from) ==
    [type |-> "listadd", peer |-> p, old |-> old, new |-> new, from |-> from]

\* Every variable has a value of its type.
AgentTypeOK ==
    /\ {up, alone, calm} \subseteq BOOLEAN
    /\ agent \in [key : Key, identity : 0 .. MaxUpdates]
    /\ nodeID \in Key
    /\ node \in [id : Key, serving : BOOLEAN, blocked : SUBSET Key]
    /\ \A i \in DOMAIN chain :
          chain[i] \in [key : Key, identity : 0 .. MaxUpdates, revokes : Key \cup {NoKey}]
    /\ \A k \in Key : keys[k].status \in {"absent", "live", "modified"}
    /\ blockedList \subseteq Key
    /\ \A p \in OtherNode : peer[p].blocked \subseteq Key

\* The chain after GenChain: SetupDHT has put the first key.
AgentInit ==
    /\ up = TRUE /\ alone = TRUE /\ calm = TRUE
    /\ agent = [key |-> 0, identity |-> 0] /\ nodeID = 0
    /\ node = [id |-> 0, serving |-> TRUE, blocked |-> {}]
    /\ chain = <<Entry(agent, NoKey)>> /\ top = chain[1]
    /\ keys = [k \in Key |-> IF k = 0 THEN Live(0) ELSE Absent]
    /\ blockedList = {} /\ log = <<Put(0, 0)>>
    /\ call = [c \in Caller |-> NoCall]
    /\ peer = [p \in OtherNode |-> [keys |-> [k \in Key |-> Absent], blocked |-> {},
                               idx |-> [k \in Key |-> 0], seen |-> {}, retry |-> {}]]
    /\ made = 0 /\ updates = 0 /\ faults = 0

-----------------------------------------------------------------------------
(* What a node does with a message, given the key entries it has: it answers *)
(* with a record of what became of it.                                       *)

\* GetValidationResponse for a key: it is in no chain, so it must be the
\* node's own id, and what is sent is the public key of the agent.
GetValidationResponse(k) == IF k = nodeID THEN {agent.key} ELSE {}

\* SelfRevocationWarrant.Verify: the signatures are right, and the old key
\* is replaced by the new one on the DHT of the node that verifies.
Verify(w, ks) == ks[w.old].status = "modified" /\ ks[w.old].by = w.new

\* The key entries after ActionPut.Receive, if the author can be reached.
KeysAfterPut(m, ks, reached) ==
    IF reached /\ GetValidationResponse(m.key) # {}
    THEN [ks EXCEPT ![m.key] = Live(CHOOSE k \in GetValidationResponse(m.key) : TRUE)]
    ELSE ks

\* The key entries after ActionMod.Receive for a key that is there.  The first
\* MOD is carried out, another one meets ErrHashModified.
KeysAfterMod(m, ks, reached) ==
    IF ks[m.key].status = "live" /\ reached /\ GetValidationResponse(m.new) # {}
    THEN [ks EXCEPT ![m.key].status = "modified", ![m.key].by = m.new]
    ELSE ks

-----------------------------------------------------------------------------
(* ActionModAgent.Do                                                         *)

CallAt(c, pc) == up /\ call[c].pc = pc
Goes(c, r) == call' = [call EXCEPT ![c] = r]
GoesOn(c, pc) == Goes(c, [call[c] EXCEPT !.pc = pc])

\* Do copies the agent, and makes the new keys of a revocation.
Start(c, identity, revoke) ==
    /\ CallAt(c, "idle") /\ updates < MaxUpdates /\ (identity \/ revoke)
    /\ revoke => made < MaxKey
    /\ updates' = updates + 1
    /\ made' = IF revoke THEN made + 1 ELSE made
    /\ Goes(c, [pc |-> IF revoke THEN "made" ELSE "signed", revoke |-> revoke,
                old |-> NoKey, oldID |-> NoKey, newID |-> NoKey,
                new |-> [key |-> IF revoke THEN made + 1 ELSE agent.key,
                         identity |-> IF identity THEN updates + 1 ELSE agent.identity]])
    /\ alone' = (alone /\ call = [d \in Caller |-> NoCall])
    /\ UNCHANGED <<up, agent, nodeID, node, chain, top, keys, blockedList, log, peer, faults, calm>>

\* NewSelfRevocation signs with the key of the agent there is now.
NewSelfRevocation(c) ==
    /\ CallAt(c, "made")
    /\ Goes(c, [call[c] EXCEPT !.pc = "signed", !.old = agent.key])
    /\ UNCHANGED <<up, agent, nodeID, node, chain, top, keys, blockedList, log, peer,
                   made, updates, faults, alone, calm>>

\* The new agent takes the place of the one there is.
Exchange(c) ==
    /\ CallAt(c, "signed")
    /\ agent' = call[c].new
    /\ GoesOn(c, "exchanged")
    /\ UNCHANGED <<up, nodeID, node, chain, top, keys, blockedList, log, peer,
                   made, updates, faults, alone, calm>>

\* Mutant: the hash of the new entry is not kept.
AddAgentEntryNoTop(c) ==
    /\ CallAt(c, "exchanged")
    /\ chain' = Append(chain, Entry(agent, call[c].old))
    /\ IF call[c].revoke THEN GoesOn(c, "added") ELSE Goes(c, NoCall)
    /\ UNCHANGED <<up, agent, nodeID, node, top, keys, blockedList, log, peer,
                   made, updates, faults, alone, calm>>

\* AddAgentEntry makes the entry from the agent there is now, and Do keeps its
\* hash as agentTopHash.
AddAgentEntry(c) ==
    /\ CallAt(c, "exchanged")
    /\ chain' = Append(chain, Entry(agent, call[c].old))
    /\ top' = Entry(agent, call[c].old)
    /\ IF call[c].revoke THEN GoesOn(c, "added") ELSE Goes(c, NoCall)
    /\ UNCHANGED <<up, agent, nodeID, node, keys, blockedList, log, peer,
                   made, updates, faults, alone, calm>>

\* putKey: the message that is logged is from the node as it still is.
putKey(c) ==
    /\ CallAt(c, "added")
    /\ keys' = [keys EXCEPT ![call[c].new.key] = Live(call[c].new.key)]
    /\ log' = Append(log, Put(call[c].new.key, node.id))
    /\ GoesOn(c, "put")
    /\ UNCHANGED <<up, agent, nodeID, node, chain, top, blockedList, peer,
                   made, updates, faults, alone, calm>>

\* AddAgentEntry or putKey returns an error, and Do with it.
Fail(c) ==
    /\ (CallAt(c, "exchanged") \/ CallAt(c, "added")) /\ faults < MaxFaults
    /\ faults' = faults + 1 /\ calm' = FALSE
    /\ Goes(c, NoCall)
    /\ UNCHANGED <<up, agent, nodeID, node, chain, top, keys, blockedList, log, peer,
                   made, updates, alone>>

\* Mutant: the old id is read when it has been replaced.
NewNodeIDLate(c) ==
    /\ CallAt(c, "put")
    /\ nodeID' = agent.key
    /\ Goes(c, [call[c] EXCEPT !.pc = "renamed", !.oldID = agent.key, !.newID = agent.key])
    /\ UNCHANGED <<up, agent, node, chain, top, keys, blockedList, log, peer,
                   made, updates, faults, alone, calm>>

\* The id of the node is that of the agent there is now.
NewNodeID(c) ==
    /\ CallAt(c, "put")
    /\ nodeID' = agent.key
    /\ Goes(c, [call[c] EXCEPT !.pc = "renamed", !.oldID = nodeID, !.newID = agent.key])
    /\ UNCHANGED <<up, agent, node, chain, top, keys, blockedList, log, peer,
                   made, updates, faults, alone, calm>>

\* Node.Close: nobody reaches the node any more.
Close(c) ==
    /\ CallAt(c, "renamed")
    /\ node' = [node EXCEPT !.serving = FALSE]
    /\ GoesOn(c, "closed")
    /\ UNCHANGED <<up, agent, nodeID, chain, top, keys, blockedList, log, peer,
                   made, updates, faults, alone, calm>>

\* createNode: a node with the agent's id, an empty routing table, an empty
\* blocked list and no protocol started.
createNode(c) ==
    /\ CallAt(c, "closed")
    /\ node' = [id |-> agent.key, serving |-> FALSE, blocked |-> {}]
    /\ GoesOn(c, "created")
    /\ UNCHANGED <<up, agent, nodeID, chain, top, keys, blockedList, log, peer,
                   made, updates, faults, alone, calm>>

\* Change of the old key: the message goes to the node itself, if its id is
\* the one in nodeID, and to nobody else, for the routing table is empty.
ChangeMod(c) ==
    LET m == ModReq(call[c].oldID, call[c].newID, node.id)
        after == KeysAfterMod(m, keys, TRUE)
    IN  /\ CallAt(c, "created")
        /\ keys' = IF nodeID = node.id THEN after ELSE keys
        /\ log' = IF keys' # keys THEN Append(log, m) ELSE log
        /\ GoesOn(c, "modified")
        /\ UNCHANGED <<up, agent, nodeID, node, chain, top, blockedList, peer,
                       made, updates, faults, alone, calm>>

\* Mutant: the new node is put on the list.
ListAddNew(c) ==
    LET m == ListAddReq(nodeID, call[c].old, call[c].new.key, node.id)
        valid == nodeID = node.id /\ Verify(m, keys)
    IN  /\ CallAt(c, "modified")
        /\ blockedList' = IF valid THEN blockedList \cup {m.peer} ELSE blockedList
        /\ node' = IF valid THEN [node EXCEPT !.blocked = @ \cup {m.peer}] ELSE node
        /\ log' = IF valid THEN Append(log, m) ELSE log
        /\ Goes(c, NoCall)
        /\ UNCHANGED <<up, agent, nodeID, chain, top, keys, peer,
                       made, updates, faults, alone, calm>>

\* Change of the blocked list, with the revocation as the warrant.
ChangeListAdd(c) ==
    LET m == ListAddReq(call[c].oldID, call[c].old, call[c].new.key, node.id)
        valid == nodeID = node.id /\ Verify(m, keys)
    IN  /\ CallAt(c, "modified")
        /\ blockedList' = IF valid THEN blockedList \cup {m.peer} ELSE blockedList
        /\ node' = IF valid THEN [node EXCEPT !.blocked = @ \cup {m.peer}] ELSE node
        /\ log' = IF valid THEN Append(log, m) ELSE log
        /\ Goes(c, NoCall)
        /\ UNCHANGED <<up, agent, nodeID, chain, top, keys, peer,
                       made, updates, faults, alone, calm>>

-----------------------------------------------------------------------------
(* The process and the peers                                                 *)

\* The process stops: by itself when createNode cannot listen, since Change
\* then finds no node.
Stop ==
    /\ up /\ faults < MaxFaults
    /\ up' = FALSE /\ faults' = faults + 1
    /\ call' = [c \in Caller |-> NoCall]
    /\ calm' = (calm /\ Len(chain) = 1 /\ call = [c \in Caller |-> NoCall])
    /\ UNCHANGED <<agent, nodeID, node, chain, top, keys, blockedList, log, peer, made, updates,
                   alone>>

\* Load, Prepare and Activate: the agent is the one SaveAgent saved when the
\* application was made, agentTopHash is that of the chain.
RestartAgent ==
    /\ ~up /\ up' = TRUE
    /\ agent' = [key |-> 0, identity |-> 0] /\ nodeID' = 0
    /\ node' = [id |-> 0, serving |-> TRUE, blocked |-> blockedList]
    /\ top' = chain[Len(chain)]
    /\ UNCHANGED <<chain, keys, blockedList, log, call, peer, made, updates, faults,
                   alone, calm>>

\* Peer p can open a stream to the node with id k.
Reached(p, k) == up /\ node.serving /\ node.id = k /\ k \notin peer[p].blocked

\* ActionReceiver of peer p for a message it does not have yet.
\* ActionListAdd.Receive needs no answer of the author.
ReceiveAt(p, m) ==
    LET s == peer[p]
        r == Reached(p, m.from)
        ks == CASE m.type = "put" -> KeysAfterPut(m, s.keys, r)
                [] m.type = "mod" -> KeysAfterMod(m, s.keys, r)
                [] OTHER -> s.keys
        blocks == m.type = "listadd" /\ Verify(m, s.keys)
    IN  [s EXCEPT !.keys = ks,
                  !.blocked = IF blocks THEN @ \cup {m.peer} ELSE @,
                  !.seen = IF ks # s.keys \/ blocks THEN @ \cup {m} ELSE @,
                  !.retry = IF m.type = "mod" /\ s.keys[m.key].status = "absent"
                            THEN @ \cup {m} ELSE @]

\* Peer p gossips with the node and handles the next message of its log.
gossipPut(p) ==
    LET k == node.id
        i == peer[p].idx[k] + 1
        m == log[i]
        s == IF m \in peer[p].seen THEN peer[p] ELSE ReceiveAt(p, m)
    IN  /\ Reached(p, k) /\ i <= Len(log)
        /\ peer' = [peer EXCEPT ![p] = [s EXCEPT !.idx[k] = i]]
        /\ UNCHANGED <<up, agent, nodeID, node, chain, top, keys, blockedList, log, call,
                       made, updates, faults, alone, calm>>

\* Peer p takes a message off its retry queue.
RetryTaskAt(p) ==
    \E m \in peer[p].retry :
        /\ peer' = [peer EXCEPT ![p] = [ReceiveAt(p, m) EXCEPT !.retry = peer[p].retry \ {m}]]
        /\ UNCHANGED <<up, agent, nodeID, node, chain, top, keys, blockedList, log, call,
                       made, updates, faults, alone, calm>>

ModAgent(c) ==
    \/ NewSelfRevocation(c) \/ Exchange(c) \/ AddAgentEntry(c) \/ putKey(c) \/ NewNodeID(c)
    \/ Close(c) \/ createNode(c) \/ ChangeMod(c) \/ ChangeListAdd(c)
AgentNext ==
    \/ \E c \in Caller : ModAgent(c) \/ Fail(c)
    \/ \E c \in Caller, identity, revoke \in BOOLEAN : Start(c, identity, revoke)
    \/ Stop \/ RestartAgent
    \/ \E p \in OtherNode : gossipPut(p) \/ RetryTaskAt(p)

AgentSpec == AgentInit /\ [][AgentNext]_agentVars

\* Calls go on, and peers gossip and retry: a ticker sees to it.
AgentFairSpec ==
    /\ AgentSpec
    /\ \A c \in Caller : WF_agentVars(ModAgent(c))
    /\ \A p \in OtherNode : WF_agentVars(gossipPut(p)) /\ WF_agentVars(RetryTaskAt(p))

-----------------------------------------------------------------------------
(* Properties                                                                *)

Resting == up /\ call = [c \in Caller |-> NoCall]

\* When updateAgent has returned, the agent, the id of the node, the node on
\* the network, the top agent entry and the hash kept for it all say the same,
\* as long as calls neither fail nor overlap and no restart brings the first
\* agent back.  Every variable has a value of its type.
IdentityAgrees ==
    AgentTypeOK /\ (alone /\ calm /\ Resting =>
        LET last == chain[Len(chain)]
        IN  /\ nodeID = agent.key /\ node.id = agent.key
            /\ last.key = agent.key /\ last.identity = agent.identity
            /\ top = last)

\* Under the same conditions the keys follow each other as the agent entries
\* say: an entry revokes the key of the entry before it or keeps it, a revoked
\* key is replaced by its successor in the DHT and its node is blocked, and the
\* last key is live.
KeysFollow ==
    alone /\ calm /\ Resting =>
        /\ keys[agent.key] = Live(agent.key)
        /\ \A i \in 2 .. Len(chain) :
              LET old == chain[i - 1].key new == chain[i].key
              IN  IF new = old THEN chain[i].revokes = NoKey
                  ELSE /\ chain[i].revokes = old
                       /\ keys[old] = [status |-> "modified", by |-> new, pub |-> old]
                       /\ old \in blockedList

\* A node is blocked only if its key is replaced in the DHT of the node that
\* blocks it, whatever calls fail and however often the process is restarted:
\* Verify looks there, though for the key that was the agent's when the warrant
\* was made, and the node that is listed is the one that had an id later, before
\* it was renamed.  These can be two, and a key that is in use be listed, if a
\* call was started while another one was under way.
BlockedAreReplaced ==
    alone =>
        /\ \A k \in blockedList : keys[k].status = "modified"
        /\ \A p \in OtherNode : \A k \in peer[p].blocked : peer[p].keys[k].status = "modified"

\* What a peer has under the hash of a key is that key.
HeldKeyIsKey ==
    \A p \in OtherNode, k \in Key : peer[p].keys[k].status # "absent" => peer[p].keys[k].pub = k

\* A peer that has the first key comes to know that it was replaced: Do sends
\* "the modification request for the old key".
RevocationSpreads ==
    \A p \in OtherNode :
        (peer[p].keys[0].status = "live" /\ keys[0].status = "modified")
            ~> peer[p].keys[0].status = "modified"
=============================================================================
