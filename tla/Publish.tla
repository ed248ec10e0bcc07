------------------------------ MODULE Publish -------------------------------
(***************************************************************************)
(* How an agent's entries get from its source chain into the DHT of its    *)
(* own node and of its peers: the Do methods of action.go, DHT.Change, the *)
(* validation phase that each receiver runs with the author, and what a    *)
(* get or a getLinks finds afterwards.                                     *)
(*                                                                         *)
(* A call commits, which SourceChain shows to be atomic, and then sends    *)
(* one change after the other: to its own node, to the closest peers, all  *)
(* at once, and on when each has answered or timed out.  Peers receive     *)
(* what was sent to them in any order, ask the author for the entry and    *)
(* apply the change, or queue it while they miss the hash it is about.     *)
(* Entries and messages are those of one author; the keys and agent        *)
(* entries of its peers play no part.                                      *)
(***************************************************************************)
EXTENDS DHTStore

CONSTANTS Author,      \* the agent, and its node
          Caller,      \* goroutines of the author's application
          EntryDef,    \* EntryDef[e]: the definition of e's type
          Deletes,     \* Deletes[e]: the entry that deletion e is about
          Unwanted,    \* entries that validate as a commit and not as a put
          MaxCommits,  \* bound: commits in a behaviour
          MaxFaults    \* bound: losses, timeouts and crashes in a behaviour

ASSUME PublishAssumption ==
    /\ Author \in Peer
    /\ EntryDef \in [Hash -> [Name : STRING, DataFormat : {"links", "other"},
                              Sharing : {"public", "private"}]]
    /\ \A e, f \in Hash : EntryDef[e].Name = EntryDef[f].Name => EntryDef[e] = EntryDef[f]
    /\ DOMAIN Deletes \subseteq Hash /\ \A e \in DOMAIN Deletes : Deletes[e] \in Hash
    /\ Unwanted \subseteq Hash
    /\ MaxRetries \in Nat /\ MaxCommits \in Nat /\ MaxFaults \in Nat
    /\ IsFiniteSet(Hash) /\ SysTagReplacedBy \notin Tag

VARIABLES chain,      \* the author's entries, with what they change
          call,       \* what each caller's Do has yet to send
          dht,        \* the DHT of each node
          inbox,      \* per node: messages sent to it that it has not received
          queue,      \* per node: messages to receive again
          faults,
          mishaps     \* "cutShort": a crash cut a call short;
                      \* "queued": a change came before what it is about

vars == <<chain, call, dht, inbox, queue, faults, mishaps>>

Others == Peer \ {Author}

Committed == [E : Hash, Action : {"commit", "mod", "del"}, H : Hash]
OnChain(e) == \E i \in DOMAIN chain : chain[i].E = e

TypeOK ==
    /\ chain \in Seq(Committed) /\ Len(chain) <= MaxCommits
    /\ call \in [Caller -> [pc : {"idle", "self", "spread", "wait"}, todo : Seq(Message)]]
    /\ \A c \in Caller : call[c].pc = "idle" <=> call[c].todo = << >>
    /\ dht \in [Peer -> Store]
    /\ inbox \in [Peer -> SUBSET Message]
    /\ queue \in [Peer -> Seq([msg : Message, retries : 0..MaxRetries])]
    /\ faults \in 0..MaxFaults /\ mishaps \subseteq {"cutShort", "queued"}

Init ==
    /\ chain = << >>
    /\ call = [c \in Caller |-> [pc |-> "idle", todo |-> << >>]]
    /\ dht = [n \in Peer |-> IF n = Author THEN SetupDHT
                                           ELSE put(NewDHT, NilMsg, DNAHash, "live")]
    /\ inbox = [n \in Peer |-> {}]
    /\ queue = [n \in Peer |-> << >>]
    /\ faults = 0 /\ mishaps = {}

-----------------------------------------------------------------------------
(* Validation *)

\* The system level checks of an entry of the application: its content is a
\* string, which makes no key and no agent entry.
sysValidateEntry(e) ==
    /\ EntryDef[e].Name \notin {"dna", "key", "agent"}
    /\ EntryDef[e].DataFormat = "links" => LinksEntry[e] # << >>

ModValid(e, h) == sysValidateEntry(e) /\ EntryDef[e].DataFormat # "links" /\ h # e

\* A del looks for the entry it deletes on the chain of the node that validates.
DelValid(n, e, h) ==
    /\ EntryDef[e].Name \notin {"dna", "key", "agent"}
    /\ EntryDef[e].DataFormat # "links"
    /\ n = Author /\ OnChain(h)
    /\ EntryDef[h].Name = EntryDef[e].Name

LinkValid(e) == EntryDef[e].DataFormat = "links"

\* ValidateAction: the system's checks and, for the application's entry types,
\* those of the application, which has nothing against mods, dels and links.
ValidateAction(n, action, e, h) ==
    CASE action = "commit" -> sysValidateEntry(e)
      [] action = "put"    -> sysValidateEntry(e) /\ e \notin Unwanted
      [] action = "mod"    -> ModValid(e, h)
      [] action = "del"    -> DelValid(n, e, h)
      [] action = "link"   -> LinkValid(e)

\* Whether the author answers a validation request: only for an entry on its
\* chain that is not the DNA, and a link request only for a links entry.
GetValidationResponse(action, e) ==
    /\ OnChain(e)
    /\ EntryDef[e].Name # "dna"
    /\ action = "link" => EntryDef[e].DataFormat = "links"

-----------------------------------------------------------------------------
(* Receiving a change *)

ActionOf == [PUT_REQUEST |-> "put", MOD_REQUEST |-> "mod",
             DEL_REQUEST |-> "del", LINK_REQUEST |-> "link"]

\* Those of the links whose base the message is about are stored, one by one.
Links(s, m, links) ==
    LET after[k \in 0..Len(links)] ==
            IF k = 0 THEN s
            ELSE IF links[k].Base = m.H THEN link(after[k - 1], m, links[k])
            ELSE after[k - 1]
    IN  after[Len(links)]

\* What the Receive methods make of the store with the author's answer.  A put is
\* recorded whether it is valid or not.
PutAnswered(n, m) ==
    put(dht[n], m, m.H, IF ValidateAction(n, "put", m.E, m.H) THEN "live" ELSE "rejected")

ModAnswered(n, m) ==
    IF ValidateAction(n, "mod", m.E, m.H) THEN mod(dht[n], m, m.H, m.E) ELSE dht[n]

DelAnswered(n, m) ==
    IF ValidateAction(n, "del", m.E, m.H) THEN del(dht[n], m, m.H) ELSE dht[n]

LinkAnswered(n, m) ==
    IF ValidateAction(n, "link", m.E, m.H) THEN Links(dht[n], m, LinksEntry[m.E])
                                           ELSE dht[n]

RunValidationPhase(n, m) ==
    IF ~GetValidationResponse(ActionOf[m.Type], m.E) THEN dht[n]
    ELSE CASE m.Type = "PUT_REQUEST"  -> PutAnswered(n, m)
           [] m.Type = "MOD_REQUEST"  -> ModAnswered(n, m)
           [] m.Type = "DEL_REQUEST"  -> DelAnswered(n, m)
           [] m.Type = "LINK_REQUEST" -> LinkAnswered(n, m)

\* The Receive methods: all but that of a put look first whether the hash they
\* are about is there, and queue the message if not.
Receive(n, m, retries, rest) ==
    LET err == IF m.Type = "PUT_REQUEST" THEN "nil" ELSE GetErr(dht[n], m.H, {})
    IN  /\ dht' = IF err = "nil" THEN [dht EXCEPT ![n] = RunValidationPhase(n, m)] ELSE dht
        /\ queue' = [queue EXCEPT ![n] = IF err = "ErrHashNotFound"
                                         THEN Append(rest, [msg |-> m, retries |-> retries])
                                         ELSE rest]
        /\ mishaps' = mishaps \cup {x \in {"queued"} : err = "ErrHashNotFound"}

\* A peer receives a message ...
ActionReceiver(n, m) ==
    /\ m \in inbox[n]
    /\ inbox' = [inbox EXCEPT ![n] = @ \ {m}]
    /\ Receive(n, m, MaxRetries, queue[n])
    /\ UNCHANGED <<chain, call, faults>>

\* ... or one of its queue again, unless it has no retries left.
RetryTask(n) ==
    /\ queue[n] # << >>
    /\ LET r == Head(queue[n])
       IN  IF r.retries > 0
           THEN Receive(n, r.msg, r.retries - 1, Tail(queue[n]))
           ELSE /\ queue' = [queue EXCEPT ![n] = Tail(@)]
                /\ UNCHANGED <<dht, mishaps>>
    /\ UNCHANGED <<chain, call, inbox, faults>>

-----------------------------------------------------------------------------
(* The author's calls *)

MsgAt(i, t, h, e) == [Type |-> t, From |-> Author, H |-> h, E |-> e, Time |-> i]
Msg(t, h, e) == MsgAt(Len(chain) + 1, t, h, e)

\* The LINK changes of a links entry: one for each base, in the order they come.
LinkChanges(e) ==
    LET links == LinksEntry[e]
        upTo[k \in 0..Len(links)] ==
            IF k = 0 THEN << >>
            ELSE IF \E j \in 1..(k - 1) : links[j].Base = links[k].Base THEN upTo[k - 1]
            ELSE Append(upTo[k - 1], Msg("LINK_REQUEST", links[k].Base, e))
    IN  upTo[Len(links)]

Public(e) == EntryDef[e].Sharing = "public"

\* The changes that calls send are among the messages.
ASSUME SentAssumption ==
    \A i \in 1..MaxCommits, e \in Hash :
        /\ e \notin DOMAIN Deletes /\ sysValidateEntry(e) =>
              /\ EntryDef[e].DataFormat = "links" =>
                    \A k \in DOMAIN LinksEntry[e] :
                        MsgAt(i, "LINK_REQUEST", LinksEntry[e][k].Base, e) \in Message
              /\ EntryDef[e].DataFormat # "links" /\ Public(e) =>
                    /\ MsgAt(i, "PUT_REQUEST", e, e) \in Message
                    /\ \A h \in Hash \ DOMAIN Deletes :
                        h # e /\ EntryDef[h].Name = EntryDef[e].Name =>
                            MsgAt(i, "MOD_REQUEST", h, e) \in Message
        /\ e \in DOMAIN Deletes /\ Public(e) =>
              MsgAt(i, "DEL_REQUEST", Deletes[e], e) \in Message

\* Mutant: private entries are put to the DHT.
CommitSendsAll(e) ==
    IF EntryDef[e].DataFormat = "links" THEN LinkChanges(e) ELSE <<Msg("PUT_REQUEST", e, e)>>

\* What Do sends once the entry is committed, for a commit, a mod and a del.
CommitSends(e) ==
    IF EntryDef[e].DataFormat = "links" THEN LinkChanges(e)
    ELSE IF Public(e)                   THEN <<Msg("PUT_REQUEST", e, e)>>
    ELSE << >>

\* Mutants: the replaced entry is marked before the new one is put; the new one
\* is not put.
ModSendsModFirst(e, h) ==
    IF Public(e) THEN <<Msg("MOD_REQUEST", h, e), Msg("PUT_REQUEST", e, e)>> ELSE << >>
ModSendsNoPut(e, h) ==
    IF Public(e) THEN <<Msg("MOD_REQUEST", h, e)>> ELSE << >>

ModSends(e, h) ==
    IF Public(e) THEN <<Msg("PUT_REQUEST", e, e), Msg("MOD_REQUEST", h, e)>> ELSE << >>

DelSends(e, h) == IF Public(e) THEN <<Msg("DEL_REQUEST", h, e)>> ELSE << >>

Proceed(c, todo) ==
    call' = [call EXCEPT ![c] = [pc |-> IF todo = << >> THEN "idle" ELSE "self", todo |-> todo]]

\* A call of commit, mod or del: doCommit adds the entry, if it is valid.
doCommit(c, action, e, h, sends) ==
    /\ call[c].pc = "idle"
    /\ Len(chain) < MaxCommits
    /\ ValidateAction(Author, action, e, h)
    /\ chain' = Append(chain, [E |-> e, Action |-> action, H |-> h])
    /\ Proceed(c, sends)
    /\ UNCHANGED <<dht, inbox, queue, faults, mishaps>>

Commit(c, e) == doCommit(c, "commit", e, e, CommitSends(e))

\* Applications replace an entry by one of its type.
Mod(c, e, h) ==
    /\ OnChain(h) /\ EntryDef[h].Name = EntryDef[e].Name
    /\ doCommit(c, "mod", e, h, ModSends(e, h))

Del(c, e) == doCommit(c, "del", e, Deletes[e], DelSends(e, Deletes[e]))

\* Change first sends to the author's own node, which receives at once.
SelfSend(c) ==
    /\ call[c].pc = "self"
    /\ Receive(Author, Head(call[c].todo), MaxRetries, queue[Author])
    /\ call' = [call EXCEPT ![c].pc = "spread"]
    /\ UNCHANGED <<chain, inbox, faults>>

\* Mutant: Change does not wait for the answers.
SpreadAndGo(c) ==
    /\ call[c].pc = "spread"
    /\ inbox' = [n \in Peer |-> inbox[n] \cup IF n = Author THEN {} ELSE {Head(call[c].todo)}]
    /\ Proceed(c, Tail(call[c].todo))
    /\ UNCHANGED <<chain, dht, queue, faults, mishaps>>

\* Then to the closest peers, all of them in a network this small ...
Spread(c) ==
    /\ call[c].pc = "spread"
    /\ inbox' = [n \in Peer |-> inbox[n] \cup IF n = Author THEN {} ELSE {Head(call[c].todo)}]
    /\ call' = [call EXCEPT ![c].pc = "wait"]
    /\ UNCHANGED <<chain, dht, queue, faults, mishaps>>

\* ... and waits until all have answered.  The next change follows, or Do returns.
Answered(c) ==
    /\ call[c].pc = "wait"
    /\ \A n \in Others : Head(call[c].todo) \notin inbox[n]
    /\ Proceed(c, Tail(call[c].todo))
    /\ UNCHANGED <<chain, dht, inbox, queue, faults, mishaps>>

-----------------------------------------------------------------------------
(* Faults *)

Fault == faults < MaxFaults /\ faults' = faults + 1

\* The routing table is empty (ErrEmptyRoutingTable), or GetClosestPeers fails:
\* the change stays on the author's node, and the call goes on.
NoPeers(c) ==
    /\ Fault
    /\ call[c].pc = "spread"
    /\ Proceed(c, Tail(call[c].todo))
    /\ UNCHANGED <<chain, dht, inbox, queue, mishaps>>

\* A send times out while the peer is still busy with the message.
TimedOut(c) ==
    /\ Fault
    /\ call[c].pc = "wait"
    /\ Proceed(c, Tail(call[c].todo))
    /\ UNCHANGED <<chain, dht, inbox, queue, mishaps>>

\* A message, or the author's answer to the validation request, is lost.
Lose(n, m) ==
    /\ Fault
    /\ m \in inbox[n]
    /\ inbox' = [inbox EXCEPT ![n] = @ \ {m}]
    /\ UNCHANGED <<chain, call, dht, queue, mishaps>>

\* A node stops and starts again: the chain and the DHT are on disk.
Crash(n) ==
    /\ Fault
    /\ call' = IF n = Author THEN [c \in Caller |-> [pc |-> "idle", todo |-> << >>]] ELSE call
    /\ inbox' = [inbox EXCEPT ![n] = {}]
    /\ queue' = [queue EXCEPT ![n] = << >>]
    /\ mishaps' = mishaps \cup {x \in {"cutShort"} : n = Author /\ \E c \in Caller :
                                                                  call[c].pc # "idle"}
    /\ UNCHANGED <<chain, dht>>

-----------------------------------------------------------------------------
ChangeStep(c) == SelfSend(c) \/ Spread(c) \/ Answered(c)

Next ==
    \/ \E c \in Caller, e \in Hash \ DOMAIN Deletes :
          Commit(c, e) \/ \E h \in Hash \ DOMAIN Deletes : Mod(c, e, h)
    \/ \E c \in Caller, e \in DOMAIN Deletes : Del(c, e)
    \/ \E c \in Caller : ChangeStep(c) \/ NoPeers(c) \/ TimedOut(c)
    \/ \E n \in Peer : \E m \in inbox[n] : ActionReceiver(n, m) \/ Lose(n, m)
    \/ \E n \in Peer : RetryTask(n) \/ Crash(n)

Spec == Init /\ [][Next]_vars

(***************************************************************************)
(* Goroutines are scheduled, streams are served, the retry ticker ticks.   *)
(***************************************************************************)
FairSpec ==
    /\ Spec
    /\ \A c \in Caller : WF_vars(ChangeStep(c))
    /\ \A n \in Peer : /\ WF_vars(RetryTask(n))
                       /\ WF_vars(\E m \in inbox[n] : ActionReceiver(n, m))

-----------------------------------------------------------------------------
(* Reading *)

\* Where the replacedBy records lead from h, one after the other.
Path(s, h) ==
    LET to[k \in 0..Cardinality(Hash)] ==
            IF k = 0 THEN h
            ELSE IF s.status[to[k - 1]] = "modified" THEN s.replacedBy[to[k - 1]]
            ELSE to[k - 1]
    IN  to

\* The error of a get of the last; when as many as there are hashes have been
\* followed and the next is due they go round, and the get does not return.
Follow(s, h) ==
    LET last == Path(s, h)[Cardinality(Hash)]
    IN  IF s.status[last] = "modified" THEN "loop" ELSE GetErr(s, last, {})

\* What ActionGet.Do returns on a node that knows the entry.  When it follows a
\* replacement in vain the error is in a variable of the inner block: it returns
\* nothing, neither a response nor an error.
Get(n, h) ==
    LET err == Follow(dht[n], h)
    IN  IF dht[n].status[h] = "modified" /\ err # "nil" THEN "nothing" ELSE err

\* The links that getLinks shows for a base, by the last event of each.
getLinks(s, base, tag) ==
    IF s.status[base] \notin {"live", "modified"} THEN {}
    ELSE {s.links[i].Link : i \in {j \in DOMAIN s.links :
            /\ s.links[j].Base = base /\ s.links[j].Tag = tag /\ s.links[j].Status = "live"
            /\ \A k \in DOMAIN s.links : k > j =>
                  <<s.links[k].Base, s.links[k].Link, s.links[k].Tag>>
                      # <<s.links[j].Base, s.links[j].Link, s.links[j].Tag>>}}

-----------------------------------------------------------------------------
(* Properties *)

CommittedAs(action, e, h) ==
    \E i \in DOMAIN chain : chain[i] = [E |-> e, Action |-> action, H |-> h]

\* No peer has an entry that its author's own node does not have: Change sends
\* "in our local DHT as well" before it looks for peers, and what was put there
\* outlasts crashes.
AuthorHolds ==
    \A n \in Others, h \in Hash :
        dht[n].status[h] # "absent" => dht[Author].status[h] # "absent"

\* What a node holds is what the author has committed: an entry in a DHT is on
\* the author's chain, public, and in the DHT of the author's own node, one that
\* is modified or deleted was modified or deleted by a commit, and a link that is
\* shown by a links entry.  Every variable has a value of its type.
HeldWasCommitted ==
    /\ TypeOK /\ AuthorHolds
    /\ \A n \in Peer, h \in Hash \ {DNAHash, KeyMsg.H, AgentMsg.H} :
        LET s == dht[n]
        IN  /\ s.status[h] # "absent" => OnChain(h) /\ Public(h)
            /\ s.status[h] = "modified" => CommittedAs("mod", s.replacedBy[h], h)
            /\ s.status[h] = "deleted" => \E e \in Hash : CommittedAs("del", e, h)
            /\ \A tag \in Tag : \A l \in getLinks(s, h, tag) :
                  \E e \in Hash : /\ CommittedAs("commit", e, e)
                                  /\ \E i \in DOMAIN LinksEntry[e] :
                                       /\ LinksEntry[e][i].Base = h
                                       /\ LinksEntry[e][i].Link = l

\* The author makes one call at a time.
OneCaller == \A c, d \in Caller : c = d

\* Where nothing fails and the author makes one call at a time, a get returns
\* nothing, which getLinks with Load takes for a response, only if the last
\* replacement was rejected or deleted: the new entry is put before the old one is
\* marked, on every node.
ReplacementKnown ==
    faults = 0 /\ OneCaller => \A n \in Peer, h \in Hash :
        Get(n, h) = "nothing" =>
            Follow(dht[n], h) \in {"ErrHashRejected", "ErrHashDeleted"}

\* While the author makes one call at a time, and none is cut short, a get on its
\* own node of any entry in its DHT comes to an end, at an entry: following
\* replacements never goes round, though entries are replaced back and forth.
\* And where nothing fails a get returns an answer on every node, unless the last
\* replacement was rejected or deleted.
AuthorReads ==
    /\ ReplacementKnown
    /\ OneCaller /\ "cutShort" \notin mishaps => \A h \in Hash :
          dht[Author].status[h] # "absent" =>
              Follow(dht[Author], h) \notin {"loop", "ErrHashNotFound"}

Settled ==
    /\ \A c \in Caller : call[c].pc = "idle"
    /\ \A n \in Peer : inbox[n] = {} /\ queue[n] = << >>

\* Where nothing fails, no change comes before the entry it is about and the
\* author makes one call at a time, all nodes end up with the same entries, the
\* same replacements and the same links, whatever the calls, of all that was never
\* deleted: only the author's own node carries out its deletions, and what it
\* refuses to do to a deleted entry the others do, so that they may differ even
\* after the entry was put again.
NodesAgree ==
    Settled /\ faults = 0 /\ mishaps = {} /\ OneCaller =>
        \A n \in Others, h \in Hash \ {DNAHash, KeyMsg.H, AgentMsg.H} :
            LET mine == dht[Author] theirs == dht[n]
            IN  (\A e \in Hash : ~CommittedAs("del", e, h)) =>
                    /\ theirs.status[h] = mine.status[h]
                    /\ theirs.replacedBy[h] = mine.replacedBy[h]
                    /\ \A tag \in Tag : getLinks(theirs, h, tag) = getLinks(mine, h, tag)

\* Some node has not yet got a public entry that was committed.
Missing ==
    \E n \in Peer, i \in DOMAIN chain :
        /\ chain[i].Action # "del"
        /\ Public(chain[i].E) /\ EntryDef[chain[i].E].DataFormat # "links"
        /\ dht[n].status[chain[i].E] = "absent"

\* Public entries that are committed get to every peer, unless something fails
\* on the way: nothing but gossip makes up for a send that was lost, and nothing
\* at all for a crash between doCommit and Change.
CommittedIsHeld == Missing ~> (~Missing \/ faults > 0)

\* ActionGet.Do detects that replacements go round ("FollowHash loop detected",
\* action.go:658), so that a get on any node comes to an end.
GetEnds == \A n \in Peer, h \in Hash : Follow(dht[n], h) # "loop"
=============================================================================
