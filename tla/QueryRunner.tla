---------------------------- MODULE QueryRunner -----------------------------
(***************************************************************************)
(* One search of the network by a node (kad_query.go), as DHT.Query,       *)
(* FindPeer and GetClosestPeers run it: the queue of peers still to be     *)
(* asked, the spawner, a worker for every peer, the tokens that limit how  *)
(* many workers ask at once, and the count of peers remaining whose end    *)
(* ends the search.  A worker gives its token back while it dials.         *)
(*                                                                         *)
(* A question says what is looked for and what the other nodes know:       *)
(*   op     - "get" a hash, "find" a peer, or the "closest" peers          *)
(*   target - the peer to find                                             *)
(*   start  - NearestPeers of the own routing table                        *)
(*   knows  - per node, the nearest peers it would tell of                 *)
(*   holds  - per node: "value", "modified" (the hash has that status      *)
(*            there) or "none"                                             *)
(*   silent - peers that take a request and never answer                   *)
(***************************************************************************)
EXTENDS Integers, Sequences, FiniteSets, FiniteSetsExt

CONSTANTS Peer, Self,
          Dist,        \* per peer, its distance from the key
          Concurrency, \* maxQueryConcurrency
          KValue,      \* how many peers GetClosestPeers returns
          Questions    \* the questions asked

Nothing == "nothing"

ASSUME QueryAssumption ==
    /\ Self \notin Peer /\ Nothing \notin Peer /\ IsFiniteSet(Peer)
    /\ Dist \in [Peer -> Nat] /\ \A p, r \in Peer : p # r => Dist[p] # Dist[r]
    /\ Concurrency \in Nat /\ Concurrency >= 2
    /\ KValue \in Nat \ {0}

ASSUME QuestionsAssumption ==
    \A x \in Questions : /\ x.start \subseteq Peer
                         /\ \A p \in Peer : x.knows[p] \subseteq Peer \cup {Self}

VARIABLES q,         \* the question
          run,       \* where Run is: "local", "running", "closing" or "done"
          spawner,   \* where spawnWorkers is: "outer", "inner" (it has a token) or "exited"
          tokens,    \* tokens in the channel rateLimit
          queue,     \* peersToQuery
          seen,      \* peersSeen
          remaining, \* peersRemaining
          finished,  \* peersRemaining.Done() is closed
          wk,        \* per peer: where its worker is
          todo,      \* per peer: the closer peers its worker has still to add
          linked,    \* peers there is a connection to
          errs,      \* errs: a peer and its error
          result,    \* result
          toClose,   \* a worker has asked for proc.Close()
          closing,   \* proc is closing
          answer     \* what the caller gets

vars == <<q, run, spawner, tokens, queue, seen, remaining, finished, wk, todo,
          linked, errs, result, toClose, closing, answer>>

Error == {"net", "ErrHashNotFound", "ErrHashModified"}
Answer == {Nothing, "found", "ErrHashNotFound", "ErrEmptyRoutingTable", "ErrNotFound",
           "DeadlineExceeded", "ErrHashModified", "net", "peers"}
Stage == {"none", "start", "dialling", "regrab", "regrabFailed", "querying", "adding",
          "ending", "putting", "exited"}

TypeOK ==
    /\ run \in {"local", "running", "closing", "done"}
    /\ spawner \in {"outer", "inner", "exited"}
    /\ tokens \in 0..Concurrency
    /\ queue \subseteq seen /\ seen \subseteq Peer
    /\ remaining \in 0..Cardinality(seen) /\ finished \in BOOLEAN
    /\ wk \in [Peer -> Stage] /\ todo \in [Peer -> SUBSET (Peer \cup {Self})]
    /\ linked \subseteq Peer
    /\ \A i \in 1..Len(errs) : errs[i].peer \in seen /\ errs[i].err \in Error
    /\ result \in Peer \cup {Nothing}
    /\ toClose \in BOOLEAN /\ closing \in BOOLEAN
    /\ answer \in Answer

Init ==
    /\ q \in Questions
    /\ run = "local" /\ spawner = "exited" /\ tokens = 0
    /\ queue = {} /\ seen = {} /\ remaining = 0 /\ finished = FALSE
    /\ wk = [p \in Peer |-> "none"] /\ todo = [p \in Peer |-> {}]
    /\ linked \in {{}, q.start}
    /\ errs = << >> /\ result = Nothing
    /\ toClose = FALSE /\ closing = FALSE
    /\ answer = Nothing

-----------------------------------------------------------------------------
(* The caller, up to Run *)

Return(a) ==
    /\ run = "local" /\ run' = "done" /\ answer' = a
    /\ UNCHANGED <<q, spawner, tokens, queue, seen, remaining, finished, wk, todo,
                   linked, errs, result, toClose, closing>>

\* DHT.Query tries locally first, and needs peers to ask.
GetLocally ==
    /\ q.op = "get"
    /\ \/ q.holds[Self] = "value" /\ Return("found")
       \/ q.holds[Self] = "modified" /\ Return("ErrHashModified")
       \/ q.holds[Self] = "none" /\ q.start = {} /\ Return("ErrHashNotFound")

\* FindPeer looks into the routing table (FindLocal, and then NearestPeers).
FindLocally ==
    /\ q.op = "find"
    /\ \/ q.target \in q.start /\ Return("found")
       \/ q.start = {} /\ Return("ErrEmptyRoutingTable")

ClosestOfNone == q.op = "closest" /\ q.start = {} /\ Return("ErrEmptyRoutingTable")

\* Run fills rateLimit, adds the first peers and starts the spawner.
StartRun ==
    /\ run = "local" /\ q.start # {}
    /\ q.op = "get" => q.holds[Self] = "none"
    /\ q.op = "find" => q.target \notin q.start
    /\ run' = "running"
    /\ tokens' = Concurrency /\ spawner' = "outer"
    /\ seen' = q.start /\ queue' = q.start /\ remaining' = Cardinality(q.start)
    /\ UNCHANGED <<q, finished, wk, todo, linked, errs, result, toClose, closing, answer>>

-----------------------------------------------------------------------------
(* spawnWorkers *)

SpawnerVars == <<q, run, seen, remaining, finished, todo, linked, errs, result, toClose, closing, answer>>

TakeToken ==
    /\ spawner = "outer" /\ tokens > 0
    /\ spawner' = "inner" /\ tokens' = tokens - 1
    /\ UNCHANGED <<queue, wk, SpawnerVars>>

Nearest(S) == CHOOSE p \in S : \A r \in S : Dist[p] <= Dist[r]

\* ChanQueue: the peer it offers is always the nearest of those put in; it may
\* still offer one when proc is closing.
Dequeue(p) ==
    /\ queue # {} /\ p = Nearest(queue)
    /\ queue' = queue \ {p}

Spawn ==
    /\ spawner = "inner"
    /\ \E p \in queue : Dequeue(p) /\ wk' = [wk EXCEPT ![p] = "start"]
    /\ spawner' = "outer"
    /\ UNCHANGED <<tokens, SpawnerVars>>

SpawnerExit ==
    /\ spawner \in {"outer", "inner"} /\ (finished \/ closing)
    /\ spawner' = "exited"
    /\ UNCHANGED <<tokens, queue, wk, SpawnerVars>>

-----------------------------------------------------------------------------
(* queryPeer, the worker of peer p *)

Goto(p, stage) == wk' = [wk EXCEPT ![p] = stage]

Fail(p, e) == errs' = Append(errs, [peer |-> p, err |-> e])

\* A connected peer is asked at once; else the token goes back for the dial.
WorkerStart(p) ==
    /\ wk[p] = "start"
    /\ IF p \in linked THEN Goto(p, "querying") /\ UNCHANGED tokens
       ELSE /\ tokens < Concurrency
            /\ tokens' = tokens + 1
            /\ Goto(p, "dialling")
    /\ UNCHANGED <<q, run, spawner, queue, seen, remaining, finished, todo,
                   linked, errs, result, toClose, closing, answer>>

Dial(p) ==
    /\ wk[p] = "dialling"
    /\ \/ Goto(p, "regrab") /\ linked' = linked \cup {p} /\ UNCHANGED errs
       \/ Goto(p, "regrabFailed") /\ Fail(p, "net") /\ UNCHANGED linked
    /\ UNCHANGED <<q, run, spawner, tokens, queue, seen, remaining, finished, todo,
                   result, toClose, closing, answer>>

\* Mutant of Regrab: after a failed dial the token is not taken again.
RegrabUnlessFailed(p) ==
    /\ wk[p] \in {"regrab", "regrabFailed"}
    /\ tokens > 0
    /\ tokens' = IF wk[p] = "regrab" THEN tokens - 1 ELSE tokens
    /\ Goto(p, IF wk[p] = "regrab" THEN "querying" ELSE "ending")
    /\ UNCHANGED <<q, run, spawner, queue, seen, remaining, finished, todo,
                   linked, errs, result, toClose, closing, answer>>

Regrab(p) ==
    /\ wk[p] \in {"regrab", "regrabFailed"}
    /\ tokens > 0
    /\ tokens' = tokens - 1
    /\ Goto(p, IF wk[p] = "regrab" THEN "querying" ELSE "ending")
    /\ UNCHANGED <<q, run, spawner, queue, seen, remaining, finished, todo,
                   linked, errs, result, toClose, closing, answer>>

\* What p tells of: its nearest peers, but not the requester.
betterPeersForHash(p) == q.knows[p] \ {Self}

\* p itself if it is the one looked for.
KademliaReceiver(p) ==
    IF q.op = "find" /\ p = q.target THEN {p} ELSE betterPeersForHash(p)

Closer(p) == IF q.op = "get" THEN betterPeersForHash(p) ELSE KademliaReceiver(p)

\* The query functions of DHT.Query and FindPeer: what is a success.
HoldsHash(p) == q.op = "get" /\ q.holds[p] = "value"
KnowsTarget(p) == q.op = "find" /\ q.target \in Closer(p)
Holds(p) == HoldsHash(p) \/ KnowsTarget(p)

\* ActionGet.Receive at p: a hash that p does not hold is an error only if p
\* has no closer peers to tell of.
Refuses(p) ==
    IF q.op = "get" /\ q.holds[p] = "modified" THEN {"ErrHashModified"}
    ELSE IF q.op = "get" /\ q.holds[p] = "none" /\ Closer(p) = {} THEN {"ErrHashNotFound"}
    ELSE {}

AskVars == <<q, run, spawner, tokens, queue, seen, remaining, finished, linked, closing, answer>>

\* The answer of p arrives: a success is noted and everything told to close.
Answered(p) ==
    /\ wk[p] = "querying" /\ p \notin q.silent
    /\ \/ /\ Holds(p)
          /\ result' = p /\ toClose' = TRUE
          /\ Goto(p, "ending")
          /\ UNCHANGED <<todo, errs>>
       \/ /\ \E e \in Refuses(p) : Fail(p, e)
          /\ Goto(p, "ending")
          /\ UNCHANGED <<todo, result, toClose>>
       \/ /\ ~Holds(p) /\ Refuses(p) = {}
          /\ todo' = [todo EXCEPT ![p] = Closer(p)]
          /\ Goto(p, "adding")
          /\ UNCHANGED <<errs, result, toClose>>
    /\ UNCHANGED AskVars

\* The request fails.  Only a get has a time limit (h.Send); node.Send waits for
\* as long as the stream stays open.
AskFails(p) ==
    /\ wk[p] = "querying" /\ (p \in q.silent => q.op = "get")
    /\ Fail(p, "net")
    /\ Goto(p, "ending")
    /\ UNCHANGED <<todo, result, toClose, AskVars>>

\* addPeerToQuery for one of the closer peers: a new one is counted, and queued
\* unless proc is closing, when it may be dropped.
AddCloser(p) ==
    /\ wk[p] = "adding" /\ todo[p] # {}
    /\ LET r == CHOOSE x \in todo[p] : TRUE IN
           /\ todo' = [todo EXCEPT ![p] = @ \ {r}]
           /\ IF r = Self \/ r \in seen THEN UNCHANGED <<seen, remaining, queue>>
              ELSE /\ seen' = seen \cup {r}
                   /\ remaining' = remaining + 1
                   /\ queue' \in {queue \cup {r}} \cup (IF closing THEN {queue} ELSE {})
    /\ UNCHANGED <<q, run, spawner, tokens, finished, wk, linked, errs, result, toClose, closing, answer>>

Added(p) ==
    /\ wk[p] = "adding" /\ todo[p] = {}
    /\ Goto(p, "ending")
    /\ UNCHANGED <<q, run, spawner, tokens, queue, seen, remaining, finished, todo,
                   linked, errs, result, toClose, closing, answer>>

\* Mutants of WorkerEnd: the count forgets workers whose dial failed; the end is
\* signalled when the queue is empty.
WorkerEndForgets(p) ==
    /\ wk[p] = "ending"
    /\ remaining' = IF p \in linked THEN remaining - 1 ELSE remaining
    /\ finished' = (remaining' = 0)
    /\ Goto(p, "putting")
    /\ UNCHANGED <<q, run, spawner, tokens, queue, seen, todo, linked, errs, result, toClose, closing, answer>>

WorkerEndEarly(p) ==
    /\ wk[p] = "ending"
    /\ remaining' = remaining - 1
    /\ finished' = (queue = {})
    /\ Goto(p, "putting")
    /\ UNCHANGED <<q, run, spawner, tokens, queue, seen, todo, linked, errs, result, toClose, closing, answer>>

\* The deferred function: first the count, then the token.
WorkerEnd(p) ==
    /\ wk[p] = "ending"
    /\ remaining' = remaining - 1
    /\ finished' = (remaining' = 0)
    /\ Goto(p, "putting")
    /\ UNCHANGED <<q, run, spawner, tokens, queue, seen, todo, linked, errs, result, toClose, closing, answer>>

WorkerPut(p) ==
    /\ wk[p] = "putting" /\ tokens < Concurrency
    /\ tokens' = tokens + 1
    /\ Goto(p, "exited")
    /\ UNCHANGED <<q, run, spawner, queue, seen, remaining, finished, todo,
                   linked, errs, result, toClose, closing, answer>>

-----------------------------------------------------------------------------
(* The end *)

\* proc.Close() of the worker that succeeded, or the context of FindPeer's
\* caller is cancelled.
CloseProc ==
    /\ run = "running" /\ ~closing
    /\ toClose \/ q.op = "find"
    /\ closing' = TRUE
    /\ UNCHANGED <<q, run, spawner, tokens, queue, seen, remaining, finished, wk, todo,
                   linked, errs, result, toClose, answer>>

DoneReceived ==
    /\ run = "running" /\ finished
    /\ run' = "closing" /\ closing' = TRUE
    /\ UNCHANGED <<q, spawner, tokens, queue, seen, remaining, finished, wk, todo,
                   linked, errs, result, toClose, answer>>

Closed == closing /\ spawner = "exited" /\ \A p \in Peer : wk[p] \in {"none", "exited"}

\* What GetClosestPeers returns of the peers seen: the KValue nearest to the key.
closestOf(S) == {p \in S : Cardinality({r \in S : Dist[r] < Dist[p]}) < KValue}

\* What Run and its callers make of it: a result is returned whatever the error,
\* an error of a peer only if all have failed, and GetClosestPeers goes on
\* to closestOf(seen) whatever became of the peers.
Outcome(err) ==
    IF result # Nothing THEN "found"
    ELSE IF q.op = "closest" THEN "peers"
    ELSE IF err = "ErrNotFound" /\ errs # << >> /\ Len(errs) = Cardinality(seen) THEN errs[1].err
    ELSE err

Finish(err) ==
    /\ Closed
    /\ run' = "done"
    /\ answer' = Outcome(err)
    /\ UNCHANGED <<q, spawner, tokens, queue, seen, remaining, finished, wk, todo,
                   linked, errs, result, toClose, closing>>

\* Run has waited for proc.Close(), or proc was closed by others.
RunReturns ==
    \/ run = "closing" /\ Finish("ErrNotFound")
    \/ run = "running" /\ Finish("DeadlineExceeded")

\* find or closest wait for a peer that never answers, and Run for them.
Hung == q.op # "get" /\ \E p \in q.silent : wk[p] = "querying"

Worker(p) ==
    \/ WorkerStart(p) \/ Dial(p) \/ Regrab(p) \/ Answered(p) \/ AskFails(p)
    \/ AddCloser(p) \/ Added(p) \/ WorkerEnd(p) \/ WorkerPut(p)

Next ==
    \/ GetLocally \/ FindLocally \/ ClosestOfNone \/ StartRun
    \/ TakeToken \/ Spawn \/ SpawnerExit
    \/ \E p \in Peer : Worker(p)
    \/ CloseProc \/ DoneReceived \/ RunReturns

Spec == Init /\ [][Next]_vars

\* Every goroutine goes on, one that waits for a token gets one in its turn
\* (receivers of a channel are served in order), dials end one way or
\* the other, and so does every request but one that find or closest has sent to a silent peer; a context
\* need not be cancelled.
FairSpec ==
    /\ Spec
    /\ WF_vars(GetLocally \/ FindLocally \/ ClosestOfNone \/ StartRun) /\ WF_vars(DoneReceived) /\ WF_vars(RunReturns)
    /\ WF_vars(toClose /\ CloseProc)
    /\ SF_vars(TakeToken) /\ WF_vars(Spawn) /\ WF_vars(SpawnerExit)
    /\ \A p \in Peer :
        /\ WF_vars(WorkerStart(p)) /\ WF_vars(Dial(p)) /\ SF_vars(Regrab(p))
        /\ WF_vars(Answered(p) \/ AskFails(p))
        /\ WF_vars(AddCloser(p) \/ Added(p) \/ WorkerEnd(p) \/ WorkerPut(p))

-----------------------------------------------------------------------------
(* Properties *)

Working == {p \in Peer : wk[p] \in {"start", "dialling", "regrab", "regrabFailed", "querying", "adding", "ending"}}

\* The peers whose workers have a token.
Holding == {p \in Peer : wk[p] \in {"start", "querying", "adding", "ending", "putting"}}

\* peersRemaining counts the peers queued and those being processed, so it is
\* never touched again once its end is signalled ("counter already signaled").
\* The tokens are those in the channel, that of the spawner and those of the
\* workers, also while workers give theirs back to dial: so no more than
\* maxQueryConcurrency peers are asked at once and no worker ever blocks when
\* it gives a token back (spawnWorkers, queryPeer).  Every variable has a value of
\* its type.
RemainingCounts ==
    /\ TypeOK
    /\ ~closing => remaining = Cardinality(queue) + Cardinality(Working)
    /\ finished => remaining = 0 /\ queue = {} /\ Working = {}
    /\ run # "local" /\ spawner # "exited" =>
          tokens + Cardinality(Holding) + (IF spawner = "inner" THEN 1 ELSE 0) = Concurrency

Failed == {errs[i].peer : i \in 1..Len(errs)}

\* A set with the first peers and all those its members have told of.
Explored(S) == q.start \subseteq S /\ \A p \in S \ Failed : Closer(p) \subseteq S

\* A search that ends by itself without success has asked every peer it could
\* hear of, and nobody else, each one once; none that answered had what was
\* looked for.  (addPeerToQuery, and the order of queryPeer's deferred calls.)
Exhaustive ==
    finished /\ result = Nothing =>
        /\ Explored(seen) /\ \A S \in SUBSET seen : Explored(S) => S = seen
        /\ \A p \in seen \ Failed : ~Holds(p)
        /\ Cardinality(Failed) = Len(errs)

\* GetClosestPeers of a search in which every peer answered returns the KValue
\* nearest of all peers that can be reached.
ClosestFound ==
    answer = "peers" /\ errs = << >> =>
        LET reach == {p \in Peer : \A S \in SUBSET Peer : Explored(S) => p \in S}
        IN  /\ Cardinality(closestOf(seen)) = Min({KValue, Cardinality(reach)})
            /\ \A p \in closestOf(seen), r \in reach \ closestOf(seen) : Dist[p] < Dist[r]

\* "not found" is not said lightly: a search answered by some peer never
\* reports the trouble another one had, and "found" is never an invention; who
\* ends empty-handed has asked everybody, and the closest peers are the closest of
\* all that can be reached.
AnswerJust ==
    /\ Exhaustive /\ ClosestFound
    /\ run = "done" /\ seen # {} =>
          /\ answer = "found" => result \in seen \ Failed /\ Holds(result)
          /\ answer \in Error => Failed = seen
          /\ answer = "ErrNotFound" => \E p \in seen \ Failed : ~Holds(p)

\* Every search comes to an end, whatever dials and requests fail, unless find or
\* closest have asked a peer that never answers.
Terminates == <>(run = "done" \/ Hung)
=============================================================================
