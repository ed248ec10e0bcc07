------------------------------ MODULE DHTNode -------------------------------
(***************************************************************************)
(* One node receiving change messages (actionReceiver and the Receive      *)
(* methods of action.go, the retry queue of dht.go).                       *)
(*                                                                         *)
(* Three kinds of goroutine run Receive concurrently:                      *)
(*   - one per incoming stream of the action protocol (NetThread);         *)
(*   - the one draining gossipPuts ("gossip"), which first looks for the   *)
(*     message's fingerprint;                                              *)
(*   - the retry ticker ("retry"), the only consumer of retryQueue.        *)
(* Between the existence check and the transaction that changes the store  *)
(* the receiver asks the author for the entry over the network, so every   *)
(* Receive is several steps.  The network may lose, repeat and reorder     *)
(* messages; validation may fail, or its request may go unanswered.        *)
(***************************************************************************)
EXTENDS DHTStore

CONSTANTS OwnEntry,     \* entries committed on this node's own chain
          NetThread,    \* goroutines of the action protocol
          RetryCap,     \* capacity of the retryQueue channel (100)
          MaxArrivals   \* bound: messages that arrive in a behaviour

ASSUME NodeAssumption ==
    /\ OwnEntry \subseteq Hash
    /\ NetThread \cap {"gossip", "retry"} = {}
    /\ MaxRetries \in Nat /\ RetryCap \in Nat \ {0} /\ MaxArrivals \in Nat

VARIABLES store,       \* the DHT database
          retryQueue,  \* channel of [msg, retries]
          thread,      \* what each goroutine is doing
          arrived      \* number of messages that have arrived

vars == <<store, retryQueue, thread, arrived>>

Thread == NetThread \cup {"gossip", "retry"}

(***************************************************************************)
(* tries counts the Receive calls made for the message so far; the code    *)
(* does not keep it.                                                       *)
(***************************************************************************)
Retry == [msg : Message, retries : 0..MaxRetries, tries : Nat]

Idle == [pc |-> "idle"]
Busy(pc, m, r, n, todo) ==
    [pc |-> pc, msg |-> m, retries |-> r, tries |-> n, todo |-> todo]

BusyState == [pc : {"recv", "enqueue", "validate", "link"}, msg : Message,
              retries : 0..MaxRetries, tries : Nat, todo : Seq(Link)]

ThreadState == {Idle} \cup BusyState

TypeOK ==
    /\ store \in Store
    /\ retryQueue \in Seq(Retry)
    /\ Len(retryQueue) <= RetryCap
    /\ thread \in [Thread -> ThreadState]
    /\ arrived \in 0..MaxArrivals

Init ==
    /\ store = SetupDHT
    /\ retryQueue = << >>
    /\ thread = [t \in Thread |-> Idle]
    /\ arrived = 0

Become(t, st) == thread' = [thread EXCEPT ![t] = st]
At(t, pc) == thread[t].pc = pc

-----------------------------------------------------------------------------
\* A stream brings a message, possibly one that has been received before.
ActionReceiver(t, m) ==
    /\ At(t, "idle")
    /\ arrived < MaxArrivals
    /\ arrived' = arrived + 1
    /\ Become(t, Busy("recv", m, MaxRetries, 1, << >>))
    /\ UNCHANGED <<store, retryQueue>>

\* gossipPut: a message taken from gossipPuts is received unless its
\* fingerprint is known.
GossipPut(m) ==
    /\ ~HaveFingerprint(store, m)
    /\ ActionReceiver("gossip", m)

\* RetryTask with a message that may still be retried ...
RetryTask ==
    /\ At("retry", "idle")
    /\ retryQueue # << >>
    /\ Head(retryQueue).retries > 0
    /\ Become("retry", LET r == Head(retryQueue)
                       IN  Busy("recv", r.msg, r.retries - 1, r.tries + 1, << >>))
    /\ retryQueue' = Tail(retryQueue)
    /\ UNCHANGED <<store, arrived>>

\* Mutant: a message without retries left is not taken off the queue.
GiveUpPeek ==
    /\ At("retry", "idle")
    /\ retryQueue # << >>
    /\ Head(retryQueue).retries = 0
    /\ UNCHANGED vars

\* ... and with one that has used up its retries.
GiveUp ==
    /\ At("retry", "idle")
    /\ retryQueue # << >>
    /\ Head(retryQueue).retries = 0
    /\ retryQueue' = Tail(retryQueue)
    /\ UNCHANGED <<store, thread, arrived>>

-----------------------------------------------------------------------------
\* ActionPut.Receive goes straight to the validation phase.
ReceivePut(t) ==
    /\ At(t, "recv")
    /\ thread[t].msg.Type = "PUT_REQUEST"
    /\ Become(t, [thread[t] EXCEPT !.pc = "validate"])
    /\ UNCHANGED <<store, retryQueue, arrived>>

\* The other Receive methods call retryIfHashNotFound first.  Its error, for
\* a hash that is there but not live, ends Receive.
ReceiveChange(t) ==
    /\ At(t, "recv")
    /\ thread[t].msg.Type # "PUT_REQUEST"
    /\ LET err == GetErr(store, thread[t].msg.H, {})
       IN  Become(t, CASE err = "nil"             -> [thread[t] EXCEPT !.pc = "validate"]
                       [] err = "ErrHashNotFound" -> [thread[t] EXCEPT !.pc = "enqueue"]
                       [] OTHER                   -> Idle)
    /\ UNCHANGED <<store, retryQueue, arrived>>

SendRetry(t) ==
    /\ retryQueue' = Append(retryQueue, [msg     |-> thread[t].msg,
                                         retries |-> thread[t].retries,
                                         tries   |-> thread[t].tries])
    /\ Become(t, Idle)
    /\ UNCHANGED <<store, arrived>>

\* Mutant: the channel is unbuffered, so RetryTask never sees it non-empty.
EnqueueUnbuffered(t) == At(t, "enqueue") /\ Len(retryQueue) < 0 /\ SendRetry(t)

\* The blocking send on retryQueue.
Enqueue(t) ==
    /\ At(t, "enqueue")
    /\ Len(retryQueue) < RetryCap
    /\ SendRetry(t)

-----------------------------------------------------------------------------
\* The author does not answer, or a change other than a PUT is not valid.
ValidationFails(t) ==
    /\ At(t, "validate")
    /\ Become(t, Idle)
    /\ UNCHANGED <<store, retryQueue, arrived>>

\* A PUT is recorded whether it is valid or not.
PutValidated(t, st) ==
    /\ At(t, "validate")
    /\ thread[t].msg.Type = "PUT_REQUEST"
    /\ store' = put(store, thread[t].msg, thread[t].msg.H, st)
    /\ Become(t, Idle)
    /\ UNCHANGED <<retryQueue, arrived>>

ModValidated(t) ==
    /\ At(t, "validate")
    /\ thread[t].msg.Type = "MOD_REQUEST"
    /\ store' = mod(store, thread[t].msg, thread[t].msg.H, thread[t].msg.E)
    /\ Become(t, Idle)
    /\ UNCHANGED <<retryQueue, arrived>>

\* SysValidation looks for the header of the deleted entry on the chain of the
\* node that validates.
DelValidated(t) ==
    /\ At(t, "validate")
    /\ thread[t].msg.Type = "DEL_REQUEST"
    /\ thread[t].msg.H \in OwnEntry
    /\ store' = del(store, thread[t].msg, thread[t].msg.H)
    /\ Become(t, Idle)
    /\ UNCHANGED <<retryQueue, arrived>>

\* The links of the entry are taken one by one ...
LinkValidated(t) ==
    /\ At(t, "validate")
    /\ thread[t].msg.Type = "LINK_REQUEST"
    /\ Become(t, [thread[t] EXCEPT !.pc   = "link",
                                   !.todo = LinksEntry[thread[t].msg.E]])
    /\ UNCHANGED <<store, retryQueue, arrived>>

\* ... and those on the base of the message recorded, a transaction each; an
\* error does not end the loop.
ApplyLink(t) ==
    /\ At(t, "link")
    /\ thread[t].todo # << >>
    /\ LET l == Head(thread[t].todo)
       IN  store' = IF l.Base = thread[t].msg.H THEN link(store, thread[t].msg, l)
                                                ELSE store
    /\ Become(t, [thread[t] EXCEPT !.todo = Tail(@)])
    /\ UNCHANGED <<retryQueue, arrived>>

LinksDone(t) ==
    /\ At(t, "link")
    /\ thread[t].todo = << >>
    /\ Become(t, Idle)
    /\ UNCHANGED <<store, retryQueue, arrived>>

-----------------------------------------------------------------------------
Receive(t) ==
    \/ ReceivePut(t)
    \/ ReceiveChange(t)
    \/ Enqueue(t)
    \/ ValidationFails(t)
    \/ \E st \in {"live", "rejected"} : PutValidated(t, st)
    \/ ModValidated(t)
    \/ DelValidated(t)
    \/ LinkValidated(t)
    \/ ApplyLink(t)
    \/ LinksDone(t)

Next ==
    \/ \E t \in NetThread, m \in Message : ActionReceiver(t, m)
    \/ \E m \in Message : GossipPut(m)
    \/ RetryTask
    \/ GiveUp
    \/ \E t \in Thread : Receive(t)

Spec == Init /\ [][Next]_vars

(***************************************************************************)
(* Goroutines are scheduled, Send gives up after a timeout, and the ticker *)
(* calls RetryTask every half second.                                      *)
(***************************************************************************)
Fairness ==
    /\ \A t \in Thread : WF_vars(Receive(t))
    /\ WF_vars(RetryTask \/ GiveUp)

FairSpec == Spec /\ Fairness

-----------------------------------------------------------------------------
(* Properties *)

\* No Receive, however it interleaves with others, leaves a modified entry
\* without the replacedBy record that _get panics for want of.
ModifiedHasReplacement == ReplacementRecorded(store)

\* Fingerprints lead to the latest log record of their message, which is what
\* gossipPut goes by to skip messages the node has already applied.
FingerprintsMatchLog == FingerprintsIndexLog(store)

\* However the handlers interleave, the log that gossip sends to peers
\* accounts for the status of every hash in the store.
LogExplainsStatus == StatusFollowsLog(store)

\* Links are only ever recorded on a base that is there, though the base was
\* looked up before validation and may have changed since, and a logged
\* message accounts for each.
LinksTraceable == LinksFollowLog(store)

\* A message is received once and retried at most MaxRetries times, however
\* often it goes through the queue.
RetriesLimited ==
    /\ \A i \in DOMAIN retryQueue :
          retryQueue[i].tries + retryQueue[i].retries = MaxRetries + 1
    /\ \A t \in Thread :
          ~At(t, "idle") => thread[t].tries + thread[t].retries = MaxRetries + 1

\* However Receives of several goroutines interleave: the records of the store
\* agree with each other and with the log (the four facts above), no message is
\* retried too often, and every variable has a value of its type.
NodeSound ==
    /\ TypeOK
    /\ ModifiedHasReplacement
    /\ FingerprintsMatchLog
    /\ LogExplainsStatus
    /\ LinksTraceable
    /\ RetriesLimited

\* A step that changes the store appends exactly one record to the log, never
\* drops a linking event, and never makes a stored hash absent again.
ChangesAreLogged == [][LoggedChange(store, store')]_store

\* Messages queued for retry leave the queue: each is applied once its hash
\* is there, or given up after MaxRetries ("retries should be limited",
\* dht_test.go:824).
RetryQueueDrains == (retryQueue # << >>) ~> (retryQueue = << >>)

\* Every Receive returns, also the ones that wait to queue a retry.
ReceiveReturns == \A t \in Thread : ~At(t, "idle") ~> At(t, "idle")

\* An entry marked deleted or modified is never shown as live again
\* (holochain.tex:237: the DHT is "only be changed monotonically").
StatusMonotone ==
    [][\A h \in Hash : store.status[h] \in {"deleted", "modified"} =>
                            store'.status[h] # "live"]_store
=============================================================================
