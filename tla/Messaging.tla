----------------------------- MODULE Messaging -----------------------------
(***************************************************************************)
(* Holochain.Send and what is built on it: node.Send over a stream, the    *)
(* handler of the protocol on the peer, the encoding of errors in an       *)
(* answer, send of an application with and without a callback (SendAsync,  *)
(* HandleAsyncSends), and the block lists of both sides.                   *)
(*                                                                         *)
(* Send waits for its goroutine or for the timeout.  The goroutine writes  *)
(* the named results of Send, response and err, and goes on doing so after *)
(* the timeout branch has written err: every single write is a step here.  *)
(***************************************************************************)
EXTENDS Naturals, Sequences, FiniteSets

CONSTANTS Call,        \* the calls of Send the node makes
          May,         \* the kinds and targets each of them may have
          Cap          \* the capacity of the channel asyncSends (10 in the code)

ASSUME CapAssumption == Cap \in Nat \ {0}

Target == {"self", "peer"}
\* A message of an application, with or without a callback, or one of the DHT.
Kind == {"app", "async", "dht"}

ASSUME MayAssumption == May \in [Call -> SUBSET (Kind \X Target)]

\* node.go: the codes of the errors an answer can carry.
ErrCode == [ErrHashNotFound |-> 1, ErrHashDeleted |-> 2, ErrHashModified |-> 3,
            ErrHashRejected |-> 4, ErrLinkNotFound |-> 5,
            ErrEntryTypeMismatch |-> 6, ErrBlockedListed |-> 7]
ErrUnknownCode == 0

\* An answer: a response and an error.
Answer(r, e) == [response |-> r, err |-> e]
None == Answer("none", "none")

\* The answers of a receiver.  ActionSend.Receive returns the AppMsg of the
\* application or the text of its error, the DHT's one of its errors, with the
\* hash of the replacement when it is ErrHashModified.
ReceiverSays(k) ==
    IF k # "dht"
    THEN {Answer("AppMsg", "nil"), Answer("nil", "error in receive")}
    ELSE {Answer("GetResp", "nil"), Answer("nil", "ErrHashNotFound"),
          Answer("newHash", "ErrHashModified")}

\* The failures of node.Send itself.
StreamErr == {"ErrBlockedListed", "dial failed", "stream closed"}

\* Mutant: the code of a modified hash is forgotten.
NewErrorResponseUncoded(e) ==
    IF e \in DOMAIN ErrCode \ {"ErrHashModified"}
    THEN [Code |-> ErrCode[e], Message |-> ""]
    ELSE [Code |-> ErrUnknownCode, Message |-> "unknown"]
NewErrorResponse(e) ==
    IF e \in DOMAIN ErrCode THEN [Code |-> ErrCode[e], Message |-> ""]
    ELSE [Code |-> ErrUnknownCode, Message |-> e]

DecodeResponseError(errResp) ==
    IF \E e \in DOMAIN ErrCode : ErrCode[e] = errResp.Code
    THEN CHOOSE e \in DOMAIN ErrCode : ErrCode[e] = errResp.Code
    ELSE errResp.Message

VARIABLES
    kind, to,      \* what is sent and to whom, per call
    main,          \* where Send is: "idle", "select", "leaving", "returned", "over"
    worker,        \* its goroutine: "none", "start", "stream", "writing", "done"
    todo,          \* the results the goroutine still has to write
    answer,        \* what it writes
    result,        \* the named results of Send
    sent,          \* the channel sent, of capacity 1
    timedOut,      \* the calls whose timeout branch was taken
    said,          \* what the receiver answered, None before it did
    reply,         \* the message on the stream back to the caller
    blocks,        \* which side blocks the other: a subset of {"self", "peer"}
    callbacks,     \* how often the callback of a call was run
    asyncSends,    \* the channel asyncSends
    panicked       \* a type assertion on a response failed

messagingVars == <<kind, to, main, worker, todo, answer, result, sent, timedOut, said, reply,
          blocks, callbacks, asyncSends, panicked>>

Response == {"nil", "AppMsg", "GetResp", "newHash"}
Err == {"nil", "error in receive", "ErrHashNotFound", "ErrHashModified", "unknown",
        "SendTimeoutErr", "context deadline exceeded"} \cup StreamErr

\* Every variable has a value of its type.
MessagingTypeOK ==
    /\ kind \in [Call -> Kind \cup {"none"}] /\ to \in [Call -> Target]
    /\ main \in [Call -> {"idle", "select", "leaving", "returned", "over"}]
    /\ worker \in [Call -> {"none", "start", "stream", "writing", "done"}]
    /\ todo \in [Call -> SUBSET {"err", "response"}]
    /\ \A c \in Call : /\ {result[c].response, answer[c].response} \subseteq Response
                       /\ {result[c].err, answer[c].err} \subseteq Err
                       /\ said[c] = None \/ said[c].err \in Err
                       /\ Len(sent[c]) <= 1
    /\ timedOut \subseteq Call /\ blocks \subseteq Target
    /\ callbacks \in [Call -> 0 .. 1]
    /\ Len(asyncSends) <= Cap /\ panicked \in BOOLEAN

MessagingInit ==
    /\ kind = [c \in Call |-> "none"] /\ to = [c \in Call |-> "self"]
    /\ main = [c \in Call |-> "idle"] /\ worker = [c \in Call |-> "none"]
    /\ todo = [c \in Call |-> {}] /\ answer = [c \in Call |-> Answer("nil", "nil")]
    /\ result = [c \in Call |-> Answer("nil", "nil")]
    /\ sent = [c \in Call |-> << >>] /\ timedOut = {}
    /\ said = [c \in Call |-> None] /\ reply = [c \in Call |-> << >>]
    /\ blocks = {} /\ callbacks = [c \in Call |-> 0]
    /\ asyncSends = << >> /\ panicked = FALSE

-----------------------------------------------------------------------------
(* The caller *)

\* ActionSend.Do, or the DHT, calls Send, which starts its goroutine and waits.
\* With a callback all of it happens in the goroutine of SendAsync.
Do(c, k, t) ==
    /\ main[c] = "idle"
    /\ kind' = [kind EXCEPT ![c] = k] /\ to' = [to EXCEPT ![c] = t]
    /\ main' = [main EXCEPT ![c] = "select"]
    /\ worker' = [worker EXCEPT ![c] = "start"]
    /\ UNCHANGED <<todo, answer, result, sent, timedOut, said, reply, blocks, callbacks,
                   asyncSends, panicked>>

\* The deadline of the context passes.
\* Mutant: Send waits for the goroutine only.
TimeoutNever(c) == FALSE /\ UNCHANGED messagingVars
Timeout(c) ==
    /\ main[c] = "select"
    /\ timedOut' = timedOut \cup {c}
    /\ result' = [result EXCEPT ![c].err = "SendTimeoutErr"]
    /\ main' = [main EXCEPT ![c] = "leaving"]
    /\ UNCHANGED <<kind, to, worker, todo, answer, sent, said, reply, blocks, callbacks,
                   asyncSends, panicked>>

\* The deferred cancel has run and the results are read.
Return(c) ==
    /\ main[c] = "leaving"
    /\ main' = [main EXCEPT ![c] = "returned"]
    /\ UNCHANGED <<kind, to, worker, todo, answer, result, sent, timedOut, said, reply,
                   blocks, callbacks, asyncSends, panicked>>

\* The goroutine has finished first.
Sent(c) ==
    /\ main[c] = "select" /\ sent[c] # << >>
    /\ result' = [result EXCEPT ![c].err = Head(sent[c])]
    /\ sent' = [sent EXCEPT ![c] = Tail(@)]
    /\ main' = [main EXCEPT ![c] = "returned"]
    /\ UNCHANGED <<kind, to, worker, todo, answer, timedOut, said, reply, blocks,
                   callbacks, asyncSends, panicked>>

\* What the caller does with the results: ActionSend.Do asserts that a response
\* without an error is an AppMsg; the DHT hands both on.
Respond(c) ==
    /\ main[c] = "returned" /\ kind[c] # "async"
    /\ panicked' = (kind[c] = "app" /\ result[c].err = "nil"
                        /\ result[c].response # "AppMsg")
    /\ main' = [main EXCEPT ![c] = "over"]
    /\ UNCHANGED <<kind, to, worker, todo, answer, result, sent, timedOut, said, reply,
                   blocks, callbacks, asyncSends>>

\* The rest of SendAsync's goroutine: the callback is run on an AppMsg, any other
\* response is an error that stays in the inner block, and the error of Send is
\* reported on asyncSends, which waits for room.
SendAsync(c) ==
    /\ main[c] = "returned" /\ kind[c] = "async" /\ Len(asyncSends) < Cap
    /\ callbacks' = [callbacks EXCEPT ![c] =
                        IF result[c] = Answer("AppMsg", "nil") THEN @ + 1 ELSE @]
    /\ asyncSends' = Append(asyncSends, result[c].err)
    /\ main' = [main EXCEPT ![c] = "over"]
    /\ UNCHANGED <<kind, to, worker, todo, answer, result, sent, timedOut, said, reply,
                   blocks, panicked>>

HandleAsyncSends ==
    /\ asyncSends # << >> /\ asyncSends' = Tail(asyncSends)
    /\ UNCHANGED <<kind, to, main, worker, todo, answer, result, sent, timedOut, said,
                   reply, blocks, callbacks, panicked>>

-----------------------------------------------------------------------------
(* The goroutine of Send *)

\* The goroutine has an answer and starts to write the results that it sets.
Writes(c, ans, which) ==
    /\ worker' = [worker EXCEPT ![c] = "writing"]
    /\ answer' = [answer EXCEPT ![c] = ans] /\ todo' = [todo EXCEPT ![c] = which]

\* One write of a named result.  Once Send has returned it changes nothing that
\* anybody reads.
Write(c, r) ==
    result' = IF main[c] \in {"returned", "over"} THEN result ELSE [result EXCEPT ![c] = r]

\* A message to the node itself goes to the receiver of the protocol directly.
Local(c) ==
    /\ worker[c] = "start" /\ to[c] = "self"
    /\ \E ans \in ReceiverSays(kind[c]) :
          /\ said' = [said EXCEPT ![c] = ans]
          /\ Writes(c, ans, {"err", "response"})
    /\ UNCHANGED <<kind, to, main, result, sent, timedOut, reply, blocks, callbacks,
                   asyncSends, panicked>>

\* node.Send up to the write: the block list, then a stream to the peer.  Opening
\* it fails if there is no way to the peer, or because the context is over.
Open(c) ==
    /\ worker[c] = "start" /\ to[c] = "peer"
    /\ \/ "self" \in blocks /\ Writes(c, Answer("nil", "ErrBlockedListed"), {"err"})
       \/ "self" \notin blocks /\ Writes(c, Answer("nil", "dial failed"), {"err"})
       \/ "self" \notin blocks /\ c \in timedOut
            /\ Writes(c, Answer("nil", "context deadline exceeded"), {"err"})
       \/ /\ "self" \notin blocks
          /\ worker' = [worker EXCEPT ![c] = "stream"] /\ UNCHANGED <<answer, todo>>
    /\ UNCHANGED <<kind, to, main, result, sent, timedOut, said, reply, blocks, callbacks,
                   asyncSends, panicked>>

\* node.Send from the write on: the stream breaks before an answer is decoded.
StreamFails(c) ==
    /\ worker[c] = "stream"
    /\ Writes(c, Answer("nil", "stream closed"), {"err"})
    /\ UNCHANGED <<kind, to, main, result, sent, timedOut, said, reply, blocks, callbacks,
                   asyncSends, panicked>>

\* The answer is decoded: node.Send's nil error is written to err, and what the
\* answer says is written next.
Decode(c) ==
    /\ worker[c] = "stream" /\ reply[c] # << >>
    /\ Write(c, [result[c] EXCEPT !.err = "nil"])
    /\ LET r == Head(reply[c])
       IN  IF r.type = "ERROR_RESPONSE"
           THEN Writes(c, Answer(r.body, DecodeResponseError(r.errResp)),
                       {"err", "response"})
           ELSE Writes(c, Answer(r.body, "nil"), {"response"})
    /\ UNCHANGED <<kind, to, main, sent, timedOut, said, reply, blocks, callbacks,
                   asyncSends, panicked>>

\* One of the results is written; the answer of a peer sets err first.
WriteErr(c) ==
    /\ worker[c] = "writing" /\ "err" \in todo[c]
    /\ Write(c, [result[c] EXCEPT !.err = answer[c].err])
    /\ todo' = [todo EXCEPT ![c] = @ \ {"err"}]
    /\ UNCHANGED <<kind, to, main, worker, answer, sent, timedOut, said, reply, blocks,
                   callbacks, asyncSends, panicked>>

WriteResponse(c) ==
    /\ worker[c] = "writing" /\ "response" \in todo[c]
    /\ "err" \in todo[c] => to[c] = "self"
    /\ Write(c, [result[c] EXCEPT !.response = answer[c].response])
    /\ todo' = [todo EXCEPT ![c] = @ \ {"response"}]
    /\ UNCHANGED <<kind, to, main, worker, answer, sent, timedOut, said, reply, blocks,
                   callbacks, asyncSends, panicked>>

\* The last statement of the goroutine: sent <- err.
Finish(c) ==
    /\ worker[c] = "writing" /\ todo[c] = {}
    /\ sent' = [sent EXCEPT ![c] = <<result[c].err>>]
    /\ worker' = [worker EXCEPT ![c] = "done"]
    /\ UNCHANGED <<kind, to, main, todo, answer, result, timedOut, said, reply, blocks,
                   callbacks, asyncSends, panicked>>

-----------------------------------------------------------------------------
(* The peer *)

\* respondWith: an error travels as a code or a text, with the body as payload.
respondWith(ans) ==
    IF ans.err = "nil" THEN [type |-> "OK_RESPONSE", body |-> ans.response]
    ELSE [type |-> "ERROR_RESPONSE", body |-> ans.response,
          errResp |-> NewErrorResponse(ans.err)]

\* The handler StartProtocol installs: a peer that is blocked is told so, any
\* other message goes to the receiver of the protocol.
Handle(c) ==
    /\ worker[c] \in {"stream", "writing", "done"} /\ to[c] = "peer"
    /\ answer[c].err \notin {"ErrBlockedListed", "dial failed", "context deadline exceeded"}
    /\ said[c] = None
    /\ \E ans \in IF "peer" \in blocks THEN {Answer("nil", "ErrBlockedListed")}
                  ELSE ReceiverSays(kind[c]) :
          /\ said' = [said EXCEPT ![c] = ans]
          /\ reply' = [reply EXCEPT ![c] = <<respondWith(ans)>>]
    /\ UNCHANGED <<kind, to, main, worker, todo, answer, result, sent, timedOut, blocks,
                   callbacks, asyncSends, panicked>>

\* ActionListAdd.Receive blocks the other side, on either node.
Block(n) ==
    /\ n \notin blocks /\ blocks' = blocks \cup {n}
    /\ UNCHANGED <<kind, to, main, worker, todo, answer, result, sent, timedOut, said,
                   reply, callbacks, asyncSends, panicked>>

MessagingNext ==
    /\ ~panicked
    /\ \/ \E c \in Call : \E m \in May[c] : Do(c, m[1], m[2])
       \/ \E c \in Call : \/ Timeout(c) \/ Return(c) \/ Sent(c) \/ Respond(c)
                          \/ SendAsync(c) \/ Local(c) \/ Open(c) \/ StreamFails(c)
                          \/ Decode(c) \/ WriteErr(c) \/ WriteResponse(c) \/ Finish(c)
                          \/ Handle(c)
       \/ HandleAsyncSends
       \/ \E n \in Target : Block(n)

MessagingSpec == MessagingInit /\ [][MessagingNext]_messagingVars

\* The runtime runs every goroutine that can run, and timers fire.  Nothing is
\* assumed of the receiver, of the stream or of the peer.
MessagingFairSpec ==
    /\ MessagingSpec
    /\ \A c \in Call : /\ WF_messagingVars(~panicked /\ Timeout(c)) /\ WF_messagingVars(~panicked /\ Return(c))
                       /\ WF_messagingVars(~panicked /\ Respond(c)) /\ SF_messagingVars(~panicked /\ SendAsync(c))
    /\ WF_messagingVars(~panicked /\ HandleAsyncSends)

-----------------------------------------------------------------------------
Returned(c) == main[c] \in {"returned", "over"}

\* A call that did not time out returns the receiver's own response and error,
\* after they went through respondWith and DecodeResponseError on another node,
\* or a failure of the stream and no response: sent <- err is the last statement
\* of the goroutine.  Whatever the timeout races with, a response without an error
\* is one the receiver gave without an error.  The callback of an asynchronous send
\* is run at most once, and only if the receiver answered with an AppMsg; and the
\* type assertion of ActionSend.Do panics only if a call has timed out.  Every
\* variable has a value of its type.
AnswerIsReceivers ==
    /\ MessagingTypeOK
    /\ \A c \in Call : Returned(c) /\ c \notin timedOut =>
          \/ result[c] = said[c]
          \/ result[c].response = "nil" /\ result[c].err \in StreamErr
    /\ \A c \in Call : Returned(c) /\ result[c].err = "nil" /\ result[c].response # "nil"
          => said[c] = Answer(result[c].response, "nil")
    /\ \A c \in Call : callbacks[c] > 0 =>
          callbacks[c] = 1 /\ said[c] = Answer("AppMsg", "nil")
    /\ panicked => timedOut # {}

\* Send returns, and its caller goes on, also if the receiver or the peer never
\* answers.
SendReturns ==
    \A c \in Call : main[c] = "select" ~> (main[c] = "over" \/ panicked)

\* A send that ran into its timeout reports SendTimeoutErr, as the test of an
\* asynchronous send expects, unless the whole answer came just then: never a
\* success without an answer.
TimeoutReported ==
    \A c \in Call : Returned(c) /\ c \in timedOut =>
        result[c].err # "nil" \/ result[c] = said[c]
=============================================================================
