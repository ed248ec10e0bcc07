----------------------------- MODULE NodeProofs -----------------------------
(***************************************************************************)
(* Proofs about Messaging, for any calls of any kinds and any capacity of  *)
(* the channel of reports: what Send returns is what the receiver said.    *)
(*                                                                         *)
(* The results of Send are its goroutine's as far as that has written      *)
(* them, but for the error that the timeout has put there.  A response     *)
(* and no error can only come together, for an answer of a peer writes the *)
(* error first and a local one finds the error of the timeout.             *)
(*                                                                         *)
(* Proofs about AgentChange: when calls of updateAgent do not overlap a    *)
(* node that is blocked is one whose key is replaced; when none fails      *)
(* either, the agent, the node and the chain agree after each call and the *)
(* keys follow each other.                                                 *)
(*                                                                         *)
(* The safety properties of DHTNode for any number of hashes, messages,    *)
(* goroutines and retries, and any capacity of the retry queue.            *)
(*                                                                         *)
(* First every transaction on the store (DHTStore) is shown to keep its    *)
(* type and its four properties; then the goroutines, which share it.      *)
(* All is proved together.  IInv adds two facts to them: what every        *)
(* goroutine holds in its hands keeps the retry count, and a goroutine     *)
(* that is storing links does so for a LINK message.                       *)
(***************************************************************************)
EXTENDS AgentChange, DHTNode, Messaging, TLAPS

-----------------------------------------------------------------------------
(* Messaging *)

\* All that a receiver, or the handler in its place, answers.
Says == {Answer("AppMsg", "nil"), Answer("nil", "error in receive"), Answer("GetResp", "nil"),
         Answer("nil", "ErrHashNotFound"), Answer("newHash", "ErrHashModified"),
         Answer("nil", "ErrBlockedListed")}
Reply == [response : Response, err : Err]

Typed ==
    /\ kind \in [Call -> Kind \cup {"none"}] /\ to \in [Call -> Target]
    /\ main \in [Call -> {"idle", "select", "leaving", "returned", "over"}]
    /\ worker \in [Call -> {"none", "start", "stream", "writing", "done"}]
    /\ todo \in [Call -> SUBSET {"err", "response"}]
    /\ answer \in [Call -> Reply] /\ result \in [Call -> Reply]
    /\ sent \in [Call -> {<< >>} \cup {<<e>> : e \in Err}]
    /\ said \in [Call -> {None} \cup Says]
    /\ reply \in [Call -> {<< >>} \cup {<<respondWith(a)>> : a \in Says}]
    /\ timedOut \subseteq Call /\ blocks \subseteq Target
    /\ callbacks \in [Call -> {0, 1}]
    /\ asyncSends \in Seq(Err) /\ Len(asyncSends) <= Cap /\ panicked \in BOOLEAN

\* The goroutine has an answer: the receiver's, or a failure of the stream.
Source(c) ==
    \/ answer[c] = said[c]
    \/ /\ answer[c].response = "nil" /\ "response" \notin todo[c]
       /\ answer[c].err \in StreamErr \cup {"context deadline exceeded"}
       /\ answer[c].err = "context deadline exceeded" => c \in timedOut

\* What the timeout leaves of the error until the goroutine writes one.
Before(c) == IF c \in timedOut THEN "SendTimeoutErr" ELSE "nil"

\* The results while Send has not returned.
Written(c) ==
    /\ worker[c] # "none"
    /\ worker[c] \in {"start", "stream"} => result[c] = Answer("nil", Before(c))
    /\ worker[c] \in {"writing", "done"} =>
          /\ Source(c)
          /\ result[c].response = IF "response" \in todo[c] THEN "nil" ELSE answer[c].response
          /\ "err" \notin todo[c] =>
                \/ result[c].err = answer[c].err
                \/ c \in timedOut /\ result[c].err = "SendTimeoutErr"
          /\ "err" \in todo[c] =>
                IF to[c] = "self" THEN result[c].err = Before(c)
                ELSE "response" \in todo[c] \/ answer[c].response = "nil"
    /\ main[c] = "select" => sent[c] = IF worker[c] = "done" THEN <<result[c].err>> ELSE << >>

\* The results when it has.
Honest(c) ==
    /\ c \notin timedOut => \/ result[c] = said[c]
                            \/ result[c].response = "nil" /\ result[c].err \in StreamErr
    /\ result[c].err = "nil" /\ result[c].response # "nil" =>
          said[c] = Answer(result[c].response, "nil")

CallInv(c) ==
    /\ main[c] = "idle" => worker[c] = "none" /\ result[c] = Answer("nil", "nil") /\ sent[c] = << >>
    /\ worker[c] = "none" => said[c] = None /\ reply[c] = << >>
    /\ worker[c] = "start" => said[c] = None /\ reply[c] = << >>
    /\ worker[c] = "stream" => to[c] = "peer"
    /\ worker[c] = "done" => todo[c] = {}
    /\ said[c] # None => said[c] \in ReceiverSays(kind[c]) \cup {Answer("nil", "ErrBlockedListed")}
    /\ reply[c] # << >> => said[c] # None /\ reply[c] = <<respondWith(said[c])>>
    /\ c \in timedOut => main[c] \in {"leaving", "returned", "over"}
    /\ main[c] \in {"select", "leaving"} => Written(c)
    /\ main[c] = "leaving" => c \in timedOut
    /\ Returned(c) => Honest(c)
    /\ callbacks[c] = 1 => main[c] = "over" /\ said[c] = Answer("AppMsg", "nil")

SendInv == Typed /\ (\A c \in Call : CallInv(c)) /\ (panicked => timedOut # {})

-----------------------------------------------------------------------------
(* Answers *)

LEMMA AnswerFacts ==
    \A a, r, e : a = Answer(r, e) => a.response = r /\ a.err = e
BY DEF Answer

LEMMA AnswerParts ==
    \A r, e : Answer(r, e).response = r /\ Answer(r, e).err = e
BY DEF Answer

LEMMA ReplyFacts ==
    ASSUME NEW a \in Reply
    PROVE  /\ a.response \in Response /\ a.err \in Err /\ a = Answer(a.response, a.err)
           /\ \A e \in Err : [a EXCEPT !.err = e] = Answer(a.response, e)
           /\ \A r \in Response : [a EXCEPT !.response = r] = Answer(r, a.err)
           /\ a # None
BY DEF Reply, Answer, None, Response

LEMMA ErrSet ==
    ASSUME NEW a \in Reply, NEW e \in Err
    PROVE  \A b : b = [a EXCEPT !.err = e] => b \in Reply /\ b.response = a.response /\ b.err = e
BY DEF Reply

LEMMA ResponseSet ==
    ASSUME NEW a \in Reply, NEW r \in Response
    PROVE  \A b : b = [a EXCEPT !.response = r] => b \in Reply /\ b.response = r /\ b.err = a.err
BY DEF Reply

LEMMA ReplyMade ==
    ASSUME NEW r \in Response, NEW e \in Err PROVE Answer(r, e) \in Reply
BY DEF Reply, Answer

\* The answers of receivers are answers.
LEMMA SaysFacts ==
    /\ \A a \in Says : a \in Reply
    /\ Says \cap {None} = {}
    /\ \A k : ReceiverSays(k) \cup {Answer("nil", "ErrBlockedListed")} \subseteq Says
    /\ {"nil", "AppMsg", "GetResp", "newHash"} = Response
    /\ {"nil", "SendTimeoutErr", "context deadline exceeded"} \cup StreamErr \subseteq Err
<1>1. {"nil", "AppMsg", "GetResp", "newHash"} = Response
    BY DEF Response
<1>2. {"nil", "error in receive", "ErrHashNotFound", "ErrHashModified", "ErrBlockedListed"} \subseteq Err
    BY DEF Err, StreamErr
<1>3. \A a \in Says : a \in Reply
    BY ZenonT(30), <1>1, <1>2, ReplyMade DEF Says
<1>4. None \notin Says
    BY ZenonT(30), <1>3, ReplyFacts
<1>5. \A k : ReceiverSays(k) \cup {Answer("nil", "ErrBlockedListed")} \subseteq Says
    BY ZenonT(30) DEF ReceiverSays, Says
<1>6. {"nil", "SendTimeoutErr", "context deadline exceeded"} \cup StreamErr \subseteq Err
    BY DEF Err
<1> QED BY ZenonT(30), <1>1, <1>3, <1>4, <1>5, <1>6

\* Only an application answers with an AppMsg, and it does whenever there is no error.
LEMMA AppSays ==
    \A a \in ReceiverSays("app") \cup {Answer("nil", "ErrBlockedListed")} :
        a.err = "nil" => a.response = "AppMsg"
<1>1. ReceiverSays("app") = {Answer("AppMsg", "nil"), Answer("nil", "error in receive")}
    BY DEF ReceiverSays
<1>2. /\ Answer("AppMsg", "nil").response = "AppMsg" /\ Answer("nil", "error in receive").err # "nil"
      /\ Answer("nil", "ErrBlockedListed").err # "nil"
    BY DEF Answer
<1> QED BY ZenonT(30), <1>1, <1>2

LEMMA Positive == \A n \in {1, 2, 3, 4, 5, 6, 7} : n # 0
OBVIOUS

\* What comes out of an answer on the way back is the receiver's error.
LEMMA ErrorsReadBack ==
    ASSUME NEW e \in {"error in receive", "ErrHashNotFound", "ErrHashModified", "ErrBlockedListed"}
    PROVE  DecodeResponseError(NewErrorResponse(e)) = e
<1>1. /\ DOMAIN ErrCode = {"ErrHashNotFound", "ErrHashDeleted", "ErrHashModified", "ErrHashRejected",
                           "ErrLinkNotFound", "ErrEntryTypeMismatch", "ErrBlockedListed"}
      /\ ErrCode["ErrHashNotFound"] = 1 /\ ErrCode["ErrHashDeleted"] = 2 /\ ErrCode["ErrHashModified"] = 3
      /\ ErrCode["ErrHashRejected"] = 4 /\ ErrCode["ErrLinkNotFound"] = 5
      /\ ErrCode["ErrEntryTypeMismatch"] = 6 /\ ErrCode["ErrBlockedListed"] = 7
    BY DEF ErrCode
<1> DEFINE Name == <<"ErrHashNotFound", "ErrHashDeleted", "ErrHashModified", "ErrHashRejected",
                     "ErrLinkNotFound", "ErrEntryTypeMismatch", "ErrBlockedListed">>
<1>2. \A d, f \in DOMAIN ErrCode : ErrCode[d] = ErrCode[f] => d = f
    <2>1. /\ Name[1] = "ErrHashNotFound" /\ Name[2] = "ErrHashDeleted" /\ Name[3] = "ErrHashModified"
          /\ Name[4] = "ErrHashRejected" /\ Name[5] = "ErrLinkNotFound"
          /\ Name[6] = "ErrEntryTypeMismatch" /\ Name[7] = "ErrBlockedListed"
        OBVIOUS
    <2> HIDE DEF Name
    <2>2. \A d \in DOMAIN ErrCode : Name[ErrCode[d]] = d
        BY ZenonT(30), <1>1, <2>1
    <2> QED BY ZenonT(30), <2>2
<1>3. \A d \in DOMAIN ErrCode : ErrCode[d] # ErrUnknownCode
    <2>2. \A d \in DOMAIN ErrCode : ErrCode[d] \in {1, 2, 3, 4, 5, 6, 7}
        BY ZenonT(30), <1>1
    <2> QED BY ZenonT(30), <2>2, Positive DEF ErrUnknownCode
<1>4. CASE e \in DOMAIN ErrCode
    <2>1. NewErrorResponse(e).Code = ErrCode[e]
        BY <1>4 DEF NewErrorResponse
    <2> QED BY ZenonT(30), <1>2, <1>4, <2>1 DEF DecodeResponseError
<1>5. CASE e \notin DOMAIN ErrCode
    <2>1. NewErrorResponse(e).Code = ErrUnknownCode /\ NewErrorResponse(e).Message = e
        BY <1>5 DEF NewErrorResponse
    <2> QED BY ZenonT(30), <1>3, <2>1 DEF DecodeResponseError
<1> QED BY <1>4, <1>5

-----------------------------------------------------------------------------
(* Steps *)

\* Nothing happens to a call.
Same(d) ==
    /\ kind'[d] = kind[d] /\ to'[d] = to[d] /\ main'[d] = main[d] /\ worker'[d] = worker[d]
    /\ todo'[d] = todo[d] /\ answer'[d] = answer[d] /\ result'[d] = result[d] /\ sent'[d] = sent[d]
    /\ said'[d] = said[d] /\ reply'[d] = reply[d] /\ callbacks'[d] = callbacks[d]
    /\ d \in timedOut' <=> d \in timedOut

LEMMA SameCall == ASSUME NEW d, CallInv(d), Same(d) PROVE CallInv(d)'
<1>1. Written(d) => Written(d)'
    BY ZenonT(60) DEF Written, Source, Before, Same
<1>2. Returned(d)' = Returned(d) /\ (Honest(d) => Honest(d)')
    BY ZenonT(60) DEF Returned, Honest, Same
<1> QED BY ZenonT(60), <1>1, <1>2 DEF CallInv, Same

\* A step of one call.
OnlyCall(c) == \A d \in Call \ {c} : Same(d)

LEMMA StepDo ==
    ASSUME Typed, NEW c \in Call, CallInv(c), NEW k \in Kind, NEW t \in Target, Do(c, k, t)
    PROVE  Typed' /\ CallInv(c)' /\ OnlyCall(c)
<1>1. /\ main[c] = "idle" /\ kind'[c] = k /\ to'[c] = t /\ main'[c] = "select" /\ worker'[c] = "start"
      /\ UNCHANGED <<todo, answer, result, sent, timedOut, said, reply, blocks, callbacks, asyncSends, panicked>>
    BY ZenonT(30) DEF Do, Typed
<1>2. Typed'
    BY ZenonT(30) DEF Do, Typed
<1>3. OnlyCall(c)
    BY ZenonT(30) DEF Do, Typed, OnlyCall, Same
<1>4. worker[c] = "none" /\ result[c] = Answer("nil", "nil") /\ sent[c] = << >> /\ said[c] = None /\ reply[c] = << >> /\ c \notin timedOut /\ callbacks[c] # 1
    BY ZenonT(30), <1>1 DEF CallInv
<1>5. Written(c)'
    BY ZenonT(30), <1>1, <1>4 DEF Written, Before
<1>6. CallInv(c)'
    BY ZenonT(30), <1>1, <1>4, <1>5 DEF CallInv, Returned
<1> QED BY ZenonT(30), <1>2, <1>3, <1>6

LEMMA StepTimeout ==
    ASSUME Typed, NEW c \in Call, CallInv(c), Timeout(c) PROVE Typed' /\ CallInv(c)' /\ OnlyCall(c)
<1>1. /\ main[c] = "select" /\ timedOut' = timedOut \cup {c} /\ main'[c] = "leaving"
      /\ result' = [result EXCEPT ![c] = [result[c] EXCEPT !.err = "SendTimeoutErr"]]
      /\ UNCHANGED <<kind, to, worker, todo, answer, sent, said, reply, blocks, callbacks, asyncSends, panicked>>
    BY ZenonT(30) DEF Timeout, Typed
<1>2. result[c] \in Reply /\ "SendTimeoutErr" \in Err
    BY ZenonT(30), SaysFacts DEF Typed
<1>3. result'[c] = [result[c] EXCEPT !.err = "SendTimeoutErr"]
    BY ZenonT(30), <1>1 DEF Typed
<1>4. result'[c] \in Reply /\ result'[c].response = result[c].response /\ result'[c].err = "SendTimeoutErr"
    BY SMTT(30), <1>2, <1>3, ErrSet
<1>5. Typed'
    BY ZenonT(30), <1>1, <1>3, <1>4 DEF Timeout, Typed
<1>6. OnlyCall(c)
    BY ZenonT(30), <1>1 DEF Timeout, Typed, OnlyCall, Same
<1>7. Written(c)
    BY ZenonT(30), <1>1 DEF CallInv
<1>8. Written(c)'
    <2>1. worker[c] \in {"start", "stream"} => result[c].response = "nil"
        BY SMTT(30), <1>7, AnswerFacts DEF Written
    <2>2. Source(c) => Source(c)'
        BY ZenonT(30), <1>1 DEF Source
    <2>3. worker[c] \in {"start", "stream"} => result'[c] = Answer("nil", "SendTimeoutErr")
        BY ZenonT(30), <1>4, <2>1, ReplyFacts
    <2>4. c \in timedOut' /\ main'[c] # "select"
        BY ZenonT(30), <1>1
    <2> QED BY ZenonT(60), <1>1, <1>4, <1>7, <2>2, <2>3, <2>4 DEF Written, Before
<1>9. CallInv(c)'
    BY ZenonT(30), <1>1, <1>8 DEF CallInv, Returned
<1> QED BY ZenonT(30), <1>5, <1>6, <1>9

\* Send leaves after its timeout: a response without an error is an answer of which
\* the goroutine had written all.
LEMMA StepReturn ==
    ASSUME Typed, NEW c \in Call, CallInv(c), Return(c) PROVE Typed' /\ CallInv(c)' /\ OnlyCall(c)
<1>1. /\ main[c] = "leaving" /\ main'[c] = "returned"
      /\ UNCHANGED <<kind, to, worker, todo, answer, result, sent, timedOut, said, reply, blocks, callbacks, asyncSends, panicked>>
    BY ZenonT(30) DEF Return, Typed
<1>2. Typed' /\ OnlyCall(c)
    BY ZenonT(30) DEF Return, Typed, OnlyCall, Same
<1>3. Written(c) /\ c \in timedOut /\ worker[c] \in {"none", "start", "stream", "writing", "done"}
    BY ZenonT(30), <1>1 DEF CallInv, Typed
<1>4. ASSUME result[c].err = "nil", result[c].response # "nil" PROVE said[c] = Answer(result[c].response, "nil")
    <2>1. worker[c] \in {"writing", "done"}
        BY SMTT(30), <1>3, <1>4, AnswerFacts DEF Written
    <2>2. "response" \notin todo[c] /\ result[c].response = answer[c].response
        BY ZenonT(30), <1>3, <1>4, <2>1 DEF Written
    <2>3. answer[c] = said[c]
        BY ZenonT(30), <1>3, <1>4, <2>1, <2>2 DEF Written, Source
    <2>4. result[c].err # "SendTimeoutErr"
        BY <1>4
    <2>5. "err" \notin todo[c]
        BY ZenonT(30), <1>3, <1>4, <2>1, <2>2, <2>4 DEF Written, Before
    <2>6. answer[c].err = "nil"
        BY ZenonT(30), <1>3, <1>4, <2>1, <2>4, <2>5 DEF Written
    <2>7. answer[c] = Answer(answer[c].response, answer[c].err)
        BY ZenonT(30), ReplyFacts DEF Typed
    <2> QED BY ZenonT(30), <2>2, <2>3, <2>6, <2>7
<1>5. Honest(c)'
    BY ZenonT(30), <1>1, <1>3, <1>4 DEF Honest
<1>6. CallInv(c)'
    BY ZenonT(30), <1>1, <1>3, <1>5 DEF CallInv, Returned
<1> QED BY ZenonT(30), <1>2, <1>6

\* The goroutine was first: all of its answer is in the results.
LEMMA StepSent ==
    ASSUME Typed, NEW c \in Call, CallInv(c), Sent(c) PROVE Typed' /\ CallInv(c)' /\ OnlyCall(c)
<1>1. /\ main[c] = "select" /\ sent[c] # << >> /\ main'[c] = "returned"
      /\ result' = [result EXCEPT ![c] = [result[c] EXCEPT !.err = Head(sent[c])]]
      /\ sent' = [sent EXCEPT ![c] = Tail(sent[c])]
      /\ UNCHANGED <<kind, to, worker, todo, answer, timedOut, said, reply, blocks, callbacks, asyncSends, panicked>>
    BY ZenonT(30) DEF Sent, Typed
<1>2. Written(c) /\ c \notin timedOut
    BY ZenonT(30), <1>1 DEF CallInv
<1>3. worker[c] = "done" /\ sent[c] = <<result[c].err>> /\ todo[c] = {}
    BY ZenonT(30), <1>1, <1>2 DEF Written, CallInv
<1>4. Head(sent[c]) = result[c].err /\ Tail(sent[c]) = << >>
    BY <1>3
<1>5. result[c] \in Reply /\ answer[c] \in Reply
    BY ZenonT(30) DEF Typed
<1>6. [result[c] EXCEPT !.err = Head(sent[c])] = result[c]
    BY SMTT(30), <1>4, <1>5 DEF Reply
<1>7. result' = result
    BY ZenonT(30), <1>1, <1>6 DEF Typed
<1>8. Typed' /\ OnlyCall(c)
    <2>1. /\ sent' \in [Call -> {<< >>} \cup {<<e>> : e \in Err}]
          /\ \A d \in Call \ {c} : sent'[d] = sent[d]
        BY ZenonT(30), <1>1, <1>4 DEF Typed
    <2>2. main' = [main EXCEPT ![c] = "returned"]
        BY ZenonT(30) DEF Sent
    <2>3. /\ main' \in [Call -> {"idle", "select", "leaving", "returned", "over"}]
          /\ \A d \in Call \ {c} : main'[d] = main[d]
        BY ZenonT(30), <2>2 DEF Typed
    <2>4. UNCHANGED <<kind, to, worker, todo, answer, timedOut, said, reply, blocks, callbacks, asyncSends, panicked>>
        BY ZenonT(30), <1>1
    <2>5. Typed'
        BY ZenonT(30), <1>7, <2>1, <2>3, <2>4 DEF Typed
    <2> QED BY ZenonT(30), <1>7, <2>1, <2>3, <2>4, <2>5 DEF OnlyCall, Same
<1>9. Source(c) /\ result[c].response = answer[c].response /\ result[c].err = answer[c].err
    BY ZenonT(30), <1>2, <1>3 DEF Written
<1>10. result[c] = answer[c]
    <2>1. result[c] = Answer(result[c].response, result[c].err) /\ answer[c] = Answer(answer[c].response, answer[c].err)
        BY ZenonT(30), <1>5, ReplyFacts
    <2> QED BY ZenonT(30), <1>9, <2>1
<1>11. result[c] = Answer(result[c].response, result[c].err)
    BY ZenonT(30), <1>5, ReplyFacts
<1>12. Honest(c)'
    BY ZenonT(30), <1>1, <1>2, <1>7, <1>9, <1>10, <1>11 DEF Honest, Source
<1>13. CallInv(c)'
    BY ZenonT(30), <1>1, <1>2, <1>3, <1>7, <1>12 DEF CallInv, Returned
<1> QED BY ZenonT(30), <1>8, <1>13

\* The caller goes on, with a panic only after a timeout.
LEMMA StepRespond ==
    ASSUME Typed, NEW c \in Call, CallInv(c), Respond(c)
    PROVE  Typed' /\ CallInv(c)' /\ OnlyCall(c) /\ (panicked' => timedOut' # {})
<1>1. /\ main[c] = "returned" /\ main'[c] = "over"
      /\ panicked' = (kind[c] = "app" /\ result[c].err = "nil" /\ result[c].response # "AppMsg")
      /\ UNCHANGED <<kind, to, worker, todo, answer, result, sent, timedOut, said, reply, blocks, callbacks, asyncSends>>
    BY ZenonT(30) DEF Respond, Typed
<1>2. Typed' /\ OnlyCall(c)
    BY ZenonT(30), <1>1 DEF Respond, Typed, OnlyCall, Same
<1>3. Honest(c)
    BY ZenonT(30), <1>1 DEF CallInv, Returned
<1>4. CallInv(c)'
    BY ZenonT(30), <1>1, <1>3 DEF CallInv, Returned, Honest
<1>5. ASSUME panicked' PROVE timedOut # {}
    <2>1. kind[c] = "app" /\ result[c].err = "nil" /\ result[c].response # "AppMsg"
        BY ZenonT(30), <1>1, <1>5
    <2>2. SUFFICES ASSUME c \notin timedOut PROVE FALSE
        BY ZenonT(30)
    <2>3. "nil" \notin StreamErr
        BY DEF StreamErr
    <2>4. result[c] = said[c]
        BY ZenonT(30), <1>3, <2>1, <2>2, <2>3 DEF Honest
    <2>5. said[c] # None
        BY ZenonT(30), <2>4, ReplyFacts DEF Typed
    <2>6. said[c] \in ReceiverSays("app") \cup {Answer("nil", "ErrBlockedListed")}
        BY ZenonT(30), <2>1, <2>5 DEF CallInv
    <2> QED BY ZenonT(30), <2>1, <2>4, <2>6, AppSays
<1> QED BY ZenonT(30), <1>1, <1>2, <1>4, <1>5

\* The callback is run once, on what the receiver said.
LEMMA StepSendAsync ==
    ASSUME Typed, NEW c \in Call, CallInv(c), SendAsync(c) PROVE Typed' /\ CallInv(c)' /\ OnlyCall(c)
<1>1. /\ main[c] = "returned" /\ main'[c] = "over" /\ Len(asyncSends) < Cap
      /\ asyncSends' = Append(asyncSends, result[c].err)
      /\ callbacks' = [callbacks EXCEPT ![c] = IF result[c] = Answer("AppMsg", "nil") THEN callbacks[c] + 1 ELSE callbacks[c]]
      /\ UNCHANGED <<kind, to, worker, todo, answer, result, sent, timedOut, said, reply, blocks, panicked>>
    BY ZenonT(30) DEF SendAsync, Typed
<1>2. callbacks[c] = 0
    <2>1. callbacks[c] \in {0, 1} /\ callbacks[c] # 1
        BY ZenonT(30), <1>1 DEF Typed, CallInv
    <2> QED BY ZenonT(30), <2>1
<1>3. callbacks[c] + 1 = 1
    BY <1>2
<1>4. callbacks'[c] \in {0, 1} /\ (callbacks'[c] = 1 => result[c] = Answer("AppMsg", "nil"))
    <2>1. 1 # 0
        BY ZenonT(30), Positive
    <2> QED BY ZenonT(30), <1>1, <1>2, <1>3, <2>1 DEF Typed
<1>5. result[c].err \in Err
    BY ZenonT(30), ReplyFacts DEF Typed
<1>6. asyncSends' \in Seq(Err) /\ Len(asyncSends') <= Cap
    <2>1. asyncSends \in Seq(Err) /\ Cap \in Nat
        BY ZenonT(30), CapAssumption DEF Typed
    <2> QED BY SMTT(30), <1>1, <1>5, <2>1
<1>7. callbacks' \in [Call -> {0, 1}]
    BY ZenonT(30), <1>1, <1>4 DEF Typed
<1>8. Typed' /\ OnlyCall(c)
    BY ZenonT(30), <1>1, <1>6, <1>7 DEF SendAsync, Typed, OnlyCall, Same
<1>9. Honest(c)
    BY ZenonT(30), <1>1 DEF CallInv, Returned
<1>10. ASSUME callbacks'[c] = 1 PROVE said[c] = Answer("AppMsg", "nil")
    <2>1. result[c] = Answer("AppMsg", "nil")
        BY ZenonT(30), <1>4, <1>10
    <2>2. result[c].response = "AppMsg" /\ result[c].err = "nil"
        BY SMTT(30), <2>1, AnswerFacts
    <2>3. "AppMsg" # "nil"
        OBVIOUS
    <2>4. said[c] = Answer(result[c].response, "nil")
        BY ZenonT(30), <1>9, <2>2, <2>3 DEF Honest
    <2> QED BY ZenonT(30), <2>2, <2>4
<1>11. CallInv(c)'
    BY ZenonT(30), <1>1, <1>9, <1>10 DEF CallInv, Returned, Honest
<1> QED BY ZenonT(30), <1>8, <1>11

\* The receiver answers for the first time: results that are not of it stay true.
LEMMA HonestAnyway ==
    ASSUME Typed, NEW c \in Call, said[c] = None, Honest(c), result'[c] = result[c], timedOut' = timedOut
    PROVE  Honest(c)'
<1>1. result[c] # None
    BY ZenonT(30), ReplyFacts DEF Typed
<1>2. \A r, e : Answer(r, e) = None => r = "none"
    BY DEF Answer, None
<1>3. result[c].response # "none"
    <2>1. result[c].response \in Response
        BY ZenonT(30), ReplyFacts DEF Typed
    <2> QED BY <2>1 DEF Response
<1>4. ~(result[c].err = "nil" /\ result[c].response # "nil")
    BY ZenonT(30), <1>2, <1>3 DEF Honest
<1> QED BY ZenonT(30), <1>1, <1>4 DEF Honest

\* The goroutine begins to write: nothing of the answer is in the results yet.
LEMMA Begins ==
    ASSUME Typed, NEW c \in Call, CallInv(c), ~Returned(c), worker[c] \in {"start", "stream"},
           NEW ans, NEW which, Writes(c, ans, which),
           UNCHANGED <<to, main, result, sent, timedOut>>,
           Source(c)', "err" \in which, "response" \in which \/ ans.response = "nil"
    PROVE  Written(c)'
<1>1. worker'[c] = "writing" /\ answer'[c] = ans /\ todo'[c] = which
    BY ZenonT(30) DEF Writes, Typed
<1>2. main[c] \in {"select", "leaving"}
    <2>1. main[c] # "idle"
        BY ZenonT(30) DEF CallInv
    <2> QED BY ZenonT(30), <2>1 DEF Typed, Returned
<1>3. Written(c)
    BY ZenonT(30), <1>2 DEF CallInv
<1>4. result[c] = Answer("nil", Before(c))
    BY ZenonT(30), <1>3 DEF Written
<1>5. result[c].response = "nil" /\ result[c].err = Before(c)
    BY SMTT(30), <1>4, AnswerFacts
<1>6. Before(c)' = Before(c)
    BY ZenonT(30) DEF Before
<1>7. main[c] = "select" => sent[c] = << >>
    BY ZenonT(30), <1>3 DEF Written
<1> QED BY ZenonT(30), <1>1, <1>5, <1>6, <1>7 DEF Written

\* What the goroutine writes has the types of the variables.
LEMMA WritesTyped ==
    ASSUME Typed, NEW c \in Call, NEW ans \in Reply, NEW which \in SUBSET {"err", "response"},
           Writes(c, ans, which)
    PROVE  /\ worker'[c] = "writing" /\ answer'[c] = ans /\ todo'[c] = which
           /\ worker' \in [Call -> {"none", "start", "stream", "writing", "done"}]
           /\ answer' \in [Call -> Reply] /\ todo' \in [Call -> SUBSET {"err", "response"}]
           /\ \A d \in Call \ {c} : worker'[d] = worker[d] /\ answer'[d] = answer[d] /\ todo'[d] = todo[d]
BY ZenonT(30) DEF Writes, Typed

LEMMA StepLocal ==
    ASSUME Typed, NEW c \in Call, CallInv(c), Local(c) PROVE Typed' /\ CallInv(c)' /\ OnlyCall(c)
<1>1. PICK ans \in ReceiverSays(kind[c]) :
         said' = [said EXCEPT ![c] = ans] /\ Writes(c, ans, {"err", "response"})
    BY ZenonT(30) DEF Local
<1>2. /\ worker[c] = "start" /\ to[c] = "self"
      /\ UNCHANGED <<kind, to, main, result, sent, timedOut, reply, blocks, callbacks, asyncSends, panicked>>
    BY ZenonT(30) DEF Local
<1>3. ans \in Says /\ ans \in Reply /\ {"err", "response"} \in SUBSET {"err", "response"}
    BY ZenonT(30), SaysFacts
<1>4. /\ worker'[c] = "writing" /\ answer'[c] = ans /\ todo'[c] = {"err", "response"}
      /\ worker' \in [Call -> {"none", "start", "stream", "writing", "done"}]
      /\ answer' \in [Call -> Reply] /\ todo' \in [Call -> SUBSET {"err", "response"}]
      /\ \A d \in Call \ {c} : worker'[d] = worker[d] /\ answer'[d] = answer[d] /\ todo'[d] = todo[d]
    BY ZenonT(30), <1>1, <1>3, WritesTyped
<1>5. said'[c] = ans /\ said' \in [Call -> {None} \cup Says] /\ \A d \in Call \ {c} : said'[d] = said[d]
    BY ZenonT(30), <1>1, <1>3 DEF Typed
<1>6. Typed' /\ OnlyCall(c)
    BY ZenonT(30), <1>2, <1>4, <1>5 DEF Typed, OnlyCall, Same
<1>7. said[c] = None /\ reply[c] = << >>
    BY ZenonT(30), <1>2 DEF CallInv
<1>8. ~Returned(c) => Written(c)'
    <2>1. Source(c)'
        BY ZenonT(30), <1>4, <1>5 DEF Source
    <2>2. "err" \in {"err", "response"} /\ "response" \in {"err", "response"}
        BY ZenonT(30)
    <2> QED BY ZenonT(30), <1>1, <1>2, <2>1, <2>2, Begins
<1>9. Returned(c) => Honest(c)'
    BY ZenonT(30), <1>2, <1>7, HonestAnyway DEF CallInv
<1>10. callbacks[c] # 1
    <2>1. said[c] # Answer("AppMsg", "nil")
        BY ZenonT(30), <1>7, SaysFacts DEF Says
    <2> QED BY ZenonT(30), <2>1 DEF CallInv
<1>11. CallInv(c)'
    BY ZenonT(30), <1>1, <1>2, <1>4, <1>5, <1>7, <1>8, <1>9, <1>10 DEF CallInv, Returned
<1> QED BY ZenonT(30), <1>6, <1>11

\* node.Send fails before it has an answer.
LEMMA Fails ==
    ASSUME Typed, NEW c \in Call, CallInv(c), worker[c] \in {"start", "stream"}, to[c] = "peer",
           NEW e \in StreamErr \cup {"context deadline exceeded"},
           e = "context deadline exceeded" => c \in timedOut,
           Writes(c, Answer("nil", e), {"err"}),
           UNCHANGED <<kind, to, main, result, sent, timedOut, said, reply, blocks, callbacks, asyncSends, panicked>>
    PROVE  Typed' /\ CallInv(c)' /\ OnlyCall(c)
<1>1. Answer("nil", e) \in Reply /\ {"err"} \in SUBSET {"err", "response"}
    BY ZenonT(30), SaysFacts, ReplyMade
<1>2. /\ worker'[c] = "writing" /\ answer'[c] = Answer("nil", e) /\ todo'[c] = {"err"}
      /\ worker' \in [Call -> {"none", "start", "stream", "writing", "done"}]
      /\ answer' \in [Call -> Reply] /\ todo' \in [Call -> SUBSET {"err", "response"}]
      /\ \A d \in Call \ {c} : worker'[d] = worker[d] /\ answer'[d] = answer[d] /\ todo'[d] = todo[d]
    BY ZenonT(30), <1>1, WritesTyped
<1>3. Typed' /\ OnlyCall(c)
    BY ZenonT(30), <1>2 DEF Typed, OnlyCall, Same
<1>4. Answer("nil", e).response = "nil" /\ Answer("nil", e).err = e /\ "response" \notin {"err"} /\ "err" \in {"err"}
    <2>1. Answer("nil", e).response = "nil" /\ Answer("nil", e).err = e
        BY ZenonT(30), AnswerParts
    <2>2. "response" \notin {"err"} /\ "err" \in {"err"}
        BY ZenonT(30)
    <2> QED BY ZenonT(30), <2>1, <2>2
<1>5. Source(c)'
    BY ZenonT(30), <1>2, <1>4 DEF Source
<1>6. ~Returned(c) => Written(c)'
    BY ZenonT(30), <1>4, <1>5, Begins
<1>7. Returned(c)' = Returned(c) /\ (Honest(c) => Honest(c)')
    BY ZenonT(30) DEF Returned, Honest
<1>8. CallInv(c)'
    BY ZenonT(30), <1>2, <1>6, <1>7 DEF CallInv, Returned
<1> QED BY ZenonT(30), <1>3, <1>8

LEMMA StepStreamFails ==
    ASSUME Typed, NEW c \in Call, CallInv(c), StreamFails(c) PROVE Typed' /\ CallInv(c)' /\ OnlyCall(c)
<1>1. to[c] = "peer" /\ worker[c] \in {"start", "stream"}
    BY ZenonT(30) DEF StreamFails, CallInv
<1>2. "stream closed" \in StreamErr /\ "stream closed" # "context deadline exceeded"
    BY DEF StreamErr
<1> QED BY ZenonT(30), <1>1, <1>2, Fails DEF StreamFails

LEMMA StepOpen ==
    ASSUME Typed, NEW c \in Call, CallInv(c), Open(c) PROVE Typed' /\ CallInv(c)' /\ OnlyCall(c)
<1>1. /\ worker[c] = "start" /\ to[c] = "peer"
      /\ UNCHANGED <<kind, to, main, result, sent, timedOut, said, reply, blocks, callbacks, asyncSends, panicked>>
    BY ZenonT(30) DEF Open
<1>2. /\ {"ErrBlockedListed", "dial failed"} \subseteq StreamErr
      /\ "ErrBlockedListed" # "context deadline exceeded" /\ "dial failed" # "context deadline exceeded"
    BY DEF StreamErr
<1>3. CASE Writes(c, Answer("nil", "ErrBlockedListed"), {"err"})
    BY ZenonT(30), <1>1, <1>2, <1>3, Fails
<1>4. CASE Writes(c, Answer("nil", "dial failed"), {"err"})
    BY ZenonT(30), <1>1, <1>2, <1>4, Fails
<1>5. CASE c \in timedOut /\ Writes(c, Answer("nil", "context deadline exceeded"), {"err"})
    BY ZenonT(30), <1>1, <1>5, Fails
<1>6. CASE worker' = [worker EXCEPT ![c] = "stream"] /\ UNCHANGED <<answer, todo>>
    <2>1. worker'[c] = "stream"
        BY ZenonT(30), <1>6 DEF Typed
    <2>2. Typed' /\ OnlyCall(c)
        BY ZenonT(30), <1>1, <1>6 DEF Typed, OnlyCall, Same
    <2>3. Returned(c)' = Returned(c) /\ (Honest(c) => Honest(c)')
        BY ZenonT(30), <1>1 DEF Returned, Honest
    <2>4. Written(c) => Written(c)'
        BY ZenonT(30), <1>1, <1>6, <2>1 DEF Written, Before
    <2>5. main[c] # "idle"
        BY ZenonT(30), <1>1 DEF CallInv
    <2>6. CallInv(c)'
        BY ZenonT(30), <1>1, <1>6, <2>1, <2>3, <2>4, <2>5 DEF CallInv, Returned
    <2> QED BY ZenonT(30), <2>2, <2>6
<1> QED BY ZenonT(30), <1>3, <1>4, <1>5, <1>6 DEF Open

\* Whatever a receiver says, the caller reads it back from the answer.
LEMMA ReadsBack ==
    ASSUME NEW a \in Says
    PROVE  IF respondWith(a).type = "ERROR_RESPONSE"
           THEN Answer(respondWith(a).body, DecodeResponseError(respondWith(a).errResp)) = a
           ELSE a.err = "nil" /\ Answer(respondWith(a).body, "nil") = a
<1>1. a = Answer(a.response, a.err)
    BY ZenonT(30), SaysFacts, ReplyFacts
<1>2. a.err = "nil" \/ a.err \in {"error in receive", "ErrHashNotFound", "ErrHashModified", "ErrBlockedListed"}
    BY ZenonT(30), AnswerFacts DEF Says
<1>3. CASE a.err = "nil"
    <2>1. respondWith(a).type = "OK_RESPONSE" /\ respondWith(a).body = a.response
        BY <1>3 DEF respondWith
    <2>2. "OK_RESPONSE" # "ERROR_RESPONSE"
        OBVIOUS
    <2> QED BY ZenonT(30), <1>1, <1>3, <2>1, <2>2
<1>4. CASE a.err # "nil"
    <2>1. /\ respondWith(a).type = "ERROR_RESPONSE" /\ respondWith(a).body = a.response
          /\ respondWith(a).errResp = NewErrorResponse(a.err)
        BY <1>4 DEF respondWith
    <2>2. DecodeResponseError(NewErrorResponse(a.err)) = a.err
        BY ZenonT(30), <1>2, <1>4, ErrorsReadBack
    <2> QED BY ZenonT(30), <1>1, <2>1, <2>2
<1> QED BY ZenonT(30), <1>3, <1>4

\* One write of a result, and its types.
LEMMA WriteTyped ==
    ASSUME Typed, NEW c \in Call, NEW r \in Reply, Write(c, r), UNCHANGED main
    PROVE  /\ result' \in [Call -> Reply] /\ \A d \in Call \ {c} : result'[d] = result[d]
           /\ Returned(c) => result'[c] = result[c]
           /\ ~Returned(c) => result'[c] = r
BY ZenonT(30) DEF Write, Typed, Returned

LEMMA HeadOfOne == \A e : Head(<<e>>) = e /\ Tail(<<e>>) = << >>
OBVIOUS

LEMMA StepDecode ==
    ASSUME Typed, NEW c \in Call, CallInv(c), Decode(c) PROVE Typed' /\ CallInv(c)' /\ OnlyCall(c)
<1>1. /\ worker[c] = "stream" /\ reply[c] # << >>
      /\ Write(c, [result[c] EXCEPT !.err = "nil"])
      /\ UNCHANGED <<kind, to, main, sent, timedOut, said, reply, blocks, callbacks, asyncSends, panicked>>
    BY ZenonT(30) DEF Decode
<1>2. said[c] \in Says /\ reply[c] = <<respondWith(said[c])>> /\ to[c] = "peer"
    BY ZenonT(30), <1>1 DEF CallInv, Typed
<1>3. Head(reply[c]) = respondWith(said[c])
    BY ZenonT(30), <1>2, HeadOfOne
<1>4. PICK which \in {{"err", "response"}, {"response"}} :
         Writes(c, said[c], which) /\ ("err" \notin which => said[c].err = "nil")
    <2>1. \/ Writes(c, said[c], {"err", "response"})
          \/ Writes(c, said[c], {"response"}) /\ said[c].err = "nil"
        BY ZenonT(30), <1>2, <1>3, ReadsBack DEF Decode
    <2> QED BY ZenonT(30), <2>1
<1>5. "response" \in which /\ which \in SUBSET {"err", "response"}
    BY ZenonT(30)
<1>6. said[c] \in Reply /\ result[c] \in Reply
    BY ZenonT(30), <1>2, SaysFacts DEF Typed
<1>7. /\ worker'[c] = "writing" /\ answer'[c] = said[c] /\ todo'[c] = which
      /\ worker' \in [Call -> {"none", "start", "stream", "writing", "done"}]
      /\ answer' \in [Call -> Reply] /\ todo' \in [Call -> SUBSET {"err", "response"}]
      /\ \A d \in Call \ {c} : worker'[d] = worker[d] /\ answer'[d] = answer[d] /\ todo'[d] = todo[d]
    BY ZenonT(30), <1>4, <1>5, <1>6, WritesTyped
<1> DEFINE r == [result[c] EXCEPT !.err = "nil"]
<1>8. r \in Reply /\ r.response = result[c].response /\ r.err = "nil"
    <2>1. "nil" \in Err
        BY DEF Err
    <2> QED BY SMTT(30), <1>6, <2>1, ErrSet
<1> HIDE DEF r
<1>9. /\ result' \in [Call -> Reply] /\ \A d \in Call \ {c} : result'[d] = result[d]
      /\ Returned(c) => result'[c] = result[c]
      /\ ~Returned(c) => result'[c] = r
    BY ZenonT(30), <1>1, <1>8, WriteTyped DEF r
<1>10. Typed' /\ OnlyCall(c)
    BY ZenonT(30), <1>1, <1>7, <1>9 DEF Typed, OnlyCall, Same
<1>11. Returned(c)' = Returned(c) /\ (Returned(c) => Honest(c)')
    BY ZenonT(30), <1>1, <1>9 DEF Returned, Honest, CallInv
<1>12. ASSUME main[c] \in {"select", "leaving"} PROVE Written(c)'
    <2>1. Written(c) /\ ~Returned(c)
        BY ZenonT(30), <1>12 DEF CallInv, Returned
    <2>2. result[c] = Answer("nil", Before(c)) /\ (main[c] = "select" => sent[c] = << >>)
        BY ZenonT(30), <1>1, <2>1 DEF Written
    <2>3. result'[c].response = "nil" /\ result'[c].err = "nil"
        <3>1. result[c].response = "nil"
            BY SMTT(30), <2>2, AnswerFacts
        <3> QED BY ZenonT(30), <1>8, <1>9, <2>1, <3>1
    <2>4. Source(c)'
        BY ZenonT(30), <1>1, <1>7 DEF Source
    <2>5. to'[c] # "self"
        BY ZenonT(30), <1>1, <1>2
    <2> QED BY ZenonT(30), <1>1, <1>4, <1>5, <1>7, <2>2, <2>3, <2>4, <2>5 DEF Written
<1>13. main[c] # "idle"
    BY ZenonT(30), <1>1 DEF CallInv
<1>14. CallInv(c)'
    BY ZenonT(30), <1>1, <1>2, <1>7, <1>11, <1>12, <1>13 DEF CallInv
<1> QED BY ZenonT(30), <1>10, <1>14

LEMMA StepWriteErr ==
    ASSUME Typed, NEW c \in Call, CallInv(c), WriteErr(c) PROVE Typed' /\ CallInv(c)' /\ OnlyCall(c)
<1> DEFINE r == [result[c] EXCEPT !.err = answer[c].err]
<1>1. /\ worker[c] = "writing" /\ "err" \in todo[c] /\ Write(c, r)
      /\ todo' = [todo EXCEPT ![c] = todo[c] \ {"err"}]
      /\ UNCHANGED <<kind, to, main, worker, answer, sent, timedOut, said, reply, blocks, callbacks, asyncSends, panicked>>
    BY ZenonT(30) DEF WriteErr, Typed
<1>2. result[c] \in Reply /\ answer[c].err \in Err
    BY ZenonT(30), ReplyFacts DEF Typed
<1>3. r \in Reply /\ r.response = result[c].response /\ r.err = answer[c].err
    BY SMTT(30), <1>2, ErrSet
<1> HIDE DEF r
<1>4. /\ result' \in [Call -> Reply] /\ \A d \in Call \ {c} : result'[d] = result[d]
      /\ Returned(c) => result'[c] = result[c]
      /\ ~Returned(c) => result'[c] = r
    BY ZenonT(30), <1>1, <1>3, WriteTyped
<1>5. /\ todo'[c] = todo[c] \ {"err"} /\ todo' \in [Call -> SUBSET {"err", "response"}]
      /\ \A d \in Call \ {c} : todo'[d] = todo[d]
    BY ZenonT(30), <1>1 DEF Typed
<1>6. Typed' /\ OnlyCall(c)
    BY ZenonT(30), <1>1, <1>4, <1>5 DEF Typed, OnlyCall, Same
<1>7. Returned(c)' = Returned(c) /\ (Returned(c) => Honest(c)')
    BY ZenonT(30), <1>1, <1>4 DEF Returned, Honest, CallInv
<1>8. "err" \notin todo'[c] /\ ("response" \in todo'[c] <=> "response" \in todo[c])
    <2>1. "response" # "err"
        OBVIOUS
    <2> QED BY ZenonT(30), <1>5, <2>1
<1>9. ASSUME main[c] \in {"select", "leaving"} PROVE Written(c)'
    <2>1. Written(c) /\ ~Returned(c)
        BY ZenonT(30), <1>9 DEF CallInv, Returned
    <2>2. Source(c)'
        BY ZenonT(30), <1>1, <1>8, <2>1 DEF Written, Source
    <2>3. result'[c].response = result[c].response /\ result'[c].err = answer'[c].err
        BY ZenonT(30), <1>1, <1>3, <1>4, <2>1
    <2> QED BY ZenonT(30), <1>1, <1>8, <2>1, <2>2, <2>3 DEF Written
<1>10. CallInv(c)'
    BY ZenonT(30), <1>1, <1>7, <1>9 DEF CallInv
<1> QED BY ZenonT(30), <1>6, <1>10

LEMMA StepWriteResponse ==
    ASSUME Typed, NEW c \in Call, CallInv(c), WriteResponse(c) PROVE Typed' /\ CallInv(c)' /\ OnlyCall(c)
<1> DEFINE r == [result[c] EXCEPT !.response = answer[c].response]
<1>1. /\ worker[c] = "writing" /\ "response" \in todo[c] /\ Write(c, r) /\ ("err" \in todo[c] => to[c] = "self")
      /\ todo' = [todo EXCEPT ![c] = todo[c] \ {"response"}]
      /\ UNCHANGED <<kind, to, main, worker, answer, sent, timedOut, said, reply, blocks, callbacks, asyncSends, panicked>>
    BY ZenonT(30) DEF WriteResponse, Typed
<1>2. result[c] \in Reply /\ answer[c].response \in Response
    BY ZenonT(30), ReplyFacts DEF Typed
<1>3. r \in Reply /\ r.response = answer[c].response /\ r.err = result[c].err
    BY SMTT(30), <1>2, ResponseSet
<1> HIDE DEF r
<1>4. /\ result' \in [Call -> Reply] /\ \A d \in Call \ {c} : result'[d] = result[d]
      /\ Returned(c) => result'[c] = result[c]
      /\ ~Returned(c) => result'[c] = r
    BY ZenonT(30), <1>1, <1>3, WriteTyped
<1>5. /\ todo'[c] = todo[c] \ {"response"} /\ todo' \in [Call -> SUBSET {"err", "response"}]
      /\ \A d \in Call \ {c} : todo'[d] = todo[d]
    BY ZenonT(30), <1>1 DEF Typed
<1>6. Typed' /\ OnlyCall(c)
    BY ZenonT(30), <1>1, <1>4, <1>5 DEF Typed, OnlyCall, Same
<1>7. Returned(c)' = Returned(c) /\ (Returned(c) => Honest(c)')
    BY ZenonT(30), <1>1, <1>4 DEF Returned, Honest, CallInv
<1>8. "response" \notin todo'[c] /\ ("err" \in todo'[c] <=> "err" \in todo[c])
    <2>1. "response" # "err"
        OBVIOUS
    <2> QED BY ZenonT(30), <1>5, <2>1
<1>9. ASSUME main[c] \in {"select", "leaving"} PROVE Written(c)'
    <2>1. Written(c) /\ ~Returned(c)
        BY ZenonT(30), <1>9 DEF CallInv, Returned
    <2>2. Source(c)'
        BY ZenonT(30), <1>1, <2>1 DEF Written, Source
    <2>3. result'[c].response = answer'[c].response /\ result'[c].err = result[c].err
        BY ZenonT(30), <1>1, <1>3, <1>4, <2>1
    <2>4. Before(c)' = Before(c)
        BY ZenonT(30), <1>1 DEF Before
    <2> QED BY ZenonT(30), <1>1, <1>8, <2>1, <2>2, <2>3, <2>4 DEF Written
<1>10. CallInv(c)'
    BY ZenonT(30), <1>1, <1>7, <1>9 DEF CallInv
<1> QED BY ZenonT(30), <1>6, <1>10

LEMMA StepFinish ==
    ASSUME Typed, NEW c \in Call, CallInv(c), Finish(c) PROVE Typed' /\ CallInv(c)' /\ OnlyCall(c)
<1>1. /\ worker[c] = "writing" /\ todo[c] = {} /\ worker'[c] = "done" /\ sent'[c] = <<result[c].err>>
      /\ UNCHANGED <<kind, to, main, todo, answer, result, timedOut, said, reply, blocks, callbacks, asyncSends, panicked>>
    BY ZenonT(30) DEF Finish, Typed
<1>2. result[c].err \in Err
    BY ZenonT(30), ReplyFacts DEF Typed
<1>3. Typed' /\ OnlyCall(c)
    BY ZenonT(30), <1>1, <1>2 DEF Finish, Typed, OnlyCall, Same
<1>4. Returned(c)' = Returned(c) /\ (Returned(c) => Honest(c)')
    BY ZenonT(30), <1>1 DEF Returned, Honest, CallInv
<1>5. Written(c) => Written(c)'
    BY ZenonT(30), <1>1 DEF Written, Source, Before
<1>6. CallInv(c)'
    BY ZenonT(30), <1>1, <1>4, <1>5 DEF CallInv
<1> QED BY ZenonT(30), <1>3, <1>6

\* The peer handles the message, perhaps when the caller has given up.
LEMMA StepHandle ==
    ASSUME Typed, NEW c \in Call, CallInv(c), Handle(c) PROVE Typed' /\ CallInv(c)' /\ OnlyCall(c)
<1>1. /\ worker[c] \in {"stream", "writing", "done"} /\ to[c] = "peer" /\ said[c] = None
      /\ UNCHANGED <<kind, to, main, worker, todo, answer, result, sent, timedOut, blocks, callbacks, asyncSends, panicked>>
    BY ZenonT(30) DEF Handle
<1>2. PICK ans \in ReceiverSays(kind[c]) \cup {Answer("nil", "ErrBlockedListed")} :
         said' = [said EXCEPT ![c] = ans] /\ reply' = [reply EXCEPT ![c] = <<respondWith(ans)>>]
    BY ZenonT(30) DEF Handle
<1>3. ans \in Says
    BY ZenonT(30), SaysFacts
<1>4. said'[c] = ans /\ reply'[c] = <<respondWith(ans)>>
    BY ZenonT(30), <1>2 DEF Typed
<1>5. said' \in [Call -> {None} \cup Says] /\ \A d \in Call \ {c} : said'[d] = said[d]
    BY ZenonT(30), <1>2, <1>3 DEF Typed
<1>6. /\ reply' \in [Call -> {<< >>} \cup {<<respondWith(a)>> : a \in Says}]
      /\ \A d \in Call \ {c} : reply'[d] = reply[d]
    BY ZenonT(30), <1>2, <1>3 DEF Typed
<1>7. Typed' /\ OnlyCall(c)
    BY ZenonT(30), <1>1, <1>5, <1>6 DEF Typed, OnlyCall, Same
<1>8. Returned(c)' = Returned(c) /\ (Returned(c) => Honest(c)')
    BY ZenonT(30), <1>1, HonestAnyway DEF Returned, CallInv
<1>9. Written(c) => Written(c)'
    <2>1. answer[c] # said[c]
        BY ZenonT(30), <1>1, ReplyFacts DEF Typed
    <2>2. Source(c) => Source(c)'
        BY ZenonT(30), <1>1, <2>1 DEF Source
    <2> QED BY ZenonT(30), <1>1, <2>2 DEF Written, Before
<1>10. callbacks[c] # 1
    <2>1. said[c] # Answer("AppMsg", "nil")
        BY ZenonT(30), <1>1, SaysFacts DEF Says
    <2> QED BY ZenonT(30), <2>1 DEF CallInv
<1>11. ans # None
    BY ZenonT(30), <1>3, SaysFacts
<1>12. CallInv(c)'
    BY ZenonT(30), <1>1, <1>2, <1>4, <1>8, <1>9, <1>10, <1>11 DEF CallInv
<1> QED BY ZenonT(30), <1>7, <1>12

\* Steps that are of no call.
LEMMA StepElse ==
    ASSUME Typed, HandleAsyncSends \/ \E n \in Target : Block(n)
    PROVE  Typed' /\ UNCHANGED <<timedOut, panicked>> /\ \A d \in Call : Same(d)
<1>1. CASE HandleAsyncSends
    <2>1. asyncSends \in Seq(Err) /\ Len(asyncSends) <= Cap /\ asyncSends # << >> /\ Cap \in Nat
        BY ZenonT(30), <1>1, CapAssumption DEF HandleAsyncSends, Typed
    <2>2. Tail(asyncSends) \in Seq(Err) /\ Len(Tail(asyncSends)) <= Cap
        BY SMTT(30), <2>1
    <2> QED BY ZenonT(30), <1>1, <2>2 DEF HandleAsyncSends, Typed, Same
<1>2. CASE \E n \in Target : Block(n)
    BY ZenonT(30), <1>2 DEF Block, Typed, Same
<1> QED BY ZenonT(30), <1>1, <1>2

-----------------------------------------------------------------------------
(* The invariant *)

LEMMA SendInit == MessagingInit => SendInv
<1> SUFFICES ASSUME MessagingInit PROVE SendInv
    OBVIOUS
<1>1. Answer("nil", "nil") \in Reply
    BY ZenonT(30), SaysFacts, ReplyMade
<1>2. << >> \in Seq(Err) /\ Len(<< >>) <= Cap
    BY SMTT(30), CapAssumption
<1>3. Typed
    <2>1. /\ kind \in [Call -> Kind \cup {"none"}] /\ to \in [Call -> Target]
          /\ main \in [Call -> {"idle", "select", "leaving", "returned", "over"}]
          /\ worker \in [Call -> {"none", "start", "stream", "writing", "done"}]
          /\ todo \in [Call -> SUBSET {"err", "response"}]
        BY ZenonT(30) DEF MessagingInit, Target
    <2>2. /\ answer \in [Call -> Reply] /\ result \in [Call -> Reply]
          /\ sent \in [Call -> {<< >>} \cup {<<e>> : e \in Err}]
          /\ said \in [Call -> {None} \cup Says]
          /\ reply \in [Call -> {<< >>} \cup {<<respondWith(a)>> : a \in Says}]
          /\ callbacks \in [Call -> {0, 1}]
        BY ZenonT(30), <1>1 DEF MessagingInit
    <2> QED BY ZenonT(30), <1>2, <2>1, <2>2 DEF MessagingInit, Typed
<1>4. ASSUME NEW c \in Call PROVE CallInv(c)
    <2>1. 0 # 1
        BY ZenonT(30), Positive
    <2> QED BY ZenonT(30), <2>1 DEF MessagingInit, CallInv, Returned
<1> QED BY ZenonT(30), <1>3, <1>4 DEF MessagingInit, SendInv

\* A step of one call keeps the invariant of all.
LEMMA CallStep ==
    ASSUME SendInv, NEW c \in Call, Typed', CallInv(c)', OnlyCall(c), panicked' => timedOut' # {}
    PROVE  SendInv'
<1>1. \A d \in Call \ {c} : CallInv(d)'
    BY ZenonT(30), SameCall DEF SendInv, OnlyCall
<1> QED BY ZenonT(30), <1>1 DEF SendInv

LEMMA SendStep == SendInv /\ [MessagingNext]_messagingVars => SendInv'
<1> SUFFICES ASSUME SendInv, [MessagingNext]_messagingVars PROVE SendInv'
    OBVIOUS
<1>1. Typed /\ (\A c \in Call : CallInv(c)) /\ (panicked => timedOut # {})
    BY ZenonT(30) DEF SendInv
<1>2. ASSUME NEW c \in Call, NEW m \in May[c], Do(c, m[1], m[2]) PROVE SendInv'
    <2>1. m[1] \in Kind /\ m[2] \in Target
        BY SMTT(30), MayAssumption
    <2>2. Typed' /\ CallInv(c)' /\ OnlyCall(c)
        BY ZenonT(30), <1>1, <1>2, <2>1, StepDo
    <2>3. panicked' => timedOut' # {}
        BY ZenonT(30), <1>1, <1>2 DEF Do
    <2> QED BY ZenonT(30), <2>2, <2>3, CallStep
<1>3. ASSUME NEW c \in Call, Respond(c) PROVE SendInv'
    BY ZenonT(30), <1>1, <1>3, StepRespond, CallStep
<1>4. ASSUME NEW c \in Call, Timeout(c) PROVE SendInv'
    <2>1. panicked' => timedOut' # {}
        BY ZenonT(30), <1>1, <1>4 DEF Timeout
    <2> QED BY ZenonT(30), <1>1, <1>4, <2>1, StepTimeout, CallStep
<1>5. ASSUME NEW c \in Call, Return(c) \/ Sent(c) \/ SendAsync(c) PROVE SendInv'
    <2>1. panicked' => timedOut' # {}
        BY ZenonT(30), <1>1, <1>5 DEF Return, Sent, SendAsync
    <2> QED BY ZenonT(30), <1>1, <1>5, <2>1, StepReturn, StepSent, StepSendAsync, CallStep
<1>6. ASSUME NEW c \in Call, Local(c) \/ Open(c) \/ StreamFails(c) \/ Decode(c) PROVE SendInv'
    <2>1. panicked' => timedOut' # {}
        BY ZenonT(30), <1>1, <1>6 DEF Local, Open, StreamFails, Decode
    <2> QED BY ZenonT(30), <1>1, <1>6, <2>1, StepLocal, StepOpen, StepStreamFails, StepDecode, CallStep
<1>7. ASSUME NEW c \in Call, WriteErr(c) \/ WriteResponse(c) \/ Finish(c) \/ Handle(c) PROVE SendInv'
    <2>1. panicked' => timedOut' # {}
        BY ZenonT(30), <1>1, <1>7 DEF WriteErr, WriteResponse, Finish, Handle
    <2> QED BY ZenonT(30), <1>1, <1>7, <2>1, StepWriteErr, StepWriteResponse, StepFinish, StepHandle, CallStep
<1>8. CASE HandleAsyncSends \/ \E n \in Target : Block(n)
    <2>1. Typed' /\ UNCHANGED <<timedOut, panicked>> /\ \A d \in Call : Same(d)
        BY ZenonT(30), <1>1, <1>8, StepElse
    <2> QED BY ZenonT(30), <1>1, <2>1, SameCall DEF SendInv
<1>9. CASE UNCHANGED messagingVars
    <2>1. Typed' /\ UNCHANGED <<timedOut, panicked>> /\ \A d \in Call : Same(d)
        BY ZenonT(30), <1>1, <1>9 DEF messagingVars, Typed, Same
    <2> QED BY ZenonT(30), <1>1, <2>1, SameCall DEF SendInv
<1> QED BY ZenonT(30), <1>2, <1>3, <1>4, <1>5, <1>6, <1>7, <1>8, <1>9 DEF MessagingNext

LEMMA SendInvHolds == MessagingSpec => []SendInv
BY SendInit, SendStep, PTL DEF MessagingSpec

LEMMA InvGivesAnswers == SendInv => AnswerIsReceivers
<1> SUFFICES ASSUME SendInv PROVE AnswerIsReceivers
    OBVIOUS
<1>1. Typed /\ (\A c \in Call : CallInv(c)) /\ (panicked => timedOut # {})
    BY ZenonT(30) DEF SendInv
<1>2. \A c \in Call : Returned(c) => Honest(c)
    BY ZenonT(30), <1>1 DEF CallInv
<1>3. MessagingTypeOK
    <2>1. ASSUME NEW c \in Call
          PROVE  /\ {result[c].response, answer[c].response} \subseteq Response
                 /\ {result[c].err, answer[c].err} \subseteq Err
                 /\ said[c] = None \/ said[c].err \in Err
        <3>1. result[c] \in Reply /\ answer[c] \in Reply /\ (said[c] = None \/ said[c] \in Reply)
            BY ZenonT(30), <1>1, SaysFacts DEF Typed
        <3> QED BY ZenonT(30), <3>1, ReplyFacts
    <2>2. ASSUME NEW c \in Call PROVE Len(sent[c]) <= 1
        <3>1. sent[c] \in {<< >>} \cup {<<e>> : e \in Err}
            BY ZenonT(30), <1>1 DEF Typed
        <3>2. CASE sent[c] = << >>
            BY <3>2
        <3>3. CASE sent[c] # << >>
            <4>1. PICK e \in Err : sent[c] = <<e>>
                BY ZenonT(30), <3>1, <3>3
            <4> QED BY <4>1
        <3> QED BY <3>2, <3>3
    <2>3. callbacks \in [Call -> 0 .. 1]
        <3>1. {0, 1} = 0 .. 1
            OBVIOUS
        <3> QED BY ZenonT(30), <1>1, <3>1 DEF Typed
    <2> QED BY ZenonT(30), <1>1, <2>1, <2>2, <2>3 DEF Typed, MessagingTypeOK
<1>4. ASSUME NEW c \in Call, callbacks[c] > 0 PROVE callbacks[c] = 1 /\ said[c] = Answer("AppMsg", "nil")
    <2>1. callbacks[c] \in {0, 1}
        BY ZenonT(30), <1>1 DEF Typed
    <2>2. callbacks[c] = 1
        BY SMTT(30), <1>4, <2>1
    <2> QED BY ZenonT(30), <1>1, <2>2 DEF CallInv
<1> QED BY ZenonT(30), <1>1, <1>2, <1>3, <1>4 DEF AnswerIsReceivers, Honest

\* For any calls of Send, of any kinds and to any targets, and whatever the timeout
\* and the goroutine of a call race for: a call that did not time out returns what
\* the receiver answered or a failure of the stream, a response without an error is
\* one the receiver gave without an error, a callback is run at most once and on an
\* AppMsg of the receiver, and ActionSend.Do panics only if a call has timed out.
THEOREM AnswersAreReceivers == MessagingSpec => []AnswerIsReceivers
BY SendInvHolds, InvGivesAnswers, PTL

-----------------------------------------------------------------------------
(* AgentChange *)

MaybeKey == Key \cup {NoKey}
KeyEntry == [status : {"absent", "live", "modified"}, by : MaybeKey, pub : MaybeKey]
Agent == [key : Key, identity : 0 .. MaxUpdates]
AgentEntry == [key : Key, identity : 0 .. MaxUpdates, revokes : MaybeKey]

Puts == [type : {"put"}, key : Key, from : Key]
Mods == [type : {"mod"}, key : Key, new : Key, from : Key]
ListAdds == [type : {"listadd"}, peer : Key, old : Key, new : Key, from : Key]
Messages == Puts \cup Mods \cup ListAdds

Earlier == {"made", "signed", "exchanged", "added"}
Renamed == {"renamed", "closed", "created", "modified"}
Pcs == Earlier \cup {"put"} \cup Renamed

UpdateCall == [pc : Pcs, revoke : BOOLEAN, old : MaybeKey, oldID : MaybeKey, newID : MaybeKey,
         new : Agent]

\* Only a revocation has more to do than to add an entry, and it has the key it
\* revokes when it is past NewSelfRevocation, the two ids when it has renamed the node.
Proper(r) ==
    /\ r \in UpdateCall
    /\ r.pc \in Pcs \ {"signed", "exchanged"} => r.revoke
    /\ IF r.revoke THEN r.pc # "made" => r.old \in Key ELSE r.old = NoKey
    /\ r.pc \in Renamed => r.oldID \in Key /\ r.newID \in Key

PeerState == [keys : [Key -> KeyEntry], blocked : SUBSET Key, idx : [Key -> Nat],
              seen : SUBSET Messages, retry : SUBSET Mods]

Types ==
    /\ up \in BOOLEAN /\ alone \in BOOLEAN /\ calm \in BOOLEAN
    /\ agent \in Agent /\ nodeID \in Key
    /\ node \in [id : Key, serving : BOOLEAN, blocked : SUBSET Key]
    /\ chain \in Seq(AgentEntry) /\ Len(chain) >= 1
    /\ chain[1] = [key |-> 0, identity |-> 0, revokes |-> NoKey]
    /\ keys \in [Key -> KeyEntry] /\ blockedList \subseteq Key
    /\ log \in Seq(Messages)
    /\ \A c \in Caller : call[c] = NoCall \/ Proper(call[c])
    /\ DOMAIN call = Caller
    /\ peer \in [OtherNode -> PeerState]
    /\ made \in Key /\ updates \in 0 .. MaxUpdates

-----------------------------------------------------------------------------
(* While calls do not overlap *)

Logged == {log[i] : i \in 1 .. Len(log)}

\* A revocation has a key of its own: nothing is known of it before it is put,
\* and the only key it replaces is the old id of the node.
Own(r) ==
    r.revoke =>
        /\ r.new.key \in 0 .. made
        /\ r.pc \in Earlier => keys[r.new.key] = Absent
        /\ r.pc \in Earlier => \A m \in Logged : m.type = "put" => m.key # r.new.key
        /\ r.pc \in Pcs \ {"made", "signed"} => agent.key = r.new.key
        /\ r.pc \in Renamed => r.newID = r.new.key
        /\ \A k \in Key : keys[k].by = r.new.key => r.pc = "modified" /\ k = r.oldID

\* What is logged: a key is put once, and the node that is listed is the one
\* whose key the warrant revokes.
LogProper ==
    /\ \A m \in Logged : m.type = "put" => m.key \in 0 .. made
    /\ \A m, n \in Logged : m.type = "put" /\ n.type = "put" /\ m.key = n.key => m = n
    /\ \A m \in Logged : m.type = "listadd" => m.peer = m.old

\* A peer has a key only if it has seen the put of it.
PeerProper(p) ==
    /\ \A k \in peer[p].blocked : peer[p].keys[k].status = "modified"
    /\ \A k \in Key : peer[p].keys[k].status # "absent" =>
          \E m \in peer[p].seen : m.type = "put" /\ m.key = k
    /\ peer[p].seen \subseteq Logged /\ peer[p].retry \subseteq Logged

\* One call at most is under way, and none when the process does not run.
SingleCall ==
    /\ \A c, d \in Caller : call[c] # NoCall /\ call[d] # NoCall => c = d
    /\ \A c \in Caller : call[c] # NoCall => up

\* Nothing is known of a key before it is generated.
FreshKeys ==
    /\ \A k \in Key : k > made => keys[k] = Absent
    /\ \A k \in Key : keys[k].by \in -1 .. made

ListReplaced == \A k \in blockedList : keys[k].status = "modified"

AloneInv ==
    /\ SingleCall /\ FreshKeys /\ ListReplaced /\ LogProper
    /\ \A c \in Caller : call[c] # NoCall => Own(call[c])
    /\ \A p \in OtherNode : PeerProper(p)

-----------------------------------------------------------------------------
(* While, besides, no call fails *)

Last == chain[Len(chain)]

\* Entry i and the one before it, as the DHT has their keys.
KeyLink(i) ==
    LET old == chain[i - 1].key new == chain[i].key
    IN  IF new = old THEN chain[i].revokes = NoKey
        ELSE /\ chain[i].revokes = old
             /\ keys[old] = [status |-> "modified", by |-> new, pub |-> old]
             /\ old \in blockedList

Linked(n) == \A i \in 2 .. n : KeyLink(i)

\* The node, the DHT and the chain have the key of the top entry.
InUse == nodeID = Last.key /\ node.id = Last.key /\ keys[Last.key] = Live(Last.key) /\ top = Last

Agreed == agent.key = Last.key /\ agent.identity = Last.identity /\ InUse /\ Linked(Len(chain))

\* A revocation that has added its entry: what is done and what is to be done.
Revoking(r) ==
    /\ agent = r.new /\ Last = Entry(r.new, r.old) /\ top = Last /\ r.old # r.new.key
    /\ Len(chain) >= 2 /\ Linked(Len(chain) - 1) /\ chain[Len(chain) - 1].key = r.old
    /\ keys[r.old] = IF r.pc = "modified"
                     THEN [status |-> "modified", by |-> r.new.key, pub |-> r.old] ELSE Live(r.old)
    /\ r.pc # "added" => keys[r.new.key] = Live(r.new.key)
    /\ nodeID = IF r.pc \in Renamed THEN r.new.key ELSE r.old
    /\ node.id = IF r.pc \in {"created", "modified"} THEN r.new.key ELSE r.old
    /\ r.pc \in Renamed => r.oldID = r.old

\* How far the call that is under way has come.
Stage(r) ==
    /\ r.pc \in {"made", "signed"} => Agreed
    /\ r.pc = "signed" /\ r.revoke => r.old = Last.key
    /\ r.pc = "exchanged" => agent = r.new /\ InUse /\ Linked(Len(chain))
                             /\ (r.revoke => r.old = Last.key)
    /\ r.pc \in {"signed", "exchanged"} /\ ~r.revoke => r.new.key = Last.key
    /\ r.pc \in {"added", "put"} \cup Renamed => Revoking(r)

CalmInv ==
    /\ ~up => Len(chain) = 1
    /\ (\A c \in Caller : call[c] = NoCall) => Agreed
    /\ \A c \in Caller : call[c] # NoCall => Stage(call[c])

AgentInv == Types /\ (alone => AloneInv) /\ (alone /\ calm => CalmInv)

-----------------------------------------------------------------------------
(* Facts about the operators *)

\* A key is a number, and NoKey is none.
LEMMA KeyFacts == 0 \in Key /\ NoKey \notin Key /\ Key \subseteq Int /\ Key \subseteq MaybeKey /\ NoKey \in MaybeKey
BY AgentAssumption DEF Key, NoKey, MaybeKey

\* The entries and messages the code makes have their types.
LEMMA Made ==
    /\ Absent \in KeyEntry
    /\ \A k \in Key : Live(k) \in KeyEntry
    /\ \A k, n \in Key : [status |-> "modified", by |-> n, pub |-> k] \in KeyEntry
    /\ \A a \in Agent, r \in MaybeKey : Entry(a, r) \in AgentEntry
    /\ \A k, f \in Key : Put(k, f) \in Puts
    /\ \A k, n, f \in Key : ModReq(k, n, f) \in Mods
    /\ \A k, o, n, f \in Key : ListAddReq(k, o, n, f) \in ListAdds
BY ZenonT(30), KeyFacts DEF Absent, Live, KeyEntry, Entry, Agent, AgentEntry, Put, Puts, ModReq, Mods,
                ListAddReq, ListAdds

\* A message is of one type only.
LEMMA MessageTypes ==
    ASSUME NEW m \in Messages
    PROVE  /\ m.type = "put" => m \in Puts
           /\ m.type = "mod" => m \in Mods
           /\ m.type = "listadd" => m \in ListAdds
           /\ m \in Puts => m.type = "put"
           /\ m \in Mods => m.type = "mod"
           /\ m \in ListAdds => m.type = "listadd"
           /\ m.type \in {"put", "mod", "listadd"}
BY ZenonT(30) DEF Messages, Puts, Mods, ListAdds

\* An entry that ActionMod.Receive changes.
ModifiedBy(e, n) == [status |-> "modified", by |-> n, pub |-> e.pub]

LEMMA ModifyEntry ==
    ASSUME NEW ks \in [Key -> KeyEntry], NEW k \in Key, NEW n \in Key
    PROVE  /\ [ks EXCEPT ![k].status = "modified", ![k].by = n] = [ks EXCEPT ![k] = ModifiedBy(ks[k], n)]
           /\ ModifiedBy(ks[k], n) \in KeyEntry
<1>1. ks[k] \in KeyEntry
    BY ZenonT(30)
<1>2. ks[k] = [status |-> ks[k].status, by |-> ks[k].by, pub |-> ks[k].pub] /\ ks[k].pub \in MaybeKey
    BY ZenonT(30), <1>1 DEF KeyEntry
<1>3. ModifiedBy(ks[k], n) \in KeyEntry
    BY ZenonT(30), <1>2, KeyFacts DEF KeyEntry, ModifiedBy
<1>4. [[ks[k] EXCEPT !.status = "modified"] EXCEPT !.by = n] = ModifiedBy(ks[k], n)
    <2> DEFINE e == ks[k] f == [status |-> "modified", by |-> e.by, pub |-> e.pub]
    <2>1. [e EXCEPT !.status = "modified"] = f
        BY <1>1 DEF KeyEntry
    <2>2. [f EXCEPT !.by = n] = ModifiedBy(e, n)
        BY DEF ModifiedBy
    <2> HIDE DEF f
    <2> QED BY ZenonT(30), <2>1, <2>2
<1>5. [ks EXCEPT ![k].status = "modified", ![k].by = n]
        = [j \in Key |-> IF j = k THEN [[ks[k] EXCEPT !.status = "modified"] EXCEPT !.by = n] ELSE ks[j]]
    BY ZenonT(30)
<1>6. [ks EXCEPT ![k] = ModifiedBy(ks[k], n)] = [j \in Key |-> IF j = k THEN ModifiedBy(ks[k], n) ELSE ks[j]]
    BY ZenonT(30)
<1> QED BY ZenonT(30), <1>3, <1>4, <1>5, <1>6

\* What the key entries are after ActionMod.Receive and ActionPut.Receive.
LEMMA ReceiveModIs ==
    ASSUME NEW ks \in [Key -> KeyEntry], NEW m, m.key \in Key, m.new \in Key, NEW b \in BOOLEAN
    PROVE  /\ KeysAfterMod(m, ks, b) \in [Key -> KeyEntry]
           /\ \/ KeysAfterMod(m, ks, b) = ks
              \/ /\ ks[m.key].status = "live"
                 /\ KeysAfterMod(m, ks, b) = [ks EXCEPT ![m.key] = ModifiedBy(ks[m.key], m.new)]
           /\ ks[m.key].status = "live" /\ b /\ m.new = nodeID =>
                 KeysAfterMod(m, ks, b) = [ks EXCEPT ![m.key] = ModifiedBy(ks[m.key], m.new)]
<1>1. /\ [ks EXCEPT ![m.key].status = "modified", ![m.key].by = m.new]
            = [ks EXCEPT ![m.key] = ModifiedBy(ks[m.key], m.new)]
      /\ ModifiedBy(ks[m.key], m.new) \in KeyEntry
    BY ZenonT(30), ModifyEntry
<1>2. [ks EXCEPT ![m.key] = ModifiedBy(ks[m.key], m.new)] \in [Key -> KeyEntry]
    BY ZenonT(30), <1>1
<1>3. m.new = nodeID => GetValidationResponse(m.new) # {}
    BY ZenonT(30) DEF GetValidationResponse
<1> QED BY ZenonT(30), <1>1, <1>2, <1>3 DEF KeysAfterMod

LEMMA ReceivePutIs ==
    ASSUME Types, NEW ks \in [Key -> KeyEntry], NEW m, m.key \in Key, NEW b \in BOOLEAN
    PROVE  /\ KeysAfterPut(m, ks, b) \in [Key -> KeyEntry]
           /\ \/ KeysAfterPut(m, ks, b) = ks
              \/ KeysAfterPut(m, ks, b) = [ks EXCEPT ![m.key] = Live(agent.key)]
<1>1. Live(agent.key) \in KeyEntry
    BY ZenonT(30), Made DEF Types, Agent
<1>2. GetValidationResponse(m.key) # {} => (CHOOSE k \in GetValidationResponse(m.key) : TRUE) = agent.key
    BY ZenonT(30) DEF GetValidationResponse
<1> QED BY ZenonT(30), <1>1, <1>2 DEF KeysAfterPut

\* What ActionReceiver does to the key entries ks of a peer with message m.
KeysStep(ks, r, m) ==
    \/ r = ks
    \/ m \in Puts /\ r = [ks EXCEPT ![m.key] = Live(agent.key)]
    \/ /\ m \in Mods /\ ks[m.key].status = "live"
       /\ r = [ks EXCEPT ![m.key] = ModifiedBy(ks[m.key], m.new)]

\* What ActionReceiver does to the state s of a peer: what it has handled, it has seen.
Handles(s, r, m) ==
    /\ KeysStep(s.keys, r.keys, m)
    /\ \/ r.blocked = s.blocked
       \/ /\ m \in ListAdds /\ s.keys[m.old].status = "modified"
          /\ r.blocked = s.blocked \cup {m.peer} /\ r.keys = s.keys
    /\ \/ r.seen = s.seen \cup {m}
       \/ r.seen = s.seen /\ r.keys = s.keys
    /\ r.retry \subseteq s.retry \cup {m}

LEMMA ReceiveIs ==
    ASSUME Types, NEW p \in OtherNode, NEW m \in Messages
    PROVE  ReceiveAt(p, m) \in PeerState /\ Handles(peer[p], ReceiveAt(p, m), m)
<1> DEFINE s == peer[p]
           b == Reached(p, m.from)
           ks == CASE m.type = "put" -> KeysAfterPut(m, s.keys, b)
                   [] m.type = "mod" -> KeysAfterMod(m, s.keys, b)
                   [] OTHER -> s.keys
           blocking == m.type = "listadd" /\ Verify(m, s.keys)
           bl == IF blocking THEN s.blocked \cup {m.peer} ELSE s.blocked
           sn == IF ks # s.keys \/ blocking THEN s.seen \cup {m} ELSE s.seen
           rt == IF m.type = "mod" /\ s.keys[m.key].status = "absent" THEN s.retry \cup {m} ELSE s.retry
<1>1. s \in PeerState
    BY ZenonT(30) DEF Types
<1>2. /\ s.keys \in [Key -> KeyEntry] /\ s.blocked \subseteq Key /\ s.idx \in [Key -> Nat]
      /\ s.seen \subseteq Messages /\ s.retry \subseteq Mods
    BY ZenonT(30), <1>1 DEF PeerState
<1>3. ReceiveAt(p, m) = [s EXCEPT !.keys = ks, !.blocked = bl, !.seen = sn, !.retry = rt]
    BY ZenonT(30) DEF ReceiveAt
<1>4. b \in BOOLEAN
    BY ZenonT(30) DEF Types, Reached
<1> HIDE DEF s, b
<1>5. ks \in [Key -> KeyEntry] /\ KeysStep(s.keys, ks, m) /\ (m.type = "listadd" => ks = s.keys)
    <2>1. CASE m.type = "put"
        <3>1. m \in Puts /\ m.key \in Key
            BY ZenonT(30), <2>1, MessageTypes DEF Puts
        <3>2. ks = KeysAfterPut(m, s.keys, b)
            BY ZenonT(30), <2>1
        <3> QED BY ZenonT(30), <1>2, <1>4, <2>1, <3>1, <3>2, ReceivePutIs DEF KeysStep
    <2>2. CASE m.type = "mod"
        <3>1. m \in Mods /\ m.key \in Key /\ m.new \in Key
            BY ZenonT(30), <2>2, MessageTypes DEF Mods
        <3>2. ks = KeysAfterMod(m, s.keys, b)
            BY ZenonT(30), <2>2
        <3> QED BY <1>2, <1>4, <2>2, <3>1, <3>2, ReceiveModIs DEF KeysStep
    <2>3. CASE m.type = "listadd"
        BY ZenonT(30), <1>2, <2>3 DEF KeysStep
    <2> QED BY ZenonT(30), <2>1, <2>2, <2>3, MessageTypes
<1>6. bl \subseteq Key /\ sn \subseteq Messages /\ rt \subseteq Mods
    <2>1. (m.type = "listadd" => m.peer \in Key) /\ (m.type = "mod" => m \in Mods)
        BY ZenonT(30), MessageTypes DEF ListAdds
    <2> QED BY ZenonT(30), <1>2, <2>1
<1>7. /\ bl = s.blocked \/ (m \in ListAdds /\ s.keys[m.old].status = "modified"
                            /\ bl = s.blocked \cup {m.peer} /\ ks = s.keys)
      /\ sn = s.seen \cup {m} \/ (sn = s.seen /\ ks = s.keys)
      /\ rt \subseteq s.retry \cup {m}
    BY ZenonT(30), <1>5, MessageTypes DEF Verify
<1> HIDE DEF ks, bl, sn, rt, blocking
<1>8. ReceiveAt(p, m) = [keys |-> ks, blocked |-> bl, idx |-> s.idx, seen |-> sn, retry |-> rt]
    BY ZenonT(30), <1>1, <1>3 DEF PeerState
<1>9. ReceiveAt(p, m) \in PeerState
    BY <1>2, <1>5, <1>6, <1>8 DEF PeerState
<1> QED BY <1>5, <1>7, <1>8, <1>9 DEF Handles, s

\* A peer that gossips or retries handles a message it has not seen, or one of
\* its retry queue, or only counts on.
SamePeer(s, r) == r.keys = s.keys /\ r.blocked = s.blocked /\ r.seen = s.seen /\ r.retry = s.retry

LEMMA PeerMoves ==
    ASSUME Types, NEW p \in OtherNode, gossipPut(p) \/ RetryTaskAt(p)
    PROVE  /\ peer' \in [OtherNode -> PeerState]
           /\ \A q \in OtherNode : q # p => peer'[q] = peer[q]
           /\ \/ SamePeer(peer[p], peer'[p])
              \/ \E m \in Messages : /\ m \in peer[p].retry \/ m \in Logged \ peer[p].seen
                                     /\ Handles(peer[p], peer'[p], m)
<1> DEFINE s == peer[p]
<1>1. s \in PeerState /\ peer \in [OtherNode -> PeerState]
    BY ZenonT(30) DEF Types
<1>2. CASE gossipPut(p)
    <2> DEFINE k == node.id
               i == s.idx[k] + 1
               m == log[i]
               t == IF m \in s.seen THEN s ELSE ReceiveAt(p, m)
               r == [t EXCEPT !.idx[k] = i]
    <2>1. i <= Len(log) /\ peer' = [peer EXCEPT ![p] = r]
        BY ZenonT(30), <1>2 DEF gossipPut
    <2>2. k \in Key /\ s.idx[k] \in Nat /\ log \in Seq(Messages)
        BY ZenonT(30), <1>1 DEF Types, PeerState
    <2>3. i \in 1 .. Len(log) /\ i \in Nat
      <3>1. i <= Len(log)
          BY ZenonT(30), <2>1
      <3> QED
          BY ONLY <2>2, <3>1
    <2>4. m \in Messages /\ m \in Logged
        BY <2>2, <2>3 DEF Logged
    <2>5. t \in PeerState /\ (t = s \/ (m \notin s.seen /\ Handles(s, t, m)))
        BY ZenonT(30), <1>1, <2>4, ReceiveIs
    <2> HIDE DEF t, i, k, m
    <2>6. r \in PeerState /\ SamePeer(t, r)
        BY ZenonT(30), <2>2, <2>3, <2>5 DEF PeerState, SamePeer
    <2> HIDE DEF r
    <2>7. peer' \in [OtherNode -> PeerState] /\ peer'[p] = r /\ \A q \in OtherNode : q # p => peer'[q] = peer[q]
        BY ZenonT(30), <1>1, <2>1, <2>6
    <2>8. CASE t = s
        BY ZenonT(30), <2>6, <2>7, <2>8 DEF SamePeer
    <2>9. CASE m \notin s.seen /\ Handles(s, t, m)
        <3>1. Handles(s, r, m)
            BY ZenonT(30), <2>6, <2>9 DEF SamePeer, Handles
        <3> QED BY ZenonT(30), <2>4, <2>7, <2>9, <3>1
    <2> QED BY ZenonT(30), <2>5, <2>8, <2>9
<1>3. CASE RetryTaskAt(p)
    <2>1. PICK m \in s.retry : peer' = [peer EXCEPT ![p] = [ReceiveAt(p, m) EXCEPT !.retry = s.retry \ {m}]]
        BY ZenonT(30), <1>3 DEF RetryTaskAt
    <2>2. m \in Messages /\ s.retry \subseteq Mods
        BY ZenonT(30), <1>1 DEF PeerState, Messages
    <2> DEFINE t == ReceiveAt(p, m)
               r == [t EXCEPT !.retry = s.retry \ {m}]
    <2>3. t \in PeerState /\ Handles(s, t, m)
        BY ZenonT(30), <2>2, ReceiveIs
    <2> HIDE DEF t
    <2>4. r \in PeerState /\ r.keys = t.keys /\ r.blocked = t.blocked /\ r.seen = t.seen /\ r.retry \subseteq s.retry
        BY ZenonT(30), <2>2, <2>3 DEF PeerState
    <2>5. Handles(s, r, m)
        BY ZenonT(30), <2>3, <2>4 DEF Handles
    <2>6. peer' = [peer EXCEPT ![p] = r]
        BY ZenonT(30), <2>1 DEF t
    <2> HIDE DEF r
    <2> QED BY ZenonT(30), <1>1, <2>1, <2>2, <2>4, <2>5, <2>6
<1> QED BY ZenonT(30), <1>2, <1>3

\* Who is where: the calls and the peers are as they were but for the one that moves.
LEMMA CallMoves ==
    ASSUME Types, NEW c \in Caller, NEW r, Goes(c, r), r = NoCall \/ Proper(r)
    PROVE  /\ call'[c] = r /\ \A d \in Caller : d # c => call'[d] = call[d]
           /\ \A d \in Caller : call'[d] = NoCall \/ Proper(call'[d])
           /\ DOMAIN call' = Caller
BY ZenonT(30) DEF Types, Goes

\* A call that is somewhere is proper.
LEMMA CallIsAt ==
    ASSUME Types, NEW c \in Caller, call[c].pc # "idle" PROVE Proper(call[c]) /\ call[c] # NoCall
BY DEF Types, NoCall

-----------------------------------------------------------------------------
(* Types are kept *)

\* A call that goes on to the next step is a proper call.
LEMMA GoOn ==
    ASSUME NEW r, Proper(r), NEW pc \in Pcs,
           pc \in Pcs \ {"signed", "exchanged"} => r.revoke,
           r.revoke /\ pc # "made" => r.old \in Key,
           pc \in Renamed => r.oldID \in Key /\ r.newID \in Key
    PROVE  LET s == [r EXCEPT !.pc = pc]
           IN  /\ Proper(s) /\ s.pc = pc /\ s.revoke = r.revoke /\ s.old = r.old
               /\ s.oldID = r.oldID /\ s.newID = r.newID /\ s.new = r.new
<1> DEFINE s == [r EXCEPT !.pc = pc]
<1>1. /\ s \in UpdateCall /\ s.pc = pc /\ s.revoke = r.revoke /\ s.old = r.old
      /\ s.oldID = r.oldID /\ s.newID = r.newID /\ s.new = r.new
    BY ZenonT(30) DEF Proper, UpdateCall
<1> HIDE DEF s
<1>2. Proper(s)
    BY ZenonT(30), <1>1 DEF Proper
<1> QED BY ZenonT(30), <1>1, <1>2 DEF s

\* A step of ActionModAgent.Do: where the call goes, and with what.
GoesTo(c, pc) ==
    /\ Proper(call[c]) /\ Proper(call'[c]) /\ call'[c].pc = pc
    /\ call'[c].revoke = call[c].revoke /\ call'[c].new = call[c].new
SameIDs(c) ==
    call'[c].old = call[c].old /\ call'[c].oldID = call[c].oldID /\ call'[c].newID = call[c].newID

LEMMA StepOn ==
    ASSUME Types, NEW c \in Caller, NEW pc \in Pcs \ {"made", "signed"}, GoesOn(c, pc),
           call[c].pc \notin {"idle", "made"}, pc # "exchanged" => call[c].revoke,
           pc \in Renamed => call[c].pc \in Renamed
    PROVE  GoesTo(c, pc) /\ SameIDs(c)
<1> DEFINE r == call[c]
<1>1. call'[c] = [r EXCEPT !.pc = pc]
    BY ZenonT(30) DEF GoesOn, Goes, Types
<1>2. Proper(r)
    BY ZenonT(30), CallIsAt
<1>3. (r.revoke => r.old \in Key) /\ (pc \in Renamed => r.oldID \in Key /\ r.newID \in Key)
    BY ZenonT(30), <1>2 DEF Proper
<1> HIDE DEF r
<1>4. LET s == [r EXCEPT !.pc = pc]
      IN  /\ Proper(s) /\ s.pc = pc /\ s.revoke = r.revoke /\ s.old = r.old
          /\ s.oldID = r.oldID /\ s.newID = r.newID /\ s.new = r.new
    BY ZenonT(30), <1>2, <1>3, GoOn DEF r
<1> QED BY ZenonT(30), <1>1, <1>2, <1>4 DEF GoesTo, SameIDs, r

\* A step that only a revocation takes.
LEMMA Revokes ==
    ASSUME Types, NEW c \in Caller, call[c].pc \in {"made", "added", "put", "renamed", "closed", "created", "modified"}
    PROVE  call[c].revoke /\ call[c].pc \notin {"idle"} /\ Proper(call[c])
<1>1. Proper(call[c])
    BY ZenonT(30), CallIsAt
<1> QED BY ZenonT(30), <1>1 DEF Proper, Pcs, Earlier, Renamed

LEMMA StepSign ==
    ASSUME Types, NEW c \in Caller, NewSelfRevocation(c) PROVE GoesTo(c, "signed") /\ call'[c].old = agent.key
<1> DEFINE r == call[c] s == [r EXCEPT !.pc = "signed", !.old = agent.key]
<1>1. r.pc = "made" /\ call'[c] = s /\ agent.key \in Key
    BY ZenonT(30) DEF NewSelfRevocation, CallAt, Goes, Types, Agent
<1>2. Proper(r) /\ r.revoke
    BY ZenonT(30), <1>1, Revokes
<1>3. s \in UpdateCall /\ s.pc = "signed" /\ s.revoke = r.revoke /\ s.old = agent.key /\ s.new = r.new
    BY ZenonT(30), <1>1, <1>2, KeyFacts DEF Proper, UpdateCall, Pcs, Earlier
<1> HIDE DEF s, r
<1>4. Proper(s)
    BY ZenonT(30), <1>1, <1>2, <1>3 DEF Proper, Renamed
<1> QED BY ZenonT(30), <1>1, <1>2, <1>3, <1>4 DEF GoesTo, r

LEMMA StepNodeID ==
    ASSUME Types, NEW c \in Caller, NewNodeID(c)
    PROVE  /\ GoesTo(c, "renamed") /\ call'[c].old = call[c].old
           /\ call'[c].oldID = nodeID /\ call'[c].newID = agent.key
<1> DEFINE r == call[c] s == [r EXCEPT !.pc = "renamed", !.oldID = nodeID, !.newID = agent.key]
<1>1. r.pc = "put" /\ call'[c] = s /\ agent.key \in Key /\ nodeID \in Key
    BY ZenonT(30) DEF NewNodeID, CallAt, Goes, Types, Agent
<1>2. Proper(r) /\ r.revoke
    BY ZenonT(30), <1>1, Revokes
<1>3. /\ s \in UpdateCall /\ s.pc = "renamed" /\ s.revoke = r.revoke /\ s.old = r.old /\ s.new = r.new
      /\ s.oldID = nodeID /\ s.newID = agent.key
    BY ZenonT(30), <1>1, <1>2, KeyFacts DEF Proper, UpdateCall, Pcs, Renamed
<1>4. r.old \in Key
    BY ZenonT(30), <1>1, <1>2 DEF Proper
<1> HIDE DEF s, r
<1>5. Proper(s)
    BY ZenonT(30), <1>1, <1>2, <1>3, <1>4 DEF Proper
<1> QED BY ZenonT(30), <1>1, <1>2, <1>3, <1>5 DEF GoesTo, r

LEMMA StepExchange ==
    ASSUME Types, NEW c \in Caller, Exchange(c) PROVE GoesTo(c, "exchanged") /\ SameIDs(c)
<1>1. call[c].pc = "signed" /\ GoesOn(c, "exchanged")
    BY ZenonT(30) DEF Exchange, CallAt
<1>2. "exchanged" \in Pcs \ {"made", "signed"} /\ "exchanged" \notin Renamed
    BY ZenonT(30) DEF Pcs, Earlier, Renamed
<1> QED BY ZenonT(30), <1>1, <1>2, StepOn

LEMMA StepAdd ==
    ASSUME Types, NEW c \in Caller, AddAgentEntry(c)
    PROVE  /\ Proper(call[c])
           /\ IF call[c].revoke THEN GoesTo(c, "added") /\ SameIDs(c) ELSE call'[c] = NoCall
<1>1. call[c].pc = "exchanged" /\ IF call[c].revoke THEN GoesOn(c, "added") ELSE Goes(c, NoCall)
    BY ZenonT(30) DEF AddAgentEntry, CallAt
<1>2. "added" \in Pcs \ {"made", "signed"} /\ "added" \notin Renamed
    BY ZenonT(30) DEF Pcs, Earlier, Renamed
<1>3. Goes(c, NoCall) => call'[c] = NoCall
    BY ZenonT(30) DEF Goes, Types
<1> QED BY ZenonT(30), <1>1, <1>2, <1>3, StepOn, CallIsAt

LEMMA StepPut ==
    ASSUME Types, NEW c \in Caller, putKey(c) PROVE GoesTo(c, "put") /\ SameIDs(c)
<1>1. call[c].pc = "added" /\ GoesOn(c, "put")
    BY ZenonT(30) DEF putKey, CallAt
<1>2. "put" \in Pcs \ {"made", "signed"} /\ "put" \notin Renamed
    BY ZenonT(30) DEF Pcs, Earlier, Renamed
<1> QED BY ZenonT(30), <1>1, <1>2, StepOn, Revokes

LEMMA StepNode ==
    ASSUME Types, NEW c \in Caller, Close(c) \/ createNode(c) \/ ChangeMod(c)
    PROVE  /\ Close(c) => GoesTo(c, "closed")
           /\ createNode(c) => GoesTo(c, "created")
           /\ ChangeMod(c) => GoesTo(c, "modified")
           /\ SameIDs(c)
<1>1. /\ Close(c) => call[c].pc = "renamed" /\ GoesOn(c, "closed")
      /\ createNode(c) => call[c].pc = "closed" /\ GoesOn(c, "created")
      /\ ChangeMod(c) => call[c].pc = "created" /\ GoesOn(c, "modified")
    BY ZenonT(30) DEF Close, createNode, ChangeMod, CallAt
<1>2. {"closed", "created", "modified"} \subseteq Pcs \ {"made", "signed"} /\ {"renamed", "closed", "created"} \subseteq Renamed
    BY ZenonT(30) DEF Pcs, Earlier, Renamed
<1>3. call[c].revoke /\ call[c].pc \notin {"idle", "made"}
    BY ZenonT(30), <1>1, Revokes
<1> QED BY ZenonT(30), <1>1, <1>2, <1>3, StepOn

LEMMA StepEnds ==
    ASSUME Types, NEW c \in Caller, ChangeListAdd(c) \/ Fail(c) PROVE Proper(call[c]) /\ call'[c] = NoCall
<1>1. Goes(c, NoCall) /\ call[c].pc # "idle"
    BY ZenonT(30) DEF ChangeListAdd, Fail, CallAt
<1> QED BY ZenonT(30), <1>1, CallIsAt DEF Goes, Types

LEMMA TypesStep == ASSUME Types, [AgentNext]_agentVars PROVE Types'
<1> USE KeyFacts, AgentAssumption
<1> DEFINE Calls == (\A d \in Caller : call[d] = NoCall \/ Proper(call[d])) /\ DOMAIN call = Caller
<1>1. Calls /\ DOMAIN call = Caller /\ agent.key \in Key
    BY ZenonT(30) DEF Types, Agent
<1>2. ASSUME NEW c \in Caller, NEW r, Goes(c, r), call'[c] = NoCall \/ Proper(call'[c]) PROVE Calls'
    <2>1. call' = [call EXCEPT ![c] = r]
        BY ZenonT(30), <1>2 DEF Goes
    <2> QED BY ZenonT(30), <1>1, <1>2, <2>1
<1>3. ASSUME NEW c \in Caller, ModAgent(c) \/ Fail(c) PROVE Calls'
    <2>1. call'[c] = NoCall \/ Proper(call'[c])
        <3>1. CASE Fail(c) \/ ChangeListAdd(c)
            BY ZenonT(30), <3>1, StepEnds
        <3>2. CASE NewSelfRevocation(c)
            BY ZenonT(30), <3>2, StepSign DEF GoesTo
        <3>3. CASE Exchange(c)
            BY ZenonT(30), <3>3, StepExchange DEF GoesTo
        <3>4. CASE AddAgentEntry(c)
            BY ZenonT(30), <3>4, StepAdd DEF GoesTo
        <3>5. CASE putKey(c)
            BY ZenonT(30), <3>5, StepPut DEF GoesTo
        <3>6. CASE NewNodeID(c)
            BY ZenonT(30), <3>6, StepNodeID DEF GoesTo
        <3>7. CASE Close(c)
            BY ZenonT(30), <3>7, StepNode DEF GoesTo
        <3>8. CASE createNode(c)
            BY ZenonT(30), <3>8, StepNode DEF GoesTo
        <3>9. CASE ChangeMod(c)
            BY ZenonT(30), <3>9, StepNode DEF GoesTo
        <3> QED BY ZenonT(30), <1>3, <3>1, <3>2, <3>3, <3>4, <3>5, <3>6, <3>7, <3>8, <3>9 DEF ModAgent
    <2>2. \E r : Goes(c, r)
        BY ZenonT(30), <1>3 DEF ModAgent, Fail, NewSelfRevocation, Exchange, AddAgentEntry, putKey, NewNodeID, Close,
                    createNode, ChangeMod, ChangeListAdd, GoesOn
    <2> QED BY ZenonT(30), <1>2, <2>1, <2>2
<1>4. ASSUME NEW c \in Caller, NewSelfRevocation(c) \/ Fail(c) PROVE Types'
    BY ZenonT(30), <1>3, <1>4 DEF Types, NewSelfRevocation, Fail, ModAgent
<1>5. ASSUME NEW c \in Caller, Exchange(c) PROVE Types'
    <2>1. call[c].new \in Agent
        BY ZenonT(30), <1>5, StepExchange DEF GoesTo, Proper, UpdateCall
    <2> QED BY ZenonT(30), <1>3, <1>5, <2>1 DEF Types, Exchange, ModAgent
<1>6. ASSUME NEW c \in Caller, AddAgentEntry(c) PROVE Types'
    <2>1. call[c].old \in MaybeKey
        BY ZenonT(30), <1>6, StepAdd DEF Proper, UpdateCall
    <2>2. Entry(agent, call[c].old) \in AgentEntry
        BY ZenonT(30), <2>1, Made DEF Types
    <2>3. /\ chain' \in Seq(AgentEntry) /\ Len(chain') >= 1 /\ chain'[1] = chain[1]
        BY <1>6, <2>2 DEF Types, AddAgentEntry
    <2> QED BY ZenonT(30), <1>3, <1>6, <2>3 DEF Types, AddAgentEntry, ModAgent
<1>7. ASSUME NEW c \in Caller, putKey(c) PROVE Types'
    <2>1. call[c].new.key \in Key /\ node.id \in Key
        BY ZenonT(30), <1>7, StepPut DEF GoesTo, Proper, UpdateCall, Agent, Types
    <2>2. Live(call[c].new.key) \in KeyEntry /\ Put(call[c].new.key, node.id) \in Messages
        BY ZenonT(30), <2>1, Made DEF Messages
    <2>3. keys' \in [Key -> KeyEntry]
        BY ZenonT(30), <1>7, <2>1, <2>2 DEF Types, putKey
    <2>4. log' \in Seq(Messages)
        BY <1>7, <2>2 DEF Types, putKey
    <2>5. Calls' /\ UNCHANGED <<up, agent, nodeID, node, chain, blockedList, peer, made, updates, alone, calm>>
        BY ZenonT(30), <1>3, <1>7 DEF putKey, ModAgent
    <2> QED BY ZenonT(30), <2>3, <2>4, <2>5 DEF Types
<1>8. ASSUME NEW c \in Caller, NewNodeID(c) \/ Close(c) \/ createNode(c) PROVE Types'
    <2>1. nodeID' \in Key
        BY ZenonT(30), <1>1, <1>8 DEF Types, NewNodeID, Close, createNode
    <2>2. node' \in [id : Key, serving : BOOLEAN, blocked : SUBSET Key]
        <3>1. node \in [id : Key, serving : BOOLEAN, blocked : SUBSET Key]
            BY ZenonT(30) DEF Types
        <3>2. CASE NewNodeID(c)
            BY ZenonT(30), <3>1, <3>2 DEF NewNodeID
        <3>3. CASE Close(c)
            BY ZenonT(30), <3>1, <3>3 DEF Close
        <3>4. CASE createNode(c)
            BY ZenonT(30), <1>1, <3>4 DEF createNode
        <3> QED BY ZenonT(30), <1>8, <3>2, <3>3, <3>4
    <2>3. Calls' /\ UNCHANGED <<up, agent, chain, keys, blockedList, log, peer, made, updates, alone, calm>>
        BY ZenonT(30), <1>3, <1>8 DEF NewNodeID, Close, createNode, ModAgent
    <2> QED BY ZenonT(30), <2>1, <2>2, <2>3 DEF Types
<1>9. ASSUME NEW c \in Caller, ChangeMod(c) PROVE Types'
    <2> DEFINE m == ModReq(call[c].oldID, call[c].newID, node.id)
    <2>1. call[c].oldID \in Key /\ call[c].newID \in Key /\ node.id \in Key
        <3>1. Proper(call[c]) /\ call[c].pc = "created"
            BY ZenonT(30), <1>9, StepNode DEF GoesTo, ChangeMod, CallAt
        <3> QED BY ZenonT(30), <3>1 DEF Proper, Types, Renamed
    <2>2. m \in Mods /\ m.key = call[c].oldID /\ m.new = call[c].newID
        BY ZenonT(30), <2>1, Made DEF ModReq
    <2>3. KeysAfterMod(m, keys, TRUE) \in [Key -> KeyEntry]
        BY ZenonT(30), <2>1, <2>2, ReceiveModIs DEF Types
    <2>4. /\ keys' = (IF nodeID = node.id THEN KeysAfterMod(m, keys, TRUE) ELSE keys)
          /\ log' = (IF keys' # keys THEN Append(log, m) ELSE log)
        BY ZenonT(30), <1>9 DEF ChangeMod
    <2>5. m \in Messages
        BY ZenonT(30), <2>2 DEF Messages
    <2> HIDE DEF m
    <2>6. keys' \in [Key -> KeyEntry] /\ log' \in Seq(Messages)
        <3>1. log \in Seq(Messages) /\ keys \in [Key -> KeyEntry]
            BY ZenonT(30) DEF Types
        <3>2. Append(log, m) \in Seq(Messages)
            BY <2>5, <3>1
        <3> QED BY ZenonT(30), <2>3, <2>4, <3>1, <3>2
    <2> QED BY ZenonT(30), <1>3, <1>9, <2>6 DEF Types, ChangeMod, ModAgent
<1>10. ASSUME NEW c \in Caller, ChangeListAdd(c) PROVE Types'
    <2> DEFINE m == ListAddReq(call[c].oldID, call[c].old, call[c].new.key, node.id)
    <2>1. Proper(call[c]) /\ call[c].pc = "modified"
        BY ZenonT(30), <1>10, StepEnds DEF ChangeListAdd, CallAt
    <2>2. call[c].oldID \in Key /\ call[c].old \in Key /\ call[c].new.key \in Key /\ node.id \in Key
        BY ZenonT(30), <2>1 DEF Proper, Types, Renamed, Pcs, UpdateCall, Agent
    <2>3. m \in ListAdds /\ m.peer = call[c].oldID
        BY ZenonT(30), <2>2, Made DEF ListAddReq
    <2>4. m \in Messages /\ m.peer \in Key
        BY ZenonT(30), <2>2, <2>3 DEF Messages
    <2>5. /\ blockedList' = blockedList \/ blockedList' = blockedList \cup {m.peer}
          /\ node' = node \/ node' = [node EXCEPT !.blocked = @ \cup {m.peer}]
          /\ log' = log \/ log' = Append(log, m)
        BY ZenonT(30), <1>10 DEF ChangeListAdd
    <2> HIDE DEF m
    <2>6. blockedList' \subseteq Key /\ node' \in [id : Key, serving : BOOLEAN, blocked : SUBSET Key] /\ log' \in Seq(Messages)
        <3>1. /\ log \in Seq(Messages) /\ blockedList \subseteq Key
              /\ node \in [id : Key, serving : BOOLEAN, blocked : SUBSET Key]
            BY ZenonT(30) DEF Types
        <3>2. Append(log, m) \in Seq(Messages)
            BY <2>4, <3>1
        <3>3. [node EXCEPT !.blocked = @ \cup {m.peer}] \in [id : Key, serving : BOOLEAN, blocked : SUBSET Key]
            BY ZenonT(30), <2>4, <3>1
        <3> QED BY ZenonT(30), <2>4, <2>5, <3>1, <3>2, <3>3
    <2> QED BY ZenonT(30), <1>3, <1>10, <2>6 DEF Types, ChangeListAdd, ModAgent
<1>11. ASSUME NEW c \in Caller, NEW identity \in BOOLEAN, NEW revoke \in BOOLEAN, Start(c, identity, revoke)
       PROVE  Types'
    <2> DEFINE new == [key |-> IF revoke THEN made + 1 ELSE agent.key,
                       identity |-> IF identity THEN updates + 1 ELSE agent.identity]
               r == [pc |-> IF revoke THEN "made" ELSE "signed", revoke |-> revoke,
                     old |-> NoKey, oldID |-> NoKey, newID |-> NoKey, new |-> new]
    <2>1. Goes(c, r) /\ (revoke => made < MaxKey) /\ updates < MaxUpdates
        BY ZenonT(30), <1>11 DEF Start
    <2>2. (revoke => made + 1 \in Key) /\ updates + 1 \in 0 .. MaxUpdates
      <3>1. made \in Key /\ updates \in 0 .. MaxUpdates
          BY ZenonT(30) DEF Types
      <3> QED
          BY ONLY <2>1, <3>1, AgentAssumption DEF Key
    <2>3. new \in Agent
        BY ZenonT(30), <1>1, <2>2 DEF Types, Agent
    <2> HIDE DEF new
    <2>4. Proper(r)
        BY ZenonT(30), <2>3 DEF Proper, UpdateCall, Pcs, Earlier, Renamed
    <2>5. call'[c] = r
        BY ZenonT(30), <1>1, <2>1 DEF Goes
    <2>6. Calls'
        BY ZenonT(30), <1>2, <2>1, <2>4, <2>5
    <2> QED BY ZenonT(30), <1>11, <2>2, <2>6 DEF Types, Start
<1>12. CASE Stop
    <2>1. Calls'
        BY ZenonT(30), <1>12 DEF Stop
    <2> QED BY ZenonT(30), <1>12, <2>1 DEF Types, Stop
<1>13. CASE RestartAgent
    <2>1. agent' \in Agent
        BY <1>13 DEF RestartAgent, Agent
    <2> QED BY ZenonT(30), <1>13, <2>1 DEF Types, RestartAgent
<1>14. ASSUME NEW p \in OtherNode, gossipPut(p) \/ RetryTaskAt(p) PROVE Types'
    <2>1. peer' \in [OtherNode -> PeerState]
        BY ZenonT(30), <1>14, PeerMoves
    <2> QED BY ZenonT(30), <1>14, <2>1 DEF Types, gossipPut, RetryTaskAt
<1>15. CASE UNCHANGED agentVars
    BY ZenonT(30), <1>15 DEF Types, agentVars
<1> QED BY ZenonT(30), <1>4, <1>5, <1>6, <1>7, <1>8, <1>9, <1>10, <1>11, <1>12, <1>13, <1>14, <1>15 DEF AgentNext, ModAgent

-----------------------------------------------------------------------------
(* What holds while calls do not overlap *)

\* The call that moves is the one under way.
LEMMA OneCallMoves ==
    ASSUME AloneInv, NEW c \in Caller, call[c] # NoCall, \A d \in Caller : d # c => call'[d] = call[d], up, up',
           call'[c] = NoCall \/ Own(call[c])'
    PROVE  SingleCall' /\ \A d \in Caller : call'[d] # NoCall => Own(call[d])'
<1>1. \A d \in Caller : d # c => call'[d] = NoCall
    BY ZenonT(30) DEF AloneInv, SingleCall
<1> QED BY ZenonT(30), <1>1 DEF SingleCall

LEMMA LogGrows ==
    ASSUME Types, NEW m \in Messages, log' = Append(log, m) PROVE Logged' = Logged \cup {m}
<1>1. log \in Seq(Messages)
    BY ZenonT(30) DEF Types
<1>2. /\ Len(log') = Len(log) + 1 /\ log'[Len(log) + 1] = m /\ Len(log) \in Nat
      /\ \A i \in 1 .. Len(log) : log'[i] = log[i]
    BY <1>1
<1>3. 1 .. Len(log') = 1 .. Len(log) \cup {Len(log) + 1}
    BY <1>2
<1> QED BY <1>2, <1>3 DEF Logged

\* The peers are not disturbed when the log grows.
LEMMA PeersStay ==
    ASSUME AloneInv, UNCHANGED peer, Logged \subseteq Logged' PROVE \A p \in OtherNode : PeerProper(p)'
BY ZenonT(30) DEF AloneInv, PeerProper

\* Steps of a call that leave the DHT alone.
LEMMA QuietCall ==
    ASSUME Types, AloneInv, NEW c \in Caller, call[c] # NoCall, \A d \in Caller : d # c => call'[d] = call[d],
           up, up', UNCHANGED <<keys, blockedList, log, peer, made>>, call'[c] = NoCall \/ Own(call[c])'
    PROVE  AloneInv'
<1>1. SingleCall' /\ \A d \in Caller : call'[d] # NoCall => Own(call[d])'
    BY ZenonT(30), OneCallMoves
<1>2. Logged' = Logged
    BY ZenonT(30) DEF Logged
<1>3. FreshKeys' /\ ListReplaced'
    BY ZenonT(30) DEF AloneInv, FreshKeys, ListReplaced
<1>4. LogProper'
    BY ZenonT(30), <1>2 DEF AloneInv, LogProper
<1>5. \A p \in OtherNode : PeerProper(p)'
    BY ZenonT(30), <1>2, PeersStay
<1> QED BY ZenonT(30), <1>1, <1>3, <1>4, <1>5 DEF AloneInv

\* A step of ActionModAgent.Do moves its own call only.
LEMMA OthersStay ==
    ASSUME Types, NEW c \in Caller, ModAgent(c) \/ Fail(c)
    PROVE  /\ \A d \in Caller : d # c => call'[d] = call[d]
           /\ call[c] # NoCall /\ call[c].pc # "idle" /\ Proper(call[c]) /\ up /\ up'
<1>1. \E r : Goes(c, r)
    BY ZenonT(30) DEF ModAgent, Fail, NewSelfRevocation, Exchange, AddAgentEntry, putKey, NewNodeID, Close,
           createNode, ChangeMod, ChangeListAdd, GoesOn
<1>2. \A d \in Caller : d # c => call'[d] = call[d]
    BY ZenonT(30), <1>1 DEF Goes, Types
<1>3. up /\ up' = up /\ call[c].pc # "idle"
    BY ZenonT(30) DEF ModAgent, Fail, NewSelfRevocation, Exchange, AddAgentEntry, putKey, NewNodeID, Close,
           createNode, ChangeMod, ChangeListAdd, CallAt
<1> QED BY ZenonT(30), <1>2, <1>3, CallIsAt

LEMMA AlonePeers ==
    ASSUME Types, AloneInv, NEW p \in OtherNode, gossipPut(p) \/ RetryTaskAt(p) PROVE AloneInv'
<1> DEFINE s == peer[p] r == peer'[p]
<1>1. UNCHANGED <<up, agent, nodeID, node, keys, blockedList, log, call, made>>
    BY ZenonT(30) DEF gossipPut, RetryTaskAt
<1>2. Logged' = Logged
    BY ZenonT(30), <1>1 DEF Logged
<1>3. SingleCall' /\ FreshKeys' /\ ListReplaced' /\ LogProper'
    BY ZenonT(30), <1>1, <1>2 DEF AloneInv, SingleCall, FreshKeys, ListReplaced, LogProper
<1>4. \A c \in Caller : call'[c] # NoCall => Own(call[c])'
    BY ZenonT(30), <1>1, <1>2 DEF AloneInv, Own
<1>5. \A q \in OtherNode : q # p => PeerProper(q)'
    BY <1>2, PeerMoves DEF AloneInv, PeerProper
<1>6. PeerProper(p)'
    <2>1. PeerProper(p) /\ s \in PeerState
        BY ZenonT(30) DEF AloneInv, Types
    <2>2. /\ s.keys \in [Key -> KeyEntry] /\ s.blocked \subseteq Key /\ s.retry \subseteq Mods
        BY ZenonT(30), <2>1 DEF PeerState
    <2>3. CASE SamePeer(s, r)
        BY ZenonT(30), <1>2, <2>1, <2>3 DEF SamePeer, PeerProper
    <2>4. ASSUME NEW m \in Messages, m \in s.retry \/ m \in Logged \ s.seen, Handles(s, r, m) PROVE PeerProper(p)'
        <3>1. m \in Logged /\ (m \in Puts => m \notin s.seen)
            BY ZenonT(30), <2>1, <2>2, <2>4, MessageTypes DEF PeerProper
        <3>2. m \in Puts => m.key \in Key /\ s.keys[m.key].status = "absent"
            <4> SUFFICES ASSUME m \in Puts, s.keys[m.key].status # "absent" PROVE FALSE
                BY ZenonT(30) DEF Puts
            <4>1. m.key \in Key /\ m.type = "put"
                BY ZenonT(30) DEF Puts
            <4>2. PICK n \in s.seen : n.type = "put" /\ n.key = m.key
                BY ZenonT(30), <2>1, <4>1 DEF PeerProper
            <4>3. n = m
                BY ZenonT(30), <2>1, <3>1, <4>1, <4>2 DEF PeerProper, AloneInv, LogProper
            <4> QED BY ZenonT(30), <3>1, <4>2, <4>3
        <3>3. \A k \in Key : s.keys[k].status = "modified" => r.keys[k].status = "modified"
            <4>1. CASE r.keys = s.keys
                BY ZenonT(30), <4>1
            <4>2. CASE m \in Puts /\ r.keys = [s.keys EXCEPT ![m.key] = Live(agent.key)]
                BY ZenonT(30), <2>2, <3>2, <4>2
            <4>3. CASE m \in Mods /\ r.keys = [s.keys EXCEPT ![m.key] = ModifiedBy(s.keys[m.key], m.new)]
                BY <2>2, <4>3 DEF ModifiedBy
            <4> QED BY ZenonT(30), <2>4, <4>1, <4>2, <4>3 DEF Handles, KeysStep
        <3>4. \A k \in r.blocked : r.keys[k].status = "modified"
            <4>1. CASE r.blocked = s.blocked
                BY ZenonT(30), <2>1, <2>2, <3>3, <4>1 DEF PeerProper
            <4>2. CASE m \in ListAdds /\ s.keys[m.old].status = "modified" /\ r.blocked = s.blocked \cup {m.peer}
                       /\ r.keys = s.keys
                <5>1. m.peer = m.old
                    BY ZenonT(30), <3>1, <4>2, MessageTypes DEF AloneInv, LogProper
                <5> QED BY ZenonT(30), <2>1, <4>2, <5>1 DEF PeerProper
            <4> QED BY ZenonT(30), <2>4, <4>1, <4>2 DEF Handles
        <3>5. s.seen \subseteq r.seen /\ r.seen \subseteq Logged /\ r.retry \subseteq Logged
            BY ZenonT(30), <2>1, <2>4, <3>1 DEF Handles, PeerProper
        <3>6. \A k \in Key : r.keys[k].status # "absent" => \E n \in r.seen : n.type = "put" /\ n.key = k
            <4> SUFFICES ASSUME NEW k \in Key, r.keys[k].status # "absent"
                         PROVE  \E n \in r.seen : n.type = "put" /\ n.key = k
                BY ZenonT(30)
            <4>1. CASE s.keys[k].status # "absent"
                BY ZenonT(30), <2>1, <3>5, <4>1 DEF PeerProper
            <4>2. CASE s.keys[k].status = "absent"
                <5>1. r.keys # s.keys
                    BY ZenonT(30), <4>2
                <5>2. m \in Puts /\ m.key = k
                    BY ZenonT(30), <2>2, <2>4, <4>2, <5>1 DEF Handles, KeysStep
                <5>3. m \in r.seen
                    BY ZenonT(30), <2>4, <5>1 DEF Handles
                <5> QED BY ZenonT(30), <5>2, <5>3, MessageTypes
            <4> QED BY ZenonT(30), <4>1, <4>2
        <3> QED BY ZenonT(30), <1>2, <3>4, <3>5, <3>6 DEF PeerProper
    <2> QED BY ZenonT(30), <2>3, <2>4, PeerMoves
<1> QED BY ZenonT(30), <1>3, <1>4, <1>5, <1>6 DEF AloneInv

LEMMA AlonePutKey ==
    ASSUME Types, AloneInv, NEW c \in Caller, putKey(c) PROVE AloneInv'
<1> DEFINE r == call[c] k == r.new.key
<1>1. /\ Proper(r) /\ r.pc = "added" /\ r.revoke /\ Own(r) /\ k \in Key /\ node.id \in Key
      /\ call'[c].pc = "put" /\ call'[c].revoke /\ call'[c].new = r.new
    <2>1. Proper(r) /\ r.pc = "added" /\ r # NoCall
        BY ZenonT(30), OthersStay DEF ModAgent, putKey, CallAt
    <2>2. call'[c].pc = "put" /\ call'[c].revoke = r.revoke /\ call'[c].new = r.new
        BY ZenonT(30), StepPut DEF GoesTo
    <2> QED BY ZenonT(30), <2>1, <2>2 DEF Proper, Pcs, Earlier, UpdateCall, Agent, AloneInv, Types
<1>2. /\ keys' = [keys EXCEPT ![k] = Live(k)] /\ log' = Append(log, Put(k, node.id))
      /\ UNCHANGED <<agent, blockedList, peer, made>>
    BY ZenonT(30) DEF putKey
<1>3. Put(k, node.id) \in Messages /\ Put(k, node.id).type = "put" /\ Put(k, node.id).key = k
    BY ZenonT(30), <1>1, Made DEF Messages, Put
<1>4. Logged' = Logged \cup {Put(k, node.id)}
    BY ZenonT(30), <1>2, <1>3, LogGrows
<1>5. k \in 0 .. made /\ keys[k] = Absent /\ (\A m \in Logged : m.type = "put" => m.key # k) /\ agent.key = k
      /\ \A j \in Key : keys[j].by # k
    BY ZenonT(30), <1>1 DEF Own, Earlier, Pcs
<1>6. keys \in [Key -> KeyEntry] /\ made \in Int
    BY ZenonT(30), KeyFacts DEF Types
<1>7. keys'[k] = Live(k) /\ \A j \in Key : j # k => keys'[j] = keys[j]
    BY ZenonT(30), <1>1, <1>2, <1>6
<1> HIDE DEF k
<1>8. FreshKeys'
    <2>1. Live(k).by \in -1 .. made
        BY <1>5, <1>6 DEF Live, NoKey
    <2> QED BY <1>2, <1>5, <1>6, <1>7, <2>1, KeyFacts DEF AloneInv, FreshKeys
<1>9. ListReplaced'
    BY <1>2, <1>5, <1>7 DEF AloneInv, ListReplaced, Absent, Types
<1>10. LogProper'
    BY <1>2, <1>3, <1>4, <1>5 DEF AloneInv, LogProper
<1>11. Own(call[c])'
    <2>1. \A j \in Key : keys'[j].by # k
      <3>1. Live(k).by = NoKey /\ NoKey # k
          BY ZenonT(30), <1>1, KeyFacts DEF Live
      <3> QED
          BY ZenonT(30), <1>5, <1>7, <3>1
    <2> QED BY ZenonT(30), <1>1, <1>2, <1>5, <2>1 DEF Own, Earlier, Renamed, Pcs, k
<1>12. SingleCall' /\ \A d \in Caller : call'[d] # NoCall => Own(call[d])'
    BY ZenonT(30), <1>11, OthersStay, OneCallMoves DEF ModAgent
<1>13. \A p \in OtherNode : PeerProper(p)'
    BY ZenonT(30), <1>2, <1>4, PeersStay
<1> QED BY ZenonT(30), <1>8, <1>9, <1>10, <1>12, <1>13 DEF AloneInv

LEMMA AloneChangeMod ==
    ASSUME Types, AloneInv, NEW c \in Caller, ChangeMod(c) PROVE AloneInv'
<1> DEFINE r == call[c] o == r.oldID m == ModReq(o, r.newID, node.id)
<1>1. /\ Proper(r) /\ r.pc = "created" /\ r.revoke /\ Own(r) /\ o \in Key /\ r.newID \in Key
      /\ node.id \in Key
    <2>1. Proper(r) /\ r.pc = "created" /\ r # NoCall
        BY ZenonT(30), OthersStay DEF ModAgent, ChangeMod, CallAt
    <2> QED BY ZenonT(30), <2>1 DEF Proper, Pcs, Renamed, AloneInv, Types
<1>2. /\ call'[c].pc = "modified" /\ call'[c].revoke /\ call'[c].new = r.new
      /\ call'[c].oldID = o /\ call'[c].newID = r.newID
    BY ZenonT(30), <1>1, StepNode DEF GoesTo, SameIDs
<1>3. m \in Messages /\ m.type = "mod" /\ m.key = o /\ m.new = r.newID
    BY ZenonT(30), <1>1, Made DEF Messages, ModReq
<1>4. keys \in [Key -> KeyEntry] /\ made \in Int
    BY ZenonT(30), KeyFacts DEF Types
<1>5. /\ r.new.key \in 0 .. made /\ r.newID = r.new.key /\ agent.key = r.new.key
      /\ \A j \in Key : keys[j].by # r.new.key
    BY ZenonT(30), <1>1 DEF Own, Pcs, Renamed
<1>6. /\ keys' = (IF nodeID = node.id THEN KeysAfterMod(m, keys, TRUE) ELSE keys)
      /\ log' = (IF keys' # keys THEN Append(log, m) ELSE log)
      /\ UNCHANGED <<agent, blockedList, peer, made>>
    BY ZenonT(30) DEF ChangeMod
<1> HIDE DEF m
<1>7. \/ keys' = keys
      \/ keys[o].status = "live" /\ keys' = [keys EXCEPT ![o] = ModifiedBy(keys[o], r.newID)]
    <2>1. m.key \in Key /\ m.new \in Key /\ TRUE \in BOOLEAN
        BY ZenonT(30), <1>1, <1>3
    <2>2. \/ KeysAfterMod(m, keys, TRUE) = keys
          \/ /\ keys[m.key].status = "live"
             /\ KeysAfterMod(m, keys, TRUE) = [keys EXCEPT ![m.key] = ModifiedBy(keys[m.key], m.new)]
        BY ZenonT(30), <1>4, <2>1, ReceiveModIs
    <2> QED BY ZenonT(30), <1>3, <1>6, <2>2
<1>8. Logged' = Logged \/ Logged' = Logged \cup {m}
    <2>1. log' = log => Logged' = Logged
        BY ZenonT(30) DEF Logged
    <2> QED BY ZenonT(30), <1>3, <1>6, <2>1, LogGrows
<1>9. /\ \A j \in Key : j # o => keys'[j] = keys[j]
      /\ \/ keys'[o] = keys[o]
         \/ keys[o].status = "live" /\ keys'[o].status = "modified" /\ keys'[o].by = r.new.key
    BY <1>1, <1>4, <1>5, <1>7 DEF ModifiedBy
<1>10. FreshKeys'
    <2>1. o > made => keys'[o] = keys[o]
        BY <1>1, <1>9 DEF AloneInv, FreshKeys, Absent
    <2>2. keys'[o].by \in -1 .. made
        BY <1>1, <1>4, <1>5, <1>9 DEF AloneInv, FreshKeys
    <2> QED BY ZenonT(30), <1>6, <1>9, <2>1, <2>2 DEF AloneInv, FreshKeys
<1>11. ListReplaced'
    <2>1. \A j \in blockedList : j \in Key /\ keys[j].status = "modified"
        BY ZenonT(30) DEF AloneInv, ListReplaced, Types
    <2>2. \A j \in blockedList : keys'[j].status = "modified"
        BY ZenonT(30), <1>9, <2>1
    <2> QED BY ZenonT(30), <1>6, <2>2 DEF ListReplaced
<1>12. LogProper'
    BY ZenonT(30), <1>3, <1>6, <1>8 DEF AloneInv, LogProper
<1>13. Own(call[c])'
    <2>1. \A j \in Key : keys'[j].by = r.new.key => j = o
        BY ZenonT(30), <1>5, <1>9
    <2> QED BY ZenonT(30), <1>2, <1>5, <1>6, <2>1 DEF Own, Earlier, Renamed, Pcs
<1>14. SingleCall' /\ \A d \in Caller : call'[d] # NoCall => Own(call[d])'
    BY ZenonT(30), <1>13, OthersStay, OneCallMoves DEF ModAgent
<1>15. \A p \in OtherNode : PeerProper(p)'
    BY ZenonT(30), <1>6, <1>8, PeersStay
<1> QED BY ZenonT(30), <1>10, <1>11, <1>12, <1>14, <1>15 DEF AloneInv

LEMMA AloneChangeListAdd ==
    ASSUME Types, AloneInv, NEW c \in Caller, ChangeListAdd(c) PROVE AloneInv'
<1> DEFINE r == call[c] m == ListAddReq(r.oldID, r.old, r.new.key, node.id)
<1>1. /\ Proper(r) /\ r.pc = "modified" /\ r.revoke /\ Own(r) /\ r.oldID \in Key /\ r.old \in Key
      /\ r.new.key \in Key /\ node.id \in Key
    <2>1. Proper(r) /\ r.pc = "modified" /\ r # NoCall
        BY ZenonT(30), OthersStay DEF ModAgent, ChangeListAdd, CallAt
    <2> QED BY ZenonT(30), <2>1 DEF Proper, Pcs, Renamed, UpdateCall, Agent, AloneInv, Types
<1>2. m \in Messages /\ m.type = "listadd" /\ m.peer = r.oldID /\ m.old = r.old /\ m.new = r.new.key
    BY ZenonT(30), <1>1, Made DEF Messages, ListAddReq
<1>3. /\ \/ blockedList' = blockedList /\ log' = log
         \/ Verify(m, keys) /\ blockedList' = blockedList \cup {m.peer} /\ log' = Append(log, m)
      /\ UNCHANGED <<keys, peer, made>>
    BY ZenonT(30) DEF ChangeListAdd
<1> HIDE DEF m
<1>4. Verify(m, keys) => m.peer = m.old /\ keys[m.peer].status = "modified"
    BY ZenonT(30), <1>1, <1>2 DEF Verify, Own
<1>5. Logged' = Logged \/ (Verify(m, keys) /\ Logged' = Logged \cup {m})
    <2>1. log' = log => Logged' = Logged
        BY ZenonT(30) DEF Logged
    <2> QED BY ZenonT(30), <1>2, <1>3, <2>1, LogGrows
<1>6. FreshKeys' /\ ListReplaced'
    BY ZenonT(30), <1>3, <1>4 DEF AloneInv, FreshKeys, ListReplaced
<1>7. LogProper'
    BY ZenonT(30), <1>2, <1>3, <1>4, <1>5 DEF AloneInv, LogProper
<1>8. SingleCall' /\ \A d \in Caller : call'[d] # NoCall => Own(call[d])'
    BY ZenonT(30), StepEnds, OthersStay, OneCallMoves DEF ModAgent
<1>9. \A p \in OtherNode : PeerProper(p)'
    BY ZenonT(30), <1>3, <1>5, PeersStay
<1> QED BY ZenonT(30), <1>6, <1>7, <1>8, <1>9 DEF AloneInv

\* The steps that leave the DHT alone keep the key the call's own.
LEMMA AloneQuiet ==
    ASSUME Types, AloneInv, NEW c \in Caller,
           \/ NewSelfRevocation(c) \/ Exchange(c) \/ AddAgentEntry(c) \/ NewNodeID(c)
           \/ Close(c) \/ createNode(c) \/ Fail(c)
    PROVE  AloneInv'
<1> DEFINE r == call[c] s == call'[c]
<1>1. ModAgent(c) \/ Fail(c)
    BY ZenonT(30) DEF ModAgent
<1>2. /\ \A d \in Caller : d # c => call'[d] = call[d]
      /\ r # NoCall /\ Proper(r) /\ Own(r) /\ up /\ up'
    BY ZenonT(30), <1>1, OthersStay DEF AloneInv
<1>3. UNCHANGED <<keys, blockedList, log, peer, made>>
    BY ZenonT(30) DEF NewSelfRevocation, Exchange, AddAgentEntry, NewNodeID, Close, createNode, Fail
<1>4. Logged' = Logged
    BY ZenonT(30), <1>3 DEF Logged
<1>5. ASSUME Exchange(c) \/ UNCHANGED agent, agent' = agent \/ agent' = r.new, s.new = r.new, s.revoke = r.revoke,
             s.revoke => s.pc \in Pcs /\ s.pc # "modified",
             s.revoke /\ s.pc \in Earlier => r.pc \in Earlier,
             s.revoke /\ s.pc \in Pcs \ {"made", "signed"} => agent'.key = r.new.key,
             s.revoke /\ s.pc \in Renamed => s.newID = r.new.key,
             r.revoke => r.pc # "modified"
      PROVE  Own(call[c])'
    BY ZenonT(30), <1>2, <1>3, <1>4, <1>5 DEF Own
<1>6. CASE NewSelfRevocation(c)
    <2>1. r.pc = "made" /\ s.pc = "signed" /\ s.new = r.new /\ s.revoke = r.revoke /\ UNCHANGED agent
        BY ZenonT(30), <1>6, StepSign DEF GoesTo, NewSelfRevocation, CallAt
    <2>2. Own(call[c])'
        BY ZenonT(30), <1>5, <2>1 DEF Pcs, Earlier, Renamed
    <2> QED BY ZenonT(30), <1>2, <1>3, <2>2, QuietCall
<1>7. CASE Exchange(c)
    <2>1. r.pc = "signed" /\ s.pc = "exchanged" /\ s.new = r.new /\ s.revoke = r.revoke /\ agent' = r.new
        BY ZenonT(30), <1>7, StepExchange DEF GoesTo, Exchange, CallAt
    <2>2. Own(call[c])'
        BY ZenonT(30), <1>5, <1>7, <2>1 DEF Pcs, Earlier, Renamed
    <2> QED BY ZenonT(30), <1>2, <1>3, <2>2, QuietCall
<1>8. CASE AddAgentEntry(c)
    <2>1. r.pc = "exchanged" /\ UNCHANGED agent
        BY ZenonT(30), <1>8 DEF AddAgentEntry, CallAt
    <2>2. s = NoCall \/ (r.revoke /\ s.revoke = r.revoke /\ s.pc = "added" /\ s.new = r.new)
        BY ZenonT(30), <1>8, StepAdd DEF GoesTo
    <2>3. r.revoke => agent.key = r.new.key
        BY ZenonT(30), <1>2, <2>1 DEF Own, Pcs, Earlier
    <2>4. s = NoCall \/ Own(call[c])'
        BY ZenonT(30), <1>5, <2>1, <2>2, <2>3 DEF Pcs, Earlier, Renamed
    <2> QED BY ZenonT(30), <1>2, <1>3, <2>4, QuietCall
<1>9. CASE NewNodeID(c)
    <2>1. r.pc = "put" /\ UNCHANGED agent
        BY ZenonT(30), <1>9 DEF NewNodeID, CallAt
    <2>2. s.revoke = r.revoke /\ s.pc = "renamed" /\ s.new = r.new /\ s.newID = agent.key
        BY ZenonT(30), <1>9, StepNodeID DEF GoesTo
    <2>3. r.revoke => agent.key = r.new.key
        BY ZenonT(30), <1>2, <2>1 DEF Own, Pcs
    <2>4. Own(call[c])'
        BY ZenonT(30), <1>5, <2>1, <2>2, <2>3 DEF Pcs, Earlier, Renamed
    <2> QED BY ZenonT(30), <1>2, <1>3, <2>4, QuietCall
<1>10. CASE Close(c) \/ createNode(c)
    <2>1. r.pc \in {"renamed", "closed"} /\ UNCHANGED agent
        BY ZenonT(30), <1>10 DEF Close, createNode, CallAt
    <2>2. /\ s.revoke = r.revoke /\ s.pc \in {"closed", "created"} /\ s.new = r.new
          /\ s.newID = r.newID
        BY ZenonT(30), <1>10, StepNode DEF GoesTo, SameIDs
    <2>3. r.revoke => agent.key = r.new.key /\ r.newID = r.new.key
        BY ZenonT(30), <1>2, <2>1 DEF Own, Pcs, Renamed
    <2>4. Own(call[c])'
        BY ZenonT(30), <1>5, <2>1, <2>2, <2>3 DEF Pcs, Earlier, Renamed
    <2> QED BY ZenonT(30), <1>2, <1>3, <2>4, QuietCall
<1>11. CASE Fail(c)
    BY ZenonT(30), <1>2, <1>3, <1>11, StepEnds, QuietCall
<1> QED BY ZenonT(30), <1>6, <1>7, <1>8, <1>9, <1>10, <1>11

\* A call that is started alone has a key nobody knows.
LEMMA AloneStart ==
    ASSUME Types, AloneInv, alone', NEW c \in Caller, NEW identity \in BOOLEAN, NEW revoke \in BOOLEAN,
           Start(c, identity, revoke)
    PROVE  AloneInv'
<1>1. /\ call = [d \in Caller |-> NoCall] /\ up /\ up'
      /\ UNCHANGED <<agent, keys, blockedList, log, peer>>
      /\ made' = IF revoke THEN made + 1 ELSE made
      /\ revoke => made < MaxKey
    BY ZenonT(30) DEF Start, CallAt
<1>2. \A d \in Caller : d # c => call'[d] = NoCall
    BY ZenonT(30), <1>1 DEF Start, Goes
<1>3. /\ call'[c].revoke = revoke
      /\ revoke => call'[c].pc = "made" /\ call'[c].new.key = made + 1
    BY ZenonT(30), <1>1 DEF Start, Goes
<1>4. made \in Int /\ made >= 0 /\ keys \in [Key -> KeyEntry]
    BY AgentAssumption DEF Types, Key
<1>5. Logged' = Logged
    BY ZenonT(30), <1>1 DEF Logged
<1>6. revoke => made + 1 \in Key /\ made + 1 > made /\ made + 1 \in 0 .. (made + 1) /\ made + 1 \notin -1 .. made
               /\ made + 1 \notin 0 .. made
    BY <1>1, <1>4, AgentAssumption DEF Key
<1>7. Own(call[c])'
    <2> SUFFICES ASSUME revoke PROVE Own(call[c])'
        BY ZenonT(30), <1>3 DEF Own
    <2>1. call'[c].new.key \in 0 .. made'
        BY ZenonT(30), <1>1, <1>3, <1>6
    <2>2. keys'[call'[c].new.key] = Absent /\ \A k \in Key : keys'[k].by # call'[c].new.key
        BY ZenonT(30), <1>1, <1>3, <1>6 DEF AloneInv, FreshKeys
    <2>3. \A m \in Logged' : m.type = "put" => m.key # call'[c].new.key
        BY ZenonT(30), <1>3, <1>5, <1>6 DEF AloneInv, LogProper
    <2> QED BY ZenonT(30), <1>3, <2>1, <2>2, <2>3 DEF Own, Pcs, Earlier, Renamed
<1>8. SingleCall' /\ \A d \in Caller : call'[d] # NoCall => Own(call[d])'
    BY ZenonT(30), <1>1, <1>2, <1>7 DEF SingleCall
<1>9. made' >= made /\ made' \in Int
    BY SMTT(60), <1>1, <1>4
<1>10. FreshKeys'
    <2>1. \A k \in Key : k > made' => k > made
        BY <1>4, <1>9, KeyFacts
    <2>2. -1 .. made \subseteq -1 .. made'
        BY SMTT(60), <1>4, <1>9
    <2> QED BY ZenonT(30), <1>1, <2>1, <2>2 DEF AloneInv, FreshKeys
<1>11. LogProper' /\ ListReplaced'
    <2>1. 0 .. made \subseteq 0 .. made'
        BY <1>4, <1>9
    <2> QED BY ZenonT(30), <1>1, <1>5, <2>1 DEF AloneInv, LogProper, ListReplaced
<1>12. \A p \in OtherNode : PeerProper(p)'
    BY ZenonT(30), <1>1, <1>5, PeersStay
<1> QED BY ZenonT(30), <1>8, <1>10, <1>11, <1>12 DEF AloneInv

LEMMA AloneStep ==
    ASSUME Types, alone => AloneInv, [AgentNext]_agentVars PROVE alone' => AloneInv'
<1> SUFFICES ASSUME alone' PROVE AloneInv'
    BY ZenonT(30)
<1>1. alone
    BY ZenonT(30) DEF Types, AgentNext, agentVars, ModAgent, NewSelfRevocation, Exchange, AddAgentEntry, putKey, NewNodeID, Close,
           createNode, ChangeMod, ChangeListAdd, Fail, Start, Stop, RestartAgent, gossipPut, RetryTaskAt
<1>2. ASSUME NEW c \in Caller, ModAgent(c) \/ Fail(c) PROVE AloneInv'
    BY ZenonT(30), <1>1, <1>2, AlonePutKey, AloneChangeMod, AloneChangeListAdd, AloneQuiet DEF ModAgent
<1>3. ASSUME Stop \/ RestartAgent PROVE AloneInv'
    <2>1. UNCHANGED <<keys, blockedList, log, peer, made>> /\ \A c \in Caller : call'[c] = NoCall
        BY ZenonT(30), <1>1, <1>3 DEF Stop, RestartAgent, AloneInv, SingleCall
    <2>2. Logged' = Logged
        BY ZenonT(30), <2>1 DEF Logged
    <2>3. SingleCall' /\ FreshKeys' /\ ListReplaced' /\ LogProper'
        BY ZenonT(30), <1>1, <2>1, <2>2 DEF AloneInv, SingleCall, FreshKeys, ListReplaced, LogProper
    <2> QED BY ZenonT(30), <1>1, <2>1, <2>2, <2>3, PeersStay DEF AloneInv
<1>4. CASE UNCHANGED agentVars
    <2>1. Logged' = Logged
        BY ZenonT(30), <1>4 DEF Logged, agentVars
    <2>2. SingleCall' /\ FreshKeys' /\ ListReplaced' /\ LogProper'
        BY ZenonT(30), <1>1, <1>4, <2>1 DEF AloneInv, SingleCall, FreshKeys, ListReplaced, LogProper, agentVars
    <2>3. \A c \in Caller : call'[c] # NoCall => Own(call[c])'
        BY ZenonT(30), <1>1, <1>4, <2>1 DEF AloneInv, Own, agentVars
    <2> QED BY ZenonT(30), <1>1, <1>4, <2>1, <2>2, <2>3, PeersStay DEF AloneInv, agentVars
<1> QED BY ZenonT(30), <1>1, <1>2, <1>3, <1>4, AloneStart, AlonePeers DEF AgentNext

-----------------------------------------------------------------------------
(* What holds while, besides, no call fails *)

\* The entries of the chain.
LEMMA ChainFacts ==
    ASSUME Types
    PROVE  /\ Len(chain) \in Nat /\ Len(chain) >= 1 /\ Last \in AgentEntry /\ Last.key \in Key
           /\ \A i \in 1 .. Len(chain) : chain[i] \in AgentEntry /\ chain[i].key \in Key
<1>1. chain \in Seq(AgentEntry) /\ Len(chain) >= 1
    BY ZenonT(30) DEF Types
<1>2. Len(chain) \in Nat /\ \A i \in 1 .. Len(chain) : chain[i] \in AgentEntry
    BY <1>1
<1>3. Len(chain) \in 1 .. Len(chain)
    BY <1>1, <1>2
<1> QED BY ZenonT(30), <1>1, <1>2, <1>3 DEF Last, AgentEntry

\* When the chain and the replaced keys stay, entries that are linked stay linked.
LEMMA LinkedStays ==
    ASSUME Types, NEW n \in Nat, n <= Len(chain), Linked(n),
           \A i \in 1 .. n : chain'[i] = chain[i], blockedList \subseteq blockedList',
           \A k \in Key : keys[k].status = "modified" => keys'[k] = keys[k]
    PROVE  Linked(n)'
<1> SUFFICES ASSUME NEW i \in 2 .. n PROVE KeyLink(i)'
    BY ZenonT(30) DEF Linked
<1>1. i \in 1 .. n /\ i - 1 \in 1 .. n /\ i - 1 \in 1 .. Len(chain)
    BY ChainFacts
<1>2. chain'[i] = chain[i] /\ chain'[i - 1] = chain[i - 1] /\ chain[i - 1].key \in Key
    BY ZenonT(30), <1>1, ChainFacts
<1>3. KeyLink(i)
    BY ZenonT(30) DEF Linked
<1> QED BY <1>2, <1>3 DEF KeyLink

\* Nothing of the agent, the node and the chain changes.
LEMMA AgreedStays ==
    ASSUME UNCHANGED <<agent, nodeID, node, chain, top, keys, blockedList>>
    PROVE  /\ Last' = Last /\ (Agreed => Agreed') /\ (InUse => InUse')
           /\ \A n : Linked(n) => Linked(n)'
           /\ \A r : Stage(r) => (/\ r.pc \in {"made", "signed"} => Agreed'
                                  /\ r.pc = "exchanged" => InUse')
BY ZenonT(30) DEF Last, Agreed, InUse, Linked, KeyLink, Stage

\* The call that moves is the only one.
LEMMA OneCallCalm ==
    ASSUME Types, AloneInv, NEW c \in Caller, ModAgent(c),
           IF call'[c] = NoCall THEN Agreed' ELSE Stage(call[c])'
    PROVE  CalmInv'
<1>1. up' /\ \A d \in Caller : d # c => call'[d] = NoCall
    BY ZenonT(30), OthersStay DEF AloneInv, SingleCall
<1> QED BY ZenonT(30), <1>1 DEF CalmInv

\* NewSelfRevocation and Exchange.
LEMMA CalmSign ==
    ASSUME Types, AloneInv, CalmInv, NEW c \in Caller, NewSelfRevocation(c) PROVE CalmInv'
<1> DEFINE r == call[c] s == call'[c]
<1>1. /\ r # NoCall /\ Stage(r) /\ r.pc = "made" /\ Proper(s) /\ s.pc = "signed" /\ s.old = agent.key
      /\ s.revoke
    <2>1. r # NoCall /\ Proper(r) /\ r.pc = "made"
        BY ZenonT(30), OthersStay DEF ModAgent, NewSelfRevocation, CallAt
    <2>2. Proper(s) /\ s.pc = "signed" /\ s.old = agent.key /\ s.revoke = r.revoke
        BY ZenonT(30), StepSign DEF GoesTo
    <2> QED BY ZenonT(30), <2>1, <2>2 DEF CalmInv, Proper, Pcs, Earlier
<1>2. UNCHANGED <<agent, nodeID, node, chain, top, keys, blockedList>>
    BY ZenonT(30) DEF NewSelfRevocation
<1>3. Agreed /\ Agreed' /\ Last' = Last
    BY ZenonT(30), <1>1, <1>2, AgreedStays DEF Stage
<1>4. s.old = Last.key
    BY ZenonT(30), <1>1, <1>3 DEF Agreed
<1>5. Stage(call[c])'
    BY ZenonT(30), <1>1, <1>3, <1>4 DEF Stage, Renamed
<1>6. s # NoCall
    BY <1>1 DEF NoCall
<1> QED BY ZenonT(30), <1>5, <1>6, OneCallCalm DEF ModAgent

LEMMA CalmExchange ==
    ASSUME Types, AloneInv, CalmInv, NEW c \in Caller, Exchange(c) PROVE CalmInv'
<1> DEFINE r == call[c] s == call'[c]
<1>1. /\ r # NoCall /\ Stage(r) /\ r.pc = "signed" /\ s.pc = "exchanged" /\ s.old = r.old
      /\ s.revoke = r.revoke /\ s.new = r.new
    <2>1. r # NoCall /\ r.pc = "signed"
        BY ZenonT(30), OthersStay DEF ModAgent, Exchange, CallAt
    <2>2. s.pc = "exchanged" /\ s.old = r.old /\ s.revoke = r.revoke /\ s.new = r.new
        BY ZenonT(30), StepExchange DEF GoesTo, SameIDs
    <2> QED BY ZenonT(30), <2>1, <2>2 DEF CalmInv
<1>2. UNCHANGED <<nodeID, node, chain, top, keys, blockedList>> /\ agent' = r.new
    BY ZenonT(30) DEF Exchange
<1>3. InUse /\ Linked(Len(chain))
    BY ZenonT(30), <1>1 DEF Stage, Agreed
<1>4. Last' = Last /\ InUse' /\ Linked(Len(chain))'
    BY ZenonT(30), <1>2, <1>3 DEF Last, InUse, Linked, KeyLink
<1>5. Stage(call[c])'
    BY ZenonT(30), <1>1, <1>2, <1>4 DEF Stage, Renamed
<1>6. s # NoCall
    BY SMTT(60), <1>1 DEF NoCall
<1> QED BY ZenonT(30), <1>5, <1>6, OneCallCalm DEF ModAgent

\* AddAgentEntry: the entry is linked to the one before, or is the one of a revocation.
LEMMA CalmAddAgentEntry ==
    ASSUME Types, AloneInv, CalmInv, NEW c \in Caller, AddAgentEntry(c) PROVE CalmInv'
<1> DEFINE r == call[c] s == call'[c] e == Entry(agent, r.old)
<1>0. PICK n \in Nat : n = Len(chain)
    BY ZenonT(30), ChainFacts
<1>1. r # NoCall /\ Stage(r) /\ r.pc = "exchanged" /\ Proper(r) /\ Own(r)
    BY ZenonT(30), OthersStay DEF ModAgent, AddAgentEntry, CallAt, CalmInv, AloneInv
<1>2. /\ chain' = Append(chain, e) /\ top' = e
      /\ UNCHANGED <<agent, nodeID, node, keys, blockedList>>
    BY ZenonT(30) DEF AddAgentEntry
<1>3. e.key = agent.key /\ e.identity = agent.identity /\ e.revokes = r.old
    BY ZenonT(30) DEF Entry
<1> HIDE DEF e
<1>4. /\ chain \in Seq(AgentEntry) /\ n \in Nat /\ n >= 1 /\ Last.key \in Key
    BY ZenonT(30), <1>0, ChainFacts DEF Types
<1>5. e \in AgentEntry
    BY ZenonT(30), <1>1, Made DEF Types, Proper, UpdateCall, e
<1>6. /\ Len(chain') = n + 1 /\ chain'[n + 1] = e /\ \A i \in 1 .. n : chain'[i] = chain[i]
    BY <1>0, <1>2, <1>4, <1>5
<1>7. Last' = e /\ chain'[n] = Last
    <2>1. n \in 1 .. n /\ Len(chain') = n + 1
        BY SMTT(60), <1>4, <1>6
    <2> QED BY ZenonT(30), <1>0, <1>6, <2>1 DEF Last
<1>8. InUse /\ Linked(n) /\ agent = r.new
    BY ZenonT(30), <1>0, <1>1 DEF Stage
<1>9. Linked(n)'
    BY <1>0, <1>2, <1>4, <1>6, <1>8, LinkedStays
<1>10. CASE r.revoke
    <2>1. Proper(s) /\ s.pc = "added" /\ s.revoke /\ s.new = r.new /\ s.old = r.old
        BY ZenonT(30), <1>10, StepAdd DEF GoesTo, SameIDs
    <2>2. r.old = Last.key /\ keys[r.old] = Live(r.old) /\ keys[r.new.key] = Absent
        BY ZenonT(30), <1>1, <1>8, <1>10 DEF Stage, InUse, Own, Earlier
    <2>3. r.old # r.new.key
        BY <2>2 DEF Live, Absent
    <2>4. e = Entry(s.new, s.old)
        BY ZenonT(30), <1>8, <2>1 DEF e
    <2>5. n + 1 >= 2 /\ n + 1 - 1 = n
        BY <1>4
    <2>6. Revoking(call[c])'
        <3>1. "added" \notin Renamed /\ "added" \notin {"created", "modified"} /\ "added" # "modified"
            BY ZenonT(30) DEF Renamed
        <3>2. keys'[s.old] = Live(s.old) /\ nodeID' = s.old /\ node'.id = s.old
            BY ZenonT(30), <1>2, <1>8, <2>1, <2>2 DEF InUse
        <3>3. Len(chain') >= 2 /\ Len(chain') - 1 = n
            BY SMTT(60), <1>6, <2>5
        <3>4. Linked(Len(chain) - 1)' /\ chain'[Len(chain') - 1].key = s.old
            BY ZenonT(30), <1>7, <1>9, <2>1, <2>2, <3>3
        <3>5. agent' = s.new /\ Last' = Entry(s.new, s.old) /\ top' = Last' /\ s.old # s.new.key
            BY ZenonT(30), <1>2, <1>7, <1>8, <2>1, <2>3, <2>4
        <3> QED BY ZenonT(30), <2>1, <3>1, <3>2, <3>3, <3>4, <3>5 DEF Revoking
    <2>7. Stage(call[c])'
        BY ZenonT(30), <2>1, <2>6 DEF Stage
    <2>8. s # NoCall
        BY <2>1 DEF NoCall
    <2> QED BY ZenonT(30), <2>7, <2>8, OneCallCalm DEF ModAgent
<1>11. CASE ~r.revoke
    <2>1. s = NoCall
        BY ZenonT(30), <1>11, StepAdd DEF GoesTo, SameIDs
    <2>2. r.old = NoKey /\ r.new.key = Last.key
        BY ZenonT(30), <1>1, <1>11 DEF Proper, Stage
    <2>3. KeyLink(n + 1)'
        <3>1. n + 1 - 1 = n
            BY <1>4
        <3> QED BY <1>3, <1>6, <1>7, <1>8, <2>2, <3>1 DEF KeyLink
    <2>4. Linked(n + 1)'
        <3>1. \A i \in 2 .. (n + 1) : i = n + 1 \/ i \in 2 .. n
            BY <1>4
        <3> QED BY ZenonT(30), <1>9, <2>3, <3>1 DEF Linked
    <2>5. InUse'
        BY ZenonT(30), <1>2, <1>3, <1>7, <1>8, <2>2 DEF InUse
    <2>6. Agreed'
        BY ZenonT(30), <1>2, <1>3, <1>6, <1>7, <2>4, <2>5 DEF Agreed
    <2> QED BY ZenonT(30), <2>1, <2>6, OneCallCalm DEF ModAgent
<1> QED BY ZenonT(30), <1>10, <1>11

\* The place before the last one.
LEMMA OneLess == \A m \in Nat : m >= 2 => \E n \in Nat : n = m - 1 /\ n <= m /\ n + 1 = m
<1> SUFFICES ASSUME NEW m \in Nat, m >= 2 PROVE \E n \in Nat : n = m - 1 /\ n <= m /\ n + 1 = m
    BY ZenonT(30)
<1>1. m - 1 \in Nat /\ m - 1 <= m /\ (m - 1) + 1 = m
    BY SMTT(60)
<1> QED BY ZenonT(30), <1>1

\* The steps after that, up to the change of the blocked list: the chain stays, and so do the
\* keys that are replaced.
LEMMA CalmRevoking ==
    ASSUME Types, AloneInv, NEW c \in Caller, ModAgent(c), UNCHANGED <<agent, chain, top, blockedList>>,
           Revoking(call[c]), \A k \in Key : keys[k].status = "modified" => keys'[k] = keys[k],
           call'[c].pc \in {"put"} \cup Renamed, call'[c].new = call[c].new, call'[c].old = call[c].old,
           keys'[call[c].old] = IF call'[c].pc = "modified"
                                THEN [status |-> "modified", by |-> call[c].new.key, pub |-> call[c].old]
                                ELSE Live(call[c].old),
           keys'[call[c].new.key] = Live(call[c].new.key),
           nodeID' = IF call'[c].pc \in Renamed THEN call[c].new.key ELSE call[c].old,
           node'.id = IF call'[c].pc \in {"created", "modified"} THEN call[c].new.key ELSE call[c].old,
           call'[c].pc \in Renamed => call'[c].oldID = call[c].old
    PROVE  CalmInv'
<1>1. PICK n \in Nat : n = Len(chain) - 1 /\ n <= Len(chain)
    <2>1. Len(chain) \in Nat /\ Len(chain) >= 2
        BY ZenonT(30), ChainFacts DEF Revoking
    <2> QED BY ZenonT(30), <2>1, OneLess
<1>2. Linked(n)'
    <2>1. Linked(n) /\ \A i \in 1 .. n : chain'[i] = chain[i]
        BY ZenonT(30), <1>1 DEF Revoking
    <2> QED BY ZenonT(30), <1>1, <2>1, LinkedStays
<1>3. Last' = Last
    BY ZenonT(30) DEF Last
<1>4. Revoking(call[c])'
    BY ZenonT(30), <1>1, <1>2, <1>3 DEF Revoking, Renamed
<1>5. Stage(call[c])'
    BY ZenonT(30), <1>4 DEF Stage, Renamed
<1>6. call'[c] # NoCall
    <2>1. NoCall.pc = "idle" /\ "idle" \notin {"put"} \cup Renamed
        BY ZenonT(30) DEF NoCall, Renamed
    <2> QED BY ZenonT(30), <2>1
<1> QED BY ZenonT(30), <1>5, <1>6, OneCallCalm

LEMMA CalmPutKey ==
    ASSUME Types, AloneInv, CalmInv, NEW c \in Caller, putKey(c) PROVE CalmInv'
<1> DEFINE r == call[c] s == call'[c]
<1>1. r # NoCall /\ Stage(r) /\ r.pc = "added" /\ Proper(r) /\ Own(r)
    BY ZenonT(30), OthersStay DEF ModAgent, putKey, CallAt, CalmInv, AloneInv
<1>2. Revoking(r) /\ r.revoke /\ r.old \in Key /\ r.new.key \in Key
    BY ZenonT(30), <1>1 DEF Stage, Proper, Pcs, Earlier, UpdateCall, Agent
<1>3. s.pc = "put" /\ s.new = r.new /\ s.old = r.old
    BY ZenonT(30), StepPut DEF GoesTo, SameIDs
<1>4. /\ keys' = [keys EXCEPT ![r.new.key] = Live(r.new.key)]
      /\ UNCHANGED <<agent, nodeID, node, chain, top, blockedList>>
    BY ZenonT(30) DEF putKey
<1>5. keys[r.new.key] = Absent /\ keys \in [Key -> KeyEntry]
    BY ZenonT(30), <1>1, <1>2 DEF Own, Earlier, Types
<1>6. /\ keys'[r.new.key] = Live(r.new.key) /\ \A k \in Key : k # r.new.key => keys'[k] = keys[k]
    BY ZenonT(30), <1>2, <1>4, <1>5
<1>7. \A k \in Key : keys[k].status = "modified" => keys'[k] = keys[k]
    <2>1. Absent.status # "modified"
        BY ZenonT(30) DEF Absent
    <2> QED BY ZenonT(30), <1>5, <1>6, <2>1
<1>8. keys'[r.old] = Live(r.old) /\ nodeID = r.old /\ node.id = r.old
    BY ZenonT(30), <1>1, <1>2, <1>6 DEF Revoking, Renamed
<1>9. s.pc \notin Renamed /\ ModAgent(c)
    BY ZenonT(30), <1>3 DEF Renamed, ModAgent
<1> HIDE DEF r, s
<1> QED BY ZenonT(30), <1>2, <1>3, <1>4, <1>6, <1>7, <1>8, <1>9, CalmRevoking DEF r, s

LEMMA CalmNode ==
    ASSUME Types, AloneInv, CalmInv, NEW c \in Caller, NewNodeID(c) \/ Close(c) \/ createNode(c) PROVE CalmInv'
<1> DEFINE r == call[c] s == call'[c]
<1>1. r # NoCall /\ Stage(r) /\ Proper(r) /\ ModAgent(c)
    BY ZenonT(30), OthersStay DEF ModAgent, CalmInv
<1>2. /\ NewNodeID(c) => r.pc = "put" /\ nodeID' = agent.key /\ node' = node
      /\ Close(c) => r.pc = "renamed" /\ nodeID' = nodeID /\ node' = [node EXCEPT !.serving = FALSE]
      /\ createNode(c) => r.pc = "closed" /\ nodeID' = nodeID /\ node'.id = agent.key
      /\ UNCHANGED <<agent, chain, top, keys, blockedList>>
    BY DEF NewNodeID, Close, createNode, CallAt
<1>3. /\ NewNodeID(c) => s.pc = "renamed" /\ s.oldID = nodeID
      /\ Close(c) => s.pc = "closed" /\ s.oldID = r.oldID
      /\ createNode(c) => s.pc = "created" /\ s.oldID = r.oldID
      /\ s.new = r.new /\ s.old = r.old
    BY ZenonT(30), StepNodeID, StepNode DEF GoesTo, SameIDs
<1>4. Close(c) => node'.id = node.id
    BY ZenonT(30), <1>2 DEF Types
<1>5. Revoking(r)
    BY ZenonT(30), <1>1, <1>2 DEF Stage, Renamed
<1>6. agent.key = r.new.key /\ keys'[r.new.key] = Live(r.new.key) /\ keys'[r.old] = Live(r.old)
    BY ZenonT(30), <1>2, <1>5 DEF Revoking
<1>7. s.pc \in {"put"} \cup Renamed /\ s.pc \in Renamed /\ s.pc # "modified" /\ s.oldID = r.old
    BY ZenonT(30), <1>2, <1>3, <1>5 DEF Revoking, Renamed
<1>8. nodeID' = r.new.key /\ node'.id = IF s.pc = "created" THEN r.new.key ELSE r.old
    BY ZenonT(30), <1>2, <1>3, <1>4, <1>5, <1>6 DEF Revoking, Renamed
<1> HIDE DEF r, s
<1> QED BY ZenonT(30), <1>1, <1>2, <1>3, <1>5, <1>6, <1>7, <1>8, CalmRevoking DEF r, s

LEMMA CalmChangeMod ==
    ASSUME Types, AloneInv, CalmInv, NEW c \in Caller, ChangeMod(c) PROVE CalmInv'
<1> DEFINE r == call[c] s == call'[c] m == ModReq(r.oldID, r.newID, node.id)
<1>1. r # NoCall /\ Stage(r) /\ r.pc = "created" /\ Proper(r) /\ Own(r) /\ ModAgent(c)
    BY ZenonT(30), OthersStay DEF ModAgent, ChangeMod, CallAt, CalmInv, AloneInv
<1>2. Revoking(r) /\ r.revoke /\ r.old \in Key /\ r.new.key \in Key
    BY ZenonT(30), <1>1 DEF Stage, Proper, Pcs, Renamed, UpdateCall, Agent
<1>3. s.pc = "modified" /\ s.new = r.new /\ s.old = r.old /\ s.oldID = r.oldID
    BY ZenonT(30), StepNode DEF GoesTo, SameIDs
<1>4. /\ nodeID = r.new.key /\ node.id = r.new.key /\ r.oldID = r.old /\ r.newID = r.new.key
      /\ r.old # r.new.key /\ keys[r.old] = Live(r.old) /\ keys[r.new.key] = Live(r.new.key)
    BY ZenonT(30), <1>1, <1>2 DEF Revoking, Renamed, Own
<1>5. m.key = r.old /\ m.new = r.new.key
    BY ZenonT(30), <1>4 DEF ModReq
<1>6. keys' = KeysAfterMod(m, keys, TRUE) /\ UNCHANGED <<agent, nodeID, node, chain, top, blockedList>>
    BY ZenonT(30), <1>4 DEF ChangeMod
<1>7. keys \in [Key -> KeyEntry]
    BY ZenonT(30) DEF Types
<1> HIDE DEF m, r, s
<1>8. keys' = [keys EXCEPT ![r.old] = ModifiedBy(keys[r.old], r.new.key)]
    <2>1. keys[m.key].status = "live" /\ m.key \in Key /\ m.new \in Key /\ TRUE \in BOOLEAN /\ m.new = nodeID
        BY <1>2, <1>4, <1>5 DEF Live
    <2>2. KeysAfterMod(m, keys, TRUE) = [keys EXCEPT ![m.key] = ModifiedBy(keys[m.key], m.new)]
        BY ZenonT(30), <1>7, <2>1, ReceiveModIs
    <2> QED BY ZenonT(30), <1>5, <1>6, <2>2
<1>9. ModifiedBy(keys[r.old], r.new.key) = [status |-> "modified", by |-> r.new.key, pub |-> r.old]
    BY SMTT(60), <1>4 DEF ModifiedBy, Live
<1>10. /\ keys'[r.old] = [status |-> "modified", by |-> r.new.key, pub |-> r.old]
       /\ \A k \in Key : k # r.old => keys'[k] = keys[k]
    BY ZenonT(30), <1>2, <1>7, <1>8, <1>9
<1>11. \A k \in Key : keys[k].status = "modified" => keys'[k] = keys[k]
    BY <1>4, <1>10 DEF Live
<1>12. keys'[r.new.key] = Live(r.new.key)
    BY ZenonT(30), <1>2, <1>4, <1>10
<1>13. s.pc \in Renamed
    BY ZenonT(30), <1>3 DEF Renamed
<1> QED BY ZenonT(30), <1>1, <1>2, <1>3, <1>4, <1>6, <1>10, <1>11, <1>12, <1>13, CalmRevoking DEF r, s

LEMMA CalmChangeListAdd ==
    ASSUME Types, AloneInv, CalmInv, NEW c \in Caller, ChangeListAdd(c) PROVE CalmInv'
<1> DEFINE r == call[c] m == ListAddReq(r.oldID, r.old, r.new.key, node.id)
<1>1. r # NoCall /\ Stage(r) /\ r.pc = "modified" /\ Proper(r) /\ ModAgent(c) /\ call'[c] = NoCall
    BY ZenonT(30), OthersStay, StepEnds DEF ModAgent, ChangeListAdd, CallAt, CalmInv
<1>2. Revoking(r)
    BY ZenonT(30), <1>1 DEF Stage, Renamed
<1>3. /\ nodeID = r.new.key /\ node.id = r.new.key /\ r.oldID = r.old /\ r.old # r.new.key
      /\ keys[r.old] = [status |-> "modified", by |-> r.new.key, pub |-> r.old]
      /\ keys[r.new.key] = Live(r.new.key)
    BY ZenonT(30), <1>1, <1>2 DEF Revoking, Renamed
<1>4. Verify(m, keys) /\ m.peer = r.old
    <2>1. m.peer = r.oldID /\ m.old = r.old /\ m.new = r.new.key
        BY ZenonT(30) DEF ListAddReq
    <2>2. keys[r.old].status = "modified" /\ keys[r.old].by = r.new.key
        BY ONLY <1>3
    <2> QED BY ZenonT(30), <1>3, <2>1, <2>2 DEF Verify
<1>5. /\ blockedList' = blockedList \cup {m.peer} /\ node' = [node EXCEPT !.blocked = @ \cup {m.peer}]
      /\ UNCHANGED <<agent, nodeID, chain, top, keys>>
    BY ZenonT(30), <1>3, <1>4 DEF ChangeListAdd
<1> HIDE DEF m
<1>6. node'.id = node.id
    BY ZenonT(30), <1>5 DEF Types
<1>7. PICK n \in Nat : n = Len(chain) - 1 /\ n <= Len(chain) /\ n + 1 = Len(chain)
    <2>1. Len(chain) \in Nat /\ Len(chain) >= 2
        BY ZenonT(30), <1>2, ChainFacts DEF Revoking
    <2> QED BY ZenonT(30), <2>1, OneLess
<1>8. Linked(n)'
    <2>1. Linked(n) /\ \A i \in 1 .. n : chain'[i] = chain[i]
        BY ZenonT(30), <1>2, <1>5, <1>7 DEF Revoking
    <2>2. blockedList \subseteq blockedList'
        BY ZenonT(30), <1>5
    <2> QED BY ZenonT(30), <1>5, <1>7, <2>1, <2>2, LinkedStays
<1>9. chain[n].key = r.old /\ chain[n + 1] = Entry(r.new, r.old) /\ n + 1 - 1 = n
    <2>1. n + 1 - 1 = n
        BY SMTT(60), <1>7
    <2> QED BY ZenonT(30), <1>2, <1>7, <2>1 DEF Revoking, Last
<1>10. chain[n + 1].key = r.new.key /\ chain[n + 1].revokes = r.old
    BY <1>9 DEF Entry
<1>11. KeyLink(n + 1)'
    BY <1>3, <1>4, <1>5, <1>9, <1>10 DEF KeyLink
<1>12. Linked(n + 1)'
    <2>1. \A i \in 2 .. (n + 1) : i = n + 1 \/ i \in 2 .. n
        BY <1>7
    <2> QED BY ZenonT(30), <1>8, <1>11, <2>1 DEF Linked
<1>13. Last' = Last /\ Last.key = r.new.key /\ Last.identity = r.new.identity /\ agent = r.new /\ top = Last
    BY <1>2, <1>5 DEF Last, Revoking, Entry
<1>14. Agreed'
    BY ZenonT(30), <1>3, <1>5, <1>6, <1>7, <1>12, <1>13 DEF Agreed, InUse
<1> QED BY ZenonT(30), <1>1, <1>14, OneCallCalm

LEMMA CalmStart ==
    ASSUME Types, AloneInv, CalmInv, alone', NEW c \in Caller, NEW identity \in BOOLEAN, NEW revoke \in BOOLEAN,
           Start(c, identity, revoke)
    PROVE  CalmInv'
<1>1. /\ call = [d \in Caller |-> NoCall] /\ up'
      /\ UNCHANGED <<agent, nodeID, node, chain, top, keys, blockedList>>
    BY ZenonT(30) DEF Start, CallAt
<1>2. \A d \in Caller : d # c => call'[d] = NoCall
    BY ZenonT(30), <1>1 DEF Start, Goes
<1>3. /\ call'[c].revoke = revoke /\ call'[c].pc = IF revoke THEN "made" ELSE "signed"
      /\ ~revoke => call'[c].new.key = agent.key
    BY ZenonT(30), <1>1 DEF Start, Goes
<1>4. Agreed /\ Agreed' /\ Last' = Last
    BY ZenonT(30), <1>1, AgreedStays DEF CalmInv
<1>5. agent.key = Last.key
    BY ZenonT(30), <1>4 DEF Agreed
<1>6. Stage(call[c])'
    BY ZenonT(30), <1>3, <1>4, <1>5 DEF Stage, Renamed
<1>7. call'[c] # NoCall
    BY <1>3 DEF NoCall
<1> QED BY ZenonT(30), <1>1, <1>2, <1>6, <1>7 DEF CalmInv

\* A process that is restarted before the first update has the agent it had.
LEMMA CalmRestart ==
    ASSUME Types, AloneInv, CalmInv, RestartAgent PROVE CalmInv'
<1>1. /\ Len(chain) = 1 /\ \A c \in Caller : call[c] = NoCall
      /\ UNCHANGED <<chain, keys, blockedList, call>> /\ up'
      /\ agent' = [key |-> 0, identity |-> 0] /\ nodeID' = 0 /\ node'.id = 0
      /\ top' = chain[Len(chain)]
    BY ZenonT(30) DEF RestartAgent, CalmInv, AloneInv, SingleCall
<1>2. Last = chain[1] /\ Last' = Last /\ Last.key = 0 /\ Last.identity = 0
    <2>1. chain[1] = [key |-> 0, identity |-> 0, revokes |-> NoKey]
        BY ZenonT(30) DEF Types
    <2>2. Last = chain[1] /\ Last' = Last
        BY ZenonT(30), <1>1 DEF Last
    <2> QED BY <2>1, <2>2
<1>3. keys[0] = Live(0)
    <2>1. Agreed
        BY ZenonT(30), <1>1 DEF CalmInv
    <2> QED BY ZenonT(30), <1>2, <2>1 DEF Agreed, InUse
<1>4. Linked(Len(chain))'
    <2>1. Len(chain') = 1 /\ 2 .. 1 = {}
        BY SMTT(60), <1>1
    <2> QED BY ZenonT(30), <2>1 DEF Linked
<1>5. InUse'
    <2>1. top' = Last /\ keys'[0] = Live(0)
        BY ZenonT(30), <1>1, <1>3 DEF Last
    <2> QED BY ZenonT(30), <1>1, <1>2, <2>1 DEF InUse
<1>6. Agreed'
    BY ZenonT(30), <1>1, <1>2, <1>4, <1>5 DEF Agreed
<1> QED BY ZenonT(30), <1>1, <1>6 DEF CalmInv

LEMMA CalmStep ==
    ASSUME Types, alone => AloneInv, alone /\ calm => CalmInv, [AgentNext]_agentVars PROVE alone' /\ calm' => CalmInv'
<1> SUFFICES ASSUME alone', calm' PROVE CalmInv'
    BY ZenonT(30)
<1>1. alone /\ calm
    BY ZenonT(30) DEF Types, AgentNext, agentVars, ModAgent, NewSelfRevocation, Exchange, AddAgentEntry, putKey, NewNodeID, Close,
           createNode, ChangeMod, ChangeListAdd, Fail, Start, Stop, RestartAgent, gossipPut, RetryTaskAt
<1>2. ASSUME NEW c \in Caller, ModAgent(c) PROVE CalmInv'
    BY ZenonT(30), <1>1, <1>2, CalmSign, CalmExchange, CalmAddAgentEntry, CalmPutKey, CalmNode, CalmChangeMod,
       CalmChangeListAdd DEF ModAgent
<1>3. ASSUME NEW c \in Caller PROVE ~Fail(c)
    BY ZenonT(30) DEF Fail
<1>4. ASSUME UNCHANGED <<agent, nodeID, node, chain, top, keys, blockedList, call>>, ~up' => Len(chain) = 1 PROVE CalmInv'
    <2>1. Last' = Last /\ (Agreed => Agreed')
        BY ZenonT(30), <1>4, AgreedStays
    <2>2. ASSUME NEW r, Stage(r) PROVE Stage(r)'
        <3>1. Revoking(r) => Revoking(r)'
            BY ZenonT(30), <1>4 DEF Revoking, Last, Linked, KeyLink
        <3> QED BY ZenonT(30), <1>4, <2>2, <2>1, <3>1 DEF Stage, InUse, Linked, KeyLink
    <2> QED BY ZenonT(30), <1>1, <1>4, <2>1, <2>2 DEF CalmInv
<1>5. CASE Stop
    <2>1. /\ \A c \in Caller : call[c] = NoCall /\ call'[c] = NoCall
          /\ Len(chain) = 1 /\ UNCHANGED <<agent, nodeID, node, chain, top, keys, blockedList>>
        BY ZenonT(30), <1>5 DEF Stop
    <2>2. Agreed'
        BY ZenonT(30), <1>1, <2>1, AgreedStays DEF CalmInv
    <2> QED BY ZenonT(30), <2>1, <2>2 DEF CalmInv
<1>6. ASSUME (\E p \in OtherNode : gossipPut(p) \/ RetryTaskAt(p)) \/ UNCHANGED agentVars PROVE CalmInv'
    <2>1. UNCHANGED <<up, agent, nodeID, node, chain, top, keys, blockedList, call>>
        BY ZenonT(30), <1>6 DEF gossipPut, RetryTaskAt, agentVars
    <2> QED BY ZenonT(30), <1>1, <1>4, <2>1 DEF CalmInv
<1> QED BY ZenonT(30), <1>1, <1>2, <1>3, <1>5, <1>6, CalmStart, CalmRestart DEF AgentNext

-----------------------------------------------------------------------------
(* The theorems *)

LEMMA AgentStart == AgentInit => AgentInv
<1> SUFFICES ASSUME AgentInit PROVE AgentInv
    BY ZenonT(30)
<1> USE KeyFacts, AgentAssumption
<1>1. /\ up /\ agent = [key |-> 0, identity |-> 0] /\ nodeID = 0 /\ node.id = 0
      /\ chain = <<[key |-> 0, identity |-> 0, revokes |-> NoKey]>> /\ top = chain[1]
      /\ blockedList = {} /\ log = <<Put(0, 0)>> /\ \A c \in Caller : call[c] = NoCall
      /\ made = 0 /\ updates = 0
      /\ keys = [k \in Key |-> IF k = 0 THEN Live(0) ELSE Absent]
    BY ZenonT(30) DEF AgentInit, Entry
<1>2. Put(0, 0) \in Messages /\ Put(0, 0).type = "put" /\ Put(0, 0).key = 0
    BY ZenonT(30), Made DEF Messages, Put
<1>3. Len(chain) = 1 /\ chain[1] = [key |-> 0, identity |-> 0, revokes |-> NoKey] /\ Len(log) = 1 /\ log[1] = Put(0, 0)
    BY ZenonT(30), <1>1
<1>4. Types
    <2>1. agent \in Agent /\ 0 \in 0 .. MaxUpdates /\ made \in Key /\ updates \in 0 .. MaxUpdates
        BY <1>1 DEF Agent
    <2>2. chain[1] \in AgentEntry
        BY <1>3, <2>1 DEF AgentEntry
    <2>3. chain \in Seq(AgentEntry) /\ log \in Seq(Messages)
        BY SMTT(60), <1>1, <1>2, <1>3, <2>2
    <2>4. keys \in [Key -> KeyEntry] /\ [k \in Key |-> Absent] \in [Key -> KeyEntry]
        BY ZenonT(30), <1>1, Made
    <2>5. peer \in [OtherNode -> PeerState]
        BY ZenonT(30), <2>4 DEF AgentInit, PeerState
    <2>6. node \in [id : Key, serving : BOOLEAN, blocked : SUBSET Key] /\ DOMAIN call = Caller
        BY ZenonT(30) DEF AgentInit
    <2>7. up \in BOOLEAN /\ alone \in BOOLEAN /\ calm \in BOOLEAN
        BY ZenonT(30) DEF AgentInit
    <2> QED BY SMTT(60), <1>1, <1>3, <2>1, <2>3, <2>4, <2>5, <2>6, <2>7 DEF Types
<1>5. AloneInv
    <2>1. Logged = {Put(0, 0)}
        <3>1. 1 .. 1 = {1}
            OBVIOUS
        <3> QED BY ZenonT(30), <1>3, <3>1 DEF Logged
    <2>2. FreshKeys
        BY SMTT(60), <1>1 DEF FreshKeys, Absent, Live, NoKey, Key
    <2>3. \A p \in OtherNode : PeerProper(p)
        BY ZenonT(30) DEF AgentInit, PeerProper, Absent
    <2>4. SingleCall /\ ListReplaced
        BY ZenonT(30), <1>1 DEF SingleCall, ListReplaced
    <2>5. LogProper
        BY <1>1, <1>2, <2>1 DEF LogProper
    <2> QED BY ZenonT(30), <1>1, <2>2, <2>3, <2>4, <2>5 DEF AloneInv
<1>6. CalmInv
    <2>1. Last = chain[1] /\ keys[0] = Live(0)
        BY ZenonT(30), <1>1, <1>3 DEF Last
    <2>2. Linked(Len(chain))
        BY <1>3 DEF Linked
    <2>3. Agreed
        BY ZenonT(30), <1>1, <1>3, <2>1, <2>2 DEF Agreed, InUse
    <2> QED BY ZenonT(30), <1>1, <2>3 DEF CalmInv
<1> QED BY ZenonT(30), <1>4, <1>5, <1>6 DEF AgentInv

LEMMA AgentInvHolds == AgentSpec => []AgentInv
<1>1. AgentInv /\ [AgentNext]_agentVars => AgentInv'
    BY ZenonT(30), TypesStep, AloneStep, CalmStep DEF AgentInv
<1> QED BY <1>1, AgentStart, PTL DEF AgentSpec

\* A node is blocked, in the DHT of the node and by its peers, only if its key is
\* replaced there, however calls of updateAgent fail and the process is restarted, as
\* long as no two calls overlap (ActionListAdd.Receive, SelfRevocationWarrant.Verify).
THEOREM BlockedKeysAreReplaced == AgentSpec => []BlockedAreReplaced
<1>1. AgentInv => BlockedAreReplaced
    BY ZenonT(30) DEF AgentInv, AloneInv, ListReplaced, PeerProper, BlockedAreReplaced
<1> QED BY <1>1, AgentInvHolds, PTL

\* After each call of updateAgent the agent, the id, the node on the network, the top
\* agent entry and its hash agree, if no call failed or overlapped (ActionModAgent.Do).
THEOREM IdentitiesAgree == AgentSpec => []IdentityAgrees
<1>1. AgentInv => IdentityAgrees
    <2> SUFFICES ASSUME AgentInv PROVE IdentityAgrees
        BY ZenonT(30)
    <2>1. Types
        BY ZenonT(30) DEF AgentInv
    <2>2. AgentTypeOK
        <3>1. \A i \in DOMAIN chain : chain[i] \in AgentEntry
            BY <2>1 DEF Types
        <3>2. \A k \in Key : keys[k].status \in {"absent", "live", "modified"}
            BY ZenonT(30), <2>1 DEF Types, KeyEntry
        <3>3. \A p \in OtherNode : peer[p].blocked \subseteq Key
            BY ZenonT(30), <2>1 DEF Types, PeerState
        <3> QED BY ZenonT(30), <2>1, <3>1, <3>2, <3>3 DEF AgentTypeOK, Types, Agent, AgentEntry, MaybeKey
    <2>3. alone /\ calm /\ Resting => Agreed
        BY ZenonT(30) DEF AgentInv, CalmInv, Resting
    <2> QED BY ZenonT(30), <2>2, <2>3 DEF IdentityAgrees, Agreed, InUse, Last
<1> QED BY <1>1, AgentInvHolds, PTL

\* Under the same conditions every key that was revoked is replaced by the one after it
\* in the chain and is blocked, and the last one is live (ActionModAgent.Do).
THEOREM KeysFollowEachOther == AgentSpec => []KeysFollow
<1>1. AgentInv => KeysFollow
    <2>1. AgentInv /\ alone /\ calm /\ Resting => Agreed
        BY ZenonT(30) DEF AgentInv, CalmInv, Resting
    <2> QED BY ZenonT(30), <2>1 DEF KeysFollow, Agreed, InUse, Linked, KeyLink
<1> QED BY <1>1, AgentInvHolds, PTL


-----------------------------------------------------------------------------
(* DHTNode *)

\* What every transaction keeps.
StoreInv(s) ==
    /\ s \in Store
    /\ ReplacementRecorded(s)
    /\ FingerprintsIndexLog(s)
    /\ StatusFollowsLog(s)
    /\ LinksFollowLog(s)

-----------------------------------------------------------------------------
(* incIdx *)

\* What incIdx writes: a record at the end of the log, and its fingerprint.
LEMMA IncIdxEffect ==
    ASSUME NEW s \in Store, NEW m \in Message
    PROVE  /\ incIdx(s, m) \in Store
           /\ incIdx(s, m).status = s.status
           /\ incIdx(s, m).replacedBy = s.replacedBy
           /\ incIdx(s, m).links = s.links
           /\ incIdx(s, m).log = Append(s.log, m)
           /\ incIdx(s, m).fp = [s.fp EXCEPT ![m] = Len(s.log) + 1]
<1>1. m # NilMsg
  BY ZenonT(30), ConstantsAssumption
<1>2. /\ s.status \in [Hash -> Statuses]
      /\ s.replacedBy \in [Hash -> Hash \cup {NoHash}]
      /\ s.links \in Seq(LinkEvent)
      /\ s.log \in Seq(Message)
      /\ s.fp \in [Message -> Int]
  BY ZenonT(30) DEF Store
<1>3. incIdx(s, m) = [s EXCEPT !.log = Append(s.log, m),
                               !.fp  = [s.fp EXCEPT ![m] = Len(s.log) + 1]]
  BY ZenonT(30), <1>1 DEF incIdx
<1>4. /\ Append(s.log, m) \in Seq(Message)
      /\ [s.fp EXCEPT ![m] = Len(s.log) + 1] \in [Message -> Int]
  BY <1>2
<1> QED
  BY ZenonT(30), <1>2, <1>3, <1>4 DEF Store

\* What dht.put writes: a status and a log record.
LEMMA PutEffect ==
    ASSUME NEW s \in Store, NEW m \in Message, NEW k \in Hash, NEW st \in Statuses
    PROVE  /\ put(s, m, k, st) \in Store
           /\ put(s, m, k, st).status = [s.status EXCEPT ![k] = st]
           /\ put(s, m, k, st).replacedBy = s.replacedBy
           /\ put(s, m, k, st).links = s.links
           /\ put(s, m, k, st).log = Append(s.log, m)
           /\ put(s, m, k, st).fp = [s.fp EXCEPT ![m] = Len(s.log) + 1]
<1> DEFINE q == incIdx(s, m)
<1> DEFINE r == put(s, m, k, st)
<1>1. /\ q \in Store
      /\ q.status = s.status
      /\ q.replacedBy = s.replacedBy
      /\ q.links = s.links
      /\ q.log = Append(s.log, m)
      /\ q.fp = [s.fp EXCEPT ![m] = Len(s.log) + 1]
  BY ZenonT(30), IncIdxEffect
<1> HIDE DEF q
<1>2. r = [q EXCEPT !.status = [q.status EXCEPT ![k] = st]]
  BY ZenonT(30) DEF q, put
<1> HIDE DEF r
<1>3. [q.status EXCEPT ![k] = st] \in [Hash -> Statuses]
  BY ZenonT(30), <1>1 DEF Store
<1>4. /\ r \in Store
      /\ r.status = [q.status EXCEPT ![k] = st]
      /\ r.replacedBy = q.replacedBy
      /\ r.links = q.links
      /\ r.log = q.log
      /\ r.fp = q.fp
  BY ZenonT(30), <1>1, <1>2, <1>3 DEF Store
<1> QED
  BY ZenonT(30), <1>1, <1>4 DEF r

\* The elements of an appended sequence.
LEMMA AppendElements ==
    ASSUME NEW S, NEW q \in Seq(S), NEW x \in S
    PROVE  /\ Append(q, x) \in Seq(S)
           /\ Len(Append(q, x)) = Len(q) + 1
           /\ DOMAIN Append(q, x) = DOMAIN q \cup {Len(q) + 1}
           /\ Len(q) + 1 \notin DOMAIN q
           /\ Append(q, x)[Len(q) + 1] = x
           /\ \A i \in DOMAIN q : i \in Nat /\ i <= Len(q) /\ Append(q, x)[i] = q[i]
  OBVIOUS

\* incIdx keeps the fingerprints in step with the log.
LEMMA IncIdxFingerprints ==
    ASSUME NEW s \in Store, FingerprintsIndexLog(s), NEW m \in Message,
           NEW r, r.log = Append(s.log, m),
           r.fp = [s.fp EXCEPT ![m] = Len(s.log) + 1]
    PROVE  FingerprintsIndexLog(r)
<1>1. s.log \in Seq(Message) /\ s.fp \in [Message -> Int]
  BY ZenonT(30) DEF Store
<1> DEFINE n == Len(s.log) + 1
<1>2. /\ DOMAIN r.log = DOMAIN s.log \cup {n}
      /\ r.log[n] = m
      /\ \A i \in DOMAIN s.log : i \in Nat /\ i < n /\ r.log[i] = s.log[i]
      /\ n \in Nat
  BY <1>1, AppendElements
<1> SUFFICES ASSUME NEW x \in Message
             PROVE  \/ /\ r.fp[x] = -1
                       /\ \A i \in DOMAIN r.log : r.log[i] # x
                    \/ /\ r.fp[x] \in DOMAIN r.log
                       /\ r.log[r.fp[x]] = x
                       /\ \A i \in DOMAIN r.log : i > r.fp[x] => r.log[i] # x
  BY ZenonT(30) DEF FingerprintsIndexLog
<1>3. CASE x = m
  <2>1. r.fp[x] = n
    BY ZenonT(30), <1>1, <1>3
  <2> QED
    BY <1>2, <1>3, <2>1
<1>4. CASE x # m
  <2>1. r.fp[x] = s.fp[x]
    BY ZenonT(30), <1>1, <1>4
  <2> QED
    BY <1>2, <1>4, <2>1 DEF FingerprintsIndexLog
<1> QED
  BY ZenonT(30), <1>3, <1>4

\* A logged message that sets the status of a hash decides it.
LEMMA StatusFollows ==
    ASSUME NEW s \in Store, StatusFollowsLog(s), NEW m \in Message,
           m.Type # "LINK_REQUEST", NEW st \in StatusAfter[m.Type],
           NEW r, r.log = Append(s.log, m),
           r.status = [s.status EXCEPT ![m.H] = st]
    PROVE  StatusFollowsLog(r)
<1>1. s.log \in Seq(Message) /\ s.status \in [Hash -> Statuses] /\ m.H \in Hash
  BY ZenonT(30), ConstantsAssumption DEF Store, ChangeMessage
<1> DEFINE n == Len(s.log) + 1
<1>2. /\ DOMAIN r.log = DOMAIN s.log \cup {n}
      /\ r.log[n] = m
      /\ \A i \in DOMAIN s.log : i \in Nat /\ i < n /\ r.log[i] = s.log[i]
      /\ n \in Nat
  BY <1>1, AppendElements
<1> SUFFICES ASSUME NEW h \in Hash
             PROVE  /\ (\A i \in DOMAIN r.log : ~SetsStatus(r.log[i], h)) =>
                           r.status[h] = IF h = DNAHash THEN "live" ELSE "absent"
                    /\ \A i \in DOMAIN r.log :
                          (SetsStatus(r.log[i], h) /\ \A j \in DOMAIN r.log :
                                            SetsStatus(r.log[j], h) => j <= i)
                              => r.status[h] \in StatusAfter[r.log[i].Type]
  BY ZenonT(30) DEF StatusFollowsLog
<1>3. CASE h = m.H
  <2>1. r.status[h] = st /\ SetsStatus(r.log[n], h)
    BY ZenonT(30), <1>1, <1>2, <1>3 DEF SetsStatus
  <2> QED
    BY <1>2, <2>1
<1>4. CASE h # m.H
  <2>1. r.status[h] = s.status[h] /\ ~SetsStatus(r.log[n], h)
    BY ZenonT(30), <1>1, <1>2, <1>4 DEF SetsStatus
  <2>2. \A i \in DOMAIN s.log : SetsStatus(r.log[i], h) = SetsStatus(s.log[i], h)
    BY ZenonT(30), <1>2
  <2>3. (\A i \in DOMAIN r.log : ~SetsStatus(r.log[i], h)) =>
            r.status[h] = IF h = DNAHash THEN "live" ELSE "absent"
    BY ZenonT(30), <1>2, <2>1, <2>2 DEF StatusFollowsLog
  <2>4. ASSUME NEW i \in DOMAIN r.log, SetsStatus(r.log[i], h),
               \A j \in DOMAIN r.log : SetsStatus(r.log[j], h) => j <= i
        PROVE  r.status[h] \in StatusAfter[r.log[i].Type]
    <3>1. i \in DOMAIN s.log /\ SetsStatus(s.log[i], h) /\ r.log[i] = s.log[i]
      BY ZenonT(30), <1>2, <2>1, <2>2, <2>4
    <3>2. \A j \in DOMAIN s.log : SetsStatus(s.log[j], h) => j <= i
      BY ZenonT(30), <1>2, <2>2, <2>4
    <3> QED
      BY ZenonT(30), <2>1, <3>1, <3>2 DEF StatusFollowsLog
  <2> QED
    BY ZenonT(30), <2>3, <2>4
<1> QED
  BY ZenonT(30), <1>3, <1>4

\* A logged linking message decides no status.
LEMMA StatusKept ==
    ASSUME NEW s \in Store, StatusFollowsLog(s), NEW m \in Message,
           m.Type = "LINK_REQUEST",
           NEW r, r.log = Append(s.log, m), r.status = s.status
    PROVE  StatusFollowsLog(r)
<1>1. s.log \in Seq(Message)
  BY ZenonT(30) DEF Store
<1> DEFINE n == Len(s.log) + 1
<1>2. /\ DOMAIN r.log = DOMAIN s.log \cup {n}
      /\ r.log[n] = m
      /\ \A i \in DOMAIN s.log : r.log[i] = s.log[i]
  BY <1>1, AppendElements
<1>3. \A h \in Hash : ~SetsStatus(r.log[n], h)
  BY ZenonT(30), <1>2 DEF SetsStatus
<1>4. \A h : \A i \in DOMAIN s.log : SetsStatus(r.log[i], h) = SetsStatus(s.log[i], h)
  BY ZenonT(30), <1>2
<1> SUFFICES ASSUME NEW h \in Hash
             PROVE  /\ (\A i \in DOMAIN r.log : ~SetsStatus(r.log[i], h)) =>
                           r.status[h] = IF h = DNAHash THEN "live" ELSE "absent"
                    /\ \A i \in DOMAIN r.log :
                          (SetsStatus(r.log[i], h) /\ \A j \in DOMAIN r.log :
                                            SetsStatus(r.log[j], h) => j <= i)
                              => r.status[h] \in StatusAfter[r.log[i].Type]
  BY ZenonT(30) DEF StatusFollowsLog
<1> QED
  BY ZenonT(30), <1>2, <1>3, <1>4 DEF StatusFollowsLog

\* A longer log and more links, on bases that are there, account for the
\* links recorded before.
LEMMA LinksFollow ==
    ASSUME NEW s \in Store, LinksFollowLog(s), NEW m \in Message,
           NEW r, r.log = Append(s.log, m), r.links = s.links,
           \A h \in Hash : s.status[h] # "absent" => r.status[h] # "absent"
    PROVE  LinksFollowLog(r)
<1>1. s.log \in Seq(Message) /\ s.links \in Seq(LinkEvent)
  BY ZenonT(30) DEF Store
<1>2. /\ DOMAIN s.log \subseteq DOMAIN r.log
      /\ \A i \in DOMAIN s.log : r.log[i] = s.log[i]
  BY <1>1, AppendElements
<1>3. \A i \in DOMAIN s.links : s.links[i].Base \in Hash
  <2>1. \A i \in DOMAIN s.links : s.links[i] \in LinkEvent
    BY <1>1
  <2> QED
    BY ZenonT(30), <2>1 DEF LinkEvent
<1> SUFFICES ASSUME NEW i \in DOMAIN s.links
             PROVE  /\ r.status[s.links[i].Base] # "absent"
                    /\ \E j \in DOMAIN r.log :
                          /\ r.log[j].Type \in {"LINK_REQUEST", "MOD_REQUEST"}
                          /\ r.log[j].From = s.links[i].Source
                          /\ r.log[j].H = s.links[i].Base
                          /\ r.log[j].E = s.links[i].LinksEntry
  BY DEF LinksFollowLog
<1>4. r.status[s.links[i].Base] # "absent"
  BY ZenonT(30), <1>3 DEF LinksFollowLog
<1>5. PICK j \in DOMAIN s.log :
          /\ s.log[j].Type \in {"LINK_REQUEST", "MOD_REQUEST"}
          /\ s.log[j].From = s.links[i].Source
          /\ s.log[j].H = s.links[i].Base
          /\ s.log[j].E = s.links[i].LinksEntry
  BY ZenonT(30) DEF LinksFollowLog
<1> QED
  BY ZenonT(30), <1>2, <1>4, <1>5

\* A linking event recorded under a logged message is accounted for by it.
LEMMA LinksFollowNew ==
    ASSUME NEW s \in Store, LinksFollowLog(s), NEW m \in Message,
           m.Type \in {"LINK_REQUEST", "MOD_REQUEST"},
           NEW ev \in LinkEvent, ev.Base = m.H, ev.Source = m.From,
           ev.LinksEntry = m.E,
           NEW r, r.log = Append(s.log, m), r.links = Append(s.links, ev),
           \A h \in Hash : s.status[h] # "absent" => r.status[h] # "absent",
           r.status[m.H] # "absent"
    PROVE  LinksFollowLog(r)
<1>1. s.log \in Seq(Message) /\ s.links \in Seq(LinkEvent)
  BY ZenonT(30) DEF Store
<1>2. /\ DOMAIN r.log = DOMAIN s.log \cup {Len(s.log) + 1}
      /\ r.log[Len(s.log) + 1] = m
      /\ \A i \in DOMAIN s.log : r.log[i] = s.log[i]
  BY <1>1, AppendElements
<1>3. /\ DOMAIN r.links = DOMAIN s.links \cup {Len(s.links) + 1}
      /\ r.links[Len(s.links) + 1] = ev
      /\ \A i \in DOMAIN s.links : r.links[i] = s.links[i]
  BY <1>1, AppendElements
<1> SUFFICES ASSUME NEW i \in DOMAIN r.links
             PROVE  /\ r.status[r.links[i].Base] # "absent"
                    /\ \E j \in DOMAIN r.log :
                          /\ r.log[j].Type \in {"LINK_REQUEST", "MOD_REQUEST"}
                          /\ r.log[j].From = r.links[i].Source
                          /\ r.log[j].H = r.links[i].Base
                          /\ r.log[j].E = r.links[i].LinksEntry
  BY ZenonT(30) DEF LinksFollowLog
<1>4. CASE i = Len(s.links) + 1
  BY ZenonT(30), <1>2, <1>3, <1>4
<1>5. CASE i \in DOMAIN s.links
  <2>1. s.links[i].Base \in Hash
    <3>1. s.links[i] \in LinkEvent
      BY <1>1, <1>5
    <3> QED
      BY ZenonT(30), <3>1 DEF LinkEvent
  <2>2. r.status[r.links[i].Base] # "absent"
    BY ZenonT(30), <1>3, <1>5, <2>1 DEF LinksFollowLog
  <2>3. PICK j \in DOMAIN s.log :
            /\ s.log[j].Type \in {"LINK_REQUEST", "MOD_REQUEST"}
            /\ s.log[j].From = s.links[i].Source
            /\ s.log[j].H = s.links[i].Base
            /\ s.log[j].E = s.links[i].LinksEntry
    BY ZenonT(30), <1>5 DEF LinksFollowLog
  <2> QED
    BY ZenonT(30), <1>2, <1>3, <1>5, <2>2, <2>3
<1> QED
  BY ZenonT(30), <1>3, <1>4, <1>5

\* More links, the same replacedBy records: replacements stay recorded.
LEMMA ReplacementKept ==
    ASSUME NEW s \in Store, ReplacementRecorded(s),
           NEW r, r.replacedBy = s.replacedBy,
           \/ r.links = s.links
           \/ \E ev \in LinkEvent : r.links = Append(s.links, ev),
           \A h \in Hash : r.status[h] = "modified" => s.status[h] = "modified"
    PROVE  ReplacementRecorded(r)
<1>1. /\ DOMAIN s.links \subseteq DOMAIN r.links
      /\ \A i \in DOMAIN s.links : r.links[i] = s.links[i]
  <2>1. s.links \in Seq(LinkEvent)
    BY ZenonT(30) DEF Store
  <2> QED
    BY <2>1, AppendElements
<1>2. \A h, l, t : LinkExists(s, h, l, t) => LinkExists(r, h, l, t)
  BY ZenonT(30), <1>1 DEF LinkExists
<1> QED
  BY ZenonT(30), <1>2 DEF ReplacementRecorded

-----------------------------------------------------------------------------
(* The transactions *)

\* dht.put of a validated or rejected entry.
LEMMA PutInv ==
    ASSUME NEW s, StoreInv(s), NEW m \in Message, m.Type = "PUT_REQUEST",
           NEW st \in {"live", "rejected"}
    PROVE  StoreInv(put(s, m, m.H, st))
<1> DEFINE r == put(s, m, m.H, st)
<1>1. s \in Store
  BY ZenonT(30) DEF StoreInv
<1>2. m.H \in Hash /\ s.status \in [Hash -> Statuses]
  BY ZenonT(30), <1>1, ConstantsAssumption DEF Store, ChangeMessage
<1>status. st \in Statuses /\ st \in StatusAfter[m.Type]
  BY DEF Statuses, StatusAfter
<1>3. /\ r \in Store
      /\ r.status = [s.status EXCEPT ![m.H] = st]
      /\ r.replacedBy = s.replacedBy
      /\ r.links = s.links
      /\ r.log = Append(s.log, m)
      /\ r.fp = [s.fp EXCEPT ![m] = Len(s.log) + 1]
  BY <1>1, <1>2, <1>status, PutEffect
<1> HIDE DEF r
<1>4. FingerprintsIndexLog(r)
  BY ZenonT(30), <1>1, <1>3, IncIdxFingerprints DEF StoreInv
<1>5. StatusFollowsLog(r)
  BY ZenonT(30), <1>1, <1>3, <1>status, StatusFollows DEF StoreInv
<1>6. LinksFollowLog(r)
  BY <1>1, <1>2, <1>3, LinksFollow DEF StoreInv
<1>7. ReplacementRecorded(r)
  BY ZenonT(30), <1>1, <1>2, <1>3, ReplacementKept DEF StoreInv
<1> QED
  BY ZenonT(30), <1>3, <1>4, <1>5, <1>6, <1>7 DEF StoreInv, r

\* dht.del, whether or not the hash is there.
LEMMA DelInv ==
    ASSUME NEW s, StoreInv(s), NEW m \in Message, m.Type = "DEL_REQUEST"
    PROVE  StoreInv(del(s, m, m.H))
<1> DEFINE r == del(s, m, m.H)
<1>1. s \in Store
  BY ZenonT(30) DEF StoreInv
<1>2. m.H \in Hash /\ s.status \in [Hash -> Statuses]
  BY ZenonT(30), <1>1, ConstantsAssumption DEF Store, ChangeMessage
<1>3. CASE s.status[m.H] = "absent"
  BY ZenonT(30), <1>3 DEF del, SetStatus
<1>4. CASE s.status[m.H] # "absent"
  <2>put. r = put(s, m, m.H, "deleted")
    BY ZenonT(30), <1>4 DEF del, SetStatus, put
  <2>status. "deleted" \in Statuses /\ "deleted" \in StatusAfter[m.Type]
    BY DEF Statuses, StatusAfter
  <2> HIDE DEF r
  <2>1. /\ r \in Store
        /\ r.status = [s.status EXCEPT ![m.H] = "deleted"]
        /\ r.replacedBy = s.replacedBy
        /\ r.links = s.links
        /\ r.log = Append(s.log, m)
        /\ r.fp = [s.fp EXCEPT ![m] = Len(s.log) + 1]
    BY <1>1, <1>2, <2>put, <2>status, PutEffect
  <2>2. FingerprintsIndexLog(r)
    BY ZenonT(30), <1>1, <2>1, IncIdxFingerprints DEF StoreInv
  <2>3. StatusFollowsLog(r)
    BY ZenonT(30), <1>1, <2>1, <2>status, StatusFollows DEF StoreInv
  <2>4. LinksFollowLog(r)
    BY <1>1, <1>2, <2>1, LinksFollow DEF StoreInv
  <2>5. ReplacementRecorded(r)
    BY ZenonT(30), <1>1, <1>2, <2>1, ReplacementKept DEF StoreInv
  <2> QED
    BY ZenonT(30), <2>1, <2>2, <2>3, <2>4, <2>5 DEF StoreInv, r
<1> QED
  BY ZenonT(30), <1>3, <1>4

\* What recording a linking event writes.
LEMMA AppendLinkEffect ==
    ASSUME NEW s \in Store, NEW ev \in LinkEvent,
           NEW r, r = [s EXCEPT !.links = Append(s.links, ev)]
    PROVE  /\ r \in Store
           /\ r.status = s.status
           /\ r.replacedBy = s.replacedBy
           /\ r.links = Append(s.links, ev)
           /\ r.log = s.log
           /\ r.fp = s.fp
<1>1. Append(s.links, ev) \in Seq(LinkEvent)
  BY DEF Store
<1> QED
  BY ZenonT(30), <1>1 DEF Store

\* dht.mod, whether or not the hash is there.
LEMMA ModInv ==
    ASSUME NEW s, StoreInv(s), NEW m \in Message, m.Type = "MOD_REQUEST"
    PROVE  StoreInv(mod(s, m, m.H, m.E))
<1>1. s \in Store
  BY ZenonT(30) DEF StoreInv
<1>2. /\ m.H \in Hash /\ m.E \in Hash /\ m.From \in Peer
      /\ s.status \in [Hash -> Statuses]
  BY ZenonT(30), <1>1, ConstantsAssumption DEF Store, ChangeMessage
<1>3. CASE s.status[m.H] = "absent"
  BY ZenonT(30), <1>3 DEF mod
<1>4. CASE s.status[m.H] # "absent"
  <2> DEFINE p == put(s, m, m.H, "modified")
             ev == [Base |-> m.H, Link |-> m.E, Tag |-> SysTagReplacedBy,
                    Status |-> "live", Source |-> m.From, LinksEntry |-> m.E]
             t == RecordLink(p, m.H, m.E, SysTagReplacedBy, m.From, "live", m.E)
             r == mod(s, m, m.H, m.E)
  <2>1. "modified" \in Statuses /\ "modified" \in StatusAfter[m.Type]
    BY DEF Statuses, StatusAfter
  <2>2. /\ p \in Store
        /\ p.status = [s.status EXCEPT ![m.H] = "modified"]
        /\ p.replacedBy = s.replacedBy
        /\ p.links = s.links
        /\ p.log = Append(s.log, m)
        /\ p.fp = [s.fp EXCEPT ![m] = Len(s.log) + 1]
    BY <1>1, <1>2, <2>1, PutEffect
  <2>3. p = SetStatus(s, m, m.H, "modified")
    BY ZenonT(30), <1>4 DEF SetStatus, put
  <2> HIDE DEF p
  <2>4. /\ t \in Store
        /\ t.status = p.status
        /\ t.replacedBy = p.replacedBy
        /\ t.links = Append(p.links, ev)
        /\ t.log = p.log
        /\ t.fp = p.fp
    <3>1. t = [p EXCEPT !.links = Append(p.links, ev)]
      BY ZenonT(30) DEF RecordLink
    <3>2. ev \in LinkEvent
      BY ZenonT(30), <1>2 DEF LinkEvent
    <3> HIDE DEF t, ev
    <3> QED
      BY SMTT(60), <2>2, <3>1, <3>2, AppendLinkEffect
  <2>5. r = [t EXCEPT !.replacedBy = [t.replacedBy EXCEPT ![m.H] = m.E]]
    BY ZenonT(30), <1>4, <2>3 DEF mod
  <2>6. /\ ev \in LinkEvent
        /\ ev.Base = m.H
        /\ ev.Link = m.E
        /\ ev.Tag = SysTagReplacedBy
        /\ ev.Source = m.From
        /\ ev.LinksEntry = m.E
    BY ZenonT(30), <1>2 DEF LinkEvent
  <2> HIDE DEF t, r, ev
  <2>7. [t.replacedBy EXCEPT ![m.H] = m.E] \in [Hash -> Hash \cup {NoHash}]
    BY ZenonT(30), <1>2, <2>4 DEF Store
  <2>8. /\ r \in Store
        /\ r.status = t.status
        /\ r.replacedBy = [t.replacedBy EXCEPT ![m.H] = m.E]
        /\ r.links = t.links
        /\ r.log = t.log
        /\ r.fp = t.fp
    BY ZenonT(30), <2>4, <2>5, <2>7 DEF Store
  <2>9. /\ r.status = [s.status EXCEPT ![m.H] = "modified"]
        /\ r.replacedBy = [s.replacedBy EXCEPT ![m.H] = m.E]
        /\ r.links = Append(s.links, ev)
        /\ r.log = Append(s.log, m)
        /\ r.fp = [s.fp EXCEPT ![m] = Len(s.log) + 1]
    BY ZenonT(30), <2>2, <2>4, <2>8
  <2>10. FingerprintsIndexLog(r)
    BY ZenonT(30), <1>1, <2>9, IncIdxFingerprints DEF StoreInv
  <2>11. StatusFollowsLog(r)
    BY ZenonT(30), <1>1, <2>1, <2>9, StatusFollows DEF StoreInv
  <2>12. LinksFollowLog(r)
    BY <1>1, <1>2, <2>6, <2>9, LinksFollowNew DEF StoreInv
  <2>13. ReplacementRecorded(r)
    <3>1. /\ DOMAIN r.links = DOMAIN s.links \cup {Len(s.links) + 1}
          /\ r.links[Len(s.links) + 1] = ev
          /\ \A i \in DOMAIN s.links : r.links[i] = s.links[i]
      BY <1>1, <2>6, <2>9, AppendElements DEF Store
    <3>2. \A h, l, tg : LinkExists(s, h, l, tg) => LinkExists(r, h, l, tg)
      BY ZenonT(30), <3>1 DEF LinkExists
    <3>3. LinkExists(r, m.H, m.E, SysTagReplacedBy)
      BY ZenonT(30), <2>6, <3>1 DEF LinkExists
    <3>4. s.replacedBy \in [Hash -> Hash \cup {NoHash}]
      BY ZenonT(30), <1>1 DEF Store
    <3> SUFFICES ASSUME NEW h \in Hash, r.status[h] = "modified"
                 PROVE  r.replacedBy[h] \in Hash
                        /\ LinkExists(r, h, r.replacedBy[h], SysTagReplacedBy)
      BY ZenonT(30) DEF ReplacementRecorded
    <3>5. CASE h = m.H
      BY ZenonT(30), <1>2, <2>9, <3>3, <3>4, <3>5
    <3>6. CASE h # m.H
      <4>1. s.status[h] = "modified" /\ r.replacedBy[h] = s.replacedBy[h]
        BY ZenonT(30), <1>2, <2>9, <3>4, <3>6
      <4> QED
        BY ZenonT(30), <3>2, <4>1 DEF StoreInv, ReplacementRecorded
    <3> QED
      BY ZenonT(30), <3>5, <3>6
  <2> QED
    BY ZenonT(30), <2>8, <2>10, <2>11, <2>12, <2>13 DEF StoreInv, r
<1> QED
  BY ZenonT(30), <1>3, <1>4

\* dht.link of one of the links of a links entry, all on the base of the
\* message: recorded, or left alone when its base is not live or the link to
\* delete is not there.
LEMMA LinkInv ==
    ASSUME NEW s, StoreInv(s), NEW m \in Message, m.Type = "LINK_REQUEST",
           NEW l \in Link, l.Base = m.H
    PROVE  StoreInv(link(s, m, l))
<1> DEFINE st == IF l.LinkAction = "del" THEN "deleted" ELSE "live"
<1>1. s \in Store
  BY ZenonT(30) DEF StoreInv
<1>2. /\ m.H \in Hash /\ m.E \in Hash /\ m.From \in Peer
      /\ s.status \in [Hash -> Statuses]
      /\ l.Link \in Hash /\ l.Tag \in Tag
      /\ st \in {"live", "deleted"}
  BY ZenonT(30), <1>1, ConstantsAssumption DEF Store, ChangeMessage, Link
<1>3. CASE \/ GetErr(s, l.Base, {"live"}) # "nil"
           \/ st = "deleted" /\ ~LinkExists(s, l.Base, l.Link, l.Tag)
  BY ZenonT(30), <1>3 DEF link
<1>4. CASE ~(\/ GetErr(s, l.Base, {"live"}) # "nil"
             \/ st = "deleted" /\ ~LinkExists(s, l.Base, l.Link, l.Tag))
  <2> DEFINE t == RecordLink(s, m.H, l.Link, l.Tag, m.From, st, m.E)
             ev == [Base |-> m.H, Link |-> l.Link, Tag |-> l.Tag,
                    Status |-> st, Source |-> m.From, LinksEntry |-> m.E]
             r == link(s, m, l)
  <2>1. s.status[m.H] # "absent"
    BY ZenonT(30), <1>4 DEF GetErr
  <2>2. r = incIdx(t, m)
    BY ZenonT(30), <1>4 DEF link
  <2>3. ev \in LinkEvent /\ ev.Base = m.H /\ ev.Source = m.From /\ ev.LinksEntry = m.E
    BY ZenonT(30), <1>2 DEF LinkEvent
  <2> HIDE DEF st
  <2>4. /\ t \in Store
        /\ t.status = s.status
        /\ t.replacedBy = s.replacedBy
        /\ t.links = Append(s.links, ev)
        /\ t.log = s.log
        /\ t.fp = s.fp
    <3>1. t = [s EXCEPT !.links = Append(s.links, ev)]
      BY ZenonT(30) DEF RecordLink
    <3> HIDE DEF t, ev
    <3> QED
      BY ZenonT(30), <1>1, <2>3, <3>1, AppendLinkEffect
  <2>inc. /\ incIdx(t, m) \in Store
        /\ incIdx(t, m).status = t.status
        /\ incIdx(t, m).replacedBy = t.replacedBy
        /\ incIdx(t, m).links = t.links
        /\ incIdx(t, m).log = Append(t.log, m)
        /\ incIdx(t, m).fp = [t.fp EXCEPT ![m] = Len(t.log) + 1]
    <3> HIDE DEF t
    <3> QED
      BY ZenonT(30), <2>4, IncIdxEffect
  <2> HIDE DEF t, r, ev
  <2>5. /\ r \in Store
        /\ r.status = s.status
        /\ r.replacedBy = s.replacedBy
        /\ r.links = Append(s.links, ev)
        /\ r.log = Append(s.log, m)
        /\ r.fp = [s.fp EXCEPT ![m] = Len(s.log) + 1]
    BY ZenonT(30), <2>2, <2>4, <2>inc
  <2>6. FingerprintsIndexLog(r)
    BY ZenonT(30), <1>1, <2>5, IncIdxFingerprints DEF StoreInv
  <2>7. StatusFollowsLog(r)
    BY ZenonT(30), <1>1, <2>5, StatusKept DEF StoreInv
  <2>8. LinksFollowLog(r)
    BY <1>1, <2>1, <2>3, <2>5, LinksFollowNew DEF StoreInv
  <2>9. ReplacementRecorded(r)
    BY ZenonT(30), <1>1, <2>3, <2>5, ReplacementKept DEF StoreInv
  <2> QED
    BY ZenonT(30), <2>5, <2>6, <2>7, <2>8, <2>9 DEF StoreInv, r
<1> QED
  BY ZenonT(30), <1>3, <1>4

\* A transaction with these effects is a logged change.
LEMMA EffectLogged ==
    ASSUME NEW s \in Store, NEW m \in Message, NEW r, r.log = Append(s.log, m),
           \/ r.links = s.links
           \/ \E ev \in LinkEvent : r.links = Append(s.links, ev),
           \A h \in Hash : s.status[h] # "absent" => r.status[h] # "absent"
    PROVE  LoggedChange(s, r)
<1>1. s.links \in Seq(LinkEvent)
  BY ZenonT(30) DEF Store
<1>2. /\ DOMAIN s.links \subseteq DOMAIN r.links
      /\ \A i \in DOMAIN s.links : r.links[i] = s.links[i]
  BY <1>1, AppendElements
<1> QED
  BY ZenonT(30), <1>2 DEF LoggedChange

\* Each transaction is rolled back, or is a logged change.
LEMMA TransactionsLogged ==
    ASSUME NEW s \in Store, NEW m \in Message
    PROVE  /\ \A st \in Statuses \ {"absent"} : LoggedChange(s, put(s, m, m.H, st))
           /\ del(s, m, m.H) = s \/ LoggedChange(s, del(s, m, m.H))
           /\ mod(s, m, m.H, m.E) = s \/ LoggedChange(s, mod(s, m, m.H, m.E))
           /\ \A l \in Link : l.Base = m.H =>
                 link(s, m, l) = s \/ LoggedChange(s, link(s, m, l))
<1>1. /\ m.H \in Hash /\ m.E \in Hash /\ m.From \in Peer
      /\ s.status \in [Hash -> Statuses]
  BY ZenonT(30), ConstantsAssumption DEF Store, ChangeMessage
<1>2. ASSUME NEW st \in Statuses \ {"absent"}
      PROVE  LoggedChange(s, put(s, m, m.H, st))
  <2> DEFINE r == put(s, m, m.H, st)
  <2> st \in Statuses
    BY ZenonT(30)
  <2>1. /\ r \in Store
        /\ r.status = [s.status EXCEPT ![m.H] = st]
        /\ r.replacedBy = s.replacedBy
        /\ r.links = s.links
        /\ r.log = Append(s.log, m)
        /\ r.fp = [s.fp EXCEPT ![m] = Len(s.log) + 1]
    BY <1>1, PutEffect
  <2> HIDE DEF r
  <2>2. LoggedChange(s, r)
    BY <1>1, <2>1, EffectLogged
  <2> QED
    BY ZenonT(30), <2>2 DEF r
<1>3. del(s, m, m.H) = s \/ LoggedChange(s, del(s, m, m.H))
  <2>1. del(s, m, m.H) = s \/ del(s, m, m.H) = put(s, m, m.H, "deleted")
    BY ZenonT(30) DEF del, SetStatus, put
  <2> QED
    BY ZenonT(30), <1>2, <2>1 DEF Statuses
<1>4. mod(s, m, m.H, m.E) = s \/ LoggedChange(s, mod(s, m, m.H, m.E))
  <2>1. CASE s.status[m.H] = "absent"
    BY ZenonT(30), <2>1 DEF mod
  <2>2. CASE s.status[m.H] # "absent"
    <3> DEFINE p == put(s, m, m.H, "modified")
               ev == [Base |-> m.H, Link |-> m.E, Tag |-> SysTagReplacedBy,
                      Status |-> "live", Source |-> m.From, LinksEntry |-> m.E]
               r == mod(s, m, m.H, m.E)
    <3> "modified" \in Statuses
      BY ZenonT(30) DEF Statuses
    <3>1. /\ p \in Store
          /\ p.status = [s.status EXCEPT ![m.H] = "modified"]
          /\ p.replacedBy = s.replacedBy
          /\ p.links = s.links
          /\ p.log = Append(s.log, m)
          /\ p.fp = [s.fp EXCEPT ![m] = Len(s.log) + 1]
      BY <1>1, PutEffect
    <3>2. p = SetStatus(s, m, m.H, "modified")
      BY ZenonT(30), <2>2 DEF SetStatus, put
    <3> HIDE DEF p
    <3>3. r = [[p EXCEPT !.links = Append(p.links, ev)]
                 EXCEPT !.replacedBy = [p.replacedBy EXCEPT ![m.H] = m.E]]
      BY ZenonT(30), <2>2, <3>1, <3>2 DEF mod, RecordLink, Store
    <3>4. ev \in LinkEvent
      BY ZenonT(30), <1>1 DEF LinkEvent
    <3> HIDE DEF r, ev
    <3>5. r.status = p.status /\ r.links = Append(p.links, ev) /\ r.log = p.log
      BY ZenonT(30), <3>1, <3>3 DEF Store
    <3>6. LoggedChange(s, r)
      BY <1>1, <3>1, <3>4, <3>5, EffectLogged
    <3> QED
      BY ZenonT(30), <3>6 DEF r
  <2> QED
    BY ZenonT(30), <2>1, <2>2
<1>5. ASSUME NEW l \in Link, l.Base = m.H
      PROVE  link(s, m, l) = s \/ LoggedChange(s, link(s, m, l))
  <2> DEFINE st == IF l.LinkAction = "del" THEN "deleted" ELSE "live"
             ev == [Base |-> m.H, Link |-> l.Link, Tag |-> l.Tag,
                    Status |-> st, Source |-> m.From, LinksEntry |-> m.E]
             t == [s EXCEPT !.links = Append(s.links, ev)]
  <2>1. link(s, m, l) = s \/ link(s, m, l) = incIdx(t, m)
    BY ZenonT(30), <1>5 DEF link, RecordLink
  <2>2. ev \in LinkEvent
    BY ZenonT(30), <1>1 DEF LinkEvent, Link
  <2> HIDE DEF ev
  <2>3. t \in Store /\ t.status = s.status /\ t.links = Append(s.links, ev)
        /\ t.log = s.log
    BY ZenonT(30), <2>2, AppendLinkEffect
  <2> HIDE DEF t
  <2>4. /\ incIdx(t, m).status = t.status
        /\ incIdx(t, m).links = t.links
        /\ incIdx(t, m).log = Append(t.log, m)
    BY ZenonT(30), <2>3, IncIdxEffect
  <2>5. LoggedChange(s, incIdx(t, m))
    BY <2>2, <2>3, <2>4, EffectLogged
  <2> QED
    BY ZenonT(30), <2>1, <2>5
<1> QED
  BY ZenonT(30), <1>2, <1>3, <1>4, <1>5

\* SetupDHT: the store a node starts with after genesis.
THEOREM SetupInv == StoreInv(SetupDHT)
<1> DEFINE s == put(NewDHT, NilMsg, DNAHash, "live")
<1>1. s = [NewDHT EXCEPT !.status = [NewDHT.status EXCEPT ![DNAHash] = "live"]]
  BY ZenonT(30) DEF put, incIdx
<1>2. /\ s.status = [NewDHT.status EXCEPT ![DNAHash] = "live"]
      /\ s.replacedBy = NewDHT.replacedBy
      /\ s.links = << >>
      /\ s.log = << >>
      /\ s.fp = [m \in Message |-> -1]
  BY ZenonT(30), <1>1 DEF NewDHT
<1>3. s \in Store
  <2>1. /\ [h \in Hash |-> "absent"] \in [Hash -> Statuses]
        /\ [h \in Hash |-> NoHash] \in [Hash -> Hash \cup {NoHash}]
        /\ [m \in Message |-> -1] \in [Message -> Int]
        /\ << >> \in Seq(LinkEvent) /\ << >> \in Seq(Message)
    BY DEF Statuses
  <2>2. NewDHT \in Store
    BY ZenonT(30), <2>1 DEF NewDHT, Store
  <2>3. [NewDHT.status EXCEPT ![DNAHash] = "live"] \in [Hash -> Statuses]
    BY ZenonT(30), <2>1 DEF NewDHT, Statuses
  <2> QED
    BY ZenonT(30), <1>1, <2>2, <2>3 DEF Store
<1> HIDE DEF s
<1>4. \A h \in Hash : s.status[h] = IF h = DNAHash THEN "live" ELSE "absent"
  BY ZenonT(30), <1>2, ConstantsAssumption DEF NewDHT
<1>5. DOMAIN s.links = {} /\ DOMAIN s.log = {}
  BY <1>2
<1>6. ReplacementRecorded(s)
  BY ZenonT(30), <1>4 DEF ReplacementRecorded
<1>7. FingerprintsIndexLog(s)
  BY ZenonT(30), <1>2, <1>5 DEF FingerprintsIndexLog
<1>8. StatusFollowsLog(s)
  BY ZenonT(30), <1>4, <1>5 DEF StatusFollowsLog
<1>9. LinksFollowLog(s)
  BY ZenonT(30), <1>5 DEF LinksFollowLog
<1>10. StoreInv(s)
  BY ZenonT(30), <1>3, <1>6, <1>7, <1>8, <1>9 DEF StoreInv
<1> DEFINE s2 == put(s, KeyMsg, KeyMsg.H, "live")
<1>11. StoreInv(s2)
  BY ZenonT(30), <1>10, PutInv, ConstantsAssumption
<1> HIDE DEF s2
<1>12. StoreInv(put(s2, AgentMsg, AgentMsg.H, "live"))
  BY ZenonT(30), <1>11, PutInv, ConstantsAssumption
<1> QED
  BY ZenonT(30), <1>12 DEF SetupDHT, s, s2

-----------------------------------------------------------------------------
(* The goroutines *)

RetryOK(r) == r.tries + r.retries = MaxRetries + 1

ThreadOK(st) ==
    /\ st.pc # "idle" => RetryOK(st)
    /\ st.pc = "link" => st.msg.Type = "LINK_REQUEST"

IInv ==
    /\ StoreInv(store)
    /\ TypeOK
    /\ \A i \in DOMAIN retryQueue : RetryOK(retryQueue[i])
    /\ \A t \in Thread : ThreadOK(thread[t])

-----------------------------------------------------------------------------
\* The goroutine that moves is the only one whose state changes.
LEMMA BecomeOK ==
    ASSUME IInv, NEW t \in Thread, NEW st \in ThreadState, ThreadOK(st), Become(t, st)
    PROVE  thread' \in [Thread -> ThreadState] /\ \A u \in Thread : ThreadOK(thread'[u])
  BY ZenonT(30) DEF IInv, TypeOK, Become

\* Going idle keeps everything about the goroutines.
LEMMA IdleOK == Idle \in ThreadState /\ ThreadOK(Idle)
  BY ZenonT(30) DEF Idle, ThreadState, ThreadOK

\* A goroutine that is not idle holds a message.
LEMMA BusyThread ==
    ASSUME IInv, NEW t \in Thread, thread[t].pc # "idle"
    PROVE  /\ thread[t] \in BusyState /\ ThreadOK(thread[t])
           /\ thread[t].msg \in Message
           /\ thread[t].retries \in 0..MaxRetries
           /\ thread[t].tries \in Nat
           /\ thread[t].todo \in Seq(Link)
           /\ RetryOK(thread[t])
<1>1. thread[t] \in ThreadState /\ ThreadOK(thread[t])
  BY ZenonT(30) DEF IInv, TypeOK
<1>2. thread[t] \in BusyState
  BY <1>1 DEF ThreadState, Idle
<1> QED
  BY ZenonT(30), <1>1, <1>2 DEF BusyState, ThreadOK

\* A goroutine that moves on with the same message.
LEMMA MoveOn ==
    ASSUME NEW b \in BusyState, RetryOK(b), NEW pc \in {"recv", "enqueue", "validate"}
    PROVE  [b EXCEPT !.pc = pc] \in ThreadState /\ ThreadOK([b EXCEPT !.pc = pc])
  BY ZenonT(30) DEF BusyState, ThreadState, ThreadOK, RetryOK

\* Starting on a message.
LEMMA StartOK ==
    ASSUME NEW m \in Message, NEW r \in 0..MaxRetries, NEW n \in Nat,
           n + r = MaxRetries + 1
    PROVE  /\ Busy("recv", m, r, n, << >>) \in ThreadState
           /\ ThreadOK(Busy("recv", m, r, n, << >>))
<1>1. << >> \in Seq(Link)
  OBVIOUS
<1> QED
  BY ZenonT(30), <1>1 DEF Busy, BusyState, ThreadState, ThreadOK, RetryOK

\* What remains of a queue of retries, and what leaves it.
LEMMA QueueTail ==
    ASSUME IInv, retryQueue # << >>
    PROVE  /\ Tail(retryQueue) \in Seq(Retry)
           /\ Len(Tail(retryQueue)) <= RetryCap
           /\ \A i \in DOMAIN Tail(retryQueue) : RetryOK(Tail(retryQueue)[i])
           /\ Head(retryQueue) \in Retry /\ RetryOK(Head(retryQueue))
<1>1. retryQueue \in Seq(Retry) /\ Len(retryQueue) <= RetryCap /\ RetryCap \in Nat
  BY ZenonT(30), NodeAssumption DEF IInv, TypeOK
<1>2. Len(Tail(retryQueue)) = Len(retryQueue) - 1 /\ Tail(retryQueue) \in Seq(Retry)
  BY <1>1
<1>3. \A i \in DOMAIN Tail(retryQueue) : /\ i + 1 \in DOMAIN retryQueue
                                         /\ Tail(retryQueue)[i] = retryQueue[i + 1]
  BY <1>1
<1>4. Head(retryQueue) = retryQueue[1] /\ 1 \in DOMAIN retryQueue
      /\ Head(retryQueue) \in Retry
  BY <1>1
<1> QED
  BY <1>1, <1>2, <1>3, <1>4 DEF IInv

-----------------------------------------------------------------------------
\* The state after genesis.
LEMMA InitInv == Init => IInv
<1> SUFFICES ASSUME Init PROVE IInv
  BY ZenonT(30)
<1>1. StoreInv(store)
  BY ZenonT(30), SetupInv DEF Init
<1>2. retryQueue \in Seq(Retry) /\ Len(retryQueue) = 0 /\ DOMAIN retryQueue = {}
  BY DEF Init
<1>3. thread \in [Thread -> ThreadState] /\ \A t \in Thread : ThreadOK(thread[t])
  BY ZenonT(30), IdleOK DEF Init
<1> QED
  BY <1>1, <1>2, <1>3, NodeAssumption DEF IInv, Init, TypeOK, StoreInv

\* A step that leaves the store and the queue alone.
LEMMA ThreadStep ==
    ASSUME IInv, NEW t \in Thread, NEW st \in ThreadState, ThreadOK(st),
           Become(t, st), store' = store, retryQueue' = retryQueue,
           arrived' \in 0..MaxArrivals
    PROVE  IInv'
<1>1. thread' \in [Thread -> ThreadState] /\ \A u \in Thread : ThreadOK(thread'[u])
  BY ZenonT(30), BecomeOK
<1> QED
  BY ZenonT(30), <1>1 DEF IInv, TypeOK

\* A step that runs a transaction.
LEMMA StoreStep ==
    ASSUME IInv, NEW t \in Thread, NEW st \in ThreadState, ThreadOK(st),
           Become(t, st), StoreInv(store'), UNCHANGED <<retryQueue, arrived>>
    PROVE  IInv'
<1>1. thread' \in [Thread -> ThreadState] /\ \A u \in Thread : ThreadOK(thread'[u])
  BY ZenonT(30), BecomeOK
<1>2. store' \in Store
  BY ZenonT(30) DEF StoreInv
<1> QED
  BY ZenonT(30), <1>1, <1>2 DEF IInv, TypeOK

\* The links a goroutine still has to store.
LEMMA LinkTodo ==
    ASSUME NEW b \in BusyState, RetryOK(b), b.msg.Type = "LINK_REQUEST",
           NEW q \in Seq(Link)
    PROVE  /\ [b EXCEPT !.pc = "link", !.todo = q] \in ThreadState
           /\ ThreadOK([b EXCEPT !.pc = "link", !.todo = q])
  BY ZenonT(30) DEF BusyState, ThreadState, ThreadOK, RetryOK

\* A Receive that keeps the message for later: the one step that fills the
\* queue.
LEMMA EnqueueInv ==
    ASSUME IInv, NEW t \in Thread, Enqueue(t)
    PROVE  IInv'
<1> DEFINE r == [msg     |-> thread[t].msg,
                 retries |-> thread[t].retries,
                 tries   |-> thread[t].tries]
<1>1. At(t, "enqueue") /\ Len(retryQueue) < RetryCap /\ Become(t, Idle)
      /\ retryQueue' = Append(retryQueue, r) /\ UNCHANGED <<store, arrived>>
  BY ZenonT(30) DEF Enqueue, SendRetry
<1>2. r \in Retry /\ RetryOK(r)
  BY ZenonT(30), <1>1, BusyThread DEF At, Retry, RetryOK
<1> HIDE DEF r
<1>3. retryQueue \in Seq(Retry) /\ RetryCap \in Nat
  BY ZenonT(30), NodeAssumption DEF IInv, TypeOK
<1>4. /\ retryQueue' \in Seq(Retry)
      /\ Len(retryQueue') <= RetryCap
      /\ \A i \in DOMAIN retryQueue' : RetryOK(retryQueue'[i])
  <2>1. /\ retryQueue' \in Seq(Retry)
        /\ Len(retryQueue') = Len(retryQueue) + 1
        /\ DOMAIN retryQueue' = DOMAIN retryQueue \cup {Len(retryQueue) + 1}
        /\ retryQueue'[Len(retryQueue) + 1] = r
        /\ \A i \in DOMAIN retryQueue : retryQueue'[i] = retryQueue[i]
    BY <1>1, <1>2, <1>3, AppendElements
  <2> QED
    BY <1>1, <1>2, <1>3, <2>1 DEF IInv
<1>5. thread' \in [Thread -> ThreadState] /\ \A u \in Thread : ThreadOK(thread'[u])
  BY ZenonT(30), <1>1, IdleOK, BecomeOK
<1> QED
  BY ZenonT(30), <1>1, <1>4, <1>5 DEF IInv, TypeOK

\* The retry ticker takes the head of the queue.
LEMMA RetryInv ==
    ASSUME IInv, RetryTask \/ GiveUp
    PROVE  IInv'
<1>1. retryQueue # << >> /\ retryQueue' = Tail(retryQueue) /\ UNCHANGED <<store, arrived>>
  BY ZenonT(30) DEF RetryTask, GiveUp
<1>2. "retry" \in Thread
  BY ZenonT(30) DEF Thread
<1>3. thread' \in [Thread -> ThreadState] /\ \A u \in Thread : ThreadOK(thread'[u])
  <2>1. CASE GiveUp
    BY ZenonT(30), <2>1 DEF GiveUp, IInv, TypeOK
  <2>2. CASE RetryTask
    <3> DEFINE r == Head(retryQueue)
    <3>1. r \in Retry /\ RetryOK(r) /\ r.retries > 0
      BY ZenonT(30), <1>1, <2>2, QueueTail DEF RetryTask
    <3> HIDE DEF r
    <3>2. /\ r.msg \in Message
          /\ r.retries - 1 \in 0..MaxRetries
          /\ r.tries + 1 \in Nat
          /\ (r.tries + 1) + (r.retries - 1) = MaxRetries + 1
      BY <3>1, NodeAssumption DEF Retry, RetryOK
    <3>3. Become("retry", Busy("recv", r.msg, r.retries - 1, r.tries + 1, << >>))
      BY ZenonT(30), <2>2 DEF RetryTask, r
    <3> DEFINE b == Busy("recv", r.msg, r.retries - 1, r.tries + 1, << >>)
    <3>4. b \in ThreadState /\ ThreadOK(b)
      BY ZenonT(30), <3>2, StartOK
    <3> HIDE DEF b
    <3>5. Become("retry", b)
      BY ZenonT(30), <3>3 DEF b
    <3> QED
      BY ZenonT(30), <1>2, <3>4, <3>5, BecomeOK
  <2> QED
    BY ZenonT(30), <2>1, <2>2
<1>4. /\ retryQueue' \in Seq(Retry)
      /\ Len(retryQueue') <= RetryCap
      /\ \A i \in DOMAIN retryQueue' : RetryOK(retryQueue'[i])
  BY ZenonT(30), <1>1, QueueTail
<1> QED
  BY ZenonT(30), <1>1, <1>3, <1>4 DEF IInv, TypeOK

\* Every step of a Receive.
LEMMA ReceiveInv ==
    ASSUME IInv, NEW t \in Thread, Receive(t)
    PROVE  IInv'
<1> DEFINE m == thread[t].msg
<1>1. CASE ReceivePut(t)
  <2>1. thread[t] \in BusyState /\ RetryOK(thread[t])
    BY ZenonT(30), <1>1, BusyThread DEF ReceivePut, At
  <2> QED
    BY ZenonT(30), <1>1, <2>1, MoveOn, ThreadStep DEF ReceivePut, IInv, TypeOK
<1>2. CASE ReceiveChange(t)
  <2>1. thread[t] \in BusyState /\ RetryOK(thread[t])
    BY ZenonT(30), <1>2, BusyThread DEF ReceiveChange, At
  <2>2. \/ Become(t, [thread[t] EXCEPT !.pc = "validate"])
        \/ Become(t, [thread[t] EXCEPT !.pc = "enqueue"])
        \/ Become(t, Idle)
    BY ZenonT(30), <1>2 DEF ReceiveChange
  <2> QED
    BY ZenonT(30), <1>2, <2>1, <2>2, MoveOn, IdleOK, ThreadStep DEF ReceiveChange, IInv, TypeOK
<1>3. CASE Enqueue(t)
  BY ZenonT(30), <1>3, EnqueueInv
<1>4. CASE ValidationFails(t)
  BY ZenonT(30), <1>4, IdleOK, ThreadStep DEF ValidationFails, IInv, TypeOK
<1>5. ASSUME NEW st \in {"live", "rejected"}, PutValidated(t, st)
      PROVE  IInv'
  <2>1. m \in Message
    BY ZenonT(30), <1>5, BusyThread DEF PutValidated, At
  <2>2. StoreInv(store')
    BY ZenonT(30), <1>5, <2>1, PutInv DEF PutValidated, IInv
  <2> QED
    BY ZenonT(30), <1>5, <2>2, IdleOK, StoreStep DEF PutValidated
<1>6. CASE ModValidated(t)
  <2>1. m \in Message
    BY ZenonT(30), <1>6, BusyThread DEF ModValidated, At
  <2>2. StoreInv(store')
    BY ZenonT(30), <1>6, <2>1, ModInv DEF ModValidated, IInv
  <2> QED
    BY ZenonT(30), <1>6, <2>2, IdleOK, StoreStep DEF ModValidated
<1>7. CASE DelValidated(t)
  <2>1. m \in Message
    BY ZenonT(30), <1>7, BusyThread DEF DelValidated, At
  <2>2. StoreInv(store')
    BY ZenonT(30), <1>7, <2>1, DelInv DEF DelValidated, IInv
  <2> QED
    BY ZenonT(30), <1>7, <2>2, IdleOK, StoreStep DEF DelValidated
<1>8. CASE LinkValidated(t)
  <2> DEFINE q == LinksEntry[m.E]
             b == [thread[t] EXCEPT !.pc = "link", !.todo = q]
  <2>1. thread[t] \in BusyState /\ RetryOK(thread[t]) /\ m \in Message
        /\ m.Type = "LINK_REQUEST"
    BY ZenonT(30), <1>8, BusyThread DEF LinkValidated, At
  <2>2. q \in Seq(Link)
    BY ZenonT(30), <2>1, ConstantsAssumption DEF ChangeMessage
  <2>3. b \in ThreadState /\ ThreadOK(b)
    BY ZenonT(30), <2>1, <2>2, LinkTodo
  <2>4. Become(t, b) /\ UNCHANGED <<store, retryQueue, arrived>>
    BY ZenonT(30), <1>8 DEF LinkValidated
  <2> HIDE DEF b
  <2> QED
    BY ZenonT(30), <2>3, <2>4, ThreadStep DEF IInv, TypeOK
<1>9. CASE ApplyLink(t)
  <2> DEFINE q == thread[t].todo
             b == [thread[t] EXCEPT !.todo = Tail(q)]
  <2>1. /\ thread[t] \in BusyState /\ RetryOK(thread[t]) /\ m \in Message
        /\ m.Type = "LINK_REQUEST"
        /\ q \in Seq(Link)
        /\ q # << >> /\ thread[t].pc = "link"
    BY ZenonT(30), <1>9, BusyThread DEF ApplyLink, At, ThreadOK
  <2>2. /\ store' = IF Head(q).Base = m.H THEN link(store, m, Head(q)) ELSE store
        /\ Become(t, b)
        /\ UNCHANGED <<retryQueue, arrived>>
    BY ZenonT(30), <1>9 DEF ApplyLink
  <2> HIDE DEF q
  <2>3. Head(q) \in Link /\ Tail(q) \in Seq(Link)
    BY <2>1
  <2>4. b = [thread[t] EXCEPT !.pc = "link", !.todo = Tail(q)]
    BY ZenonT(30), <2>1 DEF BusyState
  <2>5. b \in ThreadState /\ ThreadOK(b)
    BY ZenonT(30), <2>1, <2>3, <2>4, LinkTodo
  <2> HIDE DEF b
  <2>6. StoreInv(store')
    BY ZenonT(30), <2>1, <2>2, <2>3, LinkInv DEF IInv
  <2> QED
    BY ZenonT(30), <2>2, <2>5, <2>6, StoreStep
<1>10. CASE LinksDone(t)
  BY ZenonT(30), <1>10, IdleOK, ThreadStep DEF LinksDone, IInv, TypeOK
<1> QED
  BY ZenonT(30), <1>1, <1>2, <1>3, <1>4, <1>5, <1>6, <1>7, <1>8, <1>9, <1>10 DEF Receive

\* Every step of the node keeps the invariant.
LEMMA NextInv == IInv /\ [Next]_vars => IInv'
<1> SUFFICES ASSUME IInv, [Next]_vars PROVE IInv'
  BY ZenonT(30)
<1>1. ASSUME NEW t \in Thread, NEW m \in Message, ActionReceiver(t, m)
      PROVE  IInv'
  <2> DEFINE b == Busy("recv", m, MaxRetries, 1, << >>)
  <2>1. b \in ThreadState /\ ThreadOK(b)
    BY NodeAssumption, StartOK
  <2>2. arrived' \in 0..MaxArrivals
    BY <1>1, NodeAssumption DEF ActionReceiver, IInv, TypeOK
  <2>3. Become(t, b) /\ UNCHANGED <<store, retryQueue>>
    BY ZenonT(30), <1>1 DEF ActionReceiver
  <2> HIDE DEF b
  <2> QED
    BY ZenonT(30), <2>1, <2>2, <2>3, ThreadStep
<1>2. ASSUME NEW t \in NetThread, NEW m \in Message, ActionReceiver(t, m)
      PROVE  IInv'
  BY ZenonT(30), <1>1, <1>2 DEF Thread
<1>3. ASSUME NEW m \in Message, GossipPut(m)
      PROVE  IInv'
  BY ZenonT(30), <1>1, <1>3 DEF GossipPut, Thread
<1>4. CASE RetryTask \/ GiveUp
  BY ZenonT(30), <1>4, RetryInv
<1>5. ASSUME NEW t \in Thread, Receive(t)
      PROVE  IInv'
  BY ZenonT(30), <1>5, ReceiveInv
<1>6. CASE UNCHANGED vars
  BY ZenonT(30), <1>6 DEF vars, IInv, TypeOK
<1> QED
  BY ZenonT(30), <1>2, <1>3, <1>4, <1>5, <1>6 DEF Next

\* IInv holds in every reachable state.
THEOREM Invariance == Spec => []IInv
  BY InitInv, NextInv, PTL DEF Spec

\* The types of DHTNode's variables, the bound on the retry queue included.
THEOREM TypeCorrect == Spec => []TypeOK
<1>1. IInv => TypeOK
  BY ZenonT(30) DEF IInv
<1> QED
  BY <1>1, Invariance, PTL

\* _get never meets a modified entry without its replacedBy record, so its
\* panic "missing expected replacedBy record" is never reached.
THEOREM ReplacementsRecorded == Spec => []ModifiedHasReplacement
<1>1. IInv => ModifiedHasReplacement
  BY ZenonT(30) DEF IInv, StoreInv, ModifiedHasReplacement
<1> QED
  BY <1>1, Invariance, PTL

\* Fingerprints and the change log agree, whatever arrives twice or late.
THEOREM FingerprintsAgree == Spec => []FingerprintsMatchLog
<1>1. IInv => FingerprintsMatchLog
  BY ZenonT(30) DEF IInv, StoreInv, FingerprintsMatchLog
<1> QED
  BY <1>1, Invariance, PTL

\* The change log accounts for the status of every hash.
THEOREM StatusExplained == Spec => []LogExplainsStatus
<1>1. IInv => LogExplainsStatus
  BY ZenonT(30) DEF IInv, StoreInv, LogExplainsStatus
<1> QED
  BY <1>1, Invariance, PTL

\* The change log accounts for every linking event, and no link is left on a
\* base that is not there.
THEOREM LinksExplained == Spec => []LinksTraceable
<1>1. IInv => LinksTraceable
  BY ZenonT(30) DEF IInv, StoreInv, LinksTraceable
<1> QED
  BY <1>1, Invariance, PTL

\* A message is received at most MaxRetries + 1 times.
THEOREM RetriesAreLimited == Spec => []RetriesLimited
<1>1. IInv => RetriesLimited
  BY ZenonT(30) DEF IInv, RetriesLimited, ThreadOK, RetryOK, At
<1> QED
  BY <1>1, Invariance, PTL

\* What the handlers of a node keep true of the store, the log and the retries,
\* for every number of goroutines and every capacity of the retry queue.
THEOREM NodeIsSound == Spec => []NodeSound
  BY TypeCorrect, ReplacementsRecorded, FingerprintsAgree, StatusExplained,
     LinksExplained, RetriesAreLimited, PTL DEF NodeSound

\* No step changes the store but by a logged change.
THEOREM EveryChangeLogged == Spec => ChangesAreLogged
<1>1. ASSUME IInv, NEW t \in Thread, Receive(t)
      PROVE  store' = store \/ LoggedChange(store, store')
  <2> DEFINE m == thread[t].msg
  <2>1. store \in Store
    BY ZenonT(30), <1>1 DEF IInv, TypeOK
  <2>2. CASE UNCHANGED store
    BY ZenonT(30), <2>2
  <2>3. ASSUME NEW st \in {"live", "rejected"}, PutValidated(t, st)
        PROVE  LoggedChange(store, store')
    <3>1. m \in Message
      BY ZenonT(30), <1>1, <2>3, BusyThread DEF PutValidated, At
    <3> QED
      BY ZenonT(30), <2>1, <2>3, <3>1, TransactionsLogged DEF PutValidated, Statuses
  <2>4. CASE ModValidated(t)
    <3>1. m \in Message
      BY ZenonT(30), <1>1, <2>4, BusyThread DEF ModValidated, At
    <3> QED
      BY ZenonT(30), <2>1, <2>4, <3>1, TransactionsLogged DEF ModValidated
  <2>5. CASE DelValidated(t)
    <3>1. m \in Message
      BY ZenonT(30), <1>1, <2>5, BusyThread DEF DelValidated, At
    <3> QED
      BY ZenonT(30), <2>1, <2>5, <3>1, TransactionsLogged DEF DelValidated
  <2>6. CASE ApplyLink(t)
    <3>1. m \in Message /\ thread[t].todo \in Seq(Link) /\ thread[t].todo # << >>
      BY ZenonT(30), <1>1, <2>6, BusyThread DEF ApplyLink, At
    <3>2. Head(thread[t].todo) \in Link
      BY <3>1
    <3> QED
      BY ZenonT(30), <2>1, <2>6, <3>1, <3>2, TransactionsLogged DEF ApplyLink
  <2> QED
    BY ZenonT(30), <1>1, <2>2, <2>3, <2>4, <2>5, <2>6
       DEF Receive, ReceivePut, ReceiveChange, Enqueue, SendRetry, ValidationFails,
           LinkValidated, LinksDone
<1>2. IInv /\ [Next]_vars => [LoggedChange(store, store')]_store
  BY ZenonT(30), <1>1 DEF Next, vars, ActionReceiver, GossipPut, RetryTask, GiveUp
<1> QED
  BY <1>2, Invariance, PTL DEF Spec, ChangesAreLogged
=============================================================================
