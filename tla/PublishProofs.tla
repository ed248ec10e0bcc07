---------------------------- MODULE PublishProofs ---------------------------
(***************************************************************************)
(* Proofs about Publish, for any entries, callers, peers and faults.       *)
(*                                                                         *)
(* What gets into a DHT was committed.  HInv says it of all that is on its *)
(* way, too: every change that a call has yet to send, that was sent or    *)
(* that is queued comes from a commit, and a put is sent to others when    *)
(* the author's own node has it.                                           *)
(*                                                                         *)
(* While the author makes one call at a time each node gets the changes in *)
(* the order they were sent, unless one was lost or cut short on its way.  *)
(* OrderInv says what that is worth: a mod finds the entry it replaces,    *)
(* live, and its replacement is held already.                              *)
(***************************************************************************)
EXTENDS Publish, WellFoundedInduction, TLAPS

\* What is on chain ch.
On(ch, e) == \E i \in DOMAIN ch : ch[i].E = e
As(ch, action, e, h) == \E i \in DOMAIN ch : ch[i] = [E |-> e, Action |-> action, H |-> h]

\* The commits that a message of a call comes from.
Backed(ch, m) ==
    /\ m.Type = "PUT_REQUEST" =>
          m.H = m.E /\ On(ch, m.E) /\ Public(m.E) /\ EntryDef[m.E].Name # "dna"
    /\ m.Type = "MOD_REQUEST" =>
          /\ As(ch, "mod", m.E, m.H) /\ On(ch, m.H) /\ m.H # m.E
          /\ m.H \notin DOMAIN Deletes /\ Public(m.H) /\ EntryDef[m.H].DataFormat # "links"
    /\ m.Type = "DEL_REQUEST" => As(ch, "del", m.E, m.H)
    /\ m.Type = "LINK_REQUEST" => As(ch, "commit", m.E, m.E)

AllBacked(ch, t) == \A i \in DOMAIN t : Backed(ch, t[i])
QueueBacked(ch, t) == \A i \in DOMAIN t : Backed(ch, t[i].msg) /\ t[i].msg.Type # "PUT_REQUEST"

BackedInv ==
    /\ \A c \in Caller : AllBacked(chain, call[c].todo)
    /\ \A n \in Peer : \A m \in inbox[n] : Backed(chain, m)
    /\ \A n \in Peer : QueueBacked(chain, queue[n])

LinkCommitted(ch, base, l) ==
    \E e \in Hash : /\ As(ch, "commit", e, e)
                    /\ \E i \in DOMAIN LinksEntry[e] :
                          LinksEntry[e][i].Base = base /\ LinksEntry[e][i].Link = l

Ordinary == Hash \ {DNAHash, KeyMsg.H, AgentMsg.H}

LinksHeld(ch, s) ==
    \A i \in DOMAIN s.links :
        s.links[i].Tag \in Tag => LinkCommitted(ch, s.links[i].Base, s.links[i].Link)

\* What a store holds was committed.
Held(ch, s) ==
    /\ \A h \in Ordinary : s.status[h] # "absent" => On(ch, h) /\ Public(h)
    /\ \A h \in Hash : s.status[h] = "modified" => As(ch, "mod", s.replacedBy[h], h)
    /\ \A h \in Hash : s.status[h] = "deleted" => \E e \in Hash : As(ch, "del", e, h)
    /\ LinksHeld(ch, s)

\* Store s has what a put is about.
There(s, m) == m.Type = "PUT_REQUEST" => s.status[m.H] # "absent"

\* A put is sent to others when the author's own node has it.
SentInv ==
    /\ inbox[Author] = {}
    /\ \A n \in Peer : \A m \in inbox[n] : There(dht[Author], m)
    /\ \A c \in Caller : call[c].pc \in {"spread", "wait"} => There(dht[Author], Head(call[c].todo))

HInv == /\ TypeOK /\ AuthorHolds /\ BackedInv /\ SentInv
        /\ \A n \in Peer : Held(chain, dht[n])

\* A mod is the last change of its call, after the put of the entry that replaces.
Shape(t) ==
    \A i \in DOMAIN t : t[i].Type = "MOD_REQUEST" =>
        /\ i = Len(t)
        /\ i = 1 \/ (i = 2 /\ t[1].Type = "PUT_REQUEST" /\ t[1].E = t[2].E)

-----------------------------------------------------------------------------
(* What the transactions make of a store *)

\* incIdx adds a message to the log, and its fingerprint.
LEMMA IncIdxEffect ==
    ASSUME NEW s \in Store, NEW m \in Message
    PROVE  /\ incIdx(s, m) \in Store
           /\ incIdx(s, m).status = s.status
           /\ incIdx(s, m).replacedBy = s.replacedBy
           /\ incIdx(s, m).links = s.links
           /\ incIdx(s, m).log = Append(s.log, m)
           /\ incIdx(s, m).fp = [s.fp EXCEPT ![m] = Len(s.log) + 1]
<1>1. m # NilMsg
  BY ZenonT(30), ConstantsAssumption
<1>2. /\ s.status \in [Hash -> Statuses]
      /\ s.replacedBy \in [Hash -> Hash \cup {NoHash}]
      /\ s.links \in Seq(LinkEvent)
      /\ s.log \in Seq(Message)
      /\ s.fp \in [Message -> Int]
  BY ZenonT(30) DEF Store
<1>3. incIdx(s, m) = [s EXCEPT !.log = Append(s.log, m),
                               !.fp  = [s.fp EXCEPT ![m] = Len(s.log) + 1]]
  BY ZenonT(30), <1>1 DEF incIdx
<1>4. /\ Append(s.log, m) \in Seq(Message)
      /\ [s.fp EXCEPT ![m] = Len(s.log) + 1] \in [Message -> Int]
  BY <1>2
<1> QED
  BY ZenonT(30), <1>2, <1>3, <1>4 DEF Store

\* put sets a status and logs the message.
LEMMA PutEffect ==
    ASSUME NEW s \in Store, NEW m \in Message, NEW k \in Hash, NEW st \in Statuses
    PROVE  /\ put(s, m, k, st) \in Store
           /\ put(s, m, k, st).status = [s.status EXCEPT ![k] = st]
           /\ put(s, m, k, st).replacedBy = s.replacedBy
           /\ put(s, m, k, st).links = s.links
           /\ put(s, m, k, st).log = Append(s.log, m)
           /\ put(s, m, k, st).fp = [s.fp EXCEPT ![m] = Len(s.log) + 1]
<1> DEFINE q == incIdx(s, m)
<1> DEFINE r == put(s, m, k, st)
<1>1. /\ q \in Store
      /\ q.status = s.status
      /\ q.replacedBy = s.replacedBy
      /\ q.links = s.links
      /\ q.log = Append(s.log, m)
      /\ q.fp = [s.fp EXCEPT ![m] = Len(s.log) + 1]
  BY ZenonT(30), IncIdxEffect
<1> HIDE DEF q
<1>2. r = [q EXCEPT !.status = [q.status EXCEPT ![k] = st]]
  BY ZenonT(30) DEF q, put
<1> HIDE DEF r
<1>3. [q.status EXCEPT ![k] = st] \in [Hash -> Statuses]
  BY ZenonT(30), <1>1 DEF Store
<1>4. /\ r \in Store
      /\ r.status = [q.status EXCEPT ![k] = st]
      /\ r.replacedBy = q.replacedBy
      /\ r.links = q.links
      /\ r.log = q.log
      /\ r.fp = q.fp
  BY ZenonT(30), <1>1, <1>2, <1>3 DEF Store
<1> QED
  BY ZenonT(30), <1>1, <1>4 DEF r

\* The places of a sequence with one more element.
LEMMA AppendElements ==
    ASSUME NEW S, NEW q \in Seq(S), NEW x \in S
    PROVE  /\ Append(q, x) \in Seq(S)
           /\ Len(Append(q, x)) = Len(q) + 1
           /\ DOMAIN Append(q, x) = DOMAIN q \cup {Len(q) + 1}
           /\ Len(q) + 1 \notin DOMAIN q
           /\ Append(q, x)[Len(q) + 1] = x
           /\ \A i \in DOMAIN q : i \in Nat /\ i <= Len(q) /\ Append(q, x)[i] = q[i]
  OBVIOUS

\* An event is added to the links of a store.
LEMMA AppendLinkEffect ==
    ASSUME NEW s \in Store, NEW ev \in LinkEvent,
           NEW r, r = [s EXCEPT !.links = Append(s.links, ev)]
    PROVE  /\ r \in Store
           /\ r.status = s.status
           /\ r.replacedBy = s.replacedBy
           /\ r.links = Append(s.links, ev)
           /\ r.log = s.log
           /\ r.fp = s.fp
<1>1. Append(s.links, ev) \in Seq(LinkEvent)
  BY DEF Store
<1> QED
  BY ZenonT(30), <1>1 DEF Store

\* What dht.mod writes when the hash is there.
LEMMA ModEffect ==
    ASSUME NEW s \in Store, NEW m \in Message, s.status[m.H] # "absent",
           NEW ev, ev = [Base |-> m.H, Link |-> m.E, Tag |-> SysTagReplacedBy,
                         Status |-> "live", Source |-> m.From, LinksEntry |-> m.E]
    PROVE  /\ ev \in LinkEvent
           /\ mod(s, m, m.H, m.E) \in Store
           /\ mod(s, m, m.H, m.E).status = [s.status EXCEPT ![m.H] = "modified"]
           /\ mod(s, m, m.H, m.E).replacedBy = [s.replacedBy EXCEPT ![m.H] = m.E]
           /\ mod(s, m, m.H, m.E).links = Append(s.links, ev)
           /\ mod(s, m, m.H, m.E).log = Append(s.log, m)
           /\ mod(s, m, m.H, m.E).fp = [s.fp EXCEPT ![m] = Len(s.log) + 1]
<1>2. /\ m.H \in Hash /\ m.E \in Hash /\ m.From \in Peer
      /\ s.status \in [Hash -> Statuses]
  BY ZenonT(30), ConstantsAssumption DEF Store, ChangeMessage
<1> DEFINE p == put(s, m, m.H, "modified")
           t == RecordLink(p, m.H, m.E, SysTagReplacedBy, m.From, "live", m.E)
           r == mod(s, m, m.H, m.E)
<1>3. "modified" \in Statuses
  BY DEF Statuses
<1>4. /\ p \in Store
      /\ p.status = [s.status EXCEPT ![m.H] = "modified"]
      /\ p.replacedBy = s.replacedBy
      /\ p.links = s.links
      /\ p.log = Append(s.log, m)
      /\ p.fp = [s.fp EXCEPT ![m] = Len(s.log) + 1]
  BY <1>2, <1>3, PutEffect
<1>5. p = SetStatus(s, m, m.H, "modified")
  BY ZenonT(30) DEF SetStatus, put
<1> HIDE DEF p
<1>6. ev \in LinkEvent
  BY ZenonT(30), <1>2 DEF LinkEvent
<1>7. t = [p EXCEPT !.links = Append(p.links, ev)]
  BY ZenonT(30) DEF RecordLink
<1>8. r = [t EXCEPT !.replacedBy = [t.replacedBy EXCEPT ![m.H] = m.E]]
  BY ZenonT(30), <1>5 DEF mod
<1> HIDE DEF t, r
<1>9. /\ t \in Store
      /\ t.status = p.status
      /\ t.replacedBy = p.replacedBy
      /\ t.links = Append(p.links, ev)
      /\ t.log = p.log
      /\ t.fp = p.fp
  BY SMTT(60), <1>4, <1>6, <1>7, AppendLinkEffect
<1>10. [t.replacedBy EXCEPT ![m.H] = m.E] \in [Hash -> Hash \cup {NoHash}]
  BY ZenonT(30), <1>2, <1>9 DEF Store
<1>11. /\ r \in Store
       /\ r.status = t.status
       /\ r.replacedBy = [t.replacedBy EXCEPT ![m.H] = m.E]
       /\ r.links = t.links
       /\ r.log = t.log
       /\ r.fp = t.fp
  BY ZenonT(30), <1>8, <1>9, <1>10 DEF Store
<1> QED
  BY ZenonT(30), <1>4, <1>6, <1>9, <1>11 DEF r

EventOf(m, l) ==
    [Base |-> l.Base, Link |-> l.Link, Tag |-> l.Tag,
     Status |-> IF l.LinkAction = "del" THEN "deleted" ELSE "live",
     Source |-> m.From, LinksEntry |-> m.E]

\* What dht.link writes when it does not refuse.
LEMMA LinkEffect ==
    ASSUME NEW s \in Store, NEW m \in Message, NEW l \in Link,
           GetErr(s, l.Base, {"live"}) = "nil",
           l.LinkAction = "del" => LinkExists(s, l.Base, l.Link, l.Tag)
    PROVE  /\ EventOf(m, l) \in LinkEvent
           /\ link(s, m, l) \in Store
           /\ link(s, m, l).status = s.status
           /\ link(s, m, l).replacedBy = s.replacedBy
           /\ link(s, m, l).links = Append(s.links, EventOf(m, l))
           /\ link(s, m, l).log = Append(s.log, m)
           /\ link(s, m, l).fp = [s.fp EXCEPT ![m] = Len(s.log) + 1]
<1> DEFINE st == IF l.LinkAction = "del" THEN "deleted" ELSE "live"
           ev == EventOf(m, l)
<1>1. st = "deleted" => LinkExists(s, l.Base, l.Link, l.Tag)
    <2>1. "live" # "deleted"
        OBVIOUS
    <2> QED BY ZenonT(30), <2>1
<1>2. /\ m.E \in Hash /\ m.From \in Peer /\ l.Base \in Hash /\ l.Link \in Hash /\ l.Tag \in Tag
      /\ st \in {"live", "deleted"}
  BY ZenonT(30), ConstantsAssumption DEF ChangeMessage, Link
<1> DEFINE t == RecordLink(s, l.Base, l.Link, l.Tag, m.From, st, m.E)
           r == link(s, m, l)
<1>3. r = incIdx(t, m)
  BY ZenonT(30), <1>1 DEF link
<1>4. ev \in LinkEvent
  BY ZenonT(30), <1>2 DEF LinkEvent, EventOf
<1>5. t = [s EXCEPT !.links = Append(s.links, ev)]
  BY ZenonT(30) DEF RecordLink, EventOf
<1> HIDE DEF t, r, ev
<1>6. /\ t \in Store
      /\ t.status = s.status
      /\ t.replacedBy = s.replacedBy
      /\ t.links = Append(s.links, ev)
      /\ t.log = s.log
      /\ t.fp = s.fp
  BY SMTT(60), <1>4, <1>5, AppendLinkEffect
<1>7. /\ incIdx(t, m) \in Store
      /\ incIdx(t, m).status = t.status
      /\ incIdx(t, m).replacedBy = t.replacedBy
      /\ incIdx(t, m).links = t.links
      /\ incIdx(t, m).log = Append(t.log, m)
      /\ incIdx(t, m).fp = [t.fp EXCEPT ![m] = Len(t.log) + 1]
  BY ZenonT(30), <1>6, IncIdxEffect
<1> QED
  BY ZenonT(30), <1>3, <1>4, <1>6, <1>7 DEF r, ev

-----------------------------------------------------------------------------
(* Loops *)

\* Induction up to n.
LEMMA Counting ==
    ASSUME NEW n \in Nat, NEW T, 0 \in T, \A m \in 0..(n - 1) : m \in T => m + 1 \in T
    PROVE  \A m \in 0..n : m \in T
<1> SUFFICES ASSUME \E m \in 0..n : m \notin T PROVE FALSE
    OBVIOUS
<1> DEFINE F == {m \in 0..n : m \notin T}
<1>1. F \subseteq Nat /\ F # {}
    OBVIOUS
<1>2. PICK k \in F : \A m \in F : ~(<<m, k>> \in OpToRel(<, Nat))
    BY ZenonT(30), <1>1, NatLessThanWellFounded, WFMin
<1>3. k \in 0..n /\ k \notin T /\ k # 0
    BY <1>2
<1>4. k - 1 \in 0..(n - 1) /\ k - 1 \in 0..n /\ (k - 1) + 1 = k /\ k - 1 < k /\ k - 1 \in Nat /\ k \in Nat
    BY <1>3
<1>5. k - 1 \in T
    BY ZenonT(30), <1>2, <1>4 DEF OpToRel
<1>6. k \in T
    BY ZenonT(30), <1>4, <1>5
<1> QED BY ZenonT(30), <1>3, <1>6

\* f starts with a and goes on to n by the steps given.
Goes(f, a, step, n) == f[0] = a /\ \A i \in 1..n : f[i] = step[i][f[i - 1]]

\* A loop over 1..n has a value after each round.
LEMMA Recursion ==
    ASSUME NEW S, NEW a \in S, NEW n \in Nat, NEW step \in [1..n -> [S -> S]]
    PROVE  \E f \in [0..n -> S] : Goes(f, a, step, n)
<1> DEFINE T == {m \in 0..n : \E f \in [0..m -> S] : Goes(f, a, step, m)}
<1>1. 0 \in T
    <2> DEFINE z == [i \in 0..0 |-> a]
    <2>1. z \in [0..0 -> S] /\ z[0] = a /\ 1..0 = {} /\ 0 \in 0..n
        OBVIOUS
    <2> HIDE DEF z
    <2>2. Goes(z, a, step, 0)
        BY ZenonT(30), <2>1 DEF Goes
    <2> QED BY ZenonT(30), <2>1, <2>2
<1>2. ASSUME NEW m \in 0..(n - 1), m \in T PROVE m + 1 \in T
    <2>1. PICK f \in [0..m -> S] : Goes(f, a, step, m)
        BY ZenonT(30), <1>2
    <2>2. f[0] = a /\ \A i \in 1..m : f[i] = step[i][f[i - 1]]
        BY ZenonT(30), <2>1 DEF Goes
    <2> DEFINE x == step[m + 1][f[m]]
               g == [i \in 0..(m + 1) |-> IF i <= m THEN f[i] ELSE x]
    <2>3. m \in Nat /\ m + 1 \in 1..n /\ f[m] \in S /\ m + 1 \in 0..n
        OBVIOUS
    <2>4. x \in S
        BY ZenonT(30), <2>3
    <2> HIDE DEF x
    <2>5. g \in [0..(m + 1) -> S] /\ g[m + 1] = x /\ \A i \in 0..m : g[i] = f[i]
        BY <2>3, <2>4
    <2> HIDE DEF g
    <2>6. ASSUME NEW i \in 1..(m + 1) PROVE g[i] = step[i][g[i - 1]]
        <3>1. CASE i \in 1..m
            <4>1. i \in 0..m /\ i - 1 \in 0..m
                BY <2>3, <3>1
            <4> QED BY ZenonT(30), <2>2, <2>5, <3>1, <4>1
        <3>2. CASE i = m + 1
            <4>1. i - 1 = m /\ m \in 0..m
                BY <2>3, <3>2
            <4> QED BY ZenonT(30), <2>5, <3>2, <4>1 DEF x
        <3> QED BY <2>3, <3>1, <3>2
    <2>7. g[0] = a
        BY <2>2, <2>3, <2>5
    <2>8. Goes(g, a, step, m + 1)
        BY ZenonT(30), <2>6, <2>7 DEF Goes
    <2> QED BY ZenonT(30), <2>3, <2>5, <2>8
<1> HIDE DEF T
<1>3. n \in T
    <2>1. n \in 0..n
        OBVIOUS
    <2> QED BY ZenonT(30), <1>1, <1>2, <2>1, Counting
<1> QED BY ZenonT(30), <1>3 DEF T

\* h starts with a and goes on by the steps given as long as it stays in S.
Loops(h, a, step, n, S) ==
    /\ h = [i \in 0..n |-> h[i]] /\ h[0] = a
    /\ \A i \in 1..n : h[i - 1] \in S => h[i] = step[i][h[i - 1]]

\* The one function that a loop over 1..n defines.
LEMMA OneLoop ==
    ASSUME NEW S, NEW a \in S, NEW n \in Nat, NEW step \in [1..n -> [S -> S]], NEW h,
           Loops(h, a, step, n, S)
    PROVE  h \in [0..n -> S] /\ Goes(h, a, step, n)
<1>0. /\ h = [i \in 0..n |-> h[i]] /\ h[0] = a
      /\ \A i \in 1..n : h[i - 1] \in S => h[i] = step[i][h[i - 1]]
    BY ZenonT(30) DEF Loops
<1> DEFINE T == {m \in 0..n : h[m] \in S}
<1>1. 0 \in T
    <2>1. 0 \in 0..n
        OBVIOUS
    <2> QED BY ZenonT(30), <1>0, <2>1
<1>2. ASSUME NEW m \in 0..(n - 1), m \in T PROVE m + 1 \in T
    <2>1. m + 1 \in 1..n /\ (m + 1) - 1 = m /\ m + 1 \in 0..n
        OBVIOUS
    <2>2. h[m] \in S
        BY ZenonT(30), <1>2
    <2>3. h[m + 1] = step[m + 1][h[m]]
        BY ZenonT(30), <1>0, <2>1, <2>2
    <2>4. step[m + 1][h[m]] \in S
        BY ZenonT(30), <2>1, <2>2
    <2> QED BY ZenonT(30), <2>1, <2>3, <2>4
<1> HIDE DEF T
<1>3. \A m \in 0..n : m \in T
    BY ZenonT(30), <1>1, <1>2, Counting
<1>4. \A m \in 0..n : h[m] \in S
    BY ZenonT(30), <1>3 DEF T
<1>5. h \in [0..n -> S]
    BY ZenonT(30), <1>0, <1>4
<1>6. \A i \in 1..n : i - 1 \in 0..n
    OBVIOUS
<1> QED BY ZenonT(30), <1>0, <1>4, <1>5, <1>6 DEF Goes

-----------------------------------------------------------------------------
(* Storing links *)

\* m makes s store l.
Stores(s, m, l) ==
    /\ l.Base = m.H /\ s.status[l.Base] = "live"
    /\ l.LinkAction = "del" => LinkExists(s, l.Base, l.Link, l.Tag)

Round(s, m, l) == IF l.Base = m.H THEN link(s, m, l) ELSE s

\* A link asks for a base that is live.
LEMMA LiveErr ==
    ASSUME NEW s \in Store, NEW h \in Hash
    PROVE  GetErr(s, h, {"live"}) = "nil" <=> s.status[h] = "live"
<1>1. "absent" # "live" /\ "ErrHashNotFound" # "nil" /\ {"live"} # {}
    OBVIOUS
<1> QED BY ZenonT(30), <1>1 DEF GetErr

\* What one round of the loop over the links does.
LEMMA RoundEffect ==
    ASSUME NEW s \in Store, NEW m \in Message, NEW l \in Link
    PROVE  /\ EventOf(m, l) \in LinkEvent
           /\ Round(s, m, l) \in Store
           /\ Round(s, m, l).status = s.status
           /\ Round(s, m, l).replacedBy = s.replacedBy
           /\ Stores(s, m, l) => Round(s, m, l).links = Append(s.links, EventOf(m, l))
           /\ ~Stores(s, m, l) => Round(s, m, l) = s
<1> DEFINE ev == EventOf(m, l)
<1>2. /\ m.E \in Hash /\ m.From \in Peer /\ l.Base \in Hash /\ l.Link \in Hash /\ l.Tag \in Tag
    BY ZenonT(30), ConstantsAssumption DEF ChangeMessage, Link
<1>4. GetErr(s, l.Base, {"live"}) = "nil" <=> s.status[l.Base] = "live"
    BY ZenonT(30), <1>2, LiveErr
<1>5. ev \in LinkEvent
    BY ZenonT(30), <1>2 DEF LinkEvent, EventOf
<1> HIDE DEF ev
<1>6. CASE Stores(s, m, l)
    <2>1. Round(s, m, l) = link(s, m, l)
        BY ZenonT(30), <1>6 DEF Round, Stores
    <2>2. /\ GetErr(s, l.Base, {"live"}) = "nil"
          /\ l.LinkAction = "del" => LinkExists(s, l.Base, l.Link, l.Tag)
        BY ZenonT(30), <1>4, <1>6 DEF Stores
    <2>3. /\ link(s, m, l) \in Store
          /\ link(s, m, l).status = s.status
          /\ link(s, m, l).replacedBy = s.replacedBy
          /\ link(s, m, l).links = Append(s.links, ev)
        BY ZenonT(30), <2>2, LinkEffect DEF ev
    <2> QED BY ZenonT(30), <1>5, <1>6, <2>1, <2>3 DEF ev
<1>7. CASE ~Stores(s, m, l)
    <2>0. "live" # "deleted"
        OBVIOUS
    <2>1. l.Base = m.H => link(s, m, l) = s
        BY ZenonT(30), <1>4, <1>7, <2>0 DEF Stores, link
    <2>2. Round(s, m, l) = s
        BY ZenonT(30), <2>1 DEF Round
    <2> QED BY ZenonT(30), <1>5, <1>7, <2>2 DEF ev
<1> QED BY ZenonT(30), <1>6, <1>7

\* f has the store after each of the links.
Linked(f, s, m, links) ==
    /\ f \in [0..Len(links) -> Store] /\ f[0] = s
    /\ \A k \in 1..Len(links) : f[k] = Round(f[k - 1], m, links[k])

\* The function by which Links is computed.
LinksFcn(s, m, links) ==
    CHOOSE f : f = [k \in 0..Len(links) |->
                        IF k = 0 THEN s
                        ELSE IF links[k].Base = m.H THEN link(f[k - 1], m, links[k])
                        ELSE f[k - 1]]

\* Links is the last of the stores that its loop goes through.
LEMMA LinksLoop ==
    ASSUME NEW s \in Store, NEW m \in Message, NEW links \in Seq(Link)
    PROVE  \E f : Linked(f, s, m, links) /\ Links(s, m, links) = f[Len(links)]
<1> DEFINE n == Len(links)
           S == Store
           step == [i \in 1..n |-> [r \in S |-> Round(r, m, links[i])]]
           Body(f) == [k \in 0..n |-> IF k = 0 THEN s
                                      ELSE IF links[k].Base = m.H THEN link(f[k - 1], m, links[k])
                                      ELSE f[k - 1]]
           h == LinksFcn(s, m, links)
<1>1. n \in Nat /\ 0 \in 0..n /\ \A i \in 1..n : links[i] \in Link
    OBVIOUS
<1> HIDE DEF n, S
<1>2. \A i \in 0..n : i = 0 \/ (i # 0 /\ i \in 1..n)
    BY <1>1
<1>3. \A i \in 1..n : i \in Nat /\ i # 0 /\ i \in 0..n /\ i - 1 \in 0..n
    BY <1>1
<1>4. \A i \in 1..n, r \in S : Round(r, m, links[i]) \in S
    BY ZenonT(30), <1>1, RoundEffect DEF S
<1>5. /\ step \in [1..n -> [S -> S]]
      /\ \A i \in 1..n, r \in S : step[i][r] = Round(r, m, links[i])
    BY ZenonT(30), <1>4
<1> HIDE DEF step
<1>6. PICK f \in [0..n -> S] : Goes(f, s, step, n)
    BY ZenonT(30), <1>1, <1>5, Recursion DEF S
<1>7. f[0] = s /\ \A i \in 1..n : f[i] = Round(f[i - 1], m, links[i])
    BY ZenonT(30), <1>3, <1>5, <1>6 DEF Goes
<1>8. f = Body(f)
    <2>1. ASSUME NEW i \in 0..n
          PROVE  f[i] = IF i = 0 THEN s
                        ELSE IF links[i].Base = m.H THEN link(f[i - 1], m, links[i])
                        ELSE f[i - 1]
        <3>1. CASE i = 0
            BY ZenonT(30), <1>7, <3>1
        <3>2. CASE i # 0
            <4>1. f[i] = Round(f[i - 1], m, links[i])
                BY ZenonT(30), <1>2, <1>7, <3>2
            <4> QED BY ZenonT(30), <3>2, <4>1 DEF Round
        <3> QED BY ZenonT(30), <3>1, <3>2
    <2> QED BY ZenonT(30), <1>6, <2>1
<1>9. h = Body(h)
    BY ZenonT(30), <1>8 DEF LinksFcn, n
<1>10. Links(s, m, links) = h[n]
    BY ZenonT(30) DEF Links, LinksFcn, n
<1> HIDE DEF h
<1>11. /\ h = [i \in 0..n |-> h[i]]
       /\ \A i \in 0..n : h[i] = IF i = 0 THEN s
                                 ELSE IF links[i].Base = m.H THEN link(h[i - 1], m, links[i])
                                 ELSE h[i - 1]
    BY ZenonT(30), <1>9
<1>12. h[0] = s /\ \A i \in 1..n : h[i] = Round(h[i - 1], m, links[i])
    BY ZenonT(30), <1>1, <1>3, <1>11 DEF Round
<1>13. h \in [0..n -> S] /\ Goes(h, s, step, n)
    <2>1. \A i \in 1..n : h[i - 1] \in S => h[i] = step[i][h[i - 1]]
        BY ZenonT(30), <1>5, <1>12
    <2> DEFINE a == s
    <2>2. h = [i \in 0..n |-> h[i]] /\ h[0] = a
        BY ZenonT(30), <1>11, <1>12
    <2>3. a \in S
        BY ZenonT(30) DEF S
    <2> HIDE DEF a
    <2>4. Loops(h, a, step, n, S)
        BY ZenonT(30), <2>1, <2>2 DEF Loops
    <2>5. h \in [0..n -> S] /\ Goes(h, a, step, n)
        BY ZenonT(30), <1>1, <1>5, <2>3, <2>4, OneLoop
    <2> QED BY ZenonT(30), <2>5 DEF a
<1>14. Linked(h, s, m, links)
    BY ZenonT(30), <1>12, <1>13 DEF Linked, S, n
<1> QED BY ZenonT(30), <1>10, <1>14 DEF n

-----------------------------------------------------------------------------
(* Receiving *)

\* A Receive method finds an entry only if it is live, and queues if it is absent.
LEMMA DefaultErr ==
    ASSUME NEW s \in Store, NEW h \in Hash
    PROVE  /\ GetErr(s, h, {}) = "nil" <=> s.status[h] = "live"
           /\ GetErr(s, h, {}) = "ErrHashNotFound" <=> s.status[h] = "absent"
<1>1. s.status[h] \in Statuses
    BY ZenonT(30) DEF Store
<1> DEFINE x == s.status[h]
<1>2. GetErr(s, h, {}) = IF x = "absent" THEN "ErrHashNotFound" ELSE StatusError[x]
    BY ZenonT(30) DEF GetErr
<1> HIDE DEF x
<1>3. x \in Statuses
    BY ZenonT(30), <1>1 DEF x
<1>4. CASE x = "absent"
    BY <1>2, <1>4 DEF x
<1>5. CASE x = "live"
    BY <1>2, <1>5 DEF x, StatusError
<1>6. CASE x = "rejected"
    BY <1>2, <1>6 DEF x, StatusError
<1>7. CASE x = "deleted"
    BY <1>2, <1>7 DEF x, StatusError
<1>8. CASE x = "modified"
    BY <1>2, <1>8 DEF x, StatusError
<1> QED BY ZenonT(30), <1>3, <1>4, <1>5, <1>6, <1>7, <1>8 DEF Statuses

\* m is a message, and s a store, with the types of what they hold.
LEMMA MessageFields ==
    ASSUME NEW m \in Message
    PROVE  /\ m.Type \in {"PUT_REQUEST", "MOD_REQUEST", "DEL_REQUEST", "LINK_REQUEST"}
           /\ m.H \in Hash /\ m.E \in Hash /\ m.From \in Peer
           /\ LinksEntry[m.E] \in Seq(Link) /\ m # NilMsg
<1>1. m \in ChangeMessage /\ NilMsg \notin Message
    BY ZenonT(30), ConstantsAssumption
<1>2. /\ m.Type \in {"PUT_REQUEST", "MOD_REQUEST", "DEL_REQUEST", "LINK_REQUEST"}
      /\ m.H \in Hash /\ m.E \in Hash /\ m.From \in Peer
    BY ZenonT(30), <1>1 DEF ChangeMessage
<1>3. LinksEntry[m.E] \in Seq(Link)
    BY ZenonT(30), <1>2, ConstantsAssumption
<1> QED BY ZenonT(30), <1>1, <1>2, <1>3

\* r is what a put makes of s, with the status that validation gives.
PutMade(s, r, m, st) ==
    /\ st \in {"live", "rejected"}
    /\ r.status = [s.status EXCEPT ![m.H] = st] /\ r.replacedBy = s.replacedBy
    /\ r.links = s.links

ModEvent(m) ==
    [Base |-> m.H, Link |-> m.E, Tag |-> SysTagReplacedBy, Status |-> "live",
     Source |-> m.From, LinksEntry |-> m.E]

ModMade(s, r, m) ==
    /\ r.status = [s.status EXCEPT ![m.H] = "modified"]
    /\ r.replacedBy = [s.replacedBy EXCEPT ![m.H] = m.E]
    /\ r.links = Append(s.links, ModEvent(m))

DelMade(s, r, m) ==
    /\ r.status = [s.status EXCEPT ![m.H] = "deleted"] /\ r.replacedBy = s.replacedBy
    /\ r.links = s.links

LinkMade(s, r, m) == \E f : Linked(f, s, m, LinksEntry[m.E]) /\ r = f[Len(LinksEntry[m.E])]

\* A put leaves all but the status of its hash.
LEMMA PutMakes ==
    ASSUME NEW s \in Store, NEW m \in Message, NEW st \in {"live", "rejected"}
    PROVE  put(s, m, m.H, st) \in Store /\ PutMade(s, put(s, m, m.H, st), m, st)
<1>1. m.H \in Hash /\ st \in Statuses
    BY ZenonT(30), MessageFields DEF Statuses
<1>2. /\ put(s, m, m.H, st) \in Store
      /\ put(s, m, m.H, st).status = [s.status EXCEPT ![m.H] = st]
      /\ put(s, m, m.H, st).replacedBy = s.replacedBy
      /\ put(s, m, m.H, st).links = s.links
      /\ put(s, m, m.H, st).log = Append(s.log, m)
      /\ put(s, m, m.H, st).fp = [s.fp EXCEPT ![m] = Len(s.log) + 1]
    BY <1>1, PutEffect
<1> QED BY ZenonT(30), <1>2 DEF PutMade

\* So does a deletion.
LEMMA DelMakes ==
    ASSUME NEW s \in Store, NEW m \in Message
    PROVE  put(s, m, m.H, "deleted") \in Store /\ DelMade(s, put(s, m, m.H, "deleted"), m)
<1> DEFINE st == "deleted"
<1>1. m.H \in Hash /\ st \in Statuses
    BY ZenonT(30), MessageFields DEF Statuses
<1> HIDE DEF st
<1>2. /\ put(s, m, m.H, st) \in Store
      /\ put(s, m, m.H, st).status = [s.status EXCEPT ![m.H] = st]
      /\ put(s, m, m.H, st).replacedBy = s.replacedBy
      /\ put(s, m, m.H, st).links = s.links
      /\ put(s, m, m.H, st).log = Append(s.log, m)
      /\ put(s, m, m.H, st).fp = [s.fp EXCEPT ![m] = Len(s.log) + 1]
    BY <1>1, PutEffect
<1> QED BY ZenonT(30), <1>2 DEF DelMade, st

\* A mod also records the replacement, and an event of its own tag.
LEMMA ModMakes ==
    ASSUME NEW s \in Store, NEW m \in Message, s.status[m.H] # "absent"
    PROVE  /\ mod(s, m, m.H, m.E) \in Store /\ ModMade(s, mod(s, m, m.H, m.E), m)
           /\ ModEvent(m) \in LinkEvent
<1> DEFINE ev == ModEvent(m)
<1>1. ev = [Base |-> m.H, Link |-> m.E, Tag |-> SysTagReplacedBy,
            Status |-> "live", Source |-> m.From, LinksEntry |-> m.E]
    BY ZenonT(30) DEF ModEvent
<1> HIDE DEF ev
<1>2. /\ ev \in LinkEvent
      /\ mod(s, m, m.H, m.E) \in Store
      /\ mod(s, m, m.H, m.E).status = [s.status EXCEPT ![m.H] = "modified"]
      /\ mod(s, m, m.H, m.E).replacedBy = [s.replacedBy EXCEPT ![m.H] = m.E]
      /\ mod(s, m, m.H, m.E).links = Append(s.links, ev)
      /\ mod(s, m, m.H, m.E).log = Append(s.log, m)
      /\ mod(s, m, m.H, m.E).fp = [s.fp EXCEPT ![m] = Len(s.log) + 1]
    BY <1>1, ModEffect
<1> QED BY ZenonT(30), <1>2 DEF ModMade, ev

\* Whether the author's answer makes n carry m out.
Valid(n, m) ==
    /\ GetValidationResponse(ActionOf[m.Type], m.E)
    /\ m.Type # "PUT_REQUEST" => ValidateAction(n, ActionOf[m.Type], m.E, m.H)

PutStatus(n, m) == IF ValidateAction(n, "put", m.E, m.H) THEN "live" ELSE "rejected"

\* What the author's answer makes of a put, a mod, a deletion and a links entry ...
LEMMA PutPhase ==
    ASSUME NEW n \in Peer, NEW m \in Message, dht[n] \in Store, m.Type = "PUT_REQUEST", Valid(n, m)
    PROVE  /\ RunValidationPhase(n, m) \in Store
           /\ PutMade(dht[n], RunValidationPhase(n, m), m, PutStatus(n, m))
<1> DEFINE s == dht[n]
           st == PutStatus(n, m)
<1>1. RunValidationPhase(n, m) = put(s, m, m.H, st)
    <2>1. GetValidationResponse(ActionOf[m.Type], m.E)
        BY ZenonT(30) DEF Valid
    <2>2. RunValidationPhase(n, m) = PutAnswered(n, m)
        <3>1. m.Type # "MOD_REQUEST" /\ m.Type # "DEL_REQUEST" /\ m.Type # "LINK_REQUEST"
            OBVIOUS
        <3> QED BY <2>1, <3>1 DEF RunValidationPhase
    <2> QED BY ZenonT(30), <2>2 DEF PutAnswered, PutStatus
<1>2. st \in {"live", "rejected"}
    BY ZenonT(30) DEF PutStatus
<1>3. s \in Store /\ m.H \in Hash /\ st \in Statuses
    BY ZenonT(30), <1>2, MessageFields DEF Statuses
<1> HIDE DEF s, st
<1>4. put(s, m, m.H, st) \in Store /\ PutMade(s, put(s, m, m.H, st), m, st)
    BY ZenonT(30), <1>2, <1>3, PutMakes
<1> QED BY ZenonT(30), <1>1, <1>4 DEF s, st

LEMMA ModPhase ==
    ASSUME NEW n \in Peer, NEW m \in Message, dht[n] \in Store, m.Type = "MOD_REQUEST", Valid(n, m),
           dht[n].status[m.H] # "absent"
    PROVE  /\ RunValidationPhase(n, m) \in Store
           /\ ModMade(dht[n], RunValidationPhase(n, m), m)
           /\ ModEvent(m) \in LinkEvent
<1> DEFINE s == dht[n]
<1>1. RunValidationPhase(n, m) = mod(s, m, m.H, m.E)
    <2>1. GetValidationResponse(ActionOf[m.Type], m.E) /\ ActionOf[m.Type] = "mod"
        BY DEF Valid, ActionOf
    <2>2. RunValidationPhase(n, m) = ModAnswered(n, m)
        <3>1. m.Type # "PUT_REQUEST" /\ m.Type # "DEL_REQUEST" /\ m.Type # "LINK_REQUEST"
            OBVIOUS
        <3> QED BY <2>1, <3>1 DEF RunValidationPhase
    <2>3. ValidateAction(n, "mod", m.E, m.H)
        BY <2>1 DEF Valid
    <2> QED BY ZenonT(30), <2>2, <2>3 DEF ModAnswered
<1>2. s \in Store /\ s.status[m.H] # "absent"
    BY ZenonT(30) DEF s
<1> HIDE DEF s
<1>3. /\ mod(s, m, m.H, m.E) \in Store /\ ModMade(s, mod(s, m, m.H, m.E), m)
      /\ ModEvent(m) \in LinkEvent
    BY ZenonT(30), <1>2, ModMakes
<1> QED BY ZenonT(30), <1>1, <1>3 DEF s

LEMMA DelPhase ==
    ASSUME NEW n \in Peer, NEW m \in Message, dht[n] \in Store, m.Type = "DEL_REQUEST", Valid(n, m),
           dht[n].status[m.H] # "absent"
    PROVE  /\ RunValidationPhase(n, m) \in Store
           /\ DelMade(dht[n], RunValidationPhase(n, m), m)
<1> DEFINE s == dht[n]
<1>1. RunValidationPhase(n, m) = put(s, m, m.H, "deleted")
    <2>1. GetValidationResponse(ActionOf[m.Type], m.E) /\ ActionOf[m.Type] = "del"
        BY DEF Valid, ActionOf
    <2>2. RunValidationPhase(n, m) = DelAnswered(n, m)
        <3>1. m.Type # "PUT_REQUEST" /\ m.Type # "MOD_REQUEST" /\ m.Type # "LINK_REQUEST"
            OBVIOUS
        <3> QED BY <2>1, <3>1 DEF RunValidationPhase
    <2>3. ValidateAction(n, "del", m.E, m.H)
        BY <2>1 DEF Valid
    <2> QED BY ZenonT(30), <2>2, <2>3 DEF DelAnswered, del, SetStatus, put
<1>3. s \in Store
    OBVIOUS
<1> HIDE DEF s
<1>4. put(s, m, m.H, "deleted") \in Store /\ DelMade(s, put(s, m, m.H, "deleted"), m)
    BY ZenonT(30), <1>3, DelMakes
<1> QED BY ZenonT(30), <1>1, <1>4 DEF s

LEMMA LinkPhase ==
    ASSUME NEW n \in Peer, NEW m \in Message, dht[n] \in Store, m.Type = "LINK_REQUEST", Valid(n, m)
    PROVE  LinkMade(dht[n], RunValidationPhase(n, m), m)
<1> DEFINE s == dht[n]
<1>1. RunValidationPhase(n, m) = Links(s, m, LinksEntry[m.E])
    <2>1. GetValidationResponse(ActionOf[m.Type], m.E) /\ ActionOf[m.Type] = "link"
        BY DEF Valid, ActionOf
    <2>2. RunValidationPhase(n, m) = LinkAnswered(n, m)
        <3>1. m.Type # "PUT_REQUEST" /\ m.Type # "MOD_REQUEST" /\ m.Type # "DEL_REQUEST"
            OBVIOUS
        <3> QED BY <2>1, <3>1 DEF RunValidationPhase
    <2>3. ValidateAction(n, "link", m.E, m.H)
        BY <2>1 DEF Valid
    <2> QED BY ZenonT(30), <2>2, <2>3 DEF LinkAnswered
<1>2. s \in Store /\ LinksEntry[m.E] \in Seq(Link)
    BY ZenonT(30), MessageFields
<1> HIDE DEF s
<1> QED BY ZenonT(30), <1>1, <1>2, LinksLoop DEF LinkMade, s

\* ... and that nothing changes without it.
LEMMA InvalidPhase ==
    ASSUME NEW n \in Peer, NEW m \in Message, ~Valid(n, m)
    PROVE  RunValidationPhase(n, m) = dht[n]
<1>1. m.Type \in {"PUT_REQUEST", "MOD_REQUEST", "DEL_REQUEST", "LINK_REQUEST"}
    BY ZenonT(30), MessageFields
<1>2. CASE ~GetValidationResponse(ActionOf[m.Type], m.E)
    BY ZenonT(30), <1>2 DEF RunValidationPhase
<1>3. CASE m.Type = "MOD_REQUEST" /\ GetValidationResponse(ActionOf[m.Type], m.E)
    <2>1. ActionOf[m.Type] = "mod" /\ RunValidationPhase(n, m) = ModAnswered(n, m)
        BY <1>3 DEF RunValidationPhase, ActionOf
    <2> QED BY ZenonT(30), <1>3, <2>1 DEF ModAnswered, Valid
<1>4. CASE m.Type = "DEL_REQUEST" /\ GetValidationResponse(ActionOf[m.Type], m.E)
    <2>1. ActionOf[m.Type] = "del" /\ RunValidationPhase(n, m) = DelAnswered(n, m)
        BY <1>4 DEF RunValidationPhase, ActionOf
    <2> QED BY ZenonT(30), <1>4, <2>1 DEF DelAnswered, Valid
<1>5. CASE m.Type = "LINK_REQUEST" /\ GetValidationResponse(ActionOf[m.Type], m.E)
    <2>1. ActionOf[m.Type] = "link" /\ RunValidationPhase(n, m) = LinkAnswered(n, m)
        BY <1>5 DEF RunValidationPhase, ActionOf
    <2> QED BY ZenonT(30), <1>5, <2>1 DEF LinkAnswered, Valid
<1> QED BY ZenonT(30), <1>1, <1>2, <1>3, <1>4, <1>5 DEF Valid

-----------------------------------------------------------------------------
(* What is held stays held *)

\* What receiving m does to the entries of store s: none is lost, and only a put
\* makes one.
Onward(s, r, m) ==
    \A h \in Hash :
        /\ s.status[h] # "absent" => r.status[h] # "absent"
        /\ r.status[h] # "absent" =>
              s.status[h] # "absent" \/ (m.Type = "PUT_REQUEST" /\ h = m.H)

\* The parts of a store.
LEMMA StoreFields ==
    ASSUME NEW s \in Store
    PROVE  /\ s.status \in [Hash -> Statuses]
           /\ s.replacedBy \in [Hash -> Hash \cup {NoHash}]
           /\ s.links \in Seq(LinkEvent)
BY ZenonT(30) DEF Store

\* What is held after a put, a mod, a deletion and a links entry was committed.
LEMMA HeldPut ==
    ASSUME NEW ch, NEW s \in Store, NEW r \in Store, NEW m \in Message, NEW st, PutMade(s, r, m, st),
           Held(ch, s), Backed(ch, m), m.Type = "PUT_REQUEST"
    PROVE  Held(ch, r) /\ Onward(s, r, m)
<1>1. m.H \in Hash /\ st # "absent" /\ st # "modified" /\ st # "deleted"
    <2>1. "live" \notin {"absent", "modified", "deleted"} /\ "rejected" \notin {"absent", "modified", "deleted"}
        OBVIOUS
    <2> QED BY ZenonT(30), <2>1, MessageFields DEF PutMade
<1>2. r.status[m.H] = st /\ \A h \in Hash : h # m.H => r.status[h] = s.status[h]
    BY ZenonT(30), <1>1, StoreFields DEF PutMade
<1>3. r.replacedBy = s.replacedBy /\ r.links = s.links
    BY ZenonT(30) DEF PutMade
<1>4. On(ch, m.H) /\ Public(m.H)
    BY ZenonT(30) DEF Backed
<1>5. \A h \in Ordinary : h \in Hash
    BY ZenonT(30) DEF Ordinary
<1>6. LinksHeld(ch, r)
    BY ZenonT(30), <1>3 DEF Held, LinksHeld
<1>7. Held(ch, r)
    BY ZenonT(30), <1>1, <1>2, <1>3, <1>4, <1>5, <1>6 DEF Held
<1>8. Onward(s, r, m)
    BY ZenonT(30), <1>1, <1>2 DEF Onward
<1> QED BY ZenonT(30), <1>7, <1>8

\* An event is added.
LEMMA EventHeld ==
    ASSUME NEW ch, NEW s \in Store, NEW r, NEW ev \in LinkEvent, r.links = Append(s.links, ev),
           LinksHeld(ch, s), ev.Tag \in Tag => LinkCommitted(ch, ev.Base, ev.Link)
    PROVE  LinksHeld(ch, r)
<1> DEFINE p == s.links
<1>1. p \in Seq(LinkEvent)
    BY ZenonT(30), StoreFields
<1> HIDE DEF p
<1>2. ASSUME NEW i \in DOMAIN r.links, r.links[i].Tag \in Tag
      PROVE  LinkCommitted(ch, r.links[i].Base, r.links[i].Link)
    <2>0. i \in DOMAIN Append(p, ev) /\ r.links[i] = Append(p, ev)[i]
        BY ZenonT(30) DEF p
    <2>1. \/ i \in DOMAIN p /\ r.links[i] = p[i]
          \/ r.links[i] = ev
        BY ONLY <1>1, <2>0, ev \in LinkEvent
    <2> QED BY ZenonT(30), <1>2, <2>1 DEF LinksHeld, p
<1> QED BY ZenonT(30), <1>2 DEF LinksHeld

LEMMA HeldMod ==
    ASSUME NEW ch, NEW s \in Store, NEW r \in Store, NEW m \in Message, ModMade(s, r, m),
           ModEvent(m) \in LinkEvent, s.status[m.H] = "live",
           Held(ch, s), Backed(ch, m), m.Type = "MOD_REQUEST"
    PROVE  Held(ch, r) /\ Onward(s, r, m)
<1>1. m.H \in Hash /\ m.E \in Hash
    BY ZenonT(30), MessageFields
<1>2. r.status[m.H] = "modified" /\ \A h \in Hash : h # m.H => r.status[h] = s.status[h]
    BY ZenonT(30), <1>1, StoreFields DEF ModMade
<1>3. r.replacedBy[m.H] = m.E /\ \A h \in Hash : h # m.H => r.replacedBy[h] = s.replacedBy[h]
    BY ZenonT(30), <1>1, StoreFields DEF ModMade
<1>4. As(ch, "mod", m.E, m.H)
    BY ZenonT(30) DEF Backed
<1>5. \A h \in Ordinary : h \in Hash
    BY ZenonT(30) DEF Ordinary
<1>6. LinksHeld(ch, r)
    <2>1. ModEvent(m).Tag \notin Tag
        BY ZenonT(30), PublishAssumption DEF ModEvent
    <2> QED BY ZenonT(30), <2>1, EventHeld DEF ModMade, Held
<1>7. "modified" # "deleted" /\ "modified" # "absent" /\ "live" # "absent"
    OBVIOUS
<1>8. Held(ch, r)
    BY ZenonT(30), <1>1, <1>2, <1>3, <1>4, <1>5, <1>6, <1>7 DEF Held
<1>9. Onward(s, r, m)
    BY ZenonT(30), <1>1, <1>2, <1>7 DEF Onward
<1> QED BY ZenonT(30), <1>8, <1>9

LEMMA HeldDel ==
    ASSUME NEW ch, NEW s \in Store, NEW r \in Store, NEW m \in Message, DelMade(s, r, m),
           s.status[m.H] = "live", Held(ch, s), Backed(ch, m), m.Type = "DEL_REQUEST"
    PROVE  Held(ch, r) /\ Onward(s, r, m)
<1>1. m.H \in Hash /\ m.E \in Hash
    BY ZenonT(30), MessageFields
<1>2. r.status[m.H] = "deleted" /\ \A h \in Hash : h # m.H => r.status[h] = s.status[h]
    BY ZenonT(30), <1>1, StoreFields DEF DelMade
<1>3. r.replacedBy = s.replacedBy /\ r.links = s.links
    BY ZenonT(30) DEF DelMade
<1>4. As(ch, "del", m.E, m.H)
    BY ZenonT(30) DEF Backed
<1>5. \A h \in Ordinary : h \in Hash
    BY ZenonT(30) DEF Ordinary
<1>6. LinksHeld(ch, r)
    BY ZenonT(30), <1>3 DEF Held, LinksHeld
<1>7. "modified" # "deleted" /\ "deleted" # "absent" /\ "live" # "absent"
    OBVIOUS
<1>8. Held(ch, r)
    BY ZenonT(30), <1>1, <1>2, <1>3, <1>4, <1>5, <1>6, <1>7 DEF Held
<1>9. Onward(s, r, m)
    BY ZenonT(30), <1>1, <1>2, <1>7 DEF Onward
<1> QED BY ZenonT(30), <1>8, <1>9

\* What is left alone when links are stored.
SameEntries(s, r) == r.status = s.status /\ r.replacedBy = s.replacedBy

\* Storing links leaves statuses and replacements alone.
LEMMA LinkKeeps ==
    ASSUME NEW s \in Store, NEW r, NEW m \in Message, LinkMade(s, r, m)
    PROVE  r \in Store /\ SameEntries(s, r)
<1> DEFINE links == LinksEntry[m.E]
           n == Len(links)
<1>1. PICK f : Linked(f, s, m, links) /\ r = f[n]
    BY ZenonT(30) DEF LinkMade
<1>2. links \in Seq(Link)
    BY ZenonT(30), MessageFields
<1> HIDE DEF links
<1>3. n \in Nat /\ \A k \in 1..n : links[k] \in Link
    BY <1>2
<1>4. f \in [0..n -> Store] /\ f[0] = s /\ \A k \in 1..n : f[k] = Round(f[k - 1], m, links[k])
    BY ZenonT(30), <1>1 DEF Linked
<1> HIDE DEF n
<1> DEFINE T == {k \in 0..n : SameEntries(s, f[k])}
<1>5. 0 \in T
    <2>1. 0 \in 0..n
        BY <1>3
    <2> QED BY ZenonT(30), <1>4, <2>1 DEF SameEntries
<1>6. ASSUME NEW k \in 0..(n - 1), k \in T PROVE k + 1 \in T
    <2>1. k \in 0..n /\ k + 1 \in 1..n /\ k + 1 \in 0..n /\ (k + 1) - 1 = k
        BY <1>3
    <2>2. f[k] \in Store /\ f[k + 1] = Round(f[k], m, links[k + 1]) /\ links[k + 1] \in Link
        BY ZenonT(30), <1>3, <1>4, <2>1
    <2> DEFINE x == f[k]
               l == links[k + 1]
               y == Round(x, m, l)
    <2> HIDE DEF x, l
    <2>3. y.status = x.status /\ y.replacedBy = x.replacedBy
        BY ZenonT(30), <2>2, RoundEffect DEF x, l
    <2> HIDE DEF y
    <2>4. SameEntries(s, x)
        BY ZenonT(30), <1>6 DEF x
    <2>5. SameEntries(s, y)
        BY ZenonT(30), <2>3, <2>4 DEF SameEntries
    <2> QED BY ZenonT(30), <2>1, <2>2, <2>5 DEF x, y, l
<1> HIDE DEF T
<1>7. n \in T
    <2>1. n \in 0..n
        BY <1>3
    <2> QED BY ZenonT(30), <1>3, <1>5, <1>6, <2>1, Counting
<1>8. n \in 0..n
    BY <1>3
<1> QED BY ZenonT(30), <1>1, <1>4, <1>7, <1>8 DEF T

LEMMA LinkHolds ==
    ASSUME NEW ch, NEW s \in Store, NEW r, NEW m \in Message, LinkMade(s, r, m), LinksHeld(ch, s),
           As(ch, "commit", m.E, m.E)
    PROVE  LinksHeld(ch, r)
<1> DEFINE links == LinksEntry[m.E]
           n == Len(links)
<1>1. PICK f : Linked(f, s, m, links) /\ r = f[n]
    BY ZenonT(30) DEF LinkMade
<1>2. links \in Seq(Link) /\ m.E \in Hash
    BY ZenonT(30), MessageFields
<1>10. \A k \in DOMAIN links : LinkCommitted(ch, links[k].Base, links[k].Link)
    BY ZenonT(30), <1>2 DEF LinkCommitted
<1> HIDE DEF links
<1>3. n \in Nat /\ \A k \in 1..n : links[k] \in Link /\ k \in DOMAIN links
    BY <1>2
<1>4. f \in [0..n -> Store] /\ f[0] = s /\ \A k \in 1..n : f[k] = Round(f[k - 1], m, links[k])
    BY ZenonT(30), <1>1 DEF Linked
<1> HIDE DEF n
<1> DEFINE T == {k \in 0..n : LinksHeld(ch, f[k])}
<1>5. 0 \in T
    <2>1. 0 \in 0..n
        BY <1>3
    <2> QED BY ZenonT(30), <1>4, <2>1
<1>6. ASSUME NEW k \in 0..(n - 1), k \in T PROVE k + 1 \in T
    <2>1. k \in 0..n /\ k + 1 \in 1..n /\ k + 1 \in 0..n /\ (k + 1) - 1 = k
        BY <1>3
    <2>2. /\ f[k] \in Store /\ f[k + 1] = Round(f[k], m, links[k + 1])
          /\ links[k + 1] \in Link /\ LinkCommitted(ch, links[k + 1].Base, links[k + 1].Link)
        BY ZenonT(30), <1>3, <1>4, <1>10, <2>1
    <2> DEFINE x == f[k]
               l == links[k + 1]
               y == Round(x, m, l)
    <2> HIDE DEF x, l
    <2>3. /\ EventOf(m, l) \in LinkEvent
          /\ Stores(x, m, l) => y.links = Append(x.links, EventOf(m, l))
          /\ ~Stores(x, m, l) => y = x
        BY ZenonT(30), <2>2, RoundEffect DEF x, l
    <2> HIDE DEF y
    <2>4. LinksHeld(ch, x)
        BY ZenonT(30), <1>6 DEF x
    <2>5. EventOf(m, l).Base = l.Base /\ EventOf(m, l).Link = l.Link
        BY ZenonT(30) DEF EventOf
    <2>6. LinkCommitted(ch, l.Base, l.Link) /\ x \in Store
        BY ZenonT(30), <2>2 DEF l, x
    <2>7. LinksHeld(ch, y)
        <3>1. CASE Stores(x, m, l)
            BY ZenonT(30), <2>3, <2>4, <2>5, <2>6, <3>1, EventHeld
        <3>2. CASE ~Stores(x, m, l)
            BY ZenonT(30), <2>3, <2>4, <3>2
        <3> QED BY ZenonT(30), <3>1, <3>2
    <2> QED BY ZenonT(30), <2>1, <2>2, <2>7 DEF x, y, l
<1> HIDE DEF T
<1>7. n \in T
    <2>1. n \in 0..n
        BY <1>3
    <2> QED BY ZenonT(30), <1>3, <1>5, <1>6, <2>1, Counting
<1>8. n \in 0..n
    BY <1>3
<1> QED BY ZenonT(30), <1>1, <1>7 DEF T

\* Receiving a message.
LEMMA HeldKept ==
    ASSUME NEW ch, NEW n \in Peer, NEW m \in Message, dht[n] \in Store, Held(ch, dht[n]), Backed(ch, m),
           m.Type = "PUT_REQUEST" \/ dht[n].status[m.H] = "live"
    PROVE  /\ RunValidationPhase(n, m) \in Store /\ Held(ch, RunValidationPhase(n, m))
           /\ Onward(dht[n], RunValidationPhase(n, m), m)
<1> DEFINE s == dht[n]
           r == RunValidationPhase(n, m)
<1>1. m.Type \in {"PUT_REQUEST", "MOD_REQUEST", "DEL_REQUEST", "LINK_REQUEST"}
    BY ZenonT(30), MessageFields
<1>2. "live" # "absent" /\ "PUT_REQUEST" \notin {"MOD_REQUEST", "DEL_REQUEST", "LINK_REQUEST"}
    OBVIOUS
<1>3. CASE ~Valid(n, m)
    <2>1. r = s
        BY ZenonT(30), <1>3, InvalidPhase
    <2> QED BY ZenonT(30), <2>1 DEF Onward
<1>4. CASE Valid(n, m) /\ m.Type = "PUT_REQUEST"
    <2>1. r \in Store /\ PutMade(s, r, m, PutStatus(n, m))
        BY ZenonT(30), <1>4, PutPhase
    <2> HIDE DEF s, r
    <2>2. s \in Store /\ Held(ch, s)
        BY ZenonT(30) DEF s
    <2>3. Held(ch, r) /\ Onward(s, r, m)
        BY ZenonT(30), <1>4, <2>1, <2>2, HeldPut
    <2> QED BY ZenonT(30), <2>1, <2>3 DEF s, r
<1>5. CASE Valid(n, m) /\ m.Type = "MOD_REQUEST"
    <2>1. r \in Store /\ ModMade(s, r, m) /\ ModEvent(m) \in LinkEvent
        BY ZenonT(30), <1>2, <1>5, ModPhase
    <2> HIDE DEF s, r
    <2>2. s \in Store /\ Held(ch, s) /\ s.status[m.H] = "live"
        BY ZenonT(30), <1>2, <1>5 DEF s
    <2>3. Held(ch, r) /\ Onward(s, r, m)
        BY ZenonT(30), <1>5, <2>1, <2>2, HeldMod
    <2> QED BY ZenonT(30), <2>1, <2>3 DEF s, r
<1>6. CASE Valid(n, m) /\ m.Type = "DEL_REQUEST"
    <2>1. r \in Store /\ DelMade(s, r, m)
        BY ZenonT(30), <1>2, <1>6, DelPhase
    <2> HIDE DEF s, r
    <2>2. s \in Store /\ Held(ch, s) /\ s.status[m.H] = "live"
        BY ZenonT(30), <1>2, <1>6 DEF s
    <2>3. Held(ch, r) /\ Onward(s, r, m)
        BY ZenonT(30), <1>6, <2>1, <2>2, HeldDel
    <2> QED BY ZenonT(30), <2>1, <2>3 DEF s, r
<1>7. CASE Valid(n, m) /\ m.Type = "LINK_REQUEST"
    <2>1. LinkMade(s, r, m)
        BY ZenonT(30), <1>7, LinkPhase
    <2> HIDE DEF s, r
    <2>2. s \in Store /\ Held(ch, s) /\ As(ch, "commit", m.E, m.E)
        BY ZenonT(30), <1>7 DEF s, Backed
    <2>3. r \in Store /\ SameEntries(s, r)
        BY ZenonT(30), <2>1, <2>2, LinkKeeps
    <2>4. LinksHeld(ch, r)
        BY ZenonT(30), <2>1, <2>2, LinkHolds DEF Held
    <2>5. Held(ch, r) /\ Onward(s, r, m)
        BY ZenonT(30), <2>2, <2>3, <2>4 DEF Held, SameEntries, Onward
    <2> QED BY ZenonT(30), <2>3, <2>5 DEF s, r
<1> QED BY ZenonT(30), <1>1, <1>3, <1>4, <1>5, <1>6, <1>7

-----------------------------------------------------------------------------
(* What calls send *)

-----------------------------------------------------------------------------
(* Sending *)

LinkMsgs(e) == {Msg("LINK_REQUEST", LinksEntry[e][k].Base, e) : k \in DOMAIN LinksEntry[e]}

Repeats(links, k) == \E j \in 1..(k - 1) : links[j].Base = links[k].Base

\* The function by which LinkChanges is computed.
ChangesFcn(e) ==
    CHOOSE f : f = [k \in 0..Len(LinksEntry[e]) |->
                        IF k = 0 THEN << >>
                        ELSE IF \E j \in 1..(k - 1) : LinksEntry[e][j].Base = LinksEntry[e][k].Base
                        THEN f[k - 1]
                        ELSE Append(f[k - 1], Msg("LINK_REQUEST", LinksEntry[e][k].Base, e))]

\* LinkChanges has a change for bases of the entry only.
LEMMA LinkChangesAre ==
    ASSUME NEW e \in Hash
    PROVE  LinkChanges(e) \in Seq(LinkMsgs(e))
<1> DEFINE links == LinksEntry[e]
           n == Len(links)
           S == Seq(LinkMsgs(e))
           x(k) == Msg("LINK_REQUEST", links[k].Base, e)
           Grow(k, r) == IF Repeats(links, k) THEN r ELSE Append(r, x(k))
           step == [i \in 1..n |-> [r \in S |-> Grow(i, r)]]
           Body(f) == [k \in 0..n |-> IF k = 0 THEN << >> ELSE Grow(k, f[k - 1])]
           h == ChangesFcn(e)
<1>0. links \in Seq(Link)
    BY ZenonT(30), ConstantsAssumption
<1>1. n \in Nat /\ 0 \in 0..n /\ n \in 0..n /\ \A i \in 1..n : i \in DOMAIN links
    BY <1>0
<1>2. \A i \in 1..n : x(i) \in LinkMsgs(e)
    BY ZenonT(30), <1>1 DEF LinkMsgs
<1>9. LinkChanges(e) = h[n]
    BY ZenonT(30) DEF LinkChanges, ChangesFcn
<1>10. (\E f : f = Body(f)) => h = Body(h)
    BY ZenonT(30) DEF ChangesFcn, Repeats
<1> HIDE DEF n, x, links, h
<1>3. \A i \in 0..n : i = 0 \/ (i # 0 /\ i \in 1..n)
    BY <1>1
<1>4. \A i \in 1..n : i \in Nat /\ i # 0 /\ i \in 0..n /\ i - 1 \in 0..n
    BY <1>1
<1>5. \A i \in 1..n, r \in S : Grow(i, r) \in S
    <2>1. \A i \in 1..n, r \in S : Append(r, x(i)) \in S
        BY <1>2
    <2> QED BY ZenonT(30), <2>1
<1> HIDE DEF S, Grow
<1>6. /\ step \in [1..n -> [S -> S]]
      /\ \A i \in 1..n, r \in S : step[i][r] = Grow(i, r)
    BY ZenonT(30), <1>5
<1>7. << >> \in S
    BY DEF S
<1> HIDE DEF step
<1>8. PICK f \in [0..n -> S] : Goes(f, << >>, step, n)
    BY ZenonT(30), <1>1, <1>6, <1>7, Recursion
<1>11. f[0] = << >> /\ \A i \in 1..n : f[i] = Grow(i, f[i - 1])
    BY ZenonT(30), <1>4, <1>6, <1>8 DEF Goes
<1>12. f = Body(f)
    <2>1. ASSUME NEW i \in 0..n
          PROVE  f[i] = IF i = 0 THEN << >> ELSE Grow(i, f[i - 1])
        BY ZenonT(30), <1>3, <1>11
    <2> QED BY ZenonT(30), <1>8, <2>1
<1>13. h = Body(h)
    BY ZenonT(30), <1>10, <1>12
<1>14. /\ h = [i \in 0..n |-> h[i]]
       /\ \A i \in 0..n : h[i] = IF i = 0 THEN << >> ELSE Grow(i, h[i - 1])
    BY ZenonT(30), <1>13
<1>15. h[0] = << >> /\ \A i \in 1..n : h[i] = Grow(i, h[i - 1])
    BY ZenonT(30), <1>1, <1>4, <1>14
<1>16. h \in [0..n -> S] /\ Goes(h, << >>, step, n)
    <2>1. \A i \in 1..n : h[i - 1] \in S => h[i] = step[i][h[i - 1]]
        BY ZenonT(30), <1>6, <1>15
    <2>2. h = [i \in 0..n |-> h[i]] /\ h[0] = << >>
        BY ZenonT(30), <1>14, <1>15
    <2>3. Loops(h, << >>, step, n, S)
        BY ZenonT(30), <2>1, <2>2 DEF Loops
    <2> QED BY ZenonT(30), <1>1, <1>6, <1>7, <2>3, OneLoop
<1> QED BY ZenonT(30), <1>1, <1>9, <1>16 DEF S

-----------------------------------------------------------------------------
\* What is on a chain stays there.
LEMMA OnStays ==
    ASSUME NEW ch \in Seq(Committed), NEW x \in Committed
    PROVE  /\ \A e : On(ch, e) => On(Append(ch, x), e)
           /\ \A a, e, h : As(ch, a, e, h) => As(Append(ch, x), a, e, h)
           /\ On(Append(ch, x), x.E)
           /\ As(Append(ch, x), x.Action, x.E, x.H)
<1>1. /\ \A i \in DOMAIN ch : i \in DOMAIN Append(ch, x) /\ Append(ch, x)[i] = ch[i]
      /\ Len(ch) + 1 \in DOMAIN Append(ch, x) /\ Append(ch, x)[Len(ch) + 1] = x
    OBVIOUS
<1>2. x = [E |-> x.E, Action |-> x.Action, H |-> x.H]
    BY DEF Committed
<1> QED BY ZenonT(30), <1>1, <1>2 DEF On, As

\* ch has all that is on chain ch0.
Longer(ch0, ch) ==
    /\ \A e : On(ch0, e) => On(ch, e)
    /\ \A a, e, h : As(ch0, a, e, h) => As(ch, a, e, h)

\* A longer chain backs all that the shorter one did.
LEMMA LongerKeeps ==
    ASSUME NEW ch0, NEW ch, Longer(ch0, ch)
    PROVE  /\ \A m : Backed(ch0, m) => Backed(ch, m)
           /\ \A s : Held(ch0, s) => Held(ch, s)
<1>1. \A m : Backed(ch0, m) => Backed(ch, m)
    BY ZenonT(30) DEF Longer, Backed
<1>2. \A s : LinksHeld(ch0, s) => LinksHeld(ch, s)
    <2>1. \A b, l : LinkCommitted(ch0, b, l) => LinkCommitted(ch, b, l)
        BY ZenonT(30) DEF Longer, LinkCommitted
    <2> QED BY ZenonT(30), <2>1 DEF LinksHeld
<1>3. \A s : Held(ch0, s) => Held(ch, s)
    BY ZenonT(30), <1>2 DEF Longer, Held
<1> QED BY ZenonT(30), <1>1, <1>3

\* What a call sends on a chain.
Sendable(ch, t) == t \in Seq(Message) /\ AllBacked(ch, t) /\ Shape(t)

\* What commit, mod and del send: nothing, one change, or a put and a mod.
LEMMA NoneSent ==
    ASSUME NEW ch
    PROVE  Sendable(ch, << >>)
<1>1. << >> \in Seq(Message) /\ DOMAIN << >> = {}
    OBVIOUS
<1> QED BY ZenonT(30), <1>1 DEF Sendable, AllBacked, Shape

LEMMA OneSent ==
    ASSUME NEW ch, NEW m \in Message, Backed(ch, m), m.Type # "MOD_REQUEST"
    PROVE  Sendable(ch, <<m>>)
<1>1. <<m>> \in Seq(Message) /\ \A i \in DOMAIN <<m>> : <<m>>[i] = m
    OBVIOUS
<1> QED BY ZenonT(30), <1>1 DEF Sendable, AllBacked, Shape

LEMMA CommitSent ==
    ASSUME TypeOK, NEW e \in Hash \ DOMAIN Deletes, Len(chain) < MaxCommits, sysValidateEntry(e),
           NEW ch, On(ch, e), As(ch, "commit", e, e)
    PROVE  Sendable(ch, CommitSends(e))
<1>1. Len(chain) + 1 \in 1..MaxCommits /\ e \in Hash
    BY PublishAssumption DEF TypeOK
<1> DEFINE i == Len(chain) + 1
<1>2. \A t, h : Msg(t, h, e) = MsgAt(i, t, h, e)
    BY ZenonT(30) DEF Msg
<1> HIDE DEF i
<1>3. /\ EntryDef[e].DataFormat = "links" =>
            \A k \in DOMAIN LinksEntry[e] : MsgAt(i, "LINK_REQUEST", LinksEntry[e][k].Base, e) \in Message
      /\ EntryDef[e].DataFormat # "links" /\ Public(e) => MsgAt(i, "PUT_REQUEST", e, e) \in Message
    BY ZenonT(30), <1>1, SentAssumption DEF i
<1>4. "LINK_REQUEST" \notin {"MOD_REQUEST", "PUT_REQUEST", "DEL_REQUEST"}
    OBVIOUS
<1>5. CASE EntryDef[e].DataFormat = "links"
    <2>1. \A m \in LinkMsgs(e) : m \in Message /\ m.Type = "LINK_REQUEST" /\ m.E = e
        <3>1. ASSUME NEW k \in DOMAIN LinksEntry[e]
              PROVE  LET m == MsgAt(i, "LINK_REQUEST", LinksEntry[e][k].Base, e)
                     IN  m \in Message /\ m.Type = "LINK_REQUEST" /\ m.E = e
            <4>1. MsgAt(i, "LINK_REQUEST", LinksEntry[e][k].Base, e) \in Message
                BY ZenonT(30), <1>3, <1>5
            <4>2. /\ MsgAt(i, "LINK_REQUEST", LinksEntry[e][k].Base, e).Type = "LINK_REQUEST"
                  /\ MsgAt(i, "LINK_REQUEST", LinksEntry[e][k].Base, e).E = e
                BY ZenonT(30) DEF MsgAt
            <4> QED BY ZenonT(30), <4>1, <4>2
        <3> QED BY ZenonT(30), <1>2, <3>1 DEF LinkMsgs
    <2>2. \A m \in LinkMsgs(e) : Backed(ch, m) /\ m.Type # "MOD_REQUEST"
        BY ZenonT(30), <1>4, <2>1 DEF Backed
    <2> DEFINE t == LinkChanges(e)
               S == LinkMsgs(e)
    <2>3. t \in Seq(S) /\ CommitSends(e) = t
        BY ZenonT(30), <1>1, <1>5, LinkChangesAre DEF CommitSends
    <2> HIDE DEF t, S
    <2>4. t \in Seq(Message) /\ \A k \in DOMAIN t : t[k] \in S
        <3>1. S \subseteq Message
            BY ZenonT(30), <2>1 DEF S
        <3> QED BY <2>3, <3>1
    <2> QED BY ZenonT(30), <2>2, <2>3, <2>4 DEF Sendable, AllBacked, Shape, S
<1>6. CASE EntryDef[e].DataFormat # "links" /\ Public(e)
    <2> DEFINE m == MsgAt(i, "PUT_REQUEST", e, e)
    <2>1. m \in Message /\ m.Type = "PUT_REQUEST" /\ m.H = e /\ m.E = e
        <3>1. m \in Message
            BY ZenonT(30), <1>3, <1>6
        <3>2. m.Type = "PUT_REQUEST" /\ m.H = e /\ m.E = e
            BY ZenonT(30) DEF MsgAt
        <3> QED BY ZenonT(30), <3>1, <3>2
    <2>2. CommitSends(e) = <<m>>
        BY ZenonT(30), <1>2, <1>6 DEF CommitSends
    <2>3. EntryDef[e].Name # "dna"
        BY ZenonT(30) DEF sysValidateEntry
    <2> HIDE DEF m
    <2>4. Backed(ch, m) /\ m.Type # "MOD_REQUEST"
        <3>1. "PUT_REQUEST" \notin {"MOD_REQUEST", "LINK_REQUEST", "DEL_REQUEST"}
            OBVIOUS
        <3> QED BY ZenonT(30), <1>6, <2>1, <2>3, <3>1 DEF Backed
    <2> QED BY ZenonT(30), <2>1, <2>2, <2>4, OneSent
<1>7. CASE EntryDef[e].DataFormat # "links" /\ ~Public(e)
    BY ZenonT(30), <1>7, NoneSent DEF CommitSends
<1> QED BY ZenonT(30), <1>5, <1>6, <1>7

LEMMA ModSent ==
    ASSUME TypeOK, NEW e \in Hash \ DOMAIN Deletes, NEW h \in Hash \ DOMAIN Deletes,
           Len(chain) < MaxCommits, ModValid(e, h), EntryDef[h].Name = EntryDef[e].Name,
           NEW ch, On(ch, e), On(ch, h), As(ch, "mod", e, h)
    PROVE  Sendable(ch, ModSends(e, h))
<1>1. Len(chain) + 1 \in 1..MaxCommits /\ e \in Hash /\ h \in Hash
    BY PublishAssumption DEF TypeOK
<1> DEFINE i == Len(chain) + 1
<1>2. \A t, k : Msg(t, k, e) = MsgAt(i, t, k, e)
    BY ZenonT(30) DEF Msg
<1>0. EntryDef[h] = EntryDef[e]
    BY ZenonT(30), <1>1, PublishAssumption
<1>3. /\ sysValidateEntry(e) /\ EntryDef[e].DataFormat # "links" /\ h # e
      /\ EntryDef[e].Name # "dna" /\ (Public(e) => Public(h))
    BY ZenonT(30), <1>0 DEF ModValid, sysValidateEntry, Public
<1> HIDE DEF i
<1>4. Public(e) => MsgAt(i, "PUT_REQUEST", e, e) \in Message /\ MsgAt(i, "MOD_REQUEST", h, e) \in Message
    BY ZenonT(30), <1>1, <1>3, SentAssumption DEF i
<1>5. CASE Public(e)
    <2> DEFINE p == MsgAt(i, "PUT_REQUEST", e, e)
               m == MsgAt(i, "MOD_REQUEST", h, e)
    <2>1. /\ p \in Message /\ p.Type = "PUT_REQUEST" /\ p.H = e /\ p.E = e
          /\ m \in Message /\ m.Type = "MOD_REQUEST" /\ m.H = h /\ m.E = e
        <3>1. p \in Message /\ m \in Message
            BY ZenonT(30), <1>4, <1>5
        <3>2. /\ p.Type = "PUT_REQUEST" /\ p.H = e /\ p.E = e
              /\ m.Type = "MOD_REQUEST" /\ m.H = h /\ m.E = e
            BY ZenonT(30) DEF MsgAt
        <3> QED BY ZenonT(30), <3>1, <3>2
    <2>2. ModSends(e, h) = <<p, m>>
        BY ZenonT(30), <1>2, <1>5 DEF ModSends
    <2> HIDE DEF p, m
    <2>3. /\ "PUT_REQUEST" \notin {"MOD_REQUEST", "LINK_REQUEST", "DEL_REQUEST"}
          /\ "MOD_REQUEST" \notin {"PUT_REQUEST", "LINK_REQUEST", "DEL_REQUEST"}
        OBVIOUS
    <2>4. Backed(ch, p)
        BY ZenonT(30), <1>3, <1>5, <2>1, <2>3 DEF Backed
    <2>5. Backed(ch, m)
        BY ZenonT(30), <1>0, <1>3, <1>5, <2>1, <2>3 DEF Backed
    <2>6. /\ <<p, m>> \in Seq(Message) /\ Len(<<p, m>>) = 2 /\ <<p, m>>[1] = p /\ <<p, m>>[2] = m
          /\ \A k \in DOMAIN <<p, m>> : k = 1 \/ k = 2
        BY <2>1
    <2>7. AllBacked(ch, <<p, m>>)
        BY ZenonT(30), <2>4, <2>5, <2>6 DEF AllBacked
    <2>8. Shape(<<p, m>>)
        BY ZenonT(30), <2>1, <2>3, <2>6 DEF Shape
    <2> QED BY ZenonT(30), <2>2, <2>6, <2>7, <2>8 DEF Sendable
<1>6. CASE ~Public(e)
    BY ZenonT(30), <1>6, NoneSent DEF ModSends
<1> QED BY ZenonT(30), <1>5, <1>6

LEMMA DelSent ==
    ASSUME TypeOK, NEW e \in DOMAIN Deletes, Len(chain) < MaxCommits,
           NEW ch, As(ch, "del", e, Deletes[e])
    PROVE  Sendable(ch, DelSends(e, Deletes[e]))
<1>1. Len(chain) + 1 \in 1..MaxCommits
    BY PublishAssumption DEF TypeOK
<1>0. e \in Hash
    BY ZenonT(30), PublishAssumption
<1> DEFINE i == Len(chain) + 1
           m == MsgAt(i, "DEL_REQUEST", Deletes[e], e)
<1>2. Msg("DEL_REQUEST", Deletes[e], e) = m
    BY ZenonT(30) DEF Msg
<1> HIDE DEF i
<1>3. Public(e) => m \in Message
    BY ZenonT(30), <1>0, <1>1, SentAssumption DEF i
<1>4. m.Type = "DEL_REQUEST" /\ m.H = Deletes[e] /\ m.E = e
    BY ZenonT(30) DEF MsgAt
<1> HIDE DEF m
<1>5. Backed(ch, m) /\ m.Type # "MOD_REQUEST"
    <2>1. "DEL_REQUEST" \notin {"MOD_REQUEST", "LINK_REQUEST", "PUT_REQUEST"}
        OBVIOUS
    <2> QED BY ZenonT(30), <1>4, <2>1 DEF Backed
<1>6. CASE Public(e)
    BY ZenonT(30), <1>2, <1>3, <1>5, <1>6, OneSent DEF DelSends
<1>7. CASE ~Public(e)
    BY ZenonT(30), <1>7, NoneSent DEF DelSends
<1> QED BY ZenonT(30), <1>6, <1>7

-----------------------------------------------------------------------------
(* The steps *)

-----------------------------------------------------------------------------
(* What is held was committed *)

CallState == [pc : {"idle", "self", "spread", "wait"}, todo : Seq(Message)]
ToRetry == [msg : Message, retries : 0..MaxRetries]

CallTyped(x) == x \in CallState /\ (x.pc = "idle" <=> x.todo = << >>)

\* The type invariant, with names for what the provers need not see.
LEMMA TypedIs ==
    TypeOK <=>
        /\ chain \in Seq(Committed) /\ Len(chain) <= MaxCommits
        /\ call \in [Caller -> CallState] /\ \A c \in Caller : CallTyped(call[c])
        /\ dht \in [Peer -> Store]
        /\ inbox \in [Peer -> SUBSET Message]
        /\ queue \in [Peer -> Seq(ToRetry)]
        /\ faults \in 0..MaxFaults /\ mishaps \subseteq {"cutShort", "queued"}
<1>1. call \in [Caller -> CallState] => \A c \in Caller : call[c] \in CallState
    BY ZenonT(30)
<1> QED BY ZenonT(30), <1>1 DEF TypeOK, CallTyped, CallState, ToRetry

LEMMA TypedIsPrime ==
    TypeOK' <=>
        /\ chain' \in Seq(Committed) /\ Len(chain') <= MaxCommits
        /\ call' \in [Caller -> CallState] /\ \A c \in Caller : CallTyped(call'[c])
        /\ dht' \in [Peer -> Store]
        /\ inbox' \in [Peer -> SUBSET Message]
        /\ queue' \in [Peer -> Seq(ToRetry)]
        /\ faults' \in 0..MaxFaults /\ mishaps' \subseteq {"cutShort", "queued"}
<1>1. call' \in [Caller -> CallState] => \A c \in Caller : call'[c] \in CallState
    BY ZenonT(30)
<1> QED BY ZenonT(30), <1>1 DEF TypeOK, CallTyped, CallState, ToRetry

\* The caller c goes on with t.
LEMMA ProceedStep ==
    ASSUME TypeOK, NEW c \in Caller, NEW t \in Seq(Message), Proceed(c, t)
    PROVE  /\ call' \in [Caller -> CallState] /\ \A d \in Caller : CallTyped(call'[d])
           /\ \A d \in Caller : d # c => call'[d] = call[d]
           /\ call'[c].todo = t /\ call'[c].pc \in {"idle", "self"}
<1> DEFINE x == [pc |-> IF t = << >> THEN "idle" ELSE "self", todo |-> t]
<1>1. x.todo = t /\ x.pc \in {"idle", "self"} /\ (x.pc = "idle" <=> t = << >>)
    <2>1. "idle" # "self"
        OBVIOUS
    <2> QED BY ZenonT(30), <2>1
<1>2. x \in CallState
    BY ZenonT(30) DEF CallState
<1>3. call' = [call EXCEPT ![c] = x]
    BY ZenonT(30) DEF Proceed
<1>4. call \in [Caller -> CallState] /\ \A d \in Caller : CallTyped(call[d])
    BY ZenonT(30), TypedIs
<1> HIDE DEF x
<1>5. CallTyped(x)
    BY ZenonT(30), <1>1, <1>2 DEF CallTyped
<1>6. /\ call' \in [Caller -> CallState] /\ call'[c] = x
      /\ \A d \in Caller : d # c => call'[d] = call[d]
    BY ZenonT(30), <1>2, <1>3, <1>4
<1> QED BY ZenonT(30), <1>1, <1>4, <1>5, <1>6

\* A call that is not idle has a change to send.
LEMMA BusyHas ==
    ASSUME TypeOK, NEW c \in Caller, call[c].pc # "idle"
    PROVE  /\ call[c].todo \in Seq(Message) /\ call[c].todo # << >>
           /\ Head(call[c].todo) \in Message /\ Tail(call[c].todo) \in Seq(Message)
           /\ 1 \in DOMAIN call[c].todo /\ call[c].todo[1] = Head(call[c].todo)
           /\ \A i \in DOMAIN Tail(call[c].todo) :
                 i + 1 \in DOMAIN call[c].todo /\ Tail(call[c].todo)[i] = call[c].todo[i + 1]
<1> DEFINE t == call[c].todo
<1>1. t \in Seq(Message) /\ t # << >>
    BY ZenonT(30), TypedIs DEF CallTyped, CallState
<1> HIDE DEF t
<1>2. /\ Head(t) \in Message /\ Tail(t) \in Seq(Message) /\ 1 \in DOMAIN t /\ t[1] = Head(t)
      /\ \A i \in DOMAIN Tail(t) : i + 1 \in DOMAIN t /\ Tail(t)[i] = t[i + 1]
    BY <1>1
<1> QED BY ZenonT(30), <1>1, <1>2 DEF t

\* The first and the last of a sequence.
LEMMA HasFirst ==
    ASSUME NEW S, NEW t \in Seq(S), t # << >>
    PROVE  /\ Head(t) \in S /\ Tail(t) \in Seq(S) /\ 1 \in DOMAIN t /\ t[1] = Head(t)
           /\ \A i \in DOMAIN Tail(t) : i + 1 \in DOMAIN t /\ Tail(t)[i] = t[i + 1]
OBVIOUS

LEMMA HasLast ==
    ASSUME NEW S, NEW t \in Seq(S), NEW x \in S
    PROVE  /\ Append(t, x) \in Seq(S)
           /\ \A i \in DOMAIN Append(t, x) : (i \in DOMAIN t /\ Append(t, x)[i] = t[i]) \/ Append(t, x)[i] = x
OBVIOUS

\* Node n receives m; rest is its queue without m.
LEMMA ReceiveStep ==
    ASSUME HInv, NEW n \in Peer, NEW m \in Message, Backed(chain, m),
           NEW k \in 0..MaxRetries, NEW rest \in Seq(ToRetry), QueueBacked(chain, rest),
           Receive(n, m, k, rest)
    PROVE  /\ dht' \in [Peer -> Store] /\ \A p \in Peer : Held(chain, dht'[p])
           /\ \A p \in Peer : p # n => dht'[p] = dht[p]
           /\ Onward(dht[n], dht'[n], m)
           /\ queue' \in [Peer -> Seq(ToRetry)] /\ \A p \in Peer : QueueBacked(chain, queue'[p])
           /\ mishaps' \subseteq {"cutShort", "queued"}
           /\ There(dht'[n], m)
<1> DEFINE s == dht[n]
           r == RunValidationPhase(n, m)
           err == IF m.Type = "PUT_REQUEST" THEN "nil" ELSE GetErr(s, m.H, {})
           x == [msg |-> m, retries |-> k]
           late == Append(rest, x)
<1>1. /\ dht \in [Peer -> Store] /\ queue \in [Peer -> Seq(ToRetry)]
      /\ mishaps \subseteq {"cutShort", "queued"} /\ \A p \in Peer : Held(chain, dht[p])
      /\ \A p \in Peer : QueueBacked(chain, queue[p])
    BY ZenonT(30), TypedIs DEF HInv, BackedInv
<1>2. /\ dht' = IF err = "nil" THEN [dht EXCEPT ![n] = r] ELSE dht
      /\ queue' = [queue EXCEPT ![n] = IF err = "ErrHashNotFound" THEN late ELSE rest]
      /\ mishaps' \subseteq mishaps \cup {"queued"}
    BY ZenonT(30) DEF Receive
<1>3. m.H \in Hash /\ s \in Store
    BY ZenonT(30), <1>1, MessageFields
<1>4. err = "nil" => m.Type = "PUT_REQUEST" \/ s.status[m.H] = "live"
    BY ZenonT(30), <1>3, DefaultErr
<1>5. err = "ErrHashNotFound" => m.Type # "PUT_REQUEST"
    <2>1. "nil" # "ErrHashNotFound"
        OBVIOUS
    <2> QED BY ZenonT(30), <2>1
<1>12. m.Type = "PUT_REQUEST" => err = "nil"
    BY ZenonT(30)
<1>6. err = "nil" => r \in Store /\ Held(chain, r) /\ Onward(s, r, m)
    BY ZenonT(30), <1>1, <1>3, <1>4, HeldKept
<1>13. m.Type = "PUT_REQUEST" => r.status[m.H] # "absent"
    <2> SUFFICES ASSUME m.Type = "PUT_REQUEST" PROVE r.status[m.H] # "absent"
        OBVIOUS
    <2>1. ActionOf[m.Type] = "put" /\ "put" # "link" /\ "live" # "absent" /\ "rejected" # "absent"
        BY DEF ActionOf
    <2>2. Valid(n, m)
        BY ZenonT(30), <2>1 DEF Valid, GetValidationResponse, Backed, On, OnChain
    <2>3. PutMade(s, r, m, PutStatus(n, m))
        BY ZenonT(30), <1>3, <2>2, PutPhase
    <2> HIDE DEF s, r
    <2> QED BY ZenonT(30), <1>3, <2>1, <2>3, StoreFields DEF PutMade
<1>7. x \in ToRetry /\ x.msg = m
    BY ZenonT(30) DEF ToRetry
<1>8. Onward(s, s, m)
    BY ZenonT(30) DEF Onward
<1> HIDE DEF s, r, err, x
<1>9. m.Type # "PUT_REQUEST" => late \in Seq(ToRetry) /\ QueueBacked(chain, late)
    <2>1. /\ late \in Seq(ToRetry)
          /\ \A i \in DOMAIN late : (i \in DOMAIN rest /\ late[i] = rest[i]) \/ late[i] = x
        BY ONLY <1>7, rest \in Seq(ToRetry)
    <2> QED BY ZenonT(30), <1>7, <2>1 DEF QueueBacked
<1> HIDE DEF late
<1>10. /\ dht' \in [Peer -> Store] /\ \A p \in Peer : Held(chain, dht'[p])
       /\ \A p \in Peer : p # n => dht'[p] = dht[p]
       /\ Onward(s, dht'[n], m)
       /\ There(dht'[n], m)
    <2>1. CASE err = "nil"
        <3>1. dht' = [dht EXCEPT ![n] = r]
            BY ZenonT(30), <1>2, <2>1
        <3>2. dht'[n] = r /\ \A p \in Peer : p # n => dht'[p] = dht[p]
            BY ZenonT(30), <1>1, <3>1
        <3>3. dht' \in [Peer -> Store]
            BY ZenonT(30), <1>1, <1>6, <2>1, <3>1
        <3> QED BY ZenonT(30), <1>1, <1>6, <1>13, <2>1, <3>2, <3>3 DEF There
    <2>2. CASE err # "nil"
        <3>1. dht' = dht
            BY ZenonT(30), <1>2, <2>2
        <3> QED BY ZenonT(30), <1>1, <1>8, <1>12, <2>2, <3>1 DEF s, There
    <2> QED BY ZenonT(30), <2>1, <2>2
<1>11. queue' \in [Peer -> Seq(ToRetry)] /\ \A p \in Peer : QueueBacked(chain, queue'[p])
    <2>1. CASE err = "ErrHashNotFound"
        <3>1. queue' = [queue EXCEPT ![n] = late]
            BY ZenonT(30), <1>2, <2>1
        <3> QED BY ZenonT(30), <1>1, <1>5, <1>9, <2>1, <3>1
    <2>2. CASE err # "ErrHashNotFound"
        <3>1. queue' = [queue EXCEPT ![n] = rest]
            BY ZenonT(30), <1>2, <2>2
        <3> QED BY ZenonT(30), <1>1, <3>1
    <2> QED BY ZenonT(30), <2>1, <2>2
<1> QED BY ZenonT(30), <1>1, <1>2, <1>10, <1>11 DEF s

\* The invariant, conjunct by conjunct.
LEMMA HInvIs ==
    HInv =>
        /\ chain \in Seq(Committed) /\ Len(chain) <= MaxCommits
        /\ call \in [Caller -> CallState] /\ \A c \in Caller : CallTyped(call[c])
        /\ dht \in [Peer -> Store]
        /\ inbox \in [Peer -> SUBSET Message]
        /\ queue \in [Peer -> Seq(ToRetry)]
        /\ faults \in 0..MaxFaults /\ mishaps \subseteq {"cutShort", "queued"}
        /\ AuthorHolds /\ BackedInv /\ SentInv /\ TypeOK
        /\ \A n \in Peer : Held(chain, dht[n])
BY ZenonT(30), TypedIs DEF HInv

\* A call commits.
LEMMA DoStep ==
    ASSUME HInv, NEW c \in Caller, NEW action \in {"commit", "mod", "del"}, NEW e \in Hash, NEW h \in Hash,
           NEW sends, Sendable(Append(chain, [E |-> e, Action |-> action, H |-> h]), sends),
           doCommit(c, action, e, h, sends)
    PROVE  HInv'
<1> DEFINE x == [E |-> e, Action |-> action, H |-> h]
<1>1. x \in Committed
    BY ZenonT(30) DEF Committed
<1>2. /\ chain \in Seq(Committed) /\ call \in [Caller -> CallState]
      /\ dht \in [Peer -> Store] /\ inbox \in [Peer -> SUBSET Message] /\ queue \in [Peer -> Seq(ToRetry)]
      /\ faults \in 0..MaxFaults /\ mishaps \subseteq {"cutShort", "queued"}
      /\ AuthorHolds /\ BackedInv /\ SentInv /\ TypeOK
      /\ \A n \in Peer : Held(chain, dht[n])
    BY ZenonT(30), HInvIs
<1>3. /\ chain' = Append(chain, x) /\ dht' = dht /\ inbox' = inbox /\ queue' = queue
      /\ faults' = faults /\ mishaps' = mishaps /\ Proceed(c, sends) /\ Len(chain) < MaxCommits
    BY ZenonT(30) DEF doCommit
<1>4. sends \in Seq(Message) /\ AllBacked(chain', sends)
    BY ZenonT(30), <1>3 DEF Sendable
<1> HIDE DEF x
<1>5. chain' \in Seq(Committed) /\ Len(chain') <= MaxCommits
    BY <1>1, <1>2, <1>3, PublishAssumption
<1>6. Longer(chain, chain')
    BY ZenonT(30), <1>1, <1>2, <1>3, OnStays DEF Longer
<1>7. /\ \A m : Backed(chain, m) => Backed(chain', m)
      /\ \A s : Held(chain, s) => Held(chain', s)
    BY ZenonT(30), <1>6, LongerKeeps
<1>8. /\ call' \in [Caller -> CallState] /\ \A d \in Caller : CallTyped(call'[d])
      /\ \A d \in Caller : d # c => call'[d] = call[d]
      /\ call'[c].todo = sends /\ call'[c].pc \in {"idle", "self"}
    BY ZenonT(30), <1>2, <1>3, <1>4, ProceedStep
<1>9. TypeOK'
    BY ZenonT(30), <1>2, <1>3, <1>5, <1>8, TypedIsPrime
<1>10. AuthorHolds'
    BY ZenonT(30), <1>2, <1>3 DEF AuthorHolds
<1>11. BackedInv'
    <2>1. \A d \in Caller : AllBacked(chain', call'[d].todo)
        BY ZenonT(30), <1>2, <1>4, <1>7, <1>8 DEF BackedInv, AllBacked
    <2>2. \A n \in Peer : \A m \in inbox'[n] : Backed(chain', m)
        BY ZenonT(30), <1>2, <1>3, <1>7 DEF BackedInv
    <2>3. \A n \in Peer : QueueBacked(chain', queue'[n])
        BY ZenonT(30), <1>2, <1>3, <1>7 DEF BackedInv, QueueBacked
    <2> QED BY ZenonT(30), <2>1, <2>2, <2>3 DEF BackedInv
<1>12. SentInv'
    <2>1. "idle" \notin {"spread", "wait"} /\ "self" \notin {"spread", "wait"}
        OBVIOUS
    <2> QED BY ZenonT(30), <1>2, <1>3, <1>8, <2>1 DEF SentInv
<1>13. \A n \in Peer : Held(chain', dht'[n])
    BY ZenonT(30), <1>2, <1>3, <1>7
<1> QED BY ZenonT(30), <1>9, <1>10, <1>11, <1>12, <1>13 DEF HInv

\* A call goes on to its next change.
LEMMA NextStep ==
    ASSUME HInv, NEW c \in Caller, call[c].pc # "idle", Proceed(c, Tail(call[c].todo)),
           chain' = chain, dht' = dht, inbox' = inbox, queue' = queue, mishaps' = mishaps,
           faults' \in 0..MaxFaults
    PROVE  HInv'
<1>1. /\ chain \in Seq(Committed) /\ Len(chain) <= MaxCommits
      /\ dht \in [Peer -> Store] /\ inbox \in [Peer -> SUBSET Message] /\ queue \in [Peer -> Seq(ToRetry)]
      /\ mishaps \subseteq {"cutShort", "queued"}
      /\ AuthorHolds /\ BackedInv /\ SentInv /\ TypeOK
      /\ \A n \in Peer : Held(chain, dht[n])
    BY ZenonT(30), HInvIs
<1> DEFINE t == Tail(call[c].todo)
<1>2. /\ t \in Seq(Message)
      /\ \A i \in DOMAIN t : i + 1 \in DOMAIN call[c].todo /\ t[i] = call[c].todo[i + 1]
    BY ZenonT(30), <1>1, BusyHas
<1>3. AllBacked(chain, t)
    BY ZenonT(30), <1>1, <1>2 DEF BackedInv, AllBacked
<1> HIDE DEF t
<1>4. Proceed(c, t)
    BY ZenonT(30) DEF t
<1>5. /\ call' \in [Caller -> CallState] /\ \A d \in Caller : CallTyped(call'[d])
      /\ \A d \in Caller : d # c => call'[d] = call[d]
      /\ call'[c].todo = t /\ call'[c].pc \in {"idle", "self"}
    BY ZenonT(30), <1>1, <1>2, <1>4, ProceedStep
<1>6. TypeOK'
    BY ZenonT(30), <1>1, <1>5, TypedIsPrime
<1>7. AuthorHolds'
    BY ZenonT(30), <1>1 DEF AuthorHolds
<1>8. BackedInv'
    BY ZenonT(30), <1>1, <1>3, <1>5 DEF BackedInv
<1>9. SentInv'
    <2>1. "idle" \notin {"spread", "wait"} /\ "self" \notin {"spread", "wait"}
        OBVIOUS
    <2> QED BY ZenonT(30), <1>1, <1>5, <2>1 DEF SentInv
<1> QED BY ZenonT(30), <1>1, <1>6, <1>7, <1>8, <1>9 DEF HInv

\* The point that a call has come to changes, not what it has to send.
LEMMA PcStep ==
    ASSUME TypeOK, NEW c \in Caller, NEW pc \in {"spread", "wait"}, call[c].pc # "idle",
           call' = [call EXCEPT ![c].pc = pc]
    PROVE  /\ call' \in [Caller -> CallState] /\ \A d \in Caller : CallTyped(call'[d])
           /\ \A d \in Caller : call'[d].todo = call[d].todo
           /\ \A d \in Caller : d # c => call'[d] = call[d]
           /\ call'[c].pc = pc
<1>1. call \in [Caller -> CallState] /\ \A d \in Caller : CallTyped(call[d])
    BY ZenonT(30), TypedIs
<1> DEFINE x == [call[c] EXCEPT !.pc = pc]
<1>2. call[c] \in CallState
    BY ZenonT(30), <1>1
<1>3. x \in CallState /\ x.pc = pc /\ x.todo = call[c].todo
    BY ZenonT(30), <1>2 DEF CallState
<1>4. call' = [call EXCEPT ![c] = x]
    BY ZenonT(30)
<1> HIDE DEF x
<1>5. /\ call' \in [Caller -> CallState] /\ call'[c] = x
      /\ \A d \in Caller : d # c => call'[d] = call[d]
    BY ZenonT(30), <1>1, <1>3, <1>4
<1>6. call[c].todo # << >> /\ pc # "idle"
    <2>1. "spread" # "idle" /\ "wait" # "idle"
        OBVIOUS
    <2> QED BY ZenonT(30), <1>1, <2>1 DEF CallTyped
<1>7. CallTyped(x)
    BY ZenonT(30), <1>3, <1>6 DEF CallTyped
<1> QED BY ZenonT(30), <1>1, <1>3, <1>5, <1>7

\* A change to the author's own node.
LEMMA SelfStep ==
    ASSUME HInv, NEW c \in Caller, SelfSend(c)
    PROVE  HInv'
<1>1. /\ chain \in Seq(Committed) /\ Len(chain) <= MaxCommits
      /\ inbox \in [Peer -> SUBSET Message] /\ queue \in [Peer -> Seq(ToRetry)]
      /\ faults \in 0..MaxFaults /\ AuthorHolds /\ BackedInv /\ SentInv /\ TypeOK
    BY ZenonT(30), HInvIs
<1> DEFINE m == Head(call[c].todo)
<1>2. /\ call[c].pc = "self" /\ Receive(Author, m, MaxRetries, queue[Author])
      /\ call' = [call EXCEPT ![c].pc = "spread"]
      /\ chain' = chain /\ inbox' = inbox /\ faults' = faults
    BY ZenonT(30) DEF SelfSend
<1>3. call[c].pc # "idle" /\ "spread" \in {"spread", "wait"}
    BY <1>2
<1>4. m \in Message /\ 1 \in DOMAIN call[c].todo /\ call[c].todo[1] = m
    BY ZenonT(30), <1>1, <1>3, BusyHas
<1>5. Backed(chain, m)
    BY ZenonT(30), <1>1, <1>4 DEF BackedInv, AllBacked
<1>6. /\ Author \in Peer /\ MaxRetries \in 0..MaxRetries /\ queue[Author] \in Seq(ToRetry)
      /\ QueueBacked(chain, queue[Author])
    <2>1. Author \in Peer /\ MaxRetries \in Nat
        BY ZenonT(30), PublishAssumption
    <2>2. MaxRetries \in 0..MaxRetries
        BY <2>1
    <2> QED BY ZenonT(30), <1>1, <2>1, <2>2 DEF BackedInv
<1> HIDE DEF m
<1>7. /\ dht' \in [Peer -> Store] /\ \A p \in Peer : Held(chain, dht'[p])
      /\ \A p \in Peer : p # Author => dht'[p] = dht[p]
      /\ Onward(dht[Author], dht'[Author], m)
      /\ queue' \in [Peer -> Seq(ToRetry)] /\ \A p \in Peer : QueueBacked(chain, queue'[p])
      /\ mishaps' \subseteq {"cutShort", "queued"}
      /\ There(dht'[Author], m)
    BY ZenonT(30), <1>2, <1>4, <1>5, <1>6, ReceiveStep
<1>8. /\ call' \in [Caller -> CallState] /\ \A d \in Caller : CallTyped(call'[d])
      /\ \A d \in Caller : call'[d].todo = call[d].todo
      /\ \A d \in Caller : d # c => call'[d] = call[d]
      /\ call'[c].pc = "spread"
    BY ZenonT(30), <1>1, <1>2, <1>3, PcStep
<1>9. TypeOK'
    BY ZenonT(30), <1>1, <1>2, <1>7, <1>8, TypedIsPrime
<1>10. AuthorHolds'
    BY ZenonT(30), <1>1, <1>7 DEF AuthorHolds, Others, Onward
<1>11. BackedInv'
    BY ZenonT(30), <1>1, <1>2, <1>7, <1>8 DEF BackedInv
<1>12. SentInv'
    <2>1. \A x \in Message : There(dht[Author], x) => There(dht'[Author], x)
        BY ZenonT(30), <1>7, MessageFields DEF There, Onward
    <2>2. \A n \in Peer : \A x \in inbox[n] : x \in Message
        BY ZenonT(30), <1>1
    <2>3. ASSUME NEW d \in Caller, call'[d].pc \in {"spread", "wait"}
          PROVE  There(dht'[Author], Head(call'[d].todo))
        <3>1. CASE d = c
            BY ZenonT(30), <1>7, <1>8, <3>1 DEF m
        <3>2. CASE d # c
            <4>1. call[d].pc \in {"spread", "wait"} /\ call'[d] = call[d]
                BY ZenonT(30), <1>8, <2>3, <3>2
            <4>2. call[d].pc # "idle"
                BY <4>1
            <4>3. Head(call[d].todo) \in Message
                BY ZenonT(30), <1>1, <4>2, BusyHas
            <4> QED BY ZenonT(30), <1>1, <2>1, <4>1, <4>3 DEF SentInv
        <3> QED BY ZenonT(30), <3>1, <3>2
    <2> QED BY ZenonT(30), <1>1, <1>2, <2>1, <2>2, <2>3 DEF SentInv
<1>13. \A n \in Peer : Held(chain', dht'[n])
    BY ZenonT(30), <1>2, <1>7
<1> QED BY ZenonT(30), <1>9, <1>10, <1>11, <1>12, <1>13 DEF HInv

\* A change is sent to the peers.
LEMMA SpreadStep ==
    ASSUME HInv, NEW c \in Caller, Spread(c)
    PROVE  HInv'
<1>1. /\ chain \in Seq(Committed) /\ Len(chain) <= MaxCommits /\ dht \in [Peer -> Store]
      /\ inbox \in [Peer -> SUBSET Message] /\ queue \in [Peer -> Seq(ToRetry)]
      /\ faults \in 0..MaxFaults /\ mishaps \subseteq {"cutShort", "queued"}
      /\ AuthorHolds /\ BackedInv /\ SentInv /\ TypeOK
      /\ \A n \in Peer : Held(chain, dht[n])
    BY ZenonT(30), HInvIs
<1> DEFINE m == Head(call[c].todo)
<1>2. /\ call[c].pc = "spread"
      /\ inbox' = [n \in Peer |-> inbox[n] \cup IF n = Author THEN {} ELSE {m}]
      /\ call' = [call EXCEPT ![c].pc = "wait"]
      /\ chain' = chain /\ dht' = dht /\ queue' = queue /\ faults' = faults /\ mishaps' = mishaps
    BY ZenonT(30) DEF Spread
<1>3. call[c].pc # "idle" /\ call[c].pc \in {"spread", "wait"} /\ "wait" \in {"spread", "wait"}
    BY <1>2
<1>4. m \in Message /\ 1 \in DOMAIN call[c].todo /\ call[c].todo[1] = m
    BY ZenonT(30), <1>1, <1>3, BusyHas
<1>5. Backed(chain, m) /\ There(dht[Author], m)
    BY ZenonT(30), <1>1, <1>3, <1>4 DEF BackedInv, AllBacked, SentInv
<1>6. Author \in Peer
    BY ZenonT(30), PublishAssumption
<1> HIDE DEF m
<1>7. /\ inbox' \in [Peer -> SUBSET Message] /\ inbox'[Author] = inbox[Author]
      /\ \A n \in Peer : \A x \in inbox'[n] : x \in inbox[n] \/ x = m
    <2>1. \A n \in Peer : inbox'[n] = inbox[n] \cup IF n = Author THEN {} ELSE {m}
        BY ZenonT(30), <1>2
    <2>2. \A n \in Peer : inbox'[n] \subseteq Message
        BY ZenonT(30), <1>1, <1>4, <2>1
    <2>3. inbox' \in [Peer -> SUBSET Message]
        BY ZenonT(30), <1>2, <2>1, <2>2
    <2> QED BY ZenonT(30), <1>6, <2>1, <2>3
<1>8. /\ call' \in [Caller -> CallState] /\ \A d \in Caller : CallTyped(call'[d])
      /\ \A d \in Caller : call'[d].todo = call[d].todo
      /\ \A d \in Caller : d # c => call'[d] = call[d]
      /\ call'[c].pc = "wait"
    BY ZenonT(30), <1>1, <1>2, <1>3, PcStep
<1>9. TypeOK'
    BY ZenonT(30), <1>1, <1>2, <1>7, <1>8, TypedIsPrime
<1>10. AuthorHolds'
    BY ZenonT(30), <1>1, <1>2 DEF AuthorHolds
<1>11. BackedInv'
    BY ZenonT(30), <1>1, <1>2, <1>5, <1>7, <1>8 DEF BackedInv
<1>12. SentInv'
    <2>1. \A d \in Caller : call'[d].pc \in {"spread", "wait"} => call[d].pc \in {"spread", "wait"}
        BY ZenonT(30), <1>3, <1>8
    <2> QED BY ZenonT(30), <1>1, <1>2, <1>5, <1>7, <1>8, <2>1 DEF SentInv
<1> QED BY ZenonT(30), <1>1, <1>2, <1>9, <1>10, <1>11, <1>12 DEF HInv

\* A peer receives it.
LEMMA ReceiverStep ==
    ASSUME HInv, NEW n \in Peer, NEW m \in inbox[n], ActionReceiver(n, m)
    PROVE  HInv'
<1>1. /\ chain \in Seq(Committed) /\ Len(chain) <= MaxCommits
      /\ call \in [Caller -> CallState] /\ \A c \in Caller : CallTyped(call[c])
      /\ inbox \in [Peer -> SUBSET Message] /\ queue \in [Peer -> Seq(ToRetry)]
      /\ faults \in 0..MaxFaults /\ AuthorHolds /\ BackedInv /\ SentInv /\ TypeOK
    BY ZenonT(30), HInvIs
<1>2. /\ inbox' = [inbox EXCEPT ![n] = @ \ {m}] /\ Receive(n, m, MaxRetries, queue[n])
      /\ chain' = chain /\ call' = call /\ faults' = faults
    BY ZenonT(30) DEF ActionReceiver
<1>4. m \in Message /\ Backed(chain, m) /\ There(dht[Author], m) /\ n # Author
    BY ZenonT(30), <1>1 DEF BackedInv, SentInv
<1>6. /\ Author \in Peer /\ MaxRetries \in 0..MaxRetries /\ queue[n] \in Seq(ToRetry)
      /\ QueueBacked(chain, queue[n])
    <2>1. Author \in Peer /\ MaxRetries \in Nat
        BY ZenonT(30), PublishAssumption
    <2>2. MaxRetries \in 0..MaxRetries
        BY <2>1
    <2> QED BY ZenonT(30), <1>1, <2>1, <2>2 DEF BackedInv
<1>7. /\ dht' \in [Peer -> Store] /\ \A p \in Peer : Held(chain, dht'[p])
      /\ \A p \in Peer : p # n => dht'[p] = dht[p]
      /\ Onward(dht[n], dht'[n], m)
      /\ queue' \in [Peer -> Seq(ToRetry)] /\ \A p \in Peer : QueueBacked(chain, queue'[p])
      /\ mishaps' \subseteq {"cutShort", "queued"}
    BY ZenonT(30), <1>2, <1>4, <1>6, ReceiveStep
<1>8. inbox' \in [Peer -> SUBSET Message] /\ \A p \in Peer : inbox'[p] \subseteq inbox[p]
    BY ZenonT(30), <1>1, <1>2
<1>9. TypeOK'
    BY ZenonT(30), <1>1, <1>2, <1>7, <1>8, TypedIsPrime
<1>10. AuthorHolds'
    <2>1. dht'[Author] = dht[Author]
        BY ZenonT(30), <1>4, <1>6, <1>7
    <2>2. ASSUME NEW p \in Others, NEW h \in Hash, dht'[p].status[h] # "absent"
          PROVE  dht[Author].status[h] # "absent"
        <3>1. CASE p = n
            BY ZenonT(30), <1>1, <1>4, <1>7, <2>2, <3>1 DEF AuthorHolds, Others, Onward, There
        <3>2. CASE p # n
            BY ZenonT(30), <1>1, <1>7, <2>2, <3>2 DEF AuthorHolds, Others
        <3> QED BY ZenonT(30), <3>1, <3>2
    <2> QED BY ZenonT(30), <2>1, <2>2 DEF AuthorHolds
<1>11. BackedInv'
    BY ZenonT(30), <1>1, <1>2, <1>7, <1>8 DEF BackedInv
<1>12. SentInv'
    <2>1. dht'[Author] = dht[Author]
        BY ZenonT(30), <1>4, <1>6, <1>7
    <2> QED BY ZenonT(30), <1>1, <1>2, <1>6, <1>8, <2>1 DEF SentInv
<1>13. \A p \in Peer : Held(chain', dht'[p])
    BY ZenonT(30), <1>2, <1>7
<1> QED BY ZenonT(30), <1>9, <1>10, <1>11, <1>12, <1>13 DEF HInv

\* A peer tries again.
LEMMA RetryStep ==
    ASSUME HInv, NEW n \in Peer, RetryTask(n)
    PROVE  HInv'
<1>1. /\ chain \in Seq(Committed) /\ Len(chain) <= MaxCommits
      /\ call \in [Caller -> CallState] /\ \A c \in Caller : CallTyped(call[c])
      /\ dht \in [Peer -> Store] /\ mishaps \subseteq {"cutShort", "queued"}
      /\ inbox \in [Peer -> SUBSET Message] /\ queue \in [Peer -> Seq(ToRetry)]
      /\ faults \in 0..MaxFaults /\ AuthorHolds /\ BackedInv /\ SentInv /\ TypeOK
      /\ \A p \in Peer : Held(chain, dht[p])
    BY ZenonT(30), HInvIs
<1> DEFINE r == Head(queue[n])
           m == r.msg
           rest == Tail(queue[n])
<1>2. /\ queue[n] # << >> /\ chain' = chain /\ call' = call /\ inbox' = inbox /\ faults' = faults
      /\ \/ r.retries > 0 /\ Receive(n, m, r.retries - 1, rest)
         \/ queue' = [queue EXCEPT ![n] = rest] /\ dht' = dht /\ mishaps' = mishaps
    BY ZenonT(30) DEF RetryTask
<1>3. /\ r \in ToRetry /\ rest \in Seq(ToRetry) /\ 1 \in DOMAIN queue[n] /\ queue[n][1] = r
      /\ \A i \in DOMAIN rest : i + 1 \in DOMAIN queue[n] /\ rest[i] = queue[n][i + 1]
    <2> DEFINE t == queue[n]
    <2>1. t \in Seq(ToRetry) /\ t # << >>
        BY ZenonT(30), <1>1, <1>2
    <2> HIDE DEF t
    <2>2. /\ Head(t) \in ToRetry /\ Tail(t) \in Seq(ToRetry) /\ 1 \in DOMAIN t /\ t[1] = Head(t)
          /\ \A i \in DOMAIN Tail(t) : i + 1 \in DOMAIN t /\ Tail(t)[i] = t[i + 1]
        BY ONLY <2>1
    <2> QED BY ZenonT(30), <2>2 DEF t
<1>4. m \in Message /\ Backed(chain, m) /\ m.Type # "PUT_REQUEST" /\ r.retries \in 0..MaxRetries
    BY ZenonT(30), <1>1, <1>3 DEF ToRetry, BackedInv, QueueBacked
<1>5. QueueBacked(chain, rest)
    BY ZenonT(30), <1>1, <1>3 DEF BackedInv, QueueBacked
<1>6. Author \in Peer
    BY ZenonT(30), PublishAssumption
<1> HIDE DEF r, m, rest
<1>7. /\ dht' \in [Peer -> Store] /\ \A p \in Peer : Held(chain, dht'[p])
      /\ \A p \in Peer : p # n => dht'[p] = dht[p]
      /\ Onward(dht[n], dht'[n], m)
      /\ queue' \in [Peer -> Seq(ToRetry)] /\ \A p \in Peer : QueueBacked(chain, queue'[p])
      /\ mishaps' \subseteq {"cutShort", "queued"}
    <2>1. CASE r.retries > 0 /\ Receive(n, m, r.retries - 1, rest)
        <3> DEFINE k == r.retries - 1
        <3>1. k \in 0..MaxRetries
            <4>1. MaxRetries \in Nat
                BY ZenonT(30), PublishAssumption
            <4> QED BY <1>4, <2>1, <4>1
        <3>2. Receive(n, m, k, rest)
            BY ZenonT(30), <2>1
        <3> HIDE DEF k
        <3> QED BY ZenonT(30), <1>3, <1>4, <1>5, <3>1, <3>2, ReceiveStep
    <2>2. CASE queue' = [queue EXCEPT ![n] = rest] /\ dht' = dht /\ mishaps' = mishaps
        <3>1. Onward(dht[n], dht'[n], m)
            BY ZenonT(30), <2>2 DEF Onward
        <3>2. queue' \in [Peer -> Seq(ToRetry)] /\ \A p \in Peer : QueueBacked(chain, queue'[p])
            BY ZenonT(30), <1>1, <1>3, <1>5, <2>2 DEF BackedInv
        <3> QED BY ZenonT(30), <1>1, <2>2, <3>1, <3>2
    <2> QED BY ZenonT(30), <1>2, <2>1, <2>2
<1>8. \A p \in Peer, h \in Hash : dht'[p].status[h] # "absent" <=> dht[p].status[h] # "absent"
    BY ZenonT(30), <1>4, <1>7 DEF Onward
<1>9. TypeOK'
    BY ZenonT(30), <1>1, <1>2, <1>7, TypedIsPrime
<1>10. AuthorHolds'
    BY ZenonT(30), <1>1, <1>6, <1>8 DEF AuthorHolds, Others
<1>11. BackedInv'
    BY ZenonT(30), <1>1, <1>2, <1>7 DEF BackedInv
<1>12. SentInv'
    <2>1. \A x \in Message : There(dht[Author], x) => There(dht'[Author], x)
        BY ZenonT(30), <1>6, <1>8, MessageFields DEF There
    <2>2. \A p \in Peer : \A x \in inbox[p] : x \in Message
        BY ZenonT(30), <1>1
    <2>3. \A d \in Caller : call[d].pc \in {"spread", "wait"} => Head(call[d].todo) \in Message
        <3>1. \A d \in Caller : call[d].pc \in {"spread", "wait"} => call[d].pc # "idle"
            OBVIOUS
        <3> QED BY ZenonT(30), <1>1, <3>1, BusyHas
    <2> QED BY ZenonT(30), <1>1, <1>2, <2>1, <2>2, <2>3 DEF SentInv
<1>13. \A p \in Peer : Held(chain', dht'[p])
    BY ZenonT(30), <1>2, <1>7
<1> QED BY ZenonT(30), <1>9, <1>10, <1>11, <1>12, <1>13 DEF HInv

\* Messages and retries are lost, and calls end; the chain and the stores stay.
LEMMA LossStep ==
    ASSUME HInv, chain' = chain, dht' = dht, faults' \in 0..MaxFaults,
           mishaps' \subseteq {"cutShort", "queued"},
           call' \in [Caller -> CallState],
           \A c \in Caller : call'[c] = call[c] \/ (call'[c].pc = "idle" /\ call'[c].todo = << >>),
           inbox' \in [Peer -> SUBSET Message], \A n \in Peer : inbox'[n] \subseteq inbox[n],
           queue' \in [Peer -> Seq(ToRetry)], \A n \in Peer : queue'[n] = queue[n] \/ queue'[n] = << >>
    PROVE  HInv'
<1>1. /\ chain \in Seq(Committed) /\ Len(chain) <= MaxCommits
      /\ call \in [Caller -> CallState] /\ \A c \in Caller : CallTyped(call[c])
      /\ dht \in [Peer -> Store]
      /\ AuthorHolds /\ BackedInv /\ SentInv
      /\ \A n \in Peer : Held(chain, dht[n])
    BY ZenonT(30), HInvIs
<1>2. \A c \in Caller : CallTyped(call'[c])
    BY ZenonT(30), <1>1 DEF CallTyped
<1>3. TypeOK'
    BY ZenonT(30), <1>1, <1>2, TypedIsPrime
<1>4. AuthorHolds'
    BY ZenonT(30), <1>1 DEF AuthorHolds
<1>5. DOMAIN << >> = {} /\ "idle" \notin {"spread", "wait"}
    OBVIOUS
<1>6. BackedInv'
    <2>1. \A c \in Caller : AllBacked(chain', call'[c].todo)
        BY ZenonT(30), <1>1, <1>5 DEF BackedInv, AllBacked
    <2>2. \A n \in Peer : \A m \in inbox'[n] : Backed(chain', m)
        BY ZenonT(30), <1>1 DEF BackedInv
    <2>3. \A n \in Peer : QueueBacked(chain', queue'[n])
        BY ZenonT(30), <1>1, <1>5 DEF BackedInv, QueueBacked
    <2> QED BY ZenonT(30), <2>1, <2>2, <2>3 DEF BackedInv
<1>7. SentInv'
    <2>1. Author \in Peer
        BY ZenonT(30), PublishAssumption
    <2> QED BY ZenonT(30), <1>1, <1>5, <2>1 DEF SentInv
<1> QED BY ZenonT(30), <1>1, <1>3, <1>4, <1>6, <1>7 DEF HInv

\* Faults are counted.
LEMMA FaultCounts ==
    ASSUME faults \in 0..MaxFaults, Fault
    PROVE  faults' \in 0..MaxFaults
<1>1. MaxFaults \in Nat
    BY ZenonT(30), PublishAssumption
<1> QED BY <1>1 DEF Fault

\* A message is lost.
LEMMA LoseStep ==
    ASSUME HInv, NEW n \in Peer, NEW m \in inbox[n], Lose(n, m)
    PROVE  HInv'
<1>1. /\ call \in [Caller -> CallState] /\ inbox \in [Peer -> SUBSET Message]
      /\ queue \in [Peer -> Seq(ToRetry)] /\ mishaps \subseteq {"cutShort", "queued"}
      /\ faults \in 0..MaxFaults
    BY ZenonT(30), HInvIs
<1>2. /\ Fault /\ inbox' = [inbox EXCEPT ![n] = @ \ {m}] /\ chain' = chain /\ call' = call
      /\ dht' = dht /\ queue' = queue /\ mishaps' = mishaps
    BY ZenonT(30) DEF Lose
<1>3. faults' \in 0..MaxFaults
    BY ZenonT(30), <1>1, <1>2, FaultCounts
<1>4. inbox' \in [Peer -> SUBSET Message] /\ \A p \in Peer : inbox'[p] \subseteq inbox[p]
    BY ZenonT(30), <1>1, <1>2
<1> QED BY ZenonT(30), <1>1, <1>2, <1>3, <1>4, LossStep

\* A node stops and starts again.
LEMMA CrashStep ==
    ASSUME HInv, NEW n \in Peer, Crash(n)
    PROVE  HInv'
<1>1. /\ call \in [Caller -> CallState] /\ inbox \in [Peer -> SUBSET Message]
      /\ queue \in [Peer -> Seq(ToRetry)] /\ mishaps \subseteq {"cutShort", "queued"}
      /\ faults \in 0..MaxFaults
    BY ZenonT(30), HInvIs
<1>2. /\ Fault /\ inbox' = [inbox EXCEPT ![n] = {}] /\ chain' = chain /\ dht' = dht
      /\ call' = IF n = Author THEN [c \in Caller |-> [pc |-> "idle", todo |-> << >>]] ELSE call
      /\ queue' = [queue EXCEPT ![n] = << >>]
      /\ mishaps' \subseteq mishaps \cup {"cutShort"}
    BY ZenonT(30) DEF Crash
<1>3. faults' \in 0..MaxFaults
    BY ZenonT(30), <1>1, <1>2, FaultCounts
<1>4. inbox' \in [Peer -> SUBSET Message] /\ \A p \in Peer : inbox'[p] \subseteq inbox[p]
    BY ZenonT(30), <1>1, <1>2
<1>5. << >> \in Seq(ToRetry) /\ << >> \in Seq(Message)
    OBVIOUS
<1>6. queue' \in [Peer -> Seq(ToRetry)] /\ \A p \in Peer : queue'[p] = queue[p] \/ queue'[p] = << >>
    BY ZenonT(30), <1>1, <1>2, <1>5
<1>7. /\ call' \in [Caller -> CallState]
      /\ \A c \in Caller : call'[c] = call[c] \/ (call'[c].pc = "idle" /\ call'[c].todo = << >>)
    <2> DEFINE x == [pc |-> "idle", todo |-> << >>]
    <2>1. x \in CallState /\ x.pc = "idle" /\ x.todo = << >>
        BY ZenonT(30), <1>5 DEF CallState
    <2> HIDE DEF x
    <2>2. call' = [c \in Caller |-> x] \/ call' = call
        BY ZenonT(30), <1>2 DEF x
    <2> QED BY ZenonT(30), <1>1, <2>1, <2>2
<1>8. mishaps' \subseteq {"cutShort", "queued"}
    BY ZenonT(30), <1>1, <1>2
<1> QED BY ZenonT(30), <1>2, <1>3, <1>4, <1>6, <1>7, <1>8, LossStep

\* What a call is about to send, with the chain as it will be.
LEMMA CommitSendable ==
    ASSUME HInv, NEW c \in Caller, NEW e \in Hash \ DOMAIN Deletes, Commit(c, e)
    PROVE  Sendable(Append(chain, [E |-> e, Action |-> "commit", H |-> e]), CommitSends(e))
<1> DEFINE x == [E |-> e, Action |-> "commit", H |-> e]
           ch == Append(chain, x)
<1>1. chain \in Seq(Committed) /\ TypeOK
    BY ZenonT(30), HInvIs
<1>2. x \in Committed /\ x.E = e /\ x.Action = "commit" /\ x.H = e
    BY ZenonT(30) DEF Committed
<1>3. Len(chain) < MaxCommits /\ sysValidateEntry(e)
    BY DEF Commit, doCommit, ValidateAction
<1> HIDE DEF x
<1>4. On(ch, e) /\ As(ch, "commit", e, e)
    BY ZenonT(30), <1>1, <1>2, OnStays
<1> HIDE DEF ch
<1>5. Sendable(ch, CommitSends(e))
    BY ZenonT(30), <1>1, <1>3, <1>4, CommitSent
<1> QED BY ZenonT(30), <1>5 DEF ch, x

LEMMA ModSendable ==
    ASSUME HInv, NEW c \in Caller, NEW e \in Hash \ DOMAIN Deletes, NEW h \in Hash \ DOMAIN Deletes,
           Mod(c, e, h)
    PROVE  Sendable(Append(chain, [E |-> e, Action |-> "mod", H |-> h]), ModSends(e, h))
<1> DEFINE x == [E |-> e, Action |-> "mod", H |-> h]
           ch == Append(chain, x)
<1>1. chain \in Seq(Committed) /\ TypeOK
    BY ZenonT(30), HInvIs
<1>2. x \in Committed /\ x.E = e /\ x.Action = "mod" /\ x.H = h
    BY ZenonT(30) DEF Committed
<1>3. Len(chain) < MaxCommits /\ ModValid(e, h)
    BY DEF Mod, doCommit, ValidateAction
<1>4. On(chain, h) /\ EntryDef[h].Name = EntryDef[e].Name
    BY ZenonT(30) DEF Mod, On, OnChain
<1> HIDE DEF x
<1>5. On(ch, e) /\ On(ch, h) /\ As(ch, "mod", e, h)
    BY ZenonT(30), <1>1, <1>2, <1>4, OnStays
<1> HIDE DEF ch
<1>6. Sendable(ch, ModSends(e, h))
    BY ZenonT(30), <1>1, <1>3, <1>4, <1>5, ModSent
<1> QED BY ZenonT(30), <1>6 DEF ch, x

LEMMA DelSendable ==
    ASSUME HInv, NEW c \in Caller, NEW e \in DOMAIN Deletes, Del(c, e)
    PROVE  /\ e \in Hash /\ Deletes[e] \in Hash
           /\ Sendable(Append(chain, [E |-> e, Action |-> "del", H |-> Deletes[e]]), DelSends(e, Deletes[e]))
<1> DEFINE h == Deletes[e]
           x == [E |-> e, Action |-> "del", H |-> h]
           ch == Append(chain, x)
<1>1. chain \in Seq(Committed) /\ TypeOK
    BY ZenonT(30), HInvIs
<1>0. e \in Hash /\ h \in Hash
    BY ZenonT(30), PublishAssumption
<1>2. x \in Committed /\ x.E = e /\ x.Action = "del" /\ x.H = h
    BY ZenonT(30), <1>0 DEF Committed
<1>3. Len(chain) < MaxCommits
    BY ZenonT(30) DEF Del, doCommit
<1> HIDE DEF x
<1>5. As(ch, "del", e, h)
    BY ZenonT(30), <1>1, <1>2, OnStays
<1> HIDE DEF ch
<1>6. Sendable(ch, DelSends(e, h))
    BY ZenonT(30), <1>1, <1>3, <1>5, DelSent
<1> QED BY ZenonT(30), <1>0, <1>6 DEF ch, x

\* A commit, a mod and a deletion.
LEMMA CommitStep ==
    ASSUME HInv, NEW c \in Caller, NEW e \in Hash \ DOMAIN Deletes, Commit(c, e)
    PROVE  HInv'
BY ZenonT(30), CommitSendable, DoStep DEF Commit

LEMMA ModStep ==
    ASSUME HInv, NEW c \in Caller, NEW e \in Hash \ DOMAIN Deletes, NEW h \in Hash \ DOMAIN Deletes,
           Mod(c, e, h)
    PROVE  HInv'
BY ZenonT(30), ModSendable, DoStep DEF Mod

LEMMA DelStep ==
    ASSUME HInv, NEW c \in Caller, NEW e \in DOMAIN Deletes, Del(c, e)
    PROVE  HInv'
<1>1. /\ e \in Hash /\ Deletes[e] \in Hash
      /\ Sendable(Append(chain, [E |-> e, Action |-> "del", H |-> Deletes[e]]), DelSends(e, Deletes[e]))
    BY ZenonT(30), DelSendable
<1> QED BY ZenonT(30), <1>1, DoStep DEF Del

\* The invariant is kept by every step ...
LEMMA HNext ==
    ASSUME HInv, Next
    PROVE  HInv'
<1>0. faults \in 0..MaxFaults
    BY ZenonT(30), HInvIs
<1>1. ASSUME NEW c \in Caller, Answered(c) \/ NoPeers(c) \/ TimedOut(c) PROVE HInv'
    <2>1. call[c].pc \in {"wait", "spread"}
        BY ZenonT(30), <1>1 DEF Answered, NoPeers, TimedOut
    <2>2. call[c].pc # "idle"
        BY <2>1
    <2>3. /\ Proceed(c, Tail(call[c].todo)) /\ chain' = chain /\ dht' = dht /\ inbox' = inbox
          /\ queue' = queue /\ mishaps' = mishaps /\ (faults' = faults \/ Fault)
        BY ZenonT(30), <1>1 DEF Answered, NoPeers, TimedOut
    <2>4. faults' \in 0..MaxFaults
        BY ZenonT(30), <1>0, <2>3, FaultCounts
    <2> QED BY ZenonT(30), <2>2, <2>3, <2>4, NextStep
<1> QED BY ZenonT(30), <1>1, CommitStep, ModStep, DelStep, SelfStep, SpreadStep, ReceiverStep, RetryStep,
           LoseStep, CrashStep DEF Next, ChangeStep

\* ... and where nothing happens.
LEMMA HStutter ==
    ASSUME HInv, UNCHANGED vars
    PROVE  HInv'
<1>1. /\ call \in [Caller -> CallState] /\ inbox \in [Peer -> SUBSET Message]
      /\ queue \in [Peer -> Seq(ToRetry)] /\ mishaps \subseteq {"cutShort", "queued"}
      /\ faults \in 0..MaxFaults
    BY ZenonT(30), HInvIs
<1>2. /\ chain' = chain /\ call' = call /\ dht' = dht /\ inbox' = inbox /\ queue' = queue
      /\ faults' = faults /\ mishaps' = mishaps
    BY DEF vars
<1> QED BY ZenonT(30), <1>1, <1>2, LossStep

-----------------------------------------------------------------------------
(* The invariant *)

\* A store as set up: the DNA is live, and the author's key and agent may be.
Fresh(s) ==
    /\ s \in Store /\ s.links = << >> /\ s.status[DNAHash] = "live"
    /\ \A h \in Hash : s.status[h] \in {"absent", "live"} /\ (h \in Ordinary => s.status[h] = "absent")
    /\ \A h \in Hash : s.replacedBy[h] = NoHash

\* Nodes start with the entries of genesis only.
LEMMA SetupFresh ==
    /\ Fresh(SetupDHT) /\ Fresh(put(NewDHT, NilMsg, DNAHash, "live"))
    /\ \A h \in Hash : put(NewDHT, NilMsg, DNAHash, "live").status[h] # "absent" => h = DNAHash
<1> DEFINE s == put(NewDHT, NilMsg, DNAHash, "live")
<1>1. s = [NewDHT EXCEPT !.status = [NewDHT.status EXCEPT ![DNAHash] = "live"]]
  BY ZenonT(30) DEF put, incIdx
<1>2. /\ s.status = [NewDHT.status EXCEPT ![DNAHash] = "live"]
      /\ s.replacedBy = NewDHT.replacedBy
      /\ s.links = << >>
  BY ZenonT(30), <1>1 DEF NewDHT
<1>3. s \in Store
  <2>1. /\ [h \in Hash |-> "absent"] \in [Hash -> Statuses]
        /\ [h \in Hash |-> NoHash] \in [Hash -> Hash \cup {NoHash}]
        /\ [m \in Message |-> -1] \in [Message -> Int]
        /\ << >> \in Seq(LinkEvent) /\ << >> \in Seq(Message)
    BY DEF Statuses
  <2>2. NewDHT \in Store
    BY ZenonT(30), <2>1 DEF NewDHT, Store
  <2>3. [NewDHT.status EXCEPT ![DNAHash] = "live"] \in [Hash -> Statuses]
    BY ZenonT(30), <2>1 DEF NewDHT, Statuses
  <2> QED BY ZenonT(30), <1>1, <2>2, <2>3 DEF Store
<1>4. /\ DNAHash \in Hash /\ \A h \in Hash : s.status[h] = IF h = DNAHash THEN "live" ELSE "absent"
      /\ \A h \in Hash : s.replacedBy[h] = NoHash
  BY ZenonT(30), <1>2, ConstantsAssumption DEF NewDHT
<1>5. Fresh(s) /\ \A h \in Hash : s.status[h] # "absent" => h = DNAHash
  BY ZenonT(30), <1>2, <1>3, <1>4 DEF Fresh, Ordinary
<1> HIDE DEF s
<1>6. ASSUME NEW q, Fresh(q), NEW m \in {KeyMsg, AgentMsg} PROVE Fresh(put(q, m, m.H, "live"))
  <2>1. m \in Message /\ m.H \in Hash /\ "live" \in Statuses /\ q \in Store
    BY ZenonT(30), <1>6, ConstantsAssumption, MessageFields DEF Fresh, Statuses
  <2> DEFINE r == put(q, m, m.H, "live")
  <2>2. /\ r \in Store /\ r.status = [q.status EXCEPT ![m.H] = "live"]
        /\ r.replacedBy = q.replacedBy /\ r.links = q.links
    <3>1. /\ r \in Store /\ r.status = [q.status EXCEPT ![m.H] = "live"]
          /\ r.replacedBy = q.replacedBy /\ r.links = q.links
          /\ r.log = Append(q.log, m) /\ r.fp = [q.fp EXCEPT ![m] = Len(q.log) + 1]
      BY ONLY <2>1, PutEffect
    <3> QED BY ZenonT(30), <3>1
  <2> HIDE DEF r
  <2>3. \A h \in Hash : r.status[h] = IF h = m.H THEN "live" ELSE q.status[h]
    BY ZenonT(30), <2>1, <2>2 DEF Store
  <2>4. m.H \notin Ordinary
    BY ZenonT(30) DEF Ordinary
  <2>5. Fresh(r)
    BY ZenonT(30), <1>4, <1>6, <2>2, <2>3, <2>4 DEF Fresh
  <2> QED BY ZenonT(30), <2>5 DEF r
<1> DEFINE t == put(s, KeyMsg, KeyMsg.H, "live")
<1>7. Fresh(t)
  BY ZenonT(30), <1>5, <1>6
<1> HIDE DEF t
<1>8. Fresh(put(t, AgentMsg, AgentMsg.H, "live"))
  BY ZenonT(30), <1>7, <1>6
<1> QED BY ZenonT(30), <1>5, <1>8 DEF SetupDHT, s, t

\* The invariant holds at first ...
LEMMA HInit ==
    ASSUME Init
    PROVE  HInv
<1>1. /\ chain = << >> /\ call = [c \in Caller |-> [pc |-> "idle", todo |-> << >>]]
      /\ inbox = [n \in Peer |-> {}] /\ queue = [n \in Peer |-> << >>]
      /\ faults = 0 /\ mishaps = {}
      /\ dht = [n \in Peer |-> IF n = Author THEN SetupDHT
                               ELSE put(NewDHT, NilMsg, DNAHash, "live")]
    BY ZenonT(30) DEF Init
<1>2. /\ MaxCommits \in Nat /\ MaxFaults \in Nat /\ Author \in Peer
    BY ZenonT(30), PublishAssumption
<1>3. /\ chain \in Seq(Committed) /\ Len(chain) <= MaxCommits /\ faults \in 0..MaxFaults
      /\ << >> \in Seq(Message) /\ << >> \in Seq(ToRetry) /\ DOMAIN << >> = {} /\ DOMAIN chain = {}
      /\ "idle" \notin {"spread", "wait"}
    BY <1>1, <1>2
<1>4. /\ \A n \in Peer : Fresh(dht[n])
      /\ \A n \in Others, h \in Hash : dht[n].status[h] # "absent" => h = DNAHash
    <2> DEFINE a == SetupDHT
               b == put(NewDHT, NilMsg, DNAHash, "live")
    <2>1. Fresh(a) /\ Fresh(b) /\ \A h \in Hash : b.status[h] # "absent" => h = DNAHash
        BY ZenonT(30), SetupFresh
    <2>2. dht = [n \in Peer |-> IF n = Author THEN a ELSE b]
        BY ZenonT(30), <1>1
    <2> HIDE DEF a, b
    <2> QED BY ZenonT(30), <2>1, <2>2 DEF Others
<1>5. dht \in [Peer -> Store]
    <2>1. dht = [n \in Peer |-> dht[n]]
        BY ZenonT(30), <1>1
    <2> QED BY ZenonT(30), <1>4, <2>1 DEF Fresh
<1>6. \A c \in Caller : call[c].pc = "idle" /\ call[c].todo = << >>
    BY ZenonT(30), <1>1
<1>7. call \in [Caller -> CallState]
    <2> DEFINE x == [pc |-> "idle", todo |-> << >>]
    <2>1. x \in CallState
        BY ZenonT(30), <1>3 DEF CallState
    <2>2. call = [c \in Caller |-> x]
        BY ZenonT(30), <1>1
    <2> HIDE DEF x
    <2> QED BY ZenonT(30), <2>1, <2>2
<1>8. TypeOK
    <2>1. \A c \in Caller : CallTyped(call[c])
        BY ZenonT(30), <1>6, <1>7 DEF CallTyped
    <2>2. inbox \in [Peer -> SUBSET Message] /\ queue \in [Peer -> Seq(ToRetry)]
        BY ZenonT(30), <1>1, <1>3
    <2>3. mishaps \subseteq {"cutShort", "queued"}
        BY ZenonT(30), <1>1
    <2> QED BY ZenonT(30), <1>3, <1>5, <1>7, <2>1, <2>2, <2>3, TypedIs
<1>9. AuthorHolds
    BY ZenonT(30), <1>2, <1>4 DEF AuthorHolds, Fresh
<1>10. BackedInv
    BY ZenonT(30), <1>1, <1>3, <1>6 DEF BackedInv, AllBacked, QueueBacked
<1>11. SentInv
    BY ZenonT(30), <1>1, <1>2, <1>3, <1>6 DEF SentInv
<1>12. \A n \in Peer : Held(chain, dht[n])
    <2> SUFFICES ASSUME NEW n \in Peer PROVE Held(chain, dht[n])
        OBVIOUS
    <2> DEFINE s == dht[n]
    <2>1. Fresh(s)
        BY ZenonT(30), <1>4
    <2> HIDE DEF s
    <2>2. \A h \in Hash : s.status[h] # "modified" /\ s.status[h] # "deleted"
        <3>1. \A h \in Hash : s.status[h] \in {"absent", "live"}
            BY ZenonT(30), <2>1 DEF Fresh
        <3> QED BY <3>1
    <2>3. DOMAIN s.links = {}
        BY ZenonT(30), <1>3, <2>1 DEF Fresh
    <2>4. \A h \in Ordinary : s.status[h] = "absent"
        BY ZenonT(30), <2>1 DEF Fresh, Ordinary
    <2>5. Held(chain, s)
        BY ZenonT(30), <2>2, <2>3, <2>4 DEF Held, LinksHeld
    <2> QED BY ZenonT(30), <2>5 DEF s
<1> QED BY ZenonT(30), <1>8, <1>9, <1>10, <1>11, <1>12 DEF HInv

\* ... and always.
LEMMA HInvInvariant == Spec => []HInv
<1>1. HInv /\ [Next]_vars => HInv'
    BY ZenonT(30), HNext, HStutter
<1> QED BY HInit, <1>1, PTL DEF Spec

\* It has the property.
LEMMA HeldImplies ==
    ASSUME HInv
    PROVE  HeldWasCommitted
<1>1. \A a, e, h : As(chain, a, e, h) => CommittedAs(a, e, h)
    BY ZenonT(30) DEF As, CommittedAs
<1>2. \A e : On(chain, e) => OnChain(e)
    BY ZenonT(30) DEF On, OnChain
<1>3. ASSUME NEW n \in Peer, NEW h \in Ordinary
      PROVE  /\ dht[n].status[h] # "absent" => OnChain(h) /\ Public(h)
             /\ dht[n].status[h] = "modified" => CommittedAs("mod", dht[n].replacedBy[h], h)
             /\ dht[n].status[h] = "deleted" => \E e \in Hash : CommittedAs("del", e, h)
             /\ \A tag \in Tag : \A l \in getLinks(dht[n], h, tag) :
                  \E e \in Hash : /\ CommittedAs("commit", e, e)
                                  /\ \E i \in DOMAIN LinksEntry[e] :
                                       /\ LinksEntry[e][i].Base = h
                                       /\ LinksEntry[e][i].Link = l
    <2> DEFINE s == dht[n]
    <2>1. Held(chain, s) /\ h \in Hash
        BY ZenonT(30) DEF HInv, Ordinary
    <2> HIDE DEF s
    <2>2. ASSUME NEW tag \in Tag, NEW l \in getLinks(s, h, tag) PROVE LinkCommitted(chain, h, l)
        <3>1. \E j \in DOMAIN s.links : s.links[j].Base = h /\ s.links[j].Tag = tag /\ s.links[j].Link = l
            BY ZenonT(30) DEF getLinks
        <3> QED BY ZenonT(30), <2>1, <3>1 DEF Held, LinksHeld
    <2>3. \A tag \in Tag : \A l \in getLinks(s, h, tag) :
                  \E e \in Hash : /\ CommittedAs("commit", e, e)
                                  /\ \E i \in DOMAIN LinksEntry[e] :
                                       /\ LinksEntry[e][i].Base = h
                                       /\ LinksEntry[e][i].Link = l
        BY ZenonT(30), <1>1, <2>2 DEF LinkCommitted
    <2>4. /\ s.status[h] # "absent" => OnChain(h) /\ Public(h)
          /\ s.status[h] = "modified" => CommittedAs("mod", s.replacedBy[h], h)
          /\ s.status[h] = "deleted" => \E e \in Hash : CommittedAs("del", e, h)
        BY ZenonT(30), <1>1, <1>2, <2>1 DEF Held
    <2> QED BY ZenonT(30), <2>3, <2>4 DEF s
<1> QED BY ZenonT(30), <1>3 DEF HInv, HeldWasCommitted, Ordinary

\* Whatever the calls, the order in which changes arrive, and the messages, calls
\* and nodes that fail on the way, a node holds only what the author has committed.
THEOREM HeldIsCommitted == Spec => []HeldWasCommitted
BY HInvInvariant, HeldImplies, PTL

-----------------------------------------------------------------------------
(* One call at a time *)

\* Node n, with box in its inbox, has yet to receive the change that call x is at.
Awaits(n, x, box) ==
    \/ x.pc = "self"
    \/ (x.pc = "spread" /\ n # Author)
    \/ (x.pc = "wait" /\ Head(x.todo) \in box)

\* The changes of x that n has yet to receive.
Left(n, x, box) == IF x.pc = "idle" \/ Awaits(n, x, box) THEN x.todo ELSE Tail(x.todo)

\* n receives the changes in their order, one after the other.
Smooth(n) == OneCaller /\ IF n = Author THEN "cutShort" \notin mishaps ELSE faults = 0

InTurn(cl, box) == \A m \in box : \E c \in Caller : cl[c].pc = "wait" /\ m = Head(cl[c].todo)

NoMod(q) == \A i \in DOMAIN q : q[i].msg.Type # "MOD_REQUEST"

\* The next change, if it is a mod, finds the entry that replaces.
Ready(s, t) ==
    t # << >> /\ Head(t).Type = "MOD_REQUEST" => s.status[Head(t).E] \notin {"absent", "modified"}

\* A public entry is on its way until it is there.
Brings(t, h) == \E i \in DOMAIN t : t[i].Type = "PUT_REQUEST" /\ t[i].H = h
Spreads(h) == h \notin DOMAIN Deletes /\ Public(h) /\ EntryDef[h].DataFormat # "links"
Comes(ch, s, t) ==
    \A h \in Hash : On(ch, h) /\ Spreads(h) => s.status[h] # "absent" \/ Brings(t, h)

InOrder(ch, s, t) == Ready(s, t) /\ Comes(ch, s, t)

\* Replacements are there, and lead downwards.
Downwards(s, r) ==
    \A h \in Hash : s.status[h] = "modified" =>
        /\ s.replacedBy[h] \in Hash /\ s.status[s.replacedBy[h]] # "absent"
        /\ r[s.replacedBy[h]] < r[h]
Ranked(s) == \E r \in [Hash -> Nat] : Downwards(s, r)

Ordered(ch, cl, n, s, box, q) ==
    /\ InTurn(cl, box) /\ NoMod(q) /\ Ranked(s)
    /\ \A c \in Caller : InOrder(ch, s, Left(n, cl[c], box))

OrderInv ==
    /\ \A c \in Caller : Shape(call[c].todo)
    /\ "cutShort" \in mishaps => faults # 0
    /\ \A n \in Peer : Smooth(n) => Ordered(chain, call, n, dht[n], inbox[n], queue[n])

-----------------------------------------------------------------------------
(* What a node makes of a change *)

\* What a node that receives m makes of the statuses and the replacements.
Effect(s, r, m) ==
    \/ /\ m.Type # "PUT_REQUEST" /\ r.status = s.status /\ r.replacedBy = s.replacedBy
    \/ /\ m.Type = "PUT_REQUEST" /\ r.replacedBy = s.replacedBy
       /\ \E st \in {"live", "rejected"} : r.status = [s.status EXCEPT ![m.H] = st]
    \/ /\ m.Type = "MOD_REQUEST" /\ r.status = [s.status EXCEPT ![m.H] = "modified"]
       /\ r.replacedBy = [s.replacedBy EXCEPT ![m.H] = m.E]
    \/ /\ m.Type = "DEL_REQUEST" /\ s.status[m.H] # "absent"
       /\ r.status = [s.status EXCEPT ![m.H] = "deleted"] /\ r.replacedBy = s.replacedBy

\* What the statuses and replacements become, by the author's answer.
LEMMA PhaseEffect ==
    ASSUME NEW n \in Peer, NEW m \in Message, Backed(chain, m), dht[n] \in Store,
           m.Type = "PUT_REQUEST" \/ dht[n].status[m.H] = "live"
    PROVE  Effect(dht[n], RunValidationPhase(n, m), m)
<1> DEFINE s == dht[n]
           r == RunValidationPhase(n, m)
<1>1. m.Type \in {"PUT_REQUEST", "MOD_REQUEST", "DEL_REQUEST", "LINK_REQUEST"} /\ m.H \in Hash
    BY ZenonT(30), MessageFields
<1>2. /\ "live" # "absent" /\ "MOD_REQUEST" # "PUT_REQUEST" /\ "DEL_REQUEST" # "PUT_REQUEST"
      /\ "LINK_REQUEST" # "PUT_REQUEST"
    OBVIOUS
<1>3. CASE ~Valid(n, m)
    <2>1. r = s
        BY ZenonT(30), <1>3, InvalidPhase
    <2>2. m.Type # "PUT_REQUEST"
        <3> SUFFICES ASSUME m.Type = "PUT_REQUEST" PROVE FALSE
            OBVIOUS
        <3>1. ActionOf[m.Type] = "put" /\ "put" # "link"
            BY DEF ActionOf
        <3> QED BY ZenonT(30), <1>3, <3>1 DEF Valid, GetValidationResponse, Backed, On, OnChain
    <2> HIDE DEF s, r
    <2>3. Effect(s, r, m)
        BY ZenonT(30), <2>1, <2>2 DEF Effect
    <2> QED BY ZenonT(30), <2>3 DEF s, r
<1>4. CASE Valid(n, m) /\ m.Type = "PUT_REQUEST"
    <2>1. PutMade(s, r, m, PutStatus(n, m))
        BY ZenonT(30), <1>4, PutPhase
    <2> HIDE DEF s, r
    <2>2. Effect(s, r, m)
        BY ZenonT(30), <1>4, <2>1 DEF Effect, PutMade
    <2> QED BY ZenonT(30), <2>2 DEF s, r
<1>5. CASE Valid(n, m) /\ m.Type = "MOD_REQUEST"
    <2>1. ModMade(s, r, m)
        BY ZenonT(30), <1>2, <1>5, ModPhase
    <2> HIDE DEF s, r
    <2>2. Effect(s, r, m)
        BY ZenonT(30), <1>5, <2>1 DEF Effect, ModMade
    <2> QED BY ZenonT(30), <2>2 DEF s, r
<1>6. CASE Valid(n, m) /\ m.Type = "DEL_REQUEST"
    <2>1. DelMade(s, r, m) /\ s.status[m.H] # "absent"
        BY ZenonT(30), <1>2, <1>6, DelPhase
    <2> HIDE DEF s, r
    <2>2. Effect(s, r, m)
        BY ZenonT(30), <1>6, <2>1 DEF Effect, DelMade
    <2> QED BY ZenonT(30), <2>2 DEF s, r
<1>7. CASE Valid(n, m) /\ m.Type = "LINK_REQUEST"
    <2>1. LinkMade(s, r, m) /\ s \in Store
        BY ZenonT(30), <1>7, LinkPhase
    <2> HIDE DEF s, r
    <2>2. SameEntries(s, r)
        BY ZenonT(30), <2>1, LinkKeeps
    <2>3. Effect(s, r, m)
        BY ZenonT(30), <1>2, <1>7, <2>2 DEF Effect, SameEntries
    <2> QED BY ZenonT(30), <2>3 DEF s, r
<1> QED BY ZenonT(30), <1>1, <1>3, <1>4, <1>5, <1>6, <1>7

\* m is queued, after rest.
Queued(q, rest, m) ==
    \E k \in 0..MaxRetries : q = Append(rest, [msg |-> m, retries |-> k])

\* What node n has when it has received m.
LEMMA ReceiveEffect ==
    ASSUME TypeOK, NEW n \in Peer, NEW m \in Message, Backed(chain, m),
           NEW k \in 0..MaxRetries, NEW rest, Receive(n, m, k, rest)
    PROVE  /\ Effect(dht[n], dht'[n], m)
           /\ \A p \in Peer : p # n => dht'[p] = dht[p] /\ queue'[p] = queue[p]
           /\ \/ queue'[n] = rest
              \/ /\ m.Type # "PUT_REQUEST" /\ dht[n].status[m.H] = "absent" /\ "queued" \in mishaps'
                 /\ Queued(queue'[n], rest, m)
           /\ mishaps \subseteq mishaps' /\ mishaps' \subseteq mishaps \cup {"queued"}
<1> DEFINE s == dht[n]
           r == RunValidationPhase(n, m)
           err == IF m.Type = "PUT_REQUEST" THEN "nil" ELSE GetErr(s, m.H, {})
           late == Append(rest, [msg |-> m, retries |-> k])
<1>1. /\ dht' = IF err = "nil" THEN [dht EXCEPT ![n] = r] ELSE dht
      /\ queue' = [queue EXCEPT ![n] = IF err = "ErrHashNotFound" THEN late ELSE rest]
      /\ mishaps' = mishaps \cup {x \in {"queued"} : err = "ErrHashNotFound"}
    BY ZenonT(30) DEF Receive
<1>2. /\ dht \in [Peer -> Store] /\ queue \in [Peer -> Seq(ToRetry)] /\ m.H \in Hash /\ s \in Store
    BY ZenonT(30), TypedIs, MessageFields
<1>3. err = "nil" => m.Type = "PUT_REQUEST" \/ s.status[m.H] = "live"
    BY ZenonT(30), <1>2, DefaultErr
<1>4. err = "ErrHashNotFound" => m.Type # "PUT_REQUEST" /\ s.status[m.H] = "absent"
    <2>1. "nil" # "ErrHashNotFound"
        OBVIOUS
    <2> QED BY ZenonT(30), <1>2, <2>1, DefaultErr
<1>5. err = "nil" => Effect(s, r, m)
    BY ZenonT(30), <1>2, <1>3, PhaseEffect
<1>6. Queued(late, rest, m)
    BY ZenonT(30) DEF Queued
<1>7. err # "nil" => Effect(s, s, m)
    BY ZenonT(30) DEF Effect
<1>8. s = dht[n]
    OBVIOUS
<1> HIDE DEF s, r, err, late
<1>9. Effect(s, dht'[n], m)
    <2>1. CASE err = "nil"
        BY ZenonT(30), <1>1, <1>2, <1>5, <2>1
    <2>2. CASE err # "nil"
        BY ZenonT(30), <1>1, <1>7, <1>8, <2>2
    <2> QED BY ZenonT(30), <2>1, <2>2
<1>10. \A p \in Peer : p # n => dht'[p] = dht[p] /\ queue'[p] = queue[p]
    BY ZenonT(30), <1>1, <1>2
<1>11. \/ queue'[n] = rest
       \/ /\ m.Type # "PUT_REQUEST" /\ s.status[m.H] = "absent" /\ "queued" \in mishaps'
          /\ Queued(queue'[n], rest, m)
    <2>1. CASE err = "ErrHashNotFound"
        <3>1. queue'[n] = late /\ "queued" \in mishaps'
            BY ZenonT(30), <1>1, <1>2, <2>1
        <3> QED BY ZenonT(30), <1>4, <1>6, <2>1, <3>1
    <2>2. CASE err # "ErrHashNotFound"
        BY ZenonT(30), <1>1, <1>2, <2>2
    <2> QED BY ZenonT(30), <2>1, <2>2
<1>12. mishaps \subseteq mishaps' /\ mishaps' \subseteq mishaps \cup {"queued"}
    BY ZenonT(30), <1>1
<1> QED BY ZenonT(30), <1>8, <1>9, <1>10, <1>11, <1>12

\* A mod finds the entry that replaces, which is not replaced itself: it becomes
\* the lowest, and all others rise.
LEMMA EffectRanked ==
    ASSUME NEW s \in Store, NEW r \in Store, NEW m \in Message, Effect(s, r, m), Ranked(s),
           m.Type = "MOD_REQUEST" => m.H # m.E /\ s.status[m.E] \notin {"absent", "modified"}
    PROVE  Ranked(r)
<1>1. /\ s.status \in [Hash -> Statuses] /\ s.replacedBy \in [Hash -> Hash \cup {NoHash}]
      /\ m.H \in Hash /\ m.E \in Hash
    BY ZenonT(30), StoreFields, MessageFields
<1>2. PICK k \in [Hash -> Nat] : Downwards(s, k)
    BY ZenonT(30) DEF Ranked
<1>3. \A h \in Hash : s.status[h] = "modified" =>
        /\ s.replacedBy[h] \in Hash /\ s.status[s.replacedBy[h]] # "absent"
        /\ k[s.replacedBy[h]] < k[h]
    BY ZenonT(30), <1>2 DEF Downwards
<1>4. /\ "live" \notin {"absent", "modified"} /\ "rejected" \notin {"absent", "modified"}
      /\ "deleted" \notin {"absent", "modified"} /\ "modified" # "absent"
    OBVIOUS
<1>5. CASE r.status = s.status /\ r.replacedBy = s.replacedBy
    BY ZenonT(30), <1>2, <1>5 DEF Ranked, Downwards
<1>6. ASSUME NEW st, st \notin {"absent", "modified"},
             r.status = [s.status EXCEPT ![m.H] = st], r.replacedBy = s.replacedBy
      PROVE  Ranked(r)
    <2>1. \A h \in Hash : r.status[h] = IF h = m.H THEN st ELSE s.status[h]
        BY ZenonT(30), <1>1, <1>6
    <2>2. \A h \in Hash : /\ r.status[h] = "modified" => s.status[h] = "modified"
                          /\ s.status[h] # "absent" => r.status[h] # "absent"
        BY ZenonT(30), <1>6, <2>1
    <2>3. Downwards(r, k)
        BY ZenonT(30), <1>3, <1>6, <2>2 DEF Downwards
    <2> QED BY ZenonT(30), <2>3 DEF Ranked
<1>7. CASE /\ m.Type = "MOD_REQUEST" /\ r.status = [s.status EXCEPT ![m.H] = "modified"]
           /\ r.replacedBy = [s.replacedBy EXCEPT ![m.H] = m.E]
    <2> DEFINE k2 == [h \in Hash |-> IF h = m.E THEN 0 ELSE k[h] + 1]
    <2>1. k2 \in [Hash -> Nat] /\ \A h \in Hash : k2[h] = IF h = m.E THEN 0 ELSE k[h] + 1
        OBVIOUS
    <2> HIDE DEF k2
    <2>2. /\ \A h \in Hash : r.status[h] = IF h = m.H THEN "modified" ELSE s.status[h]
          /\ \A h \in Hash : r.replacedBy[h] = IF h = m.H THEN m.E ELSE s.replacedBy[h]
        BY ZenonT(30), <1>1, <1>7
    <2>3. m.H # m.E /\ s.status[m.E] \notin {"absent", "modified"}
        BY ZenonT(30), <1>7
    <2>4. \A h \in Hash : s.status[h] # "absent" => r.status[h] # "absent"
        BY ZenonT(30), <1>4, <2>2
    <2>5. ASSUME NEW h \in Hash, r.status[h] = "modified"
          PROVE  /\ r.replacedBy[h] \in Hash /\ r.status[r.replacedBy[h]] # "absent"
                 /\ k2[r.replacedBy[h]] < k2[h]
        <3>1. h # m.E
            BY ZenonT(30), <1>1, <2>2, <2>3, <2>5
        <3>2. k2[h] = k[h] + 1 /\ k[h] \in Nat
            BY ZenonT(30), <2>1, <3>1
        <3>3. k2[m.E] = 0
            BY ZenonT(30), <1>1, <2>1
        <3>4. CASE h = m.H
            <4>1. r.replacedBy[h] = m.E
                BY ZenonT(30), <2>2, <3>4
            <4>2. r.status[m.E] # "absent"
                BY ZenonT(30), <1>1, <2>3, <2>4
            <4>3. 0 < k[h] + 1
                BY <3>2
            <4> QED BY ZenonT(30), <1>1, <3>2, <3>3, <4>1, <4>2, <4>3
        <3>5. CASE h # m.H
            <4> DEFINE y == s.replacedBy[h]
            <4>1. /\ r.replacedBy[h] = y /\ y \in Hash /\ s.status[y] # "absent" /\ k[y] < k[h]
                BY ZenonT(30), <1>3, <2>2, <2>5, <3>5
            <4> HIDE DEF y
            <4>2. k2[y] < k2[h]
                <5>1. k[y] \in Nat /\ k2[y] = IF y = m.E THEN 0 ELSE k[y] + 1
                    BY ZenonT(30), <2>1, <4>1
                <5> QED BY <3>2, <4>1, <5>1
            <4> QED BY ZenonT(30), <2>4, <4>1, <4>2
        <3> QED BY ZenonT(30), <3>4, <3>5
    <2>6. Downwards(r, k2)
        BY ZenonT(30), <2>5 DEF Downwards
    <2> QED BY ZenonT(30), <2>1, <2>6 DEF Ranked
<1> QED BY ZenonT(30), <1>4, <1>5, <1>6, <1>7 DEF Effect

\* What an effect leaves there.
LEMMA EffectKeeps ==
    ASSUME NEW s \in Store, NEW r \in Store, NEW m \in Message, Effect(s, r, m)
    PROVE  /\ \A h \in Hash : s.status[h] # "absent" => r.status[h] # "absent"
           /\ m.Type # "MOD_REQUEST" =>
                 \A h \in Hash : s.status[h] \notin {"absent", "modified"} =>
                                 r.status[h] \notin {"absent", "modified"}
           /\ m.Type = "PUT_REQUEST" => r.status[m.H] \notin {"absent", "modified"}
<1>1. s.status \in [Hash -> Statuses] /\ m.H \in Hash
    BY ZenonT(30), StoreFields, MessageFields
<1>2. /\ "live" \notin {"absent", "modified"} /\ "rejected" \notin {"absent", "modified"}
      /\ "deleted" \notin {"absent", "modified"} /\ "modified" # "absent"
      /\ "MOD_REQUEST" # "PUT_REQUEST" /\ "DEL_REQUEST" # "PUT_REQUEST"
    OBVIOUS
<1>4. CASE m.Type # "PUT_REQUEST" /\ r.status = s.status
    BY ZenonT(30), <1>4
<1>5. CASE /\ m.Type = "PUT_REQUEST"
           /\ \E st \in {"live", "rejected"} : r.status = [s.status EXCEPT ![m.H] = st]
    <2>1. PICK st \in {"live", "rejected"} : r.status = [s.status EXCEPT ![m.H] = st]
        BY ZenonT(30), <1>5
    <2>2. st \notin {"absent", "modified"} /\ st # "absent"
        BY ZenonT(30), <1>2
    <2>3. \A h \in Hash : r.status[h] = IF h = m.H THEN st ELSE s.status[h]
        BY ZenonT(30), <1>1, <2>1
    <2>4. r.status[m.H] = st
        BY ZenonT(30), <1>1, <2>3
    <2>5. \A h \in Hash : r.status[h] = st \/ r.status[h] = s.status[h]
        BY ZenonT(30), <2>3
    <2> QED BY <2>2, <2>4, <2>5
<1>6. CASE m.Type = "MOD_REQUEST" /\ r.status = [s.status EXCEPT ![m.H] = "modified"]
    <2>3. \A h \in Hash : r.status[h] = IF h = m.H THEN "modified" ELSE s.status[h]
        BY ZenonT(30), <1>1, <1>6
    <2>4. \A h \in Hash : r.status[h] = "modified" \/ r.status[h] = s.status[h]
        BY ZenonT(30), <2>3
    <2> QED BY <1>6, <2>4
<1>7. CASE m.Type = "DEL_REQUEST" /\ r.status = [s.status EXCEPT ![m.H] = "deleted"]
    <2>3. \A h \in Hash : r.status[h] = IF h = m.H THEN "deleted" ELSE s.status[h]
        BY ZenonT(30), <1>1, <1>7
    <2>4. \A h \in Hash : r.status[h] = "deleted" \/ r.status[h] = s.status[h]
        BY ZenonT(30), <2>3
    <2> QED BY <1>7, <2>4
<1> QED BY ZenonT(30), <1>4, <1>5, <1>6, <1>7 DEF Effect

\* The rest of a sequence.
LEMMA TailIs ==
    ASSUME NEW S, NEW t \in Seq(S), t # << >>
    PROVE  /\ Len(t) \in Nat \ {0} /\ DOMAIN t = 1..Len(t)
           /\ Tail(t) \in Seq(S) /\ Len(Tail(t)) = Len(t) - 1 /\ DOMAIN Tail(t) = 1..(Len(t) - 1)
           /\ \A i \in 1..(Len(t) - 1) : Tail(t)[i] = t[i + 1]
           /\ Head(t) = t[1]
           /\ Len(t) = 1 <=> Tail(t) = << >>
           /\ Tail(t) # << >> => Head(Tail(t)) = t[2] /\ 2 \in DOMAIN t
<1>1. Len(t) \in Nat \ {0} /\ DOMAIN t = 1..Len(t) /\ Head(t) = t[1]
    OBVIOUS
<1>2. /\ Tail(t) \in Seq(S) /\ Len(Tail(t)) = Len(t) - 1 /\ DOMAIN Tail(t) = 1..(Len(t) - 1)
      /\ \A i \in 1..(Len(t) - 1) : Tail(t)[i] = t[i + 1]
    OBVIOUS
<1> DEFINE u == Tail(t)
           k == Len(t)
<1>3. /\ u \in Seq(S) /\ Len(u) = k - 1 /\ \A i \in 1..(k - 1) : u[i] = t[i + 1]
      /\ k \in Nat \ {0} /\ DOMAIN t = 1..k
    BY ZenonT(30), <1>1, <1>2
<1> HIDE DEF u, k
<1>4. k = 1 <=> u = << >>
    BY ONLY <1>3
<1>5. u # << >> => Head(u) = t[2] /\ 2 \in DOMAIN t
    BY ONLY <1>3
<1> QED BY ZenonT(30), <1>1, <1>2, <1>4, <1>5 DEF u, k

\* After a mod comes nothing, and before it the put of the entry that replaces.
LEMMA ShapeTail ==
    ASSUME NEW t \in Seq(Message), t # << >>, Shape(t)
    PROVE  /\ Shape(Tail(t))
           /\ Head(t).Type = "MOD_REQUEST" => Tail(t) = << >>
           /\ Tail(t) # << >> /\ Head(Tail(t)).Type = "MOD_REQUEST" =>
                 Head(t).Type = "PUT_REQUEST" /\ Head(t).E = Head(Tail(t)).E
<1> DEFINE u == Tail(t)
           k == Len(t)
<1>1. /\ k \in Nat \ {0} /\ DOMAIN t = 1..k
      /\ u \in Seq(Message) /\ Len(u) = k - 1 /\ DOMAIN u = 1..(k - 1)
      /\ \A i \in 1..(k - 1) : u[i] = t[i + 1]
      /\ Head(t) = t[1]
      /\ k = 1 <=> u = << >>
      /\ u # << >> => Head(u) = t[2] /\ 2 \in DOMAIN t
    BY TailIs
<1>2. \A i \in 1..k : t[i].Type = "MOD_REQUEST" =>
        /\ i = k
        /\ i = 1 \/ (i = 2 /\ t[1].Type = "PUT_REQUEST" /\ t[1].E = t[2].E)
    BY ZenonT(30), <1>1 DEF Shape
<1> HIDE DEF u, k
<1>3. Shape(u)
    <2>1. \A i \in 1..(k - 1) : t[i + 1].Type = "MOD_REQUEST" => i = k - 1 /\ i = 1
        BY ONLY <1>1, <1>2
    <2>2. \A i \in DOMAIN u : u[i].Type = "MOD_REQUEST" => i = Len(u) /\ i = 1
        BY ZenonT(30), <1>1, <2>1
    <2> QED BY ZenonT(30), <2>2 DEF Shape
<1>4. t[1].Type = "MOD_REQUEST" => u = << >>
    BY ONLY <1>1, <1>2
<1>5. u # << >> /\ Head(u).Type = "MOD_REQUEST" => t[1].Type = "PUT_REQUEST" /\ t[1].E = Head(u).E
    BY ONLY <1>1, <1>2
<1> QED BY ZenonT(30), <1>1, <1>3, <1>4, <1>5 DEF u

\* A node that receives the next change finds the ones after it in order.
LEMMA EffectOrder ==
    ASSUME NEW s \in Store, NEW r \in Store, NEW ch, NEW t \in Seq(Message), t # << >>, Shape(t),
           AllBacked(ch, t), InOrder(ch, s, t), Effect(s, r, Head(t))
    PROVE  InOrder(ch, r, Tail(t))
<1> DEFINE m == Head(t)
           u == Tail(t)
<1>1. /\ m \in Message /\ u \in Seq(Message) /\ 1 \in DOMAIN t /\ t[1] = m
      /\ u # << >> => Head(u) \in Message
    BY HasFirst
<1>2. /\ \A h \in Hash : s.status[h] # "absent" => r.status[h] # "absent"
      /\ m.Type # "MOD_REQUEST" =>
                 \A h \in Hash : s.status[h] \notin {"absent", "modified"} =>
                                 r.status[h] \notin {"absent", "modified"}
      /\ m.Type = "PUT_REQUEST" => r.status[m.H] \notin {"absent", "modified"}
    BY ZenonT(30), <1>1, EffectKeeps
<1>3. m.Type = "PUT_REQUEST" => m.H = m.E
    BY ZenonT(30), <1>1 DEF AllBacked, Backed
<1>4. u # << >> /\ Head(u).Type = "MOD_REQUEST" => m.Type = "PUT_REQUEST" /\ m.E = Head(u).E
    BY ZenonT(30), ShapeTail
<1>5. \A i \in DOMAIN t : i = 1 \/ (i - 1 \in DOMAIN u /\ u[i - 1] = t[i])
    OBVIOUS
<1>6. \A h : Brings(t, h) => Brings(u, h) \/ (m.Type = "PUT_REQUEST" /\ m.H = h)
    <2> HIDE DEF m, u
    <2> QED BY ZenonT(30), <1>1, <1>5 DEF Brings
<1> HIDE DEF m, u
<1>7. Ready(r, u)
    BY ZenonT(30), <1>2, <1>3, <1>4 DEF Ready
<1>8. Comes(ch, r, u)
    <2>1. Comes(ch, s, t)
        BY ZenonT(30) DEF InOrder
    <2>2. m.Type = "PUT_REQUEST" => r.status[m.H] # "absent"
        BY <1>2
    <2> QED BY ZenonT(30), <1>2, <1>6, <2>1, <2>2 DEF Comes
<1> QED BY ZenonT(30), <1>7, <1>8 DEF InOrder, u

\* A retry leaves them in order.
LEMMA EffectAside ==
    ASSUME NEW s \in Store, NEW r \in Store, NEW m \in Message, NEW ch, NEW t \in Seq(Message),
           m.Type # "MOD_REQUEST", InOrder(ch, s, t), Effect(s, r, m)
    PROVE  InOrder(ch, r, t)
<1>1. /\ \A h \in Hash : s.status[h] # "absent" => r.status[h] # "absent"
      /\ m.Type # "MOD_REQUEST" =>
                 \A h \in Hash : s.status[h] \notin {"absent", "modified"} =>
                                 r.status[h] \notin {"absent", "modified"}
      /\ m.Type = "PUT_REQUEST" => r.status[m.H] \notin {"absent", "modified"}
    BY ZenonT(30), EffectKeeps
<1>2. t # << >> => Head(t).E \in Hash
    <2>1. t # << >> => Head(t) \in Message
        OBVIOUS
    <2> QED BY ZenonT(30), <2>1, MessageFields
<1> QED BY ZenonT(30), <1>1, <1>2 DEF InOrder, Ready, Comes

\* Node n receives the next change, t the changes it has yet to receive.
LEMMA Take ==
    ASSUME HInv, NEW n \in Peer, NEW t \in Seq(Message), t # << >>, Shape(t), AllBacked(chain, t),
           InOrder(chain, dht[n], t), NoMod(queue[n]), Ranked(dht[n]),
           Receive(n, Head(t), MaxRetries, queue[n]), dht' \in [Peer -> Store]
    PROVE  NoMod(queue'[n]) /\ Ranked(dht'[n]) /\ InOrder(chain, dht'[n], Tail(t))
<1> DEFINE m == Head(t)
           s == dht[n]
           r == dht'[n]
<1>1. TypeOK /\ queue \in [Peer -> Seq(ToRetry)] /\ s \in Store /\ r \in Store
    BY ZenonT(30), HInvIs
<1>2. m \in Message /\ 1 \in DOMAIN t /\ t[1] = m
    OBVIOUS
<1>3. MaxRetries \in 0..MaxRetries
    BY PublishAssumption
<1>4. Backed(chain, m) /\ m.H \in Hash /\ m.E \in Hash
    <2> HIDE DEF m
    <2> QED BY ZenonT(30), <1>2, MessageFields DEF AllBacked
<1> HIDE DEF m
<1>5. /\ Effect(s, r, m)
      /\ \/ queue'[n] = queue[n]
         \/ s.status[m.H] = "absent" /\ Queued(queue'[n], queue[n], m)
    <2>1. Receive(n, m, MaxRetries, queue[n])
        BY ZenonT(30) DEF m
    <2>2. /\ Effect(s, r, m)
          /\ \A p \in Peer : p # n => dht'[p] = dht[p] /\ queue'[p] = queue[p]
          /\ \/ queue'[n] = queue[n]
             \/ /\ m.Type # "PUT_REQUEST" /\ s.status[m.H] = "absent" /\ "queued" \in mishaps'
                /\ Queued(queue'[n], queue[n], m)
          /\ mishaps \subseteq mishaps' /\ mishaps' \subseteq mishaps \cup {"queued"}
        BY ONLY <1>1, <1>2, <1>3, <1>4, <2>1, n \in Peer, ReceiveEffect
    <2> QED BY ZenonT(30), <2>2
<1>6. m.Type = "MOD_REQUEST" => /\ m.H # m.E /\ s.status[m.E] \notin {"absent", "modified"}
                                /\ s.status[m.H] # "absent"
    <2> SUFFICES ASSUME m.Type = "MOD_REQUEST"
                 PROVE  /\ m.H # m.E /\ s.status[m.E] \notin {"absent", "modified"}
                        /\ s.status[m.H] # "absent"
        OBVIOUS
    <2>1. /\ m.H # m.E /\ On(chain, m.H) /\ Spreads(m.H)
        BY ZenonT(30), <1>4 DEF Backed, Spreads
    <2>2. s.status[m.E] \notin {"absent", "modified"}
        BY ZenonT(30) DEF InOrder, Ready, m
    <2>3. ~Brings(t, m.H)
        <3>1. Tail(t) = << >>
            BY ZenonT(30), ShapeTail DEF m
        <3>2. \A i \in DOMAIN t : i = 1
            <4>1. Len(t) = 1 /\ DOMAIN t = 1..Len(t)
                BY ZenonT(30), <3>1, TailIs
            <4> QED BY ONLY <4>1
        <3>3. m.Type # "PUT_REQUEST"
            OBVIOUS
        <3> QED BY ZenonT(30), <1>2, <3>2, <3>3 DEF Brings
    <2>4. s.status[m.H] # "absent"
        BY ZenonT(30), <1>4, <2>1, <2>3 DEF InOrder, Comes
    <2> QED BY ZenonT(30), <2>1, <2>2, <2>4
<1>7. NoMod(queue'[n])
    <2>1. CASE queue'[n] = queue[n]
        BY ZenonT(30), <2>1
    <2>2. CASE m.Type # "MOD_REQUEST" /\ Queued(queue'[n], queue[n], m)
        <3>1. PICK k \in 0..MaxRetries : queue'[n] = Append(queue[n], [msg |-> m, retries |-> k])
            BY ZenonT(30), <2>2 DEF Queued
        <3> DEFINE x == [msg |-> m, retries |-> k]
                   q == queue[n]
        <3>2. x \in ToRetry /\ x.msg = m
            BY ZenonT(30), <1>2 DEF ToRetry
        <3>3. q \in Seq(ToRetry)
            BY ZenonT(30), <1>1
        <3>4. queue'[n] = Append(q, x) /\ NoMod(q)
            BY ZenonT(30), <3>1
        <3> HIDE DEF x, q
        <3>5. /\ Append(q, x) \in Seq(ToRetry)
              /\ \A i \in DOMAIN Append(q, x) : (i \in DOMAIN q /\ Append(q, x)[i] = q[i]) \/ Append(q, x)[i] = x
            BY ONLY <3>2, <3>3, HasLast
        <3> DEFINE w == Append(q, x)
        <3>6. /\ queue'[n] = w
              /\ \A i \in DOMAIN w : (i \in DOMAIN q /\ w[i] = q[i]) \/ w[i] = x
            BY ZenonT(30), <3>4, <3>5
        <3> HIDE DEF w
        <3>7. NoMod(w)
            BY ZenonT(30), <2>2, <3>2, <3>4, <3>6 DEF NoMod
        <3> QED BY ZenonT(30), <3>6, <3>7
    <2> QED BY ZenonT(30), <1>5, <1>6, <2>1, <2>2
<1>8. Ranked(r)
    BY ZenonT(30), <1>1, <1>2, <1>5, <1>6, EffectRanked
<1>9. InOrder(chain, r, Tail(t))
    BY ZenonT(30), <1>1, <1>5, EffectOrder DEF m
<1> QED BY ZenonT(30), <1>7, <1>8, <1>9

-----------------------------------------------------------------------------
(* The steps keep the order *)

\* What a call starts with.
Opens(t) == t # << >> => Head(t).Type # "MOD_REQUEST"

\* A step without a fault leaves a node where changes come in turn if they did.
LEMMA Unworse ==
    ASSUME faults' = faults, mishaps \subseteq mishaps', mishaps' \subseteq mishaps \cup {"queued"}, OrderInv
    PROVE  /\ \A n : Smooth(n)' => Smooth(n)
           /\ "cutShort" \in mishaps' => faults' # 0
<1>1. "cutShort" # "queued"
    OBVIOUS
<1> QED BY ZenonT(30), <1>1 DEF Smooth, OrderInv

\* After a fault they do at most at the author.
LEMMA Worse ==
    ASSUME HInv, Fault, mishaps \subseteq mishaps'
    PROVE  /\ \A n : Smooth(n)' => n = Author /\ Smooth(n)
           /\ faults' # 0
<1>1. faults \in 0..MaxFaults /\ faults' = faults + 1
    BY ZenonT(30), HInvIs DEF Fault
<1>2. faults' # 0
    <2>1. MaxFaults \in Nat
        BY ZenonT(30), PublishAssumption
    <2> QED BY <1>1, <2>1
<1> QED BY ZenonT(30), <1>2 DEF Smooth

\* A call commits.
LEMMA DoOrder ==
    ASSUME HInv, OrderInv, NEW c \in Caller, NEW action \in {"commit", "mod", "del"},
           NEW e \in Hash, NEW h \in Hash, NEW sends \in Seq(Message), Shape(sends), Opens(sends),
           Spreads(e) => Brings(sends, e), doCommit(c, action, e, h, sends)
    PROVE  OrderInv'
<1> DEFINE x == [E |-> e, Action |-> action, H |-> h]
<1>1. x \in Committed /\ x.E = e
    BY ZenonT(30) DEF Committed
<1>2. /\ chain' = Append(chain, x) /\ dht' = dht /\ inbox' = inbox /\ queue' = queue
      /\ faults' = faults /\ mishaps' = mishaps /\ Proceed(c, sends) /\ call[c].pc = "idle"
    BY ZenonT(30) DEF doCommit
<1> HIDE DEF x
<1>3. /\ chain \in Seq(Committed) /\ TypeOK /\ call[c].todo = << >>
      /\ inbox \in [Peer -> SUBSET Message]
    BY ZenonT(30), <1>2, HInvIs DEF CallTyped
<1>4. /\ call' \in [Caller -> CallState] /\ \A d \in Caller : CallTyped(call'[d])
      /\ \A d \in Caller : d # c => call'[d] = call[d]
      /\ call'[c].todo = sends /\ call'[c].pc \in {"idle", "self"}
    BY ZenonT(30), <1>2, <1>3, ProceedStep
<1>5. \A g : On(chain', g) => On(chain, g) \/ g = e
    <2>1. \A i \in DOMAIN Append(chain, x) : (i \in DOMAIN chain /\ Append(chain, x)[i] = chain[i])
                                             \/ Append(chain, x)[i] = x
        BY ONLY <1>1, <1>3
    <2> QED BY ZenonT(30), <1>1, <1>2, <2>1 DEF On
<1>6. /\ \A n : Smooth(n)' => Smooth(n)
      /\ "cutShort" \in mishaps' => faults' # 0
    BY ZenonT(30), <1>2, Unworse
<1>7. ASSUME NEW n \in Peer, Smooth(n)'
      PROVE  Ordered(chain', call', n, dht'[n], inbox'[n], queue'[n])
    <2> DEFINE s == dht[n]
               box == inbox[n]
    <2>1. Ordered(chain, call, n, s, box, queue[n]) /\ OneCaller
        BY ZenonT(30), <1>6, <1>7 DEF OrderInv, Smooth
    <2>2. \A d \in Caller : d = c
        BY ZenonT(30), <2>1 DEF OneCaller
    <2>3. box = {}
        <3>1. "idle" # "wait"
            OBVIOUS
        <3> QED BY ZenonT(30), <1>2, <2>1, <2>2, <3>1 DEF Ordered, InTurn
    <2>4. \A g \in Hash : On(chain, g) /\ Spreads(g) => s.status[g] # "absent"
        <3>1. Left(n, call[c], box) = << >> /\ DOMAIN << >> = {}
            <4>1. Left(n, call[c], box) = << >>
                BY ZenonT(30), <1>2, <1>3 DEF Left
            <4> QED BY <4>1
        <3>2. Comes(chain, s, << >>)
            BY ZenonT(30), <2>1, <3>1 DEF Ordered, InOrder
        <3> QED BY ZenonT(30), <3>1, <3>2 DEF Comes, Brings
    <2>5. InOrder(chain', s, sends)
        BY ZenonT(30), <1>5, <2>4 DEF InOrder, Ready, Comes, Opens
    <2>6. Left(n, call'[c], box) = sends
        BY ZenonT(30), <1>4 DEF Left, Awaits
    <2> HIDE DEF s, box
    <2>7. Ordered(chain', call', n, s, box, queue[n])
        BY ZenonT(30), <2>1, <2>2, <2>3, <2>5, <2>6 DEF Ordered, InTurn
    <2> QED BY ZenonT(30), <1>2, <2>7 DEF s, box
<1>8. \A d \in Caller : Shape(call'[d].todo)
    BY ZenonT(30), <1>4 DEF OrderInv
<1> QED BY ZenonT(30), <1>6, <1>7, <1>8 DEF OrderInv

\* A call goes on: every node that the changes get to in turn has got this one.
LEMMA NextOrder ==
    ASSUME HInv, OrderInv, NEW c \in Caller, call[c].pc \in {"spread", "wait"},
           Proceed(c, Tail(call[c].todo)),
           \/ faults' = faults /\ \A n \in Others : call[c].pc = "wait" /\ Head(call[c].todo) \notin inbox[n]
           \/ Fault,
           chain' = chain, dht' = dht, inbox' = inbox, queue' = queue, mishaps' = mishaps
    PROVE  OrderInv'
<1> DEFINE t == call[c].todo
<1>1. /\ TypeOK /\ inbox[Author] = {} /\ call[c].pc # "idle"
    <2>1. call[c].pc # "idle"
        OBVIOUS
    <2> QED BY ZenonT(30), <2>1, HInvIs DEF SentInv
<1>2. /\ t \in Seq(Message) /\ t # << >> /\ Tail(t) \in Seq(Message)
    BY ZenonT(30), <1>1, BusyHas
<1>3. /\ call' \in [Caller -> CallState] /\ \A d \in Caller : CallTyped(call'[d])
      /\ \A d \in Caller : d # c => call'[d] = call[d]
      /\ call'[c].todo = Tail(t) /\ call'[c].pc \in {"idle", "self"}
    BY ZenonT(30), <1>1, <1>2, ProceedStep
<1>4. /\ \A n : Smooth(n)' => Smooth(n) /\ (n \in Others => call[c].pc = "wait" /\ Head(t) \notin inbox[n])
      /\ "cutShort" \in mishaps' => faults' # 0
    <2>1. CASE Fault
        BY ZenonT(30), <2>1, Worse DEF Others
    <2>2. CASE /\ faults' = faults
               /\ \A n \in Others : call[c].pc = "wait" /\ Head(t) \notin inbox[n]
        BY ZenonT(30), <2>2, Unworse
    <2> QED BY ZenonT(30), <2>1, <2>2
<1>5. Shape(Tail(t))
    BY ZenonT(30), <1>2, ShapeTail DEF OrderInv
<1>6. "idle" \notin {"spread", "wait", "self"} /\ "self" \notin {"idle", "spread", "wait"} /\ "spread" # "wait"
    OBVIOUS
<1>7. call[c].pc # "self" /\ call[c].pc # "idle"
    OBVIOUS
<1>8. t = call[c].todo
    OBVIOUS
<1> HIDE DEF t
<1>9. ASSUME NEW n \in Peer, Smooth(n)'
      PROVE  Ordered(chain', call', n, dht'[n], inbox'[n], queue'[n])
    <2> DEFINE s == dht[n]
               box == inbox[n]
    <2>1. Ordered(chain, call, n, s, box, queue[n]) /\ OneCaller
        BY ZenonT(30), <1>4, <1>9 DEF OrderInv, Smooth
    <2>2. \A d \in Caller : d = c
        BY ZenonT(30), <2>1 DEF OneCaller
    <2>3. n = Author \/ (call[c].pc = "wait" /\ Head(t) \notin box)
        BY ZenonT(30), <1>4, <1>9 DEF Others
    <2>4. box = {}
        BY ZenonT(30), <1>1, <1>8, <2>1, <2>2, <2>3 DEF Ordered, InTurn
    <2>5. ~Awaits(n, call[c], box)
        BY ZenonT(30), <1>6, <1>7, <2>3, <2>4 DEF Awaits
    <2>6. Left(n, call[c], box) = Tail(t) /\ Left(n, call'[c], box) = Tail(t)
        <3>1. Left(n, call[c], box) = Tail(t)
            BY ZenonT(30), <1>7, <1>8, <2>5 DEF Left
        <3>2. Left(n, call'[c], box) = Tail(t)
            BY ZenonT(30), <1>3 DEF Left, Awaits
        <3> QED BY ZenonT(30), <3>1, <3>2
    <2> HIDE DEF s, box
    <2>7. Ordered(chain, call', n, s, box, queue[n])
        BY ZenonT(30), <2>1, <2>2, <2>4, <2>6 DEF Ordered, InTurn
    <2> QED BY ZenonT(30), <2>7 DEF s, box
<1>10. \A d \in Caller : Shape(call'[d].todo)
    BY ZenonT(30), <1>3, <1>5 DEF OrderInv
<1> QED BY ZenonT(30), <1>4, <1>9, <1>10 DEF OrderInv

\* Receiving concerns one node.
LEMMA ReceiveRest ==
    ASSUME TypeOK, NEW n \in Peer, NEW m \in Message, Backed(chain, m),
           NEW k \in 0..MaxRetries, NEW rest, Receive(n, m, k, rest)
    PROVE  /\ \A p \in Peer : p # n => dht'[p] = dht[p] /\ queue'[p] = queue[p]
           /\ mishaps \subseteq mishaps' /\ mishaps' \subseteq mishaps \cup {"queued"}
<1>1. /\ Effect(dht[n], dht'[n], m)
      /\ \A p \in Peer : p # n => dht'[p] = dht[p] /\ queue'[p] = queue[p]
      /\ \/ queue'[n] = rest
         \/ /\ m.Type # "PUT_REQUEST" /\ dht[n].status[m.H] = "absent" /\ "queued" \in mishaps'
            /\ Queued(queue'[n], rest, m)
      /\ mishaps \subseteq mishaps' /\ mishaps' \subseteq mishaps \cup {"queued"}
    BY ONLY TypeOK, n \in Peer, m \in Message, Backed(chain, m),
           k \in 0..MaxRetries, Receive(n, m, k, rest), ReceiveEffect
<1> QED BY ZenonT(30), <1>1

\* The author's own node gets its change.
LEMMA SelfOrder ==
    ASSUME HInv, OrderInv, NEW c \in Caller, SelfSend(c)
    PROVE  OrderInv'
<1> DEFINE t == call[c].todo
           m == Head(t)
<1>1. /\ inbox \in [Peer -> SUBSET Message] /\ queue \in [Peer -> Seq(ToRetry)]
      /\ BackedInv /\ inbox[Author] = {} /\ TypeOK
    BY ZenonT(30), HInvIs DEF SentInv
<1>2. /\ call[c].pc = "self" /\ Receive(Author, m, MaxRetries, queue[Author])
      /\ call' = [call EXCEPT ![c].pc = "spread"]
      /\ chain' = chain /\ inbox' = inbox /\ faults' = faults
    BY ZenonT(30) DEF SelfSend
<1>3. call[c].pc # "idle" /\ "spread" \in {"spread", "wait"} /\ Author \in Peer
    BY <1>2, PublishAssumption
<1>4. t \in Seq(Message) /\ t # << >> /\ m \in Message /\ 1 \in DOMAIN t /\ t[1] = m
    BY ZenonT(30), <1>1, <1>3, BusyHas
<1>5. AllBacked(chain, t) /\ Backed(chain, m)
    BY ZenonT(30), <1>1, <1>4 DEF BackedInv, AllBacked
<1>6. /\ call' \in [Caller -> CallState] /\ \A d \in Caller : CallTyped(call'[d])
      /\ \A d \in Caller : d # c => call'[d] = call[d]
      /\ call'[c].todo = t /\ call'[c].pc = "spread"
    BY ZenonT(30), <1>1, <1>2, <1>3, PcStep
<1>7. dht' \in [Peer -> Store]
    <2>1. HInv'
        BY ZenonT(30), SelfStep
    <2> QED BY ZenonT(30), <2>1 DEF HInv, TypeOK
<1>8. MaxRetries \in 0..MaxRetries
    BY PublishAssumption
<1>9. t = call[c].todo /\ m = Head(t)
    OBVIOUS
<1> HIDE DEF t, m
<1>10. /\ \A p \in Peer : p # Author => dht'[p] = dht[p] /\ queue'[p] = queue[p]
       /\ mishaps \subseteq mishaps' /\ mishaps' \subseteq mishaps \cup {"queued"}
    BY ZenonT(30), <1>1, <1>2, <1>3, <1>4, <1>5, <1>8, ReceiveRest
<1>11. /\ \A n : Smooth(n)' => Smooth(n)
       /\ "cutShort" \in mishaps' => faults' # 0
    BY ZenonT(30), <1>2, <1>10, Unworse
<1>12. /\ "self" \notin {"idle", "spread", "wait"} /\ "spread" \notin {"idle", "self", "wait"}
    OBVIOUS
<1>13. Shape(t)
    BY ZenonT(30), <1>9 DEF OrderInv
<1>14. ASSUME NEW n \in Peer, Smooth(n)'
       PROVE  Ordered(chain', call', n, dht'[n], inbox'[n], queue'[n])
    <2> DEFINE s == dht[n]
               box == inbox[n]
    <2>1. Ordered(chain, call, n, s, box, queue[n]) /\ OneCaller
        BY ZenonT(30), <1>11, <1>14 DEF OrderInv, Smooth
    <2>2. \A d \in Caller : d = c
        BY ZenonT(30), <2>1 DEF OneCaller
    <2>3. box = {}
        BY ZenonT(30), <1>2, <1>12, <2>1, <2>2 DEF Ordered, InTurn
    <2>4. Left(n, call[c], box) = t
        BY ZenonT(30), <1>2, <1>9 DEF Left, Awaits
    <2>5. InOrder(chain, s, t) /\ NoMod(queue[n]) /\ Ranked(s)
        BY ZenonT(30), <2>1, <2>4 DEF Ordered
    <2>6. NoMod(queue'[n]) /\ Ranked(dht'[n]) /\ InOrder(chain, dht'[n], Left(n, call'[c], box))
        <3>1. CASE n = Author
            <4>1. Left(n, call'[c], box) = Tail(t)
                BY ZenonT(30), <1>6, <1>12, <2>3, <3>1 DEF Left, Awaits
            <4>2. NoMod(queue'[n]) /\ Ranked(dht'[n]) /\ InOrder(chain, dht'[n], Tail(t))
                BY ZenonT(30), <1>2, <1>4, <1>5, <1>7, <1>9, <1>13, <2>5, <3>1, Take
            <4> QED BY ZenonT(30), <4>1, <4>2
        <3>2. CASE n # Author
            <4>1. Left(n, call'[c], box) = t
                BY ZenonT(30), <1>6, <1>12, <3>2 DEF Left, Awaits
            <4> QED BY ZenonT(30), <1>10, <2>5, <3>2, <4>1
        <3> QED BY ZenonT(30), <3>1, <3>2
    <2> HIDE DEF s, box
    <2>7. Ordered(chain, call', n, dht'[n], box, queue'[n])
        BY ZenonT(30), <2>2, <2>3, <2>6 DEF Ordered, InTurn
    <2> QED BY ZenonT(30), <1>2, <2>7 DEF box
<1>15. \A d \in Caller : Shape(call'[d].todo)
    BY ZenonT(30), <1>6, <1>9 DEF OrderInv
<1> QED BY ZenonT(30), <1>11, <1>14, <1>15 DEF OrderInv

\* The change is on its way.
LEMMA SpreadOrder ==
    ASSUME HInv, OrderInv, NEW c \in Caller, Spread(c)
    PROVE  OrderInv'
<1> DEFINE t == call[c].todo
           m == Head(t)
<1>1. /\ inbox \in [Peer -> SUBSET Message] /\ inbox[Author] = {} /\ TypeOK
    BY ZenonT(30), HInvIs DEF SentInv
<1>2. /\ call[c].pc = "spread" /\ call' = [call EXCEPT ![c].pc = "wait"]
      /\ inbox' = [n \in Peer |-> inbox[n] \cup IF n = Author THEN {} ELSE {m}]
      /\ chain' = chain /\ dht' = dht /\ queue' = queue /\ faults' = faults /\ mishaps' = mishaps
    BY ZenonT(30) DEF Spread
<1>3. call[c].pc # "idle" /\ "wait" \in {"spread", "wait"}
    BY <1>2
<1>6. /\ call' \in [Caller -> CallState] /\ \A d \in Caller : CallTyped(call'[d])
      /\ \A d \in Caller : d # c => call'[d] = call[d]
      /\ call'[c].todo = t /\ call'[c].pc = "wait"
    BY ZenonT(30), <1>1, <1>2, <1>3, PcStep
<1>9. t = call[c].todo /\ m = Head(t)
    OBVIOUS
<1> HIDE DEF t, m
<1>11. /\ \A n : Smooth(n)' => Smooth(n)
       /\ "cutShort" \in mishaps' => faults' # 0
    BY ZenonT(30), <1>2, Unworse
<1>12. /\ "spread" \notin {"idle", "self", "wait"} /\ "wait" \notin {"idle", "self", "spread"}
    OBVIOUS
<1>14. ASSUME NEW n \in Peer, Smooth(n)'
       PROVE  Ordered(chain', call', n, dht'[n], inbox'[n], queue'[n])
    <2> DEFINE s == dht[n]
               box == inbox[n]
               new == inbox'[n]
    <2>1. Ordered(chain, call, n, s, box, queue[n]) /\ OneCaller
        BY ZenonT(30), <1>11, <1>14 DEF OrderInv, Smooth
    <2>2. \A d \in Caller : d = c
        BY ZenonT(30), <2>1 DEF OneCaller
    <2>3. box = {}
        BY ZenonT(30), <1>2, <1>12, <2>1, <2>2 DEF Ordered, InTurn
    <2>4. new = IF n = Author THEN {} ELSE {m}
        BY ZenonT(30), <1>2, <2>3
    <2> HIDE DEF box, new
    <2>5. Left(n, call'[c], new) = Left(n, call[c], box)
        <3>1. CASE n = Author
            <4>1. Left(n, call[c], box) = Tail(t)
                BY ZenonT(30), <1>2, <1>9, <1>12, <2>3, <3>1 DEF Left, Awaits
            <4>2. Left(n, call'[c], new) = Tail(t)
                BY ZenonT(30), <1>6, <1>12, <2>4, <3>1 DEF Left, Awaits
            <4> QED BY ZenonT(30), <4>1, <4>2
        <3>2. CASE n # Author
            <4>1. Left(n, call[c], box) = t
                BY ZenonT(30), <1>2, <1>9, <3>2 DEF Left, Awaits
            <4>2. Left(n, call'[c], new) = t
                BY ZenonT(30), <1>6, <1>9, <2>4, <3>2 DEF Left, Awaits
            <4> QED BY ZenonT(30), <4>1, <4>2
        <3> QED BY ZenonT(30), <3>1, <3>2
    <2>6. InTurn(call', new)
        BY ZenonT(30), <1>6, <1>9, <2>4 DEF InTurn
    <2> HIDE DEF s
    <2>7. Ordered(chain, call', n, s, new, queue[n])
        BY ZenonT(30), <2>1, <2>2, <2>5, <2>6 DEF Ordered
    <2> QED BY ZenonT(30), <1>2, <2>7 DEF s, new
<1>15. \A d \in Caller : Shape(call'[d].todo)
    BY ZenonT(30), <1>6, <1>9 DEF OrderInv
<1> QED BY ZenonT(30), <1>11, <1>14, <1>15 DEF OrderInv

\* A peer gets it.
LEMMA ReceiverOrder ==
    ASSUME HInv, OrderInv, NEW p \in Peer, NEW m \in inbox[p], ActionReceiver(p, m)
    PROVE  OrderInv'
<1>1. /\ inbox \in [Peer -> SUBSET Message] /\ queue \in [Peer -> Seq(ToRetry)]
      /\ BackedInv /\ inbox[Author] = {} /\ TypeOK
    BY ZenonT(30), HInvIs DEF SentInv
<1>2. /\ inbox' = [inbox EXCEPT ![p] = @ \ {m}]
      /\ Receive(p, m, MaxRetries, queue[p]) /\ chain' = chain /\ call' = call /\ faults' = faults
    BY ZenonT(30) DEF ActionReceiver
<1>3. m \in Message /\ Backed(chain, m) /\ p # Author
    BY ZenonT(30), <1>1 DEF BackedInv
<1>7. dht' \in [Peer -> Store]
    <2>1. HInv'
        BY ZenonT(30), ReceiverStep
    <2> QED BY ZenonT(30), <2>1 DEF HInv, TypeOK
<1>8. MaxRetries \in 0..MaxRetries
    BY PublishAssumption
<1>10. /\ \A n \in Peer : n # p => dht'[n] = dht[n] /\ queue'[n] = queue[n]
       /\ mishaps \subseteq mishaps' /\ mishaps' \subseteq mishaps \cup {"queued"}
    BY ZenonT(30), <1>1, <1>2, <1>3, <1>8, ReceiveRest
<1>11. /\ \A n : Smooth(n)' => Smooth(n)
       /\ "cutShort" \in mishaps' => faults' # 0
    BY ZenonT(30), <1>2, <1>10, Unworse
<1>14. ASSUME NEW n \in Peer, Smooth(n)'
       PROVE  Ordered(chain', call', n, dht'[n], inbox'[n], queue'[n])
    <2>1. Ordered(chain, call, n, dht[n], inbox[n], queue[n]) /\ OneCaller
        BY ZenonT(30), <1>11, <1>14 DEF OrderInv, Smooth
    <2>2. CASE n # p
        <3>1. inbox'[n] = inbox[n] /\ dht'[n] = dht[n] /\ queue'[n] = queue[n]
            BY ZenonT(30), <1>1, <1>2, <1>10, <2>2
        <3> QED BY ZenonT(30), <1>2, <2>1, <3>1
    <2>3. CASE n = p
        <3> DEFINE box == inbox[p]
                   new == inbox'[p]
        <3>1. PICK c \in Caller : call[c].pc = "wait" /\ m = Head(call[c].todo)
            BY ZenonT(30), <2>1, <2>3 DEF Ordered, InTurn
        <3>2. \A d \in Caller : d = c
            BY ZenonT(30), <2>1 DEF OneCaller
        <3> DEFINE t == call[c].todo
        <3>3. call[c].pc # "idle"
            BY <3>1
        <3>4. t \in Seq(Message) /\ t # << >>
            BY ZenonT(30), <1>1, <3>3, BusyHas
        <3>5. AllBacked(chain, t) /\ Shape(t)
            BY ZenonT(30), <1>1 DEF BackedInv, OrderInv
        <3>6. t = call[c].todo /\ m = Head(t)
            BY ZenonT(30), <3>1
        <3> HIDE DEF t
        <3>7. m \in box /\ new = box \ {m}
            BY ZenonT(30), <1>1, <1>2
        <3> HIDE DEF box, new
        <3>8. Left(n, call[c], box) = t
            BY ZenonT(30), <3>1, <3>6, <3>7 DEF Left, Awaits
        <3>9. Left(n, call[c], new) = Tail(t)
            <4>1. "wait" \notin {"idle", "self", "spread"}
                OBVIOUS
            <4> QED BY ZenonT(30), <3>1, <3>6, <3>7, <4>1 DEF Left, Awaits
        <3>10. InOrder(chain, dht[p], t) /\ NoMod(queue[p]) /\ Ranked(dht[p]) /\ InTurn(call, box)
            BY ZenonT(30), <2>1, <2>3, <3>8 DEF Ordered, box
        <3>11. NoMod(queue'[p]) /\ Ranked(dht'[p]) /\ InOrder(chain, dht'[p], Tail(t))
            BY ZenonT(30), <1>2, <1>7, <3>4, <3>5, <3>6, <3>10, Take
        <3>12. InTurn(call, new)
            BY ZenonT(30), <3>7, <3>10 DEF InTurn
        <3>13. Ordered(chain, call, n, dht'[p], new, queue'[p])
            BY ZenonT(30), <3>2, <3>9, <3>11, <3>12 DEF Ordered
        <3> QED BY ZenonT(30), <1>2, <2>3, <3>13 DEF new
    <2> QED BY ZenonT(30), <2>2, <2>3
<1>15. \A d \in Caller : Shape(call'[d].todo)
    BY ZenonT(30), <1>2 DEF OrderInv
<1> QED BY ZenonT(30), <1>11, <1>14, <1>15 DEF OrderInv

\* What is tried again is no mod.
LEMMA RetryOrder ==
    ASSUME HInv, OrderInv, NEW p \in Peer, RetryTask(p)
    PROVE  OrderInv'
<1>1. /\ call \in [Caller -> CallState] /\ queue \in [Peer -> Seq(ToRetry)] /\ dht \in [Peer -> Store]
      /\ BackedInv /\ TypeOK
    BY ZenonT(30), HInvIs
<1> DEFINE r == Head(queue[p])
           m == r.msg
           rest == Tail(queue[p])
<1>2. /\ queue[p] # << >> /\ chain' = chain /\ call' = call /\ inbox' = inbox /\ faults' = faults
      /\ \/ r.retries > 0 /\ Receive(p, m, r.retries - 1, rest)
         \/ queue' = [queue EXCEPT ![p] = rest] /\ dht' = dht /\ mishaps' = mishaps
    BY ZenonT(30) DEF RetryTask
<1>3. /\ r \in ToRetry /\ rest \in Seq(ToRetry) /\ 1 \in DOMAIN queue[p] /\ queue[p][1] = r
      /\ \A i \in DOMAIN rest : i + 1 \in DOMAIN queue[p] /\ rest[i] = queue[p][i + 1]
    <2> DEFINE t == queue[p]
    <2>1. t \in Seq(ToRetry) /\ t # << >>
        BY ZenonT(30), <1>1, <1>2
    <2> HIDE DEF t
    <2>2. /\ Head(t) \in ToRetry /\ Tail(t) \in Seq(ToRetry) /\ 1 \in DOMAIN t /\ t[1] = Head(t)
          /\ \A i \in DOMAIN Tail(t) : i + 1 \in DOMAIN t /\ Tail(t)[i] = t[i + 1]
        BY ONLY <2>1
    <2> QED BY ZenonT(30), <2>2 DEF t
<1>4. m \in Message /\ Backed(chain, m) /\ m.Type # "PUT_REQUEST" /\ r.retries \in 0..MaxRetries
    BY ZenonT(30), <1>1, <1>3 DEF ToRetry, BackedInv, QueueBacked
<1>7. dht' \in [Peer -> Store]
    <2>1. HInv'
        BY ZenonT(30), RetryStep
    <2> QED BY ZenonT(30), <2>1 DEF HInv, TypeOK
<1>6. NoMod(queue[p]) => NoMod(rest) /\ m.Type # "MOD_REQUEST"
    BY ZenonT(30), <1>3 DEF NoMod
<1> HIDE DEF r, m, rest
<1>8. /\ Effect(dht[p], dht'[p], m)
      /\ \A n \in Peer : n # p => dht'[n] = dht[n] /\ queue'[n] = queue[n]
      /\ queue'[p] = rest \/ Queued(queue'[p], rest, m)
      /\ mishaps \subseteq mishaps' /\ mishaps' \subseteq mishaps \cup {"queued"}
    <2>1. CASE r.retries > 0 /\ Receive(p, m, r.retries - 1, rest)
        <3> DEFINE k == r.retries - 1
        <3>1. k \in 0..MaxRetries
            <4>1. MaxRetries \in Nat
                BY ZenonT(30), PublishAssumption
            <4> QED BY <1>4, <2>1, <4>1
        <3>2. Receive(p, m, k, rest)
            BY ZenonT(30), <2>1
        <3> HIDE DEF k
        <3>3. /\ Effect(dht[p], dht'[p], m)
              /\ \A n \in Peer : n # p => dht'[n] = dht[n] /\ queue'[n] = queue[n]
              /\ \/ queue'[p] = rest
                 \/ /\ m.Type # "PUT_REQUEST" /\ dht[p].status[m.H] = "absent" /\ "queued" \in mishaps'
                    /\ Queued(queue'[p], rest, m)
              /\ mishaps \subseteq mishaps' /\ mishaps' \subseteq mishaps \cup {"queued"}
            BY ONLY <1>1, <1>4, <3>1, <3>2, p \in Peer, ReceiveEffect
        <3> QED BY ZenonT(30), <3>3
    <2>2. CASE queue' = [queue EXCEPT ![p] = rest] /\ dht' = dht /\ mishaps' = mishaps
        <3>1. Effect(dht[p], dht'[p], m)
            BY ZenonT(30), <1>4, <2>2 DEF Effect
        <3> QED BY ZenonT(30), <1>1, <2>2, <3>1
    <2> QED BY ZenonT(30), <1>2, <2>1, <2>2
<1>9. NoMod(queue[p]) => NoMod(queue'[p])
    <2> SUFFICES ASSUME NoMod(queue[p]) PROVE NoMod(queue'[p])
        OBVIOUS
    <2>1. CASE queue'[p] = rest
        BY ZenonT(30), <1>6, <2>1
    <2>2. CASE Queued(queue'[p], rest, m)
        <3>1. PICK k \in 0..MaxRetries : queue'[p] = Append(rest, [msg |-> m, retries |-> k])
            BY ZenonT(30), <2>2 DEF Queued
        <3> DEFINE x == [msg |-> m, retries |-> k]
                   w == Append(rest, x)
        <3>2. x \in ToRetry /\ x.msg = m
            BY ZenonT(30), <1>4 DEF ToRetry
        <3>4. queue'[p] = w
            BY ZenonT(30), <3>1
        <3> HIDE DEF x
        <3>5. \A i \in DOMAIN w : (i \in DOMAIN rest /\ w[i] = rest[i]) \/ w[i] = x
            BY ONLY <1>3, <3>2
        <3> HIDE DEF w
        <3> QED BY ZenonT(30), <1>6, <3>2, <3>4, <3>5 DEF NoMod
    <2> QED BY ZenonT(30), <1>8, <2>1, <2>2
<1>11. /\ \A n : Smooth(n)' => Smooth(n)
       /\ "cutShort" \in mishaps' => faults' # 0
    BY ZenonT(30), <1>2, <1>8, Unworse
<1>14. ASSUME NEW n \in Peer, Smooth(n)'
       PROVE  Ordered(chain', call', n, dht'[n], inbox'[n], queue'[n])
    <2>1. Ordered(chain, call, n, dht[n], inbox[n], queue[n])
        BY ZenonT(30), <1>11, <1>14 DEF OrderInv
    <2>2. CASE n # p
        BY ZenonT(30), <1>2, <1>8, <2>1, <2>2
    <2>3. CASE n = p
        <3>1. m.Type # "MOD_REQUEST" /\ NoMod(queue'[p])
            BY ZenonT(30), <1>6, <1>9, <2>1, <2>3 DEF Ordered
        <3>2. Ranked(dht'[p])
            BY ZenonT(30), <1>1, <1>4, <1>7, <1>8, <2>1, <2>3, <3>1, EffectRanked DEF Ordered
        <3>3. ASSUME NEW c \in Caller PROVE InOrder(chain, dht'[p], Left(n, call[c], inbox[n]))
            <4> DEFINE t == Left(n, call[c], inbox[n])
            <4>1. t \in Seq(Message)
                <5>1. call[c].todo \in Seq(Message)
                    BY ZenonT(30), <1>1 DEF CallState
                <5>2. CASE call[c].pc = "idle"
                    BY ZenonT(30), <5>1, <5>2 DEF Left
                <5>3. CASE call[c].pc # "idle"
                    <6>1. Tail(call[c].todo) \in Seq(Message)
                        BY ZenonT(30), <1>1, <5>3, BusyHas
                    <6> QED BY ZenonT(30), <5>1, <6>1 DEF Left
                <5> QED BY ZenonT(30), <5>2, <5>3
            <4>2. InOrder(chain, dht[p], t)
                BY ZenonT(30), <2>1, <2>3 DEF Ordered
            <4> HIDE DEF t
            <4>3. InOrder(chain, dht'[p], t)
                BY ZenonT(30), <1>1, <1>4, <1>7, <1>8, <3>1, <4>1, <4>2, EffectAside
            <4> QED BY ZenonT(30), <4>3 DEF t
        <3>4. Ordered(chain, call, n, dht'[p], inbox[n], queue'[p])
            BY ZenonT(30), <2>1, <3>1, <3>2, <3>3 DEF Ordered
        <3> QED BY ZenonT(30), <1>2, <2>3, <3>4
    <2> QED BY ZenonT(30), <2>2, <2>3
<1>15. \A d \in Caller : Shape(call'[d].todo)
    BY ZenonT(30), <1>2 DEF OrderInv
<1> QED BY ZenonT(30), <1>11, <1>14, <1>15 DEF OrderInv

\* What is lost is lost to a peer.
LEMMA LoseOrder ==
    ASSUME HInv, OrderInv, NEW p \in Peer, NEW m \in inbox[p], Lose(p, m)
    PROVE  OrderInv'
<1>1. /\ Fault /\ inbox' = [inbox EXCEPT ![p] = @ \ {m}] /\ chain' = chain /\ call' = call
      /\ dht' = dht /\ queue' = queue /\ mishaps' = mishaps
    BY ZenonT(30) DEF Lose
<1>2. inbox \in [Peer -> SUBSET Message] /\ inbox[Author] = {}
    BY ZenonT(30), HInvIs DEF SentInv
<1>3. /\ \A n : Smooth(n)' => n = Author /\ Smooth(n)
      /\ faults' # 0
    BY ZenonT(30), <1>1, Worse
<1>4. p # Author /\ Author \in Peer
    BY ZenonT(30), <1>2, PublishAssumption
<1>5. inbox'[Author] = inbox[Author]
    BY ZenonT(30), <1>1, <1>2, <1>4
<1>6. \A n \in Peer : Smooth(n)' => Ordered(chain', call', n, dht'[n], inbox'[n], queue'[n])
    <2>1. Smooth(Author)' => Ordered(chain, call, Author, dht[Author], inbox[Author], queue[Author])
        BY ZenonT(30), <1>3, <1>4 DEF OrderInv
    <2>2. Smooth(Author)' => Ordered(chain', call', Author, dht'[Author], inbox'[Author], queue'[Author])
        BY ZenonT(30), <1>1, <1>5, <2>1
    <2> QED BY ZenonT(30), <1>3, <2>2
<1> QED BY ZenonT(30), <1>1, <1>3, <1>6 DEF OrderInv

\* A crash that cuts no call short has none to cut.
LEMMA CrashOrder ==
    ASSUME HInv, OrderInv, NEW p \in Peer, Crash(p)
    PROVE  OrderInv'
<1>1. /\ Fault /\ inbox' = [inbox EXCEPT ![p] = {}] /\ chain' = chain /\ dht' = dht
      /\ call' = IF p = Author THEN [c \in Caller |-> [pc |-> "idle", todo |-> << >>]] ELSE call
      /\ queue' = [queue EXCEPT ![p] = << >>]
      /\ mishaps' = mishaps \cup {x \in {"cutShort"} : p = Author /\ \E c \in Caller : call[c].pc # "idle"}
    BY ZenonT(30) DEF Crash
<1>2. /\ inbox \in [Peer -> SUBSET Message] /\ inbox[Author] = {} /\ queue \in [Peer -> Seq(ToRetry)]
      /\ \A c \in Caller : CallTyped(call[c])
    BY ZenonT(30), HInvIs DEF SentInv
<1>3. /\ \A n : Smooth(n)' => n = Author /\ Smooth(n)
      /\ faults' # 0
    <2>1. mishaps \subseteq mishaps'
        BY ZenonT(30), <1>1
    <2> QED BY ZenonT(30), <1>1, <2>1, Worse
<1>4. Author \in Peer /\ DOMAIN << >> = {}
    BY PublishAssumption
<1>5. inbox'[Author] = inbox[Author]
    BY ZenonT(30), <1>1, <1>2, <1>4
<1>6. p = Author => \A c \in Caller : call'[c].pc = "idle" /\ call'[c].todo = << >>
    BY ZenonT(30), <1>1
<1>7. ASSUME Smooth(Author)'
      PROVE  Ordered(chain', call', Author, dht'[Author], inbox'[Author], queue'[Author])
    <2>1. Ordered(chain, call, Author, dht[Author], inbox[Author], queue[Author]) /\ "cutShort" \notin mishaps'
        BY ZenonT(30), <1>3, <1>4, <1>7 DEF OrderInv, Smooth
    <2>2. CASE p # Author
        <3>1. call' = call /\ queue'[Author] = queue[Author]
            BY ZenonT(30), <1>1, <1>2, <1>4, <2>2
        <3> QED BY ZenonT(30), <1>1, <1>5, <2>1, <3>1
    <2>3. CASE p = Author
        <3>1. \A c \in Caller : call[c].pc = "idle" /\ call[c].todo = << >>
            BY ZenonT(30), <1>1, <1>2, <2>1, <2>3 DEF CallTyped
        <3>2. \A c \in Caller : Left(Author, call'[c], inbox[Author]) = Left(Author, call[c], inbox[Author])
            BY ZenonT(30), <1>6, <2>3, <3>1 DEF Left
        <3>3. queue'[Author] = << >>
            BY ZenonT(30), <1>1, <1>2, <1>4, <2>3
        <3>4. NoMod(queue'[Author]) /\ InTurn(call', inbox[Author])
            BY ZenonT(30), <1>2, <1>4, <3>3 DEF NoMod, InTurn
        <3>5. Ordered(chain, call', Author, dht[Author], inbox[Author], queue'[Author])
            BY ZenonT(30), <2>1, <3>2, <3>4 DEF Ordered
        <3> QED BY ZenonT(30), <1>1, <1>5, <3>5
    <2> QED BY ZenonT(30), <2>2, <2>3
<1>8. \A c \in Caller : Shape(call'[c].todo)
    <2>1. CASE p = Author
        BY ZenonT(30), <1>4, <1>6, <2>1 DEF Shape
    <2>2. CASE p # Author
        BY ZenonT(30), <1>1, <2>2 DEF OrderInv
    <2> QED BY ZenonT(30), <2>1, <2>2
<1> QED BY ZenonT(30), <1>3, <1>7, <1>8 DEF OrderInv

\* No call begins with a mod, and a call brings the entry it commits.
LEMMA CommitOpens ==
    ASSUME NEW e \in Hash
    PROVE  Opens(CommitSends(e)) /\ (Spreads(e) => Brings(CommitSends(e), e))
<1>1. /\ "LINK_REQUEST" # "MOD_REQUEST" /\ "PUT_REQUEST" # "MOD_REQUEST"
    OBVIOUS
<1>2. CASE EntryDef[e].DataFormat = "links"
    <2> DEFINE t == LinkChanges(e)
               S == LinkMsgs(e)
    <2>1. t \in Seq(S) /\ CommitSends(e) = t
        BY ZenonT(30), <1>2, LinkChangesAre DEF CommitSends
    <2>2. \A m \in S : m.Type = "LINK_REQUEST"
        <3>1. \A b : Msg("LINK_REQUEST", b, e).Type = "LINK_REQUEST"
            BY ZenonT(30) DEF Msg, MsgAt
        <3> QED BY ZenonT(30), <3>1 DEF LinkMsgs
    <2> HIDE DEF t, S
    <2>3. t # << >> => Head(t) \in S
        BY ONLY <2>1
    <2> QED BY ZenonT(30), <1>1, <1>2, <2>1, <2>2, <2>3 DEF Opens, Spreads
<1>3. CASE EntryDef[e].DataFormat # "links" /\ Public(e)
    <2> DEFINE m == Msg("PUT_REQUEST", e, e)
    <2>1. CommitSends(e) = <<m>> /\ m.Type = "PUT_REQUEST" /\ m.H = e
        BY ZenonT(30), <1>3 DEF CommitSends, Msg, MsgAt
    <2> HIDE DEF m
    <2>2. Head(<<m>>) = m /\ 1 \in DOMAIN <<m>> /\ <<m>>[1] = m
        OBVIOUS
    <2> QED BY ZenonT(30), <1>1, <2>1, <2>2 DEF Opens, Brings
<1>4. CASE EntryDef[e].DataFormat # "links" /\ ~Public(e)
    BY ZenonT(30), <1>4 DEF Opens, Spreads, CommitSends
<1> QED BY ZenonT(30), <1>2, <1>3, <1>4

LEMMA ModOpens ==
    ASSUME NEW e \in Hash, NEW h \in Hash
    PROVE  Opens(ModSends(e, h)) /\ (Spreads(e) => Brings(ModSends(e, h), e))
<1>1. "PUT_REQUEST" # "MOD_REQUEST"
    OBVIOUS
<1>3. CASE Public(e)
    <2> DEFINE m == Msg("PUT_REQUEST", e, e)
               w == Msg("MOD_REQUEST", h, e)
    <2>1. ModSends(e, h) = <<m, w>> /\ m.Type = "PUT_REQUEST" /\ m.H = e
        BY ZenonT(30), <1>3 DEF ModSends, Msg, MsgAt
    <2> HIDE DEF m, w
    <2>2. Head(<<m, w>>) = m /\ 1 \in DOMAIN <<m, w>> /\ <<m, w>>[1] = m
        OBVIOUS
    <2> QED BY ZenonT(30), <1>1, <2>1, <2>2 DEF Opens, Brings
<1>4. CASE ~Public(e)
    BY ZenonT(30), <1>4 DEF Opens, Spreads, ModSends
<1> QED BY ZenonT(30), <1>3, <1>4

LEMMA DelOpens ==
    ASSUME NEW e \in DOMAIN Deletes, NEW h \in Hash
    PROVE  Opens(DelSends(e, h)) /\ (Spreads(e) => Brings(DelSends(e, h), e))
<1>1. "DEL_REQUEST" # "MOD_REQUEST"
    OBVIOUS
<1>3. CASE Public(e)
    <2> DEFINE m == Msg("DEL_REQUEST", h, e)
    <2>1. DelSends(e, h) = <<m>> /\ m.Type = "DEL_REQUEST"
        BY ZenonT(30), <1>3 DEF DelSends, Msg, MsgAt
    <2> HIDE DEF m
    <2>2. Head(<<m>>) = m
        OBVIOUS
    <2> QED BY ZenonT(30), <1>1, <2>1, <2>2 DEF Opens, Spreads
<1>4. CASE ~Public(e)
    BY ZenonT(30), <1>4 DEF Opens, Spreads, DelSends
<1> QED BY ZenonT(30), <1>3, <1>4

\* The order is kept by every step ...
LEMMA ONext ==
    ASSUME HInv, OrderInv, Next
    PROVE  OrderInv'
<1>1. ASSUME NEW c \in Caller, NEW e \in Hash \ DOMAIN Deletes, Commit(c, e) PROVE OrderInv'
    <2>1. CommitSends(e) \in Seq(Message) /\ Shape(CommitSends(e))
        BY ZenonT(30), <1>1, CommitSendable DEF Sendable
    <2> QED BY ZenonT(30), <1>1, <2>1, CommitOpens, DoOrder DEF Commit
<1>2. ASSUME NEW c \in Caller, NEW e \in Hash \ DOMAIN Deletes, NEW h \in Hash \ DOMAIN Deletes,
             Mod(c, e, h)
      PROVE  OrderInv'
    <2>1. ModSends(e, h) \in Seq(Message) /\ Shape(ModSends(e, h))
        BY ZenonT(30), <1>2, ModSendable DEF Sendable
    <2> QED BY ZenonT(30), <1>2, <2>1, ModOpens, DoOrder DEF Mod
<1>3. ASSUME NEW c \in Caller, NEW e \in DOMAIN Deletes, Del(c, e) PROVE OrderInv'
    <2> DEFINE h == Deletes[e]
    <2>1. e \in Hash /\ h \in Hash /\ DelSends(e, h) \in Seq(Message) /\ Shape(DelSends(e, h))
        BY ZenonT(30), <1>3, DelSendable DEF Sendable
    <2>2. doCommit(c, "del", e, h, DelSends(e, h))
        BY ZenonT(30), <1>3 DEF Del
    <2> HIDE DEF h
    <2> QED BY ZenonT(30), <1>3, <2>1, <2>2, DelOpens, DoOrder
<1>4. ASSUME NEW c \in Caller, Answered(c) \/ NoPeers(c) \/ TimedOut(c) PROVE OrderInv'
    <2>1. call[c].pc \in {"spread", "wait"}
        BY ZenonT(30), <1>4 DEF Answered, NoPeers, TimedOut
    <2>2. /\ Proceed(c, Tail(call[c].todo)) /\ chain' = chain /\ dht' = dht /\ inbox' = inbox
          /\ queue' = queue /\ mishaps' = mishaps
          /\ \/ faults' = faults /\ \A n \in Others : call[c].pc = "wait" /\ Head(call[c].todo) \notin inbox[n]
             \/ Fault
        BY ZenonT(30), <1>4 DEF Answered, NoPeers, TimedOut
    <2> QED BY ZenonT(30), <2>1, <2>2, NextOrder
<1> QED BY ZenonT(30), <1>1, <1>2, <1>3, <1>4, SelfOrder, SpreadOrder, ReceiverOrder, RetryOrder,
           LoseOrder, CrashOrder DEF Next, ChangeStep

\* It holds at first ...
LEMMA OInit ==
    ASSUME Init
    PROVE  OrderInv
<1>1. /\ chain = << >> /\ call = [c \in Caller |-> [pc |-> "idle", todo |-> << >>]]
      /\ inbox = [n \in Peer |-> {}] /\ queue = [n \in Peer |-> << >>] /\ mishaps = {}
      /\ dht = [n \in Peer |-> IF n = Author THEN SetupDHT
                               ELSE put(NewDHT, NilMsg, DNAHash, "live")]
    BY ZenonT(30) DEF Init
<1>2. \A n \in Peer : Fresh(dht[n])
    <2> DEFINE a == SetupDHT
               b == put(NewDHT, NilMsg, DNAHash, "live")
    <2>1. Fresh(a) /\ Fresh(b)
        BY ZenonT(30), SetupFresh
    <2>2. dht = [n \in Peer |-> IF n = Author THEN a ELSE b]
        BY ZenonT(30), <1>1
    <2> HIDE DEF a, b
    <2> QED BY ZenonT(30), <2>1, <2>2
<1>3. DOMAIN << >> = {} /\ "cutShort" \notin {} /\ DOMAIN chain = {}
    BY <1>1
<1>4. \A c \in Caller : call[c].pc = "idle" /\ call[c].todo = << >>
    BY ZenonT(30), <1>1
<1>5. ASSUME NEW n \in Peer PROVE Ordered(chain, call, n, dht[n], inbox[n], queue[n])
    <2> DEFINE s == dht[n]
    <2>1. Fresh(s)
        BY ZenonT(30), <1>2
    <2> HIDE DEF s
    <2>2. \A h \in Hash : s.status[h] # "modified"
        <3>1. \A h \in Hash : s.status[h] \in {"absent", "live"}
            BY ZenonT(30), <2>1 DEF Fresh
        <3> QED BY <3>1
    <2>3. Ranked(s)
        <3> DEFINE k == [h \in Hash |-> 0]
        <3>1. k \in [Hash -> Nat]
            OBVIOUS
        <3> HIDE DEF k
        <3>2. Downwards(s, k)
            BY ZenonT(30), <2>2 DEF Downwards
        <3> QED BY ZenonT(30), <3>1, <3>2 DEF Ranked
    <2>4. inbox[n] = {} /\ queue[n] = << >>
        BY ZenonT(30), <1>1
    <2>5. \A c \in Caller : Left(n, call[c], inbox[n]) = << >>
        BY ZenonT(30), <1>4 DEF Left
    <2>6. InOrder(chain, s, << >>)
        BY ZenonT(30), <1>3 DEF InOrder, Ready, Comes, On
    <2>7. InTurn(call, inbox[n]) /\ NoMod(queue[n])
        BY ZenonT(30), <1>3, <2>4 DEF InTurn, NoMod
    <2>8. Ordered(chain, call, n, s, inbox[n], queue[n])
        BY ZenonT(30), <2>3, <2>5, <2>6, <2>7 DEF Ordered
    <2> QED BY ZenonT(30), <2>8 DEF s
<1>6. \A c \in Caller : Shape(call[c].todo)
    BY ZenonT(30), <1>3, <1>4 DEF Shape
<1> QED BY ZenonT(30), <1>1, <1>3, <1>5, <1>6 DEF OrderInv

\* ... and where nothing happens.
LEMMA OStutter ==
    ASSUME OrderInv, UNCHANGED vars
    PROVE  OrderInv'
<1>1. /\ chain' = chain /\ call' = call /\ dht' = dht /\ inbox' = inbox /\ queue' = queue
      /\ faults' = faults /\ mishaps' = mishaps
    BY DEF vars
<1>2. \A n : Smooth(n)' => Smooth(n)
    BY ZenonT(30), <1>1 DEF Smooth
<1> QED BY ZenonT(30), <1>1, <1>2 DEF OrderInv

\* Both invariants hold always.
LEMMA OrderInvariant == Spec => [](HInv /\ OrderInv)
<1>1. (HInv /\ OrderInv) /\ [Next]_vars => (HInv /\ OrderInv)'
    BY ZenonT(30), HNext, HStutter, ONext, OStutter
<1>2. Init => HInv /\ OrderInv
    BY ZenonT(30), HInit, OInit
<1> QED BY <1>1, <1>2, PTL DEF Spec
=============================================================================
