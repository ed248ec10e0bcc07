------------------------------ MODULE DHTStore ------------------------------
(***************************************************************************)
(* The persistent store of one node's share of the DHT: the buntdb         *)
(* database of dht.go, the change log and fingerprints of gossip.go.       *)
(*                                                                         *)
(* A store is a record; every operator below that returns a store is one   *)
(* database transaction.  A transaction whose function returns an error is *)
(* rolled back by buntdb, so such a transaction returns the store it was   *)
(* given.  Entry contents, entry types and sources are functions of the    *)
(* hash and of the message that put it and are not kept apart.             *)
(***************************************************************************)
EXTENDS Integers, Sequences, FiniteSets

CONSTANTS Hash,        \* entry hashes
          Peer,        \* agents
          Tag,         \* link tags applications use
          Message,     \* the change messages the agents send
          LinksEntry,  \* LinksEntry[e]: the links that links entry e commits
          DNAHash,     \* hash of the DNA entry
          KeyMsg,      \* PUT of this node's key entry
          AgentMsg,    \* PUT of this node's agent entry
          NoHash,      \* no replacedBy record
          NilMsg,      \* the nil message
          MaxRetries   \* MaxRetries of dht.go (10)

SysTagReplacedBy == "__replacedBy"

(***************************************************************************)
(* A change message.  H is PutReq.H, ModReq.H, DelReq.H or LinkReq.Base; E *)
(* is the entry on the author's chain that the validation phase asks for:  *)
(* PutReq.H, ModReq.N, DelReq.By or LinkReq.Links.  Messages are those the *)
(* Do methods build, so the entry that DelReq.By names deletes DelReq.H.   *)
(***************************************************************************)
ChangeMessage ==
    [Type : {"PUT_REQUEST", "MOD_REQUEST", "DEL_REQUEST", "LINK_REQUEST"},
     From : Peer, H : Hash, E : Hash, Time : Nat]

Link == [Base : Hash, Link : Hash, Tag : Tag, LinkAction : {"add", "del"}]

ASSUME ConstantsAssumption ==
    /\ Message \subseteq ChangeMessage
    /\ LinksEntry \in [Hash -> Seq(Link)]
    /\ DNAHash \in Hash
    /\ KeyMsg \in Message /\ KeyMsg.Type = "PUT_REQUEST"
    /\ AgentMsg \in Message /\ AgentMsg.Type = "PUT_REQUEST"
    /\ NoHash \notin Hash
    /\ NilMsg \notin Message

Statuses == {"absent", "live", "rejected", "deleted", "modified"}

(***************************************************************************)
(* links holds the linking events of every link key in the order they were *)
(* recorded; the list buntdb keeps under one key is its subsequence.       *)
(* log[i] is the message under "idx:i"; fp[m] the index under m's          *)
(* fingerprint, -1 when there is none.                                     *)
(***************************************************************************)
LinkEvent ==
    [Base : Hash, Link : Hash, Tag : Tag \cup {SysTagReplacedBy},
     Status : {"live", "deleted"}, Source : Peer, LinksEntry : Hash]

Store == [status     : [Hash -> Statuses],
          replacedBy : [Hash -> Hash \cup {NoHash}],
          links      : Seq(LinkEvent),
          log        : Seq(Message),
          fp         : [Message -> Int]]

NewDHT == [status     |-> [h \in Hash |-> "absent"],
           replacedBy |-> [h \in Hash |-> NoHash],
           links      |-> << >>,
           log        |-> << >>,
           fp         |-> [m \in Message |-> -1]]

-----------------------------------------------------------------------------
(* The change log. *)

incIdx(s, m) ==
    IF m = NilMsg
    THEN s
    ELSE [s EXCEPT !.log = Append(@, m),
                   !.fp  = [@ EXCEPT ![m] = Len(s.log) + 1]]

HaveFingerprint(s, m) == s.fp[m] >= 0

-----------------------------------------------------------------------------
(* Entries and their status. *)

put(s, m, k, st) ==
    [incIdx(s, m) EXCEPT !.status = [@ EXCEPT ![k] = st]]

SetStatus(s, m, k, st) ==
    IF s.status[k] = "absent"
    THEN s
    ELSE [incIdx(s, m) EXCEPT !.status = [@ EXCEPT ![k] = st]]

del(s, m, k) == SetStatus(s, m, k, "deleted")

(***************************************************************************)
(* The error _get returns.  The empty mask is StatusDefault: it reports    *)
(* what became of an entry that is no longer live.                         *)
(***************************************************************************)
StatusError == [live     |-> "nil",
                deleted  |-> "ErrHashDeleted",
                modified |-> "ErrHashModified",
                rejected |-> "ErrHashRejected"]

GetErr(s, k, mask) ==
    IF s.status[k] = "absent" THEN "ErrHashNotFound"
    ELSE IF mask = {} THEN StatusError[s.status[k]]
    ELSE IF s.status[k] \in mask THEN "nil" ELSE "ErrHashNotFound"

-----------------------------------------------------------------------------
(* Links. *)

LinkExists(s, base, link, tag) ==
    \E i \in DOMAIN s.links :
        s.links[i].Base = base /\ s.links[i].Link = link /\ s.links[i].Tag = tag

\* Mutant: the events recorded before are not loaded.
RecordLinkFresh(s, base, link, tag, src, st, e) ==
    [s EXCEPT !.links = <<[Base |-> base, Link |-> link, Tag |-> tag,
                           Status |-> st, Source |-> src, LinksEntry |-> e]>>]

RecordLink(s, base, link, tag, src, st, e) ==
    [s EXCEPT !.links = Append(@, [Base |-> base, Link |-> link, Tag |-> tag,
                                   Status |-> st, Source |-> src,
                                   LinksEntry |-> e])]

\* Mutant: the link is stored without a log record.
linkUnlogged(s, m, l) ==
    LET st == IF l.LinkAction = "del" THEN "deleted" ELSE "live"
    IN  IF \/ GetErr(s, l.Base, {"live"}) # "nil"
           \/ st = "deleted" /\ ~LinkExists(s, l.Base, l.Link, l.Tag)
        THEN s
        ELSE RecordLink(s, l.Base, l.Link, l.Tag, m.From, st, m.E)

\* dht.link, called by putLink and delLink for one link of a links entry.
link(s, m, l) ==
    LET st == IF l.LinkAction = "del" THEN "deleted" ELSE "live"
    IN  IF \/ GetErr(s, l.Base, {"live"}) # "nil"
           \/ st = "deleted" /\ ~LinkExists(s, l.Base, l.Link, l.Tag)
        THEN s
        ELSE incIdx(RecordLink(s, l.Base, l.Link, l.Tag, m.From, st, m.E), m)

mod(s, m, k, newkey) ==
    IF s.status[k] = "absent"
    THEN s
    ELSE LET t == RecordLink(SetStatus(s, m, k, "modified"), k, newkey,
                             SysTagReplacedBy, m.From, "live", newkey)
         IN  [t EXCEPT !.replacedBy = [@ EXCEPT ![k] = newkey]]

-----------------------------------------------------------------------------
SetupDHT ==
    put(put(put(NewDHT, NilMsg, DNAHash, "live"),
            KeyMsg, KeyMsg.H, "live"),
        AgentMsg, AgentMsg.H, "live")

-----------------------------------------------------------------------------
(* Properties of a store *)

\* _get panics with "missing expected replacedBy record" when a modified
\* entry has none: mod must leave the record, and the link that shows it, in
\* the transaction that changes the status.
ReplacementRecorded(s) ==
    \A h \in Hash :
        s.status[h] = "modified" =>
            /\ s.replacedBy[h] \in Hash
            /\ LinkExists(s, h, s.replacedBy[h], SysTagReplacedBy)

\* The fingerprint of a message leads to its latest record in the log that
\* incIdx writes, and a message without a fingerprint has no record.
FingerprintsIndexLog(s) ==
    \A m \in Message :
        \/ /\ s.fp[m] = -1
           /\ \A i \in DOMAIN s.log : s.log[i] # m
        \/ /\ s.fp[m] \in DOMAIN s.log
           /\ s.log[s.fp[m]] = m
           /\ \A i \in DOMAIN s.log : i > s.fp[m] => s.log[i] # m

StatusAfter == [PUT_REQUEST |-> {"live", "rejected"},
                MOD_REQUEST |-> {"modified"},
                DEL_REQUEST |-> {"deleted"}]

SetsStatus(m, h) == m.H = h /\ m.Type # "LINK_REQUEST"

\* The status of a hash is the one the last logged message about it gives,
\* and a hash no message is about is absent (live, for the DNA that SetupDHT
\* puts without a message).
StatusFollowsLog(s) ==
    \A h \in Hash :
        /\ (\A i \in DOMAIN s.log : ~SetsStatus(s.log[i], h)) =>
                s.status[h] = IF h = DNAHash THEN "live" ELSE "absent"
        /\ \A i \in DOMAIN s.log :
                (SetsStatus(s.log[i], h) /\ \A j \in DOMAIN s.log :
                                              SetsStatus(s.log[j], h) => j <= i)
                    => s.status[h] \in StatusAfter[s.log[i].Type]

\* Every linking event is on a base that is there, and comes from a logged
\* LINK or MOD message of the agent it names as its source.
LinksFollowLog(s) ==
    \A i \in DOMAIN s.links :
        /\ s.status[s.links[i].Base] # "absent"
        /\ \E j \in DOMAIN s.log :
              /\ s.log[j].Type \in {"LINK_REQUEST", "MOD_REQUEST"}
              /\ s.log[j].From = s.links[i].Source
              /\ s.log[j].H = s.links[i].Base
              /\ s.log[j].E = s.links[i].LinksEntry

\* A change from store s to store r appends one record to the log, drops no
\* linking event and makes no stored hash absent again.
LoggedChange(s, r) ==
    /\ \E m \in Message : r.log = Append(s.log, m)
    /\ DOMAIN s.links \subseteq DOMAIN r.links
    /\ \A i \in DOMAIN s.links : r.links[i] = s.links[i]
    /\ \A h \in Hash : s.status[h] # "absent" => r.status[h] # "absent"
=============================================================================
