----------------------------- MODULE MCPublish ------------------------------
(***************************************************************************)
(* Alice publishes two versions of a profile, which may replace each other *)
(* back and forth, a note that her peers reject, a secret, a links entry   *)
(* and a deletion.                                                         *)
(***************************************************************************)
EXTENDS Publish

MCHash == {"dna", "key", "agent", "p1", "p2", "note", "secret", "links", "del"}
MCEntryDef ==
    [e \in MCHash |->
        [Name       |-> IF e \in {"p1", "p2", "del"} THEN "profile" ELSE e,
         DataFormat |-> IF e = "links" THEN "links" ELSE "other",
         Sharing    |-> IF e = "secret" THEN "private" ELSE "public"]]
MCLinksEntry ==
    [e \in MCHash |->
        IF e = "links"
        THEN <<[Base |-> "dna", Link |-> "p1", Tag |-> "tag", LinkAction |-> "add"],
               [Base |-> "p1", Link |-> "p2", Tag |-> "tag", LinkAction |-> "add"],
               [Base |-> "dna", Link |-> "p1", Tag |-> "tag", LinkAction |-> "del"]>>
        ELSE << >>]

M(t, h, e, time) ==
    [Type |-> t, From |-> "alice", H |-> h, E |-> e, Time |-> time]
MCKeyMsg == M("PUT_REQUEST", "key", "key", 0)
MCAgentMsg == M("PUT_REQUEST", "agent", "agent", 0)
MCDeletes == [e \in {"del"} |-> "p1"]
MCMessage ==
    {MCKeyMsg, MCAgentMsg}
        \cup {M("PUT_REQUEST", e, e, i) : e \in {"p1", "p2", "note"}, i \in 1..MaxCommits}
        \cup {M("MOD_REQUEST", h, e, i) : h \in {"p1", "p2"}, e \in {"p1", "p2"},
                                         i \in 1..MaxCommits}
        \cup {M("DEL_REQUEST", "p1", "del", i) : i \in 1..MaxCommits}
        \cup {M("LINK_REQUEST", h, "links", i) : h \in {"dna", "p1"}, i \in 1..MaxCommits}
=============================================================================
