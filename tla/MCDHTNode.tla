----------------------------- MODULE MCDHTNode ------------------------------
(***************************************************************************)
(* A node with a genesis store and the messages of one other agent: a PUT, *)
(* a MOD, a DEL and a LINK of the same entry, in any order and repeated.   *)
(***************************************************************************)
EXTENDS DHTNode

Msg(t, from, h, e) == [Type |-> t, From |-> from, H |-> h, E |-> e, Time |-> 0]

MCHash == {"dna", "key", "agent", "h", "h2", "le"}
MCPeer == {"self", "bob"}
MCTag == {"tag"}
MCKeyMsg == Msg("PUT_REQUEST", "self", "key", "key")
MCAgentMsg == Msg("PUT_REQUEST", "self", "agent", "agent")
Changes == {Msg("PUT_REQUEST", "bob", "h", "h"),
            Msg("MOD_REQUEST", "bob", "h", "h2"),
            Msg("DEL_REQUEST", "bob", "h", "le"),
            Msg("LINK_REQUEST", "bob", "h", "le")}
MCMessage == Changes \cup {MCKeyMsg, MCAgentMsg}

\* The links entry adds a link on h, one on another base, and removes the first.
MCLinksEntry ==
    [h \in MCHash |->
        IF h = "le"
        THEN <<[Base |-> "h", Link |-> "h2", Tag |-> "tag", LinkAction |-> "add"],
               [Base |-> "dna", Link |-> "h2", Tag |-> "tag", LinkAction |-> "add"],
               [Base |-> "h", Link |-> "h2", Tag |-> "tag", LinkAction |-> "del"]>>
        ELSE << >>]
=============================================================================
