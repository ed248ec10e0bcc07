------------------------------ MODULE MCGossip ------------------------------
(* Small networks for TLC. *)
EXTENDS Gossip

\* Who is told of whom.
AllPairs == Node \X Node
AFindsB == {<<"a", "b">>}
NoPairs == {}

\* No message blocks a peer.
NoBlocks == [m \in Message |-> {}]

\* The last message blocks node "b".
LastBlocksB == [m \in Message |-> IF m = MaxMessages THEN {"b"} ELSE {}]
=============================================================================
