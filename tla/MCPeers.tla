------------------------------ MODULE MCPeers -------------------------------
(* A node with 3-bit ID 000 and three peers for TLC. *)
EXTENDS Peers

Zero == <<0, 0, 0>>
Far == <<1, 0, 0>>
Near == <<0, 1, 0>>
Near2 == <<0, 1, 1>>

ThreePeers == {Far, Near, Near2}

OneFar == {Far}
LocalNodes == {Far, Zero}
NobodyElse == {}
JustNear == {Near}
=============================================================================
