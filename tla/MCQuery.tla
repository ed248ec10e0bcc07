------------------------------ MODULE MCQuery -------------------------------
(* Four peers and questions about them for TLC. *)
EXTENDS QueryRunner, TLC

CONSTANTS a, b, c, d

Four == {a, b, c, d}
Distance == a :> 3 @@ b :> 4 @@ c :> 1 @@ d :> 2

\* a and b are in the routing table and tell of c, which tells of d.
Chain == a :> {c, Self} @@ b :> {a, c} @@ c :> {d, b} @@ d :> {Self}
\* d is known to nobody.
Island == a :> {b} @@ b :> {Self} @@ c :> {} @@ d :> {a}

Nowhere == [n \in Four \cup {Self} |-> "none"]

Ask(op, target, start, knows, holds, silent) ==
    [op |-> op, target |-> target, start |-> start, knows |-> knows,
     holds |-> holds, silent |-> silent]

Gets ==
    {Ask("get", a, s, k, h, {b}) :
        s \in {{}, {a}, {a, b}}, k \in {Chain, Island},
        h \in {Nowhere, [Nowhere EXCEPT ![d] = "value"], [Nowhere EXCEPT ![Self] = "value"],
               [Nowhere EXCEPT ![Self] = "modified"], [Nowhere EXCEPT ![a] = "modified", ![c] = "value"]}}
Finds ==
    {Ask("find", d, s, k, Nowhere, w) :
        s \in {{}, {a, b}, {d}}, k \in {Chain, Island}, w \in {{}, {c}}}
Closests ==
    {Ask("closest", a, s, Chain, Nowhere, w) : s \in {{}, {a, b}}, w \in {{}, {c}}}

AllQuestions == Gets \cup Finds \cup Closests
=============================================================================
