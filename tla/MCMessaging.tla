---------------------------- MODULE MCMessaging ----------------------------
(***************************************************************************)
(* One call of Send of every kind to either target, and a second one, an   *)
(* asynchronous send to the node itself, that shares the channel of        *)
(* asynchronous reports with it.                                           *)
(***************************************************************************)
EXTENDS Messaging

CONSTANTS c1, c2

MCCall == {c1, c2}
MCMay == [c \in MCCall |-> IF c = c1 THEN Kind \X Target ELSE {<<"async", "self">>}]
=============================================================================
