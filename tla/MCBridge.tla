------------------------------ MODULE MCBridge ------------------------------
(***************************************************************************)
(* Two applications that may build a bridge in either direction, one with a *)
(* function for bridges beside one that is not, one without any.           *)
(***************************************************************************)
EXTENDS Bridge

CONSTANTS a1, a2, f1, f2

MCApp == {a1, a2}
MCFn == {f1, f2}
MCBridgeFuncs == [a \in MCApp |-> IF a = a1 THEN {f1} ELSE {}]
=============================================================================
