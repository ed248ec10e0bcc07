---------------------------- MODULE MCAgentChange ----------------------------
(* Values for TLC.  Calls of updateAgent are told apart by nothing. *)
EXTENDS AgentChange, TLC

CallerSymmetry == Permutations(Caller)
=============================================================================
