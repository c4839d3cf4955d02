--------------------------- MODULE MCAgentServer ---------------------------
(***************************************************************************)
(* Instances of AgentServer for TLC.                                       *)
(***************************************************************************)
EXTENDS AgentServer, TLC

Symmetry == Permutations(Requests)
=============================================================================
