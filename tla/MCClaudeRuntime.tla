-------------------------- MODULE MCClaudeRuntime --------------------------
(***************************************************************************)
(* Instances of ClaudeRuntime for TLC.                                     *)
(***************************************************************************)
EXTENDS ClaudeRuntime, TLC

Symmetry ==
  Permutations(Calls) \cup Permutations(Ids) \cup Permutations(Models)
=============================================================================
