------------------------- MODULE MCOpenclawRuntime -------------------------
(***************************************************************************)
(* Instances of OpenclawRuntime for TLC.                                   *)
(***************************************************************************)
EXTENDS OpenclawRuntime, TLC

Symmetry == Permutations(Calls) \cup Permutations(Ids)

\* The checkpoint of an earlier life is none, one of an issued session or one of the
\* fallback session: those of a text that names no session are taken in this life.
MCInit == Init /\ saved # {Body}
MCSpec == MCInit /\ [][Next]_vars
=============================================================================
