---------------------------- MODULE MCAuthStore ----------------------------
(***************************************************************************)
(* Instances of AuthStore for TLC.                                         *)
(***************************************************************************)
EXTENDS AuthStore, TLC

Symmetry == Permutations(Writers) \cup Permutations(Profiles)

\* The two places are alike but for their names: only the configured one is found in
\* every state, the fallback missing or with every profile.
FallbackMissingOrFull ==
  content["fallback"] \in {Empty, Whole([p \in Profiles |-> Before])}

MCInit == Init /\ FallbackMissingOrFull
MCSpec == MCInit /\ [][Next]_vars
=============================================================================
