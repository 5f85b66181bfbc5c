--------------------------- MODULE MCEvidenceLane ---------------------------
(* Model-checking instance of EvidenceLane. *)
EXTENDS EvidenceLane

\* Neither sub-lanes nor setups are told apart.
Symmetry == Permutations(Lanes) \cup Permutations(Setups)
=============================================================================
