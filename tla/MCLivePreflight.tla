--------------------------- MODULE MCLivePreflight ---------------------------
(* Model-checking instance of LivePreflight. *)
EXTENDS LivePreflight, TLC

\* Checks are interchangeable.
Symmetry == Permutations(Checks)
=============================================================================
