------------------------- MODULE MCOrderSubmission -------------------------
(* Model-checking instance of OrderSubmission. *)
EXTENDS OrderSubmission, TLC

\* Ids are interchangeable: nothing orders them.
Symmetry == Permutations(Ids)
=============================================================================
