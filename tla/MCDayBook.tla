------------------------------ MODULE MCDayBook ------------------------------
(* Model-checking instance of DayBook. *)
EXTENDS DayBook, TLC

\* Bars of one instrument and one sort are interchangeable: nothing orders them.
Symmetry == Permutations(Bars \ (Other \cup Unfit \cup Feed))
=============================================================================
