------------------------- MODULE MCServerScheduler -------------------------
(* Model-checking instance of ServerScheduler: interchangeable jobs.       *)
EXTENDS ServerScheduler, TLC

Symmetry == Permutations(Jobs)
=============================================================================
