--------------------------- MODULE StatusWindowMC ---------------------------
(* Model-checking instance of StatusWindow. *)
EXTENDS StatusWindow, TLC

\* Job ids are interchangeable; the run has no liveness property.
Symmetry == Permutations(Jobs)
=============================================================================
