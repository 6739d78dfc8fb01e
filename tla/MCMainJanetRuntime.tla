------------------------- MODULE MCMainJanetRuntime -------------------------
(* Model values and symmetry for checking MainJanetRuntime. *)
EXTENDS MainJanetRuntime, TLC

Symmetry == Permutations(Name)
=============================================================================
