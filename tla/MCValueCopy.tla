---------------------------- MODULE MCValueCopy ----------------------------
(* Symmetry for checking ValueCopy: the values other than the root. *)
EXTENDS ValueCopy, TLC

Symmetry == Permutations(Node \ {Root})
=============================================================================
