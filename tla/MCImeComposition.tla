-------------------------- MODULE MCImeComposition --------------------------
(* ImeComposition with two browsers that may replace each other. *)
EXTENDS ImeComposition, TLC

Symmetry == Permutations(Browsers)
=============================================================================
