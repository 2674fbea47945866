-------------------------- MODULE MCTokenRotation --------------------------
(* TLC instances of TokenRotation.                                         *)
EXTENDS TokenRotation, TLC

Symmetry == Permutations(Holders)
=============================================================================
