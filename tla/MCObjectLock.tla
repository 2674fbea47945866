---------------------------- MODULE MCObjectLock ----------------------------
(* TLC instances of ObjectLock.                                            *)
EXTENDS ObjectLock, TLC

Symmetry == Permutations(Procs)
=============================================================================
