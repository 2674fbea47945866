--------------------------- MODULE MCVMLifecycle ---------------------------
(* VMLifecycle on a small instance.                                        *)
EXTENDS VMLifecycle, TLC

CONSTANT t1

InitialVMs == {<<"absent", None>>, <<"running", t1>>}

Symmetry == Permutations(Runs) \cup Permutations(VMIDs)
=============================================================================
