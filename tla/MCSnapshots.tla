---------------------------- MODULE MCSnapshots ----------------------------
(* Snapshots on a small instance.                                          *)
EXTENDS Snapshots, TLC

CONSTANTS a, b

\* A VM with one snapshot with RAM state, and one with two of the same second.
Chains == {[n \in Names |-> IF n = a THEN [time |-> 1, seq |-> 1, vmstate |-> TRUE]
                            ELSE NoSnapshot],
           [n \in Names |-> [time |-> 1, seq |-> IF n = a THEN 1 ELSE 2, vmstate |-> n = a]]}

Symmetry == Permutations(Runs)
=============================================================================
