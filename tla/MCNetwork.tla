----------------------------- MODULE MCNetwork -----------------------------
(* Network on a small instance.                                            *)
EXTENDS Network, TLC

CONSTANTS br, v1, v2

Of(s) == [i \in Ifaces |-> IF i = br THEN s ELSE [type |-> "bridge", auto |-> TRUE, field |-> v1]]

\* The interface is missing, running, or of another type; a create without
\* autostart, and the web UI, make one that is dormant.
Nodes == {Of(None),
          Of([type |-> "bridge", auto |-> TRUE, field |-> v1]),
          Of([type |-> "other", auto |-> TRUE, field |-> v1])}

Symmetry == Permutations(Runs)
=============================================================================
