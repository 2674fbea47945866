-------------------------- MODULE MCMutationEngine --------------------------
(* TLC instances of MutationEngine: the runs of one roster.                 *)
EXTENDS MutationEngine

OneRoster == [p \in Runs |-> "roster"]
=============================================================================
