------------------------------ MODULE MCRoster ------------------------------
(* TLC instances of Roster.                                                *)
EXTENDS Roster, TLC

Blank ==
    [targets |-> {},
     meta    |-> [t \in Targets |-> CHOOSE m \in Metas : TRUE],
     secrets |-> {},
     hostKey |-> [t \in Targets |-> NoPin],
     tls     |-> [t \in Targets |-> [pin |-> NoPin, source |-> NoSource]]]

\* A new roster; one with every target and no secret yet; and, for every
\* unreadable plaintext, one that holds only a secret nobody here can read.
MCStart ==
    {Blank, [Blank EXCEPT !.targets = Targets]}
    \cup {[Blank EXCEPT !.targets = Targets,
                        !.secrets = {[target |-> t, what |-> "token", pass |-> w, plain |-> x]}] :
            t \in Targets, w \in Passphrases, x \in Unreadable}

Symmetry == Permutations(Procs) \cup Permutations(Targets) \cup Permutations(Passphrases)
=============================================================================
