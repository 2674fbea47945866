----------------------------- MODULE MCStorage -----------------------------
(* Storage on a small instance.                                            *)
EXTENDS Storage, TLC

CONSTANTS a, b, x, y, n1, n2, o1, o2, c1, c2

NamedFor(v) == a

On(n, live, snap) == [node |-> n, live |-> live, snap |-> snap]
Gone == On(None, {}, {})

\* a is gone and has left its disk; b holds a disk that is named for a, in its
\* configuration, in a snapshot only, or on the other node.
Def(o, c) == [options |-> o, content |-> c]
SomeDefinitions == {None, Def(o2, {c1})}
SomeRequests == {Def(o1, {c1})}

Of(va, vb, wx, wy, s, d) ==
    [vm |-> (a :> va @@ b :> vb), where |-> (x :> wx @@ y :> wy), shared |-> s, def |-> d]

Instances ==
    {Of(Gone, On(n1, {}, {}), n1, None, FALSE, None),
     Of(On(n1, {}, {x}), Gone, n1, None, FALSE, Def(o1, {})),
     Of(Gone, On(n2, {x}, {y}), n2, n2, FALSE, Def(o1, {c1})),
     Of(On(n2, {x}, {x, y}), Gone, n2, n2, TRUE, Def(o2, {c1}))}

Symmetry == Permutations(Runs) \cup Permutations(Targets)
=============================================================================
