------------------------------ MODULE MCAccess ------------------------------
(* Access on a small instance: the token's owner and another user, one     *)
(* group, one role that may be widened, and two targets of one cluster, of *)
(* which one has a token.                                                  *)
EXTENDS Access, TLC

CONSTANTS owner1, u, g, tok, r, use, raising, x, y, c0, c1, t1, t2

OwnerOf(t) == owner1
TokenOf(t) == IF t = t1 THEN tok ELSE None

Is_(e, c, gs) == [enable |-> e, comment |-> c, groups |-> gs]
Reader(w) == [who |-> w, role |-> r, path |-> x, propagate |-> FALSE]
Of(us, there, a, privs, l) ==
    [user |-> (owner1 :> Is_(TRUE, c0, {}) @@ u :> us), group |-> (g :> there), acl |-> a,
     role |-> (r :> privs), lists |-> l]

Instances ==
    {Of(None, c0, {Reader(g)}, {use, raising}, TRUE),
     Of(Is_(FALSE, c0, {}), c0, {Reader(g)}, {use}, TRUE),
     Of(Is_(TRUE, c0, {g}), c0, {}, {use, raising}, FALSE),
     Of(Is_(TRUE, c0, {}), None, {}, {use}, TRUE)}

User(w, e, c, gs, ok) == [kind |-> "user", who |-> w, enable |-> e, comment |-> c, groups |-> gs, allow |-> ok]
Grant(w, gs, ok) == [kind |-> "grant", who |-> w, grants |-> gs, allow |-> ok]
One(p, pin, f) == [role |-> r, path |-> p, propagate |-> f, pin |-> pin]

SomeCommands ==
    {User(u, None, c1, {}, FALSE), User(u, None, None, {g}, FALSE), User(u, None, None, {g}, TRUE),
     User(u, TRUE, None, {}, FALSE), User(owner1, FALSE, None, {}, FALSE),
     [kind |-> "group", who |-> g, comment |-> c1],
     Grant(g, <<One(x, None, FALSE), One(y, None, FALSE)>>, TRUE), Grant(g, <<One(x, None, TRUE)>>, FALSE),
     Grant(owner1, <<One(x, None, FALSE)>>, TRUE), Grant(tok, <<One(x, None, FALSE)>>, FALSE),
     Grant(u, <<One(y, {use}, FALSE)>>, FALSE),
     [kind |-> "inventory"]}
Elsewhere == {User(u, TRUE, None, {}, FALSE), Grant(g, <<One(x, None, FALSE)>>, FALSE), Grant(owner1, <<One(x, None, FALSE)>>, TRUE)}
CommandsOf(t) == IF t = t1 THEN SomeCommands ELSE Elsewhere

SomeUserEdits == {None, Is_(TRUE, c0, {g}), Is_(FALSE, c0, {})}
SomeRoleEdits == {{use}, {use, raising}}

Symmetry == Permutations(Runs)
=============================================================================
