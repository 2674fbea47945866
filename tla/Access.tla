-------------------------------- MODULE Access --------------------------------
(***************************************************************************)
(* `user ensure`, `group ensure`, `acl grant` and `access inventory`.      *)
(* All write as root with pveum.  An ensure locks its user or group under  *)
(* its target's name; a grant and an inventory take no lock.  Whether a    *)
(* join or a grant is refused is decided from lists read one after the     *)
(* other, while other runs, other targets of the cluster and the web UI    *)
(* go on.  A write whose answer never comes may still land.                *)
(***************************************************************************)
EXTENDS Naturals, Sequences, FiniteSets

CONSTANTS Runs, Targets,
          Users, Groups, Tokens,
          Owner(_),            \* the user a token belongs to
          OwnToken(_),         \* the roster's token of a target, or None
          Roles, Privs, Escalating, Paths, Comments,
          NoComment,           \* the comment of a user or group that was given none
          None,
          Clusters,            \* the users, groups, ACLs and roles there may be at first
          Commands(_),         \* the commands that may be run on a target
          UserEdits, RoleEdits,  \* what others may make of a user and of a role
          MaxOutside           \* bound on what others do

Principals == Users \cup Groups \cup Tokens
UserStates == [enable : BOOLEAN, comment : Comments, groups : SUBSET Groups]
Entries == [who : Principals, role : Roles, path : Paths, propagate : BOOLEAN]
Grants == [role : Roles, path : Paths, propagate : BOOLEAN, pin : {None} \cup SUBSET Privs]
AllCommands == UNION {Commands(t) : t \in Targets}

ASSUME AccessAssumption ==
    /\ Escalating \subseteq Privs
    /\ NoComment \in Comments
    /\ \A t \in Tokens : Owner(t) \in Users
    /\ \A t \in Targets : OwnToken(t) \in Tokens \cup {None}
    /\ Users \cap Groups = {} /\ Users \cap Tokens = {} /\ Groups \cap Tokens = {}
    /\ None \notin Runs \cup Comments \cup Principals \cup UserStates
    /\ Clusters \subseteq [user : [Users -> UserStates \cup {None}], group : [Groups -> Comments \cup {None}],
                           acl : SUBSET Entries, role : [Roles -> {None} \cup SUBSET Privs], lists : BOOLEAN]
    /\ \A c \in AllCommands :
           \/ c.kind = "user" /\ c \in [kind : {"user"}, who : Users, enable : BOOLEAN \cup {None},
                                        comment : Comments \cup {None}, groups : SUBSET Groups, allow : BOOLEAN]
           \/ c.kind = "group" /\ c \in [kind : {"group"}, who : Groups, comment : Comments \cup {None}]
           \/ c.kind = "grant" /\ c.who \in Principals /\ c.allow \in BOOLEAN /\ c.grants \in Seq(Grants)
                               /\ c.grants # <<>>
                               /\ \A i, j \in 1 .. Len(c.grants) : i # j => c.grants[i].path # c.grants[j].path
           \/ c = [kind |-> "inventory"]
    /\ UserEdits \subseteq UserStates \cup {None}
    /\ RoleEdits \subseteq {None} \cup SUBSET Privs
    /\ MaxOutside \in Nat

VARIABLES user, group,  \* PVE: its users and groups, with their comments
          acl, role,    \* PVE: its ACL entries; its roles' privileges
          lists,        \* PVE: the group list carries the members
          outside,      \* how often others have acted
          pc, target, cmd,  \* where each run is; its target and command
          seen,         \* the user or group it read
          listed,       \* the users an inventory read
          known,        \* the roles as it read them
          at,           \* the grant it is at
          warned,       \* the escalating entries it will warn of
          shown,        \* the holdings an inventory lists
          result,       \* what it reports
          late,         \* PVE may still carry out a write it has no answer to
          stale,        \* history: what has changed since it read it
          met,          \* history: what it wants was so at some moment
          wrote,        \* history: the ACL entries it has written
          gave,         \* history: the escalating entries it has given somebody
          lasting       \* history: the holdings there were ever since an inventory's last list of members

pve == <<user, group, acl, role>>
history == <<met, wrote, gave, lasting>>
locals == <<target, cmd, seen, listed, known, at, warned, shown, result>>
vars == <<pve, lists, outside, history, stale, locals, late, pc>>

NoUsers == [u \in Users |-> None]
NoRoles == [r \in Roles |-> None]
Lists == {"enable", "members", "acl", "role"}   \* what a run relies on having read

Init ==
    /\ \E c \in Clusters :
           user = c.user /\ group = c.group /\ acl = c.acl /\ role = c.role /\ lists = c.lists
    /\ outside = 0
    /\ pc = [p \in Runs |-> "idle"]
    /\ target = [p \in Runs |-> None]
    /\ cmd = [p \in Runs |-> [kind |-> "none"]]
    /\ seen = [p \in Runs |-> None]
    /\ listed = [p \in Runs |-> NoUsers]
    /\ known = [p \in Runs |-> NoRoles]
    /\ at = [p \in Runs |-> 1]
    /\ warned = [p \in Runs |-> {}]
    /\ shown = [p \in Runs |-> {}]
    /\ result = [p \in Runs |-> "none"]
    /\ late = [p \in Runs |-> FALSE]
    /\ stale = [p \in Runs |-> {}]
    /\ met = [p \in Runs |-> FALSE]
    /\ wrote = [p \in Runs |-> {}]
    /\ gave = [p \in Runs |-> {}]
    /\ lasting = [p \in Runs |-> {}]

Busy(p) == pc[p] \notin {"idle", "done"} \/ late[p]

-----------------------------------------------------------------------------
(* What the lists say                                                      *)

GroupsOf(u, U) == IF U[u] = None THEN {} ELSE U[u].groups

Members(g) == {u \in Users : g \in GroupsOf(u, user)}
Enabled(u, U) == IF U[u] = None THEN None ELSE U[u].enable

\* ACL entries that name a principal, or a group it is in.
Holdings(U, A) ==
    {h \in Principals \X A : \/ h[2].who = h[1]
                             \/ h[1] \in Users /\ h[2].who \in GroupsOf(h[1], U)}

escalating(privs) == privs \cap Escalating
Escalates(e, R) == R[e.role] # None /\ escalating(R[e.role]) # {}

Own(p) == OwnToken(target[p])
ownUser(p) == IF Own(p) = None THEN None ELSE Owner(Own(p))

\* Fault: the groups a user already has are not looked at.
missingGroupsNone(c, u) == {}

missingGroups(c, u) == IF u = None THEN c.groups ELSE c.groups \ u.groups

UserSatisfied(c, u) ==
    /\ u # None
    /\ c.enable \in {None, u.enable}
    /\ c.comment \in {None, u.comment}
    /\ missingGroups(c, u) = {}
GroupSatisfied(c, g) == g # None /\ c.comment \in {None, g}

Entry(c, i) == [who |-> c.who, role |-> c.grants[i].role, path |-> c.grants[i].path,
                propagate |-> c.grants[i].propagate]
Wanted(c) == {Entry(c, i) : i \in 1 .. Len(c.grants)}

Goal(c, U, G, A) ==
    \/ c.kind = "user" /\ U[c.who] # None /\ c.enable \in {None, U[c.who].enable}
         /\ c.comment \in {None, U[c.who].comment} /\ c.groups \subseteq U[c.who].groups
    \/ c.kind = "group" /\ GroupSatisfied(c, G[c.who])
    \/ c.kind = "grant" /\ Wanted(c) \subseteq A

-----------------------------------------------------------------------------
(* PVE                                                                     *)

\* Whether the user that p works on was enabled or disabled, other than by a run that
\* p's lock keeps away.
Flips(p, U, by) ==
    /\ cmd[p].kind = "user"
    /\ Enabled(cmd[p].who, user) # Enabled(cmd[p].who, U)
    /\ by = None \/ late[p] \/ target[by] # target[p]

\* PVE's state changes, by a run, by a late write or by others (None).
Become(U, G, A, R, by) ==
    /\ user' = U /\ group' = G /\ acl' = A /\ role' = R
    /\ stale' = [p \in Runs |-> stale[p] \cup
           (IF ~Busy(p) \/ p = by THEN {}
            ELSE {s \in Lists :
                     \/ s = "enable" /\ Flips(p, U, by)
                     \/ s = "members" /\ \E u \in Users : GroupsOf(u, user) # GroupsOf(u, U)
                     \/ s = "acl" /\ acl # A
                     \/ s = "role" /\ role # R})]
    /\ met' = [p \in Runs |-> met[p] \/ (Busy(p) /\ Goal(cmd[p], U, G, A))]
    /\ lasting' = [p \in Runs |-> lasting[p] \cap Holdings(U, A)]

\* user add, user modify --append, group add, group modify and acl modify, with the
\* values a run has at its write; what PVE refuses.
Exists(x, U, G) ==
    \/ x \in Users /\ U[x] # None
    \/ x \in Groups /\ G[x] # None
    \/ x \in Tokens /\ U[Owner(x)] # None

Or(value, default) == IF value = None THEN default ELSE value

AddUser(c) == [enable |-> Or(c.enable, TRUE), comment |-> Or(c.comment, NoComment), groups |-> c.groups]
ModifyUser(c, u, now) ==
    [enable |-> Or(c.enable, u.enable), comment |-> Or(c.comment, now.comment),
     groups |-> now.groups \cup missingGroups(c, u)]

Accepts(p) ==
    LET c == cmd[p]
    IN \/ /\ c.kind = "user"
          /\ (user[c.who] = None) = (seen[p] = None)
          /\ \A g \in missingGroups(c, seen[p]) : group[g] # None
       \/ c.kind = "group" /\ (group[c.who] = None) = (seen[p] = None)
       \/ c.kind = "grant" /\ Exists(c.who, user, group) /\ role[c.grants[at[p]].role] # None

AddGroup(c) == Or(c.comment, NoComment)
ModifyGroup(c) == c.comment

\* Apply: what there was when it was read decides between add and modify.
UserApply(p) ==
    [user EXCEPT ![cmd[p].who] =
        IF seen[p] = None THEN AddUser(cmd[p]) ELSE ModifyUser(cmd[p], seen[p], @)]
GroupApply(p) ==
    [group EXCEPT ![cmd[p].who] = IF seen[p] = None THEN AddGroup(cmd[p]) ELSE ModifyGroup(cmd[p])]

aclModify(e) == {x \in acl : [x EXCEPT !.propagate = e.propagate] # e} \cup {e}

Lands(p, by) ==
    LET c == cmd[p]
        U == IF c.kind = "user" THEN UserApply(p) ELSE user
        G == IF c.kind = "group" THEN GroupApply(p) ELSE group
        A == IF c.kind = "grant" THEN aclModify(Entry(c, at[p])) ELSE acl
    IN /\ Accepts(p)
       /\ Become(U, G, A, role, by)
       /\ wrote' = [wrote EXCEPT ![p] = IF c.kind = "grant" THEN @ \cup {Entry(c, at[p])} ELSE @]
       /\ gave' = [gave EXCEPT ![p] = @ \cup
              {h[2] : h \in {x \in Holdings(U, A) \ Holdings(user, acl) : Escalates(x[2], role)}}]

\* Others: the web UI, pveum, the deletion of what is used.
Outside(U, G, A, R) ==
    /\ outside < MaxOutside
    /\ outside' = outside + 1
    /\ Become(U, G, A, R, None)
    /\ UNCHANGED <<wrote, gave, lists, locals, late, pc>>

EditUser(u, state) ==
    /\ user[u] # state
    /\ state # None => \A g \in state.groups : group[g] # None
    /\ Outside([user EXCEPT ![u] = state], group,
               IF state = None THEN {e \in acl : e.who # u /\ ~(e.who \in Tokens /\ Owner(e.who) = u)} ELSE acl, role)
EditGroup(g) ==
    IF group[g] = None THEN Outside(user, [group EXCEPT ![g] = NoComment], acl, role)
    ELSE Outside([u \in Users |-> IF user[u] = None THEN None ELSE [user[u] EXCEPT !.groups = @ \ {g}]],
                 [group EXCEPT ![g] = None], {e \in acl : e.who # g}, role)
EditRole(r, privs) ==
    /\ role[r] # privs
    /\ Outside(user, group, IF privs = None THEN {e \in acl : e.role # r} ELSE acl, [role EXCEPT ![r] = privs])
EditACL(e) ==
    /\ Exists(e.who, user, group) /\ role[e.role] # None
    /\ Outside(user, group, IF e \in acl THEN acl \ {e} ELSE aclModify(e), role)

Others ==
    \/ \E u \in Users, s \in UserEdits : EditUser(u, s)
    \/ \E g \in Groups : EditGroup(g)
    \/ \E r \in Roles, privs \in RoleEdits : EditRole(r, privs)
    \/ \E c \in AllCommands : c.kind = "grant" /\ EditACL(Entry(c, 1))

-----------------------------------------------------------------------------
(* The steps of a run                                                      *)

Goto(p, label) == pc' = [pc EXCEPT ![p] = label]
Fresh(p, reads) == stale' = [stale EXCEPT ![p] = @ \ reads]
Quiet == UNCHANGED <<pve, lists, outside, late>>

\* A command ends, and what it has read goes with it.
Ends(p, verdict) ==
    /\ Goto(p, "done")
    /\ result' = [result EXCEPT ![p] = verdict]
    /\ seen' = [seen EXCEPT ![p] = None]
    /\ listed' = [listed EXCEPT ![p] = NoUsers]
    /\ known' = [known EXCEPT ![p] = NoRoles]
    /\ warned' = [warned EXCEPT ![p] = {}]
    /\ Fresh(p, Lists)
    /\ UNCHANGED <<target, cmd, at, shown>>
Stays == UNCHANGED <<locals, stale>>

Is(p, kind, label) == cmd[p].kind = kind /\ pc[p] = label

\* What a run reads as root or with the token, but for the last read of an ensure.
Reading == {"read", "roles", "joinroles", "joinacls", "members", "owner", "readback",
            "users", "groups", "acls", "rolelist", "accounts"}

\* The connection or a read fails, or the lock is not freed in time.
ReadFails(p) ==
    /\ pc[p] \in Reading \cup {"lock"}
    /\ Ends(p, IF pc[p] = "readback" THEN "unconfirmed" ELSE "failed")
    /\ Quiet /\ UNCHANGED history

\* Or the answer lacks a field that the command decides on: nothing is taken for granted.
Unverifiable(p) ==
    /\ pc[p] \in Reading
    /\ Ends(p, IF pc[p] = "readback" THEN "unconfirmed" ELSE "failed")
    /\ Quiet /\ UNCHANGED history

checkNotSelf(p, c) == c.who \notin {Own(p), ownUser(p)}

\* A command starts; a user ensure may not disable the token's owner, or have it join.
Start(p) ==
    /\ pc[p] = "idle"
    /\ \E t \in Targets : \E c \in Commands(t) :
           LET own == IF OwnToken(t) = None THEN None ELSE Owner(OwnToken(t))
               refused == c.kind = "user" /\ c.who = own /\ (c.enable = FALSE \/ c.groups # {})
           IN /\ target' = [target EXCEPT ![p] = t]
              /\ cmd' = [cmd EXCEPT ![p] = c]
              /\ met' = [met EXCEPT ![p] = Goal(c, user, group, acl)]
              /\ result' = [result EXCEPT ![p] = IF refused THEN "refused" ELSE @]
              /\ Goto(p, CASE refused -> "done"
                           [] c.kind \in {"user", "group"} /\ ~refused -> "lock"
                           [] c.kind = "grant" -> "roles"
                           [] c.kind = "inventory" -> "users")
    /\ Quiet /\ UNCHANGED <<seen, listed, known, at, warned, shown, stale, wrote, gave, lasting>>

\* Fault: the lock is released once the user has been read.
HoldsUntilRead(q) == cmd[q].kind \in {"user", "group"} /\ pc[q] = "read"

HoldsKey(q) ==
    cmd[q].kind \in {"user", "group"} /\ pc[q] \in {"read", "joinroles", "joinacls", "write", "reread"}

Lock(p) ==
    /\ pc[p] = "lock"
    /\ \A q \in Runs : HoldsKey(q) => target[q] # target[p] \/ cmd[q].who # cmd[p].who
    /\ Goto(p, "read")
    /\ Quiet /\ UNCHANGED history /\ Stays

\* The token's view leaves out what it may not see; root sees everything.
ListUsers(p) == {user[cmd[p].who]} \cup (IF Own(p) # None THEN {None} ELSE {})
ListGroups(p) == {group[cmd[p].who]} \cup (IF Own(p) # None THEN {None} ELSE {})

\* Run: read, and end if there is nothing to do; a join is checked first.
ReadUser(p) ==
    /\ Is(p, "user", "read")
    /\ \E u \in ListUsers(p) :
           IF UserSatisfied(cmd[p], u) THEN Ends(p, "unchanged")
           ELSE /\ seen' = [seen EXCEPT ![p] = u]
                /\ Goto(p, IF missingGroups(cmd[p], u) = {} THEN "write" ELSE "joinroles")
                /\ Fresh(p, {"enable"})
                /\ UNCHANGED <<target, cmd, listed, known, at, warned, shown, result>>
    /\ Quiet /\ UNCHANGED history

ReadGroup(p) ==
    /\ Is(p, "group", "read")
    /\ \E g \in ListGroups(p) :
           IF GroupSatisfied(cmd[p], g) THEN Ends(p, "unchanged")
           ELSE /\ seen' = [seen EXCEPT ![p] = g]
                /\ Goto(p, "write")
                /\ UNCHANGED <<target, cmd, listed, known, at, warned, shown, result, stale>>
    /\ Quiet /\ UNCHANGED history

\* The lists as root reads them.
allRolePrivs == role
rootACLs == acl

\* CheckGroupJoin: the token's owner joins nothing; then the roles, and then the ACLs.
JoinReadsRoles(p) ==
    /\ pc[p] = "joinroles"
    /\ IF cmd[p].who = ownUser(p) THEN Ends(p, "refused")
       ELSE /\ known' = [known EXCEPT ![p] = allRolePrivs]
            /\ Fresh(p, {"role"})
            /\ Goto(p, "joinacls")
            /\ UNCHANGED <<target, cmd, seen, listed, at, warned, shown, result>>
    /\ Quiet /\ UNCHANGED history

CheckGroupJoin(p) ==
    LET held == {e \in rootACLs : e.who \in missingGroups(cmd[p], seen[p])}
        esc == {e \in held : Escalates(e, known[p])}
    IN /\ pc[p] = "joinacls"
       /\ \/ /\ \E e \in held : known[p][e.role] = None
             /\ Ends(p, "failed")
          \/ /\ \A e \in held : known[p][e.role] # None
             /\ IF esc # {} /\ ~cmd[p].allow THEN Ends(p, "refused")
                ELSE /\ warned' = [warned EXCEPT ![p] = esc]
                     /\ known' = [known EXCEPT ![p] = NoRoles]
                     /\ Fresh(p, {"acl"})
                     /\ Goto(p, "write")
                     /\ UNCHANGED <<target, cmd, seen, listed, at, shown, result>>
       /\ Quiet /\ UNCHANGED history

LastGrant(p) == at[p] >= Len(cmd[p].grants)

\* The write: it lands; PVE refuses it, or it is never sent; its time is up, and it may
\* have landed or land later; or the connection breaks or the user interrupts, which
\* is reported as a failure, and it may have landed all the same.
Writes(p) ==
    \/ /\ Lands(p, p)
       /\ Goto(p, IF cmd[p].kind # "grant" THEN "reread" ELSE IF LastGrant(p) THEN "readback" ELSE "write")
       /\ at' = [at EXCEPT ![p] = IF pc'[p] = "write" THEN @ + 1 ELSE @]
       /\ UNCHANGED <<lists, outside, target, cmd, seen, listed, known, warned, shown, result, late>>
    \/ /\ Ends(p, "failed")
       /\ Quiet /\ UNCHANGED history

pveumWrite(p) ==
    /\ Goto(p, "done")
    /\ \E verdict \in {"unknown", "failed"} : result' = [result EXCEPT ![p] = verdict]
    /\ late' = [late EXCEPT ![p] = TRUE]
    /\ UNCHANGED <<pve, lists, outside, history, stale, target, cmd, seen, listed, known, at, warned, shown>>

Write(p) == pc[p] = "write" /\ (Writes(p) \/ pveumWrite(p))

LateWrite(p) ==
    /\ late[p]
    /\ Lands(p, None)
    /\ late' = [late EXCEPT ![p] = FALSE]
    /\ UNCHANGED <<lists, outside, locals, pc>>

ensureVerb(p) == IF seen[p] = None THEN "created" ELSE "updated"

\* Run reads again; a read that fails or differs is a warning.
Reread(p) ==
    /\ pc[p] = "reread"
    /\ \/ /\ \/ cmd[p].kind = "user" /\ \E u \in ListUsers(p) : UserSatisfied(cmd[p], u)
             \/ cmd[p].kind = "group" /\ \E g \in ListGroups(p) : GroupSatisfied(cmd[p], g)
          /\ Ends(p, ensureVerb(p))
       \/ Ends(p, "unconfirmed")
    /\ Quiet /\ UNCHANGED history

-----------------------------------------------------------------------------
(* acl grant                                                               *)

\* The privileges that count for a grant: the pinned ones are the role's own.
rolePrivsKnown(c) ==
    \A i \in 1 .. Len(c.grants) :
        LET privs == allRolePrivs[c.grants[i].role]
        IN privs \notin {None, {}} /\ c.grants[i].pin \in {None, privs}

\* Fault: only the first grant of several is looked at.
EscalatingFirst(c) == {e \in {Entry(c, 1)} : Escalates(e, allRolePrivs)}

EscalatingGrants(c) == {e \in Wanted(c) : Escalates(e, allRolePrivs)}

\* checkNotSelf and rolePrivs, which come before the members; an escalating role is
\* refused after them.
GrantReadsRoles(p) ==
    /\ Is(p, "grant", "roles")
    /\ IF ~checkNotSelf(p, cmd[p]) \/ ~rolePrivsKnown(cmd[p])
       THEN Ends(p, "refused")
       ELSE /\ Fresh(p, {"role"})
            /\ warned' = [warned EXCEPT ![p] = EscalatingGrants(cmd[p])]
            /\ Goto(p, IF cmd[p].who \in Groups THEN "members" ELSE "decide")
            /\ UNCHANGED <<target, cmd, seen, listed, known, at, shown, result>>
    /\ Quiet /\ UNCHANGED history

\* checkGroupNotSelf: the group list, and unless there is no token to protect ...
GroupHolds(p) ==
    /\ Is(p, "grant", "members")
    /\ IF \/ group[cmd[p].who] = None
          \/ ownUser(p) # None /\ (~lists \/ ownUser(p) \in Members(cmd[p].who))
       THEN Ends(p, "refused")
       ELSE /\ Goto(p, IF ownUser(p) = None THEN "decide" ELSE "owner")
            /\ Stays
    /\ Quiet /\ UNCHANGED history

\* Fault: what the user list says of the owner's groups is not looked at.
OwnerUnchecked(p) ==
    /\ pc[p] = "owner"
    /\ Goto(p, "decide")
    /\ Fresh(p, {"members"})
    /\ Quiet /\ UNCHANGED <<locals, history>>

\* ... the user list, which must agree that the token's owner is not in it.
OwnerInGroup(p) ==
    /\ pc[p] = "owner"
    /\ IF user[ownUser(p)] = None \/ cmd[p].who \in GroupsOf(ownUser(p), user)
       THEN Ends(p, "refused")
       ELSE Goto(p, "decide") /\ Fresh(p, {"members"}) /\ UNCHANGED locals
    /\ Quiet /\ UNCHANGED history

Decide(p) ==
    /\ pc[p] = "decide"
    /\ IF warned[p] # {} /\ ~cmd[p].allow THEN Ends(p, "refused")
       ELSE Goto(p, "write") /\ Stays
    /\ Quiet /\ UNCHANGED history

\* Every entry must be in the list that is read back.
ReadBack(p) ==
    /\ pc[p] = "readback"
    /\ Ends(p, IF Wanted(cmd[p]) \subseteq rootACLs THEN "granted" ELSE "unconfirmed")
    /\ Quiet /\ UNCHANGED history

\* Fault: a grant counts as applied before it is sent.
appliedEarly(p) == {Entry(cmd[p], i) : i \in 1 .. at[p]}

\* The grants an error names as already applied.
applied(p) == {Entry(cmd[p], i) : i \in 1 .. (at[p] - 1)}

-----------------------------------------------------------------------------
(* access inventory                                                        *)

InventoryUsers(p) ==
    /\ pc[p] = "users"
    /\ listed' = [listed EXCEPT ![p] = user]
    /\ lasting' = [lasting EXCEPT ![p] = Holdings(user, acl)]
    /\ Goto(p, "groups")
    /\ Quiet /\ UNCHANGED <<target, cmd, seen, known, at, warned, shown, result, stale, met, wrote, gave>>

\* Fault: members that the user list does not give are not looked for.
checkMembershipOneWay(U) ==
    \A u \in Users : \A g \in GroupsOf(u, U) :
        group[g] # None /\ (lists => u \in Members(g))

\* The two lists agree, both ways, on who is in which group.
checkMembership(U) ==
    /\ \A u \in Users : \A g \in GroupsOf(u, U) :
           group[g] # None /\ (lists => u \in Members(g))
    /\ lists => \A g \in Groups : \A u \in Members(g) : g \in GroupsOf(u, U)

InventoryGroups(p) ==
    /\ pc[p] = "groups"
    /\ IF checkMembership(listed[p])
       THEN /\ Goto(p, "acls")
            /\ lasting' = [lasting EXCEPT ![p] = IF lists THEN Holdings(user, acl) ELSE @]
            /\ Stays
       ELSE Ends(p, "failed") /\ UNCHANGED lasting
    /\ Quiet /\ UNCHANGED <<met, wrote, gave>>

InventoryACLs(p) ==
    /\ pc[p] = "acls"
    /\ shown' = [shown EXCEPT ![p] = Holdings(listed[p], rootACLs)]
    /\ Goto(p, "rolelist")
    /\ Quiet /\ UNCHANGED <<target, cmd, seen, listed, known, at, warned, result, stale, history>>

\* Every role an entry names must be in the role list.
Inventory(p) ==
    /\ pc[p] = "rolelist"
    /\ \/ (\A h \in shown[p] : allRolePrivs[h[2].role] # None) /\ (Ends(p, "shown") \/ (Goto(p, "accounts") /\ Stays))
       \/ (\E h \in shown[p] : allRolePrivs[h[2].role] = None) /\ Ends(p, "failed")
    /\ Quiet /\ UNCHANGED history

\* The node's accounts, if there are @pam users.
rootOSAccounts(p) ==
    /\ pc[p] = "accounts"
    /\ Ends(p, "shown")
    /\ Quiet /\ UNCHANGED history

-----------------------------------------------------------------------------

Step(p) ==
    \/ Start(p) \/ ReadFails(p) \/ Unverifiable(p) \/ Lock(p) \/ ReadUser(p) \/ ReadGroup(p)
    \/ JoinReadsRoles(p) \/ CheckGroupJoin(p) \/ Write(p) \/ LateWrite(p) \/ Reread(p)
    \/ GrantReadsRoles(p) \/ GroupHolds(p) \/ OwnerInGroup(p) \/ Decide(p) \/ ReadBack(p)
    \/ InventoryUsers(p) \/ InventoryGroups(p) \/ InventoryACLs(p) \/ Inventory(p) \/ rootOSAccounts(p)

Next == (\E p \in Runs : Step(p)) \/ Others

Spec == Init /\ [][Next]_vars

-----------------------------------------------------------------------------
(* Properties                                                              *)

\* Every variable has its type.
TypeOK ==
    /\ user \in [Users -> UserStates \cup {None}] /\ group \in [Groups -> Comments \cup {None}]
    /\ acl \subseteq Entries /\ role \in [Roles -> {None} \cup SUBSET Privs]
    /\ lists \in BOOLEAN /\ outside \in 0 .. MaxOutside
    /\ pc \in [Runs -> {"idle", "lock", "read", "joinroles", "joinacls", "write", "reread", "roles",
                        "members", "owner", "decide", "readback", "users", "groups", "acls", "rolelist", "accounts", "done"}]
    /\ target \in [Runs -> Targets \cup {None}] /\ cmd \in [Runs -> AllCommands \cup {[kind |-> "none"]}]
    /\ seen \in [Runs -> UserStates \cup Comments \cup {None}]
    /\ listed \in [Runs -> [Users -> UserStates \cup {None}]] /\ at \in [Runs -> Nat]
    /\ \A p \in Runs :
           /\ cmd[p].kind = "user" => seen[p] \in UserStates \cup {None}
           /\ cmd[p].kind = "group" => seen[p] \in Comments \cup {None}
           /\ cmd[p].kind = "grant" => at[p] \in 1 .. Len(cmd[p].grants)
    /\ known \in [Runs -> [Roles -> {None} \cup SUBSET Privs]]
    /\ warned \in [Runs -> SUBSET Entries] /\ shown \in [Runs -> SUBSET (Principals \X Entries)]
    /\ result \in [Runs -> {"none", "failed", "refused", "unknown", "unchanged", "created", "updated",
                            "unconfirmed", "granted", "shown"}]
    /\ late \in [Runs -> BOOLEAN] /\ met \in [Runs -> BOOLEAN]
    /\ stale \in [Runs -> SUBSET Lists]
    /\ wrote \in [Runs -> SUBSET Entries] /\ gave \in [Runs -> SUBSET Entries]
    /\ lasting \in [Runs -> SUBSET (Principals \X Entries)]

\* The step is p's: an attempt to write, or a late write.
WriteOf(p) ==
    \/ pc[p] = "write" /\ (pc'[p] # "write" \/ at'[p] # at[p])
    \/ late[p] /\ ~late'[p]

Gains == Holdings(user', acl') \ Holdings(user, acl)

\* No write, in time or late, gives anything to the target's own token or to the user
\* that owns it, be it through a group; unless that user has joined a group since the
\* user list was read, which nothing prevents.
OwnGainsNothing ==
    [][\A p \in Runs : WriteOf(p) =>
          \A h \in Gains :
              /\ h[1] # Own(p)
              /\ h[1] = ownUser(p) => cmd[p].who \in Groups /\ "members" \in stale[p]]_vars

\* No write gives anybody an escalating role that was not allowed, and a command that
\* succeeds has warned of every one it gave, but for roles and, for a join, ACLs that
\* have changed since they were read.
Excused(p) == "role" \in stale[p] \/ (cmd[p].kind = "user" /\ "acl" \in stale[p])
EscalatesOnlyAllowed ==
    [][\A p \in Runs :
          /\ WriteOf(p) /\ ~Excused(p) /\ cmd[p].kind # "group" /\ ~cmd[p].allow => \A h \in Gains : ~Escalates(h[2], role)
          /\ WriteOf(p) /\ ~Excused(p) => gave'[p] \ gave[p] \subseteq warned[p]]_vars

\* An ensure or a grant that reports success without a warning has seen what it was
\* asked for, all of it at one moment.
HonestSuccess ==
    \A p \in Runs : result[p] \in {"unchanged", "created", "updated", "granted"} => met[p]

\* A write takes nobody out of a group and no entry off the ACL, and leaves a user
\* enabled or disabled as it is, unless that was asked for or has changed since the
\* user was read, by others or by a run whose lock is another target's.
LeavesTheRest ==
    [][\A p \in Runs : WriteOf(p) =>
          /\ \A u \in Users : user[u] # None =>
                 /\ user[u].groups \subseteq GroupsOf(u, user')
                 /\ user'[u].enable # user[u].enable => cmd[p].enable # None \/ "enable" \in stale[p]
          /\ \A e \in acl : e \in acl' \/ [e EXCEPT !.propagate = ~@] \in wrote'[p]]_vars

\* A grant that ends early says which of its entries were written: all it names were,
\* and at most the one it stopped at was besides.
PartialGrantKnown ==
    \A p \in Runs : cmd[p].kind = "grant" /\ pc[p] = "done" /\ result[p] \in {"failed", "unknown"} =>
        /\ applied(p) \subseteq wrote[p]
        /\ wrote[p] \subseteq applied(p) \cup {Entry(cmd[p], at[p])}

\* Whatever somebody held all the time since the members were last listed, an inventory
\* shows, a group's entries with every one of its members.
NothingHeldHidden ==
    \A p \in Runs : result[p] = "shown" => lasting[p] \subseteq shown[p]

\* A run is at its write, or its write may still land.
Writing(p) == pc[p] = "write" \/ late[p]

\* Where a run is tells what it runs, and what it cannot have done yet.
Control(p) ==
    /\ pc[p] # "done" => result[p] = "none"
    /\ pc[p] = "idle" => cmd[p].kind = "none" /\ at[p] = 1 /\ seen[p] = None /\ wrote[p] = {}
    /\ pc[p] # "idle" => cmd[p] \in AllCommands /\ target[p] \in Targets
    /\ late[p] => pc[p] = "done"
    /\ pc[p] \in {"joinroles", "joinacls"} => cmd[p].kind = "user"
    /\ pc[p] \in {"members", "owner", "decide", "readback"} => cmd[p].kind = "grant"
    /\ pc[p] \in {"idle", "lock", "read", "joinroles", "joinacls", "roles"} => warned[p] = {}

\* Two ensures of one target do not work on the same user or group.
Keys ==
    \A p, q \in Runs : p # q /\ HoldsKey(p) /\ HoldsKey(q) => target[p] # target[q] \/ cmd[p].who # cmd[q].who

\* A run has noticed that what it wants is so, from its start on.
Met(p) == pc[p] \notin {"idle", "done"} /\ Goal(cmd[p], user, group, acl) => met[p]

\* A grant has written the entries before the one it is at, and none after it.
Wrote(p) ==
    cmd[p].kind = "grant" =>
        applied(p) \subseteq wrote[p] /\ wrote[p] \subseteq applied(p) \cup {Entry(cmd[p], at[p])}

\* What lasts since an inventory's members were read is in what it has read or shows.
Held(p) ==
    /\ pc[p] \in {"groups", "acls"} => lasting[p] \subseteq Holdings(listed[p], acl)
    /\ pc[p] \in {"rolelist", "accounts"} => lasting[p] \subseteq shown[p]

\* The token's owner joins no group, and neither it nor its token is granted anything;
\* nor is a group it was in when the members were read.
OwnKept(p) ==
    /\ cmd[p].kind = "user" /\ (pc[p] # "done" \/ late[p]) /\ cmd[p].who = ownUser(p) => cmd[p].groups = {}
    /\ cmd[p].kind = "grant" /\ (pc[p] \in {"members", "owner", "decide"} \/ Writing(p)) => checkNotSelf(p, cmd[p])
    /\ cmd[p].kind = "grant" /\ (pc[p] = "decide" \/ Writing(p)) /\ ownUser(p) # None /\ cmd[p].who \in Groups
          => "members" \in stale[p] \/ cmd[p].who \notin GroupsOf(ownUser(p), user)

\* What is warned of is every escalating entry there is to give, while what was read
\* holds, and nothing is warned of at a write unless it is allowed.
Warned(p) ==
    /\ cmd[p].kind = "grant" /\ (pc[p] \in {"members", "owner", "decide"} \/ Writing(p))
          => "role" \in stale[p] \/ warned[p] = {e \in Wanted(cmd[p]) : Escalates(e, role)}
    /\ pc[p] = "joinacls" => "role" \in stale[p] \/ known[p] = role
    /\ cmd[p].kind = "user" /\ Writing(p) =>
          \/ {"role", "acl"} \cap stale[p] # {}
          \/ \A e \in acl : e.who \in missingGroups(cmd[p], seen[p]) /\ Escalates(e, role) => e \in warned[p]
    /\ cmd[p].kind \in {"user", "grant"} /\ Writing(p) => warned[p] = {} \/ cmd[p].allow

\* The user a run has read is still enabled, or disabled, as it was read.
EnableSeen(p) ==
    cmd[p].kind = "user" /\ (pc[p] \in {"joinroles", "joinacls"} \/ Writing(p)) /\ seen[p] # None
        => "enable" \in stale[p] \/ Enabled(cmd[p].who, user) = seen[p].enable

\* What an access command says, and where it stands between, together: success it has
\* seen, the entries a broken off grant has written, and an inventory that hides nothing.
AccessInv ==
    /\ TypeOK /\ HonestSuccess /\ PartialGrantKnown /\ NothingHeldHidden /\ Keys
    /\ \A p \in Runs : /\ Control(p) /\ Met(p) /\ Wrote(p) /\ Held(p)
                        /\ OwnKept(p) /\ Warned(p) /\ EnableSeen(p)
=============================================================================
