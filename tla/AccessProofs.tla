---------------------------- MODULE AccessProofs ----------------------------
(***************************************************************************)
(* Theorems about Access, for any cluster, any commands and any number of  *)
(* runs: what an access command reports was so, and what its write may     *)
(* give, take and leave alone.                                             *)
(***************************************************************************)
EXTENDS Access, TLAPS

-----------------------------------------------------------------------------
(* The invariant, run by run                                               *)

Labels == {"idle", "lock", "read", "joinroles", "joinacls", "write", "reread", "roles",
           "members", "owner", "decide", "readback", "users", "groups", "acls", "rolelist",
           "accounts", "done"}
Verdicts == {"none", "failed", "refused", "unknown", "unchanged", "created", "updated",
             "unconfirmed", "granted", "shown"}
UserMaps == [Users -> UserStates \cup {None}]
RoleMaps == [Roles -> {None} \cup SUBSET Privs]
GroupMaps == [Groups -> Comments \cup {None}]

PveTyped ==
    /\ user \in UserMaps /\ group \in GroupMaps /\ acl \in SUBSET Entries /\ role \in RoleMaps
    /\ lists \in BOOLEAN /\ outside \in 0 .. MaxOutside

HistoryTyped ==
    /\ stale \in [Runs -> SUBSET Lists] /\ met \in [Runs -> BOOLEAN]
    /\ wrote \in [Runs -> SUBSET Entries] /\ gave \in [Runs -> SUBSET Entries]
    /\ lasting \in [Runs -> SUBSET (Principals \X Entries)]

LocalsTyped ==
    /\ pc \in [Runs -> Labels]
    /\ target \in [Runs -> Targets \cup {None}] /\ cmd \in [Runs -> AllCommands \cup {[kind |-> "none"]}]
    /\ seen \in [Runs -> UserStates \cup Comments \cup {None}]
    /\ listed \in [Runs -> UserMaps] /\ at \in [Runs -> Nat]
    /\ known \in [Runs -> RoleMaps]
    /\ warned \in [Runs -> SUBSET Entries] /\ shown \in [Runs -> SUBSET (Principals \X Entries)]
    /\ result \in [Runs -> Verdicts] /\ late \in [Runs -> BOOLEAN]

SeenTyped(p) ==
    /\ cmd[p].kind = "user" => seen[p] \in UserStates \cup {None}
    /\ cmd[p].kind = "group" => seen[p] \in Comments \cup {None}
    /\ cmd[p].kind = "grant" => at[p] \in 1 .. Len(cmd[p].grants)

Typed == PveTyped /\ HistoryTyped /\ LocalsTyped

\* What a run says of itself when it has ended.
Says(p) ==
    /\ result[p] \in {"unchanged", "created", "updated", "granted"} => met[p]
    /\ result[p] = "shown" => lasting[p] \subseteq shown[p]

\* A run's part of the invariant.
RunInv(p) ==
    /\ SeenTyped(p) /\ Control(p) /\ Met(p) /\ Wrote(p) /\ Held(p) /\ OwnKept(p) /\ Warned(p) /\ EnableSeen(p)
    /\ Says(p)

\* The types, of the cluster, of the history and of each run.
LEMMA TypeParts == TypeOK <=> Typed /\ \A p \in Runs : SeenTyped(p)
  BY DEF TypeOK, Typed, PveTyped, HistoryTyped, LocalsTyped, SeenTyped, Labels, Verdicts, UserMaps, RoleMaps, GroupMaps

\* The invariant is one statement about each run, and the locks.
LEMMA InvParts == AccessInv <=> Typed /\ Keys /\ \A p \in Runs : RunInv(p)
  BY TypeParts DEF AccessInv, RunInv, Says, HonestSuccess, NothingHeldHidden, PartialGrantKnown, Wrote

\* The same, for the state after a step.
LEMMA InvPartsNext == Typed' /\ Keys' /\ (\A p \in Runs : RunInv(p)') => AccessInv'
<1> SUFFICES ASSUME Typed', Keys', \A p \in Runs : RunInv(p)' PROVE AccessInv'
  OBVIOUS
<1>1. TypeOK'
  BY DEF RunInv, TypeOK, Typed, PveTyped, HistoryTyped, LocalsTyped, SeenTyped, Labels, Verdicts, UserMaps, RoleMaps, GroupMaps
<1>2. (HonestSuccess /\ NothingHeldHidden /\ PartialGrantKnown)'
  BY DEF RunInv, Says, HonestSuccess, NothingHeldHidden, PartialGrantKnown, Wrote
<1> QED
  BY <1>1, <1>2 DEF AccessInv, RunInv

-----------------------------------------------------------------------------
(* Commands                                                                *)

\* What a command line gives, by its kind.
LEMMA UserCommand ==
  ASSUME NEW c \in AllCommands \cup {[kind |-> "none"]}, c.kind = "user"
  PROVE  /\ c.who \in Users /\ c.enable \in BOOLEAN \cup {None} /\ c.comment \in Comments \cup {None}
         /\ c.groups \in SUBSET Groups /\ c.allow \in BOOLEAN
<1>1. c \in AllCommands
  OBVIOUS
<1>2. c \in [kind : {"user"}, who : Users, enable : BOOLEAN \cup {None},
             comment : Comments \cup {None}, groups : SUBSET Groups, allow : BOOLEAN]
  BY <1>1, AccessAssumption
<1> QED
  BY <1>2

LEMMA GroupCommand ==
  ASSUME NEW c \in AllCommands \cup {[kind |-> "none"]}, c.kind = "group"
  PROVE  c.who \in Groups /\ c.comment \in Comments \cup {None}
<1>1. c \in AllCommands
  OBVIOUS
<1>2. c \in [kind : {"group"}, who : Groups, comment : Comments \cup {None}]
  BY <1>1, AccessAssumption
<1> QED
  BY <1>2

LEMMA GrantCommand ==
  ASSUME NEW c \in AllCommands \cup {[kind |-> "none"]}, c.kind = "grant"
  PROVE  /\ c.who \in Principals /\ c.allow \in BOOLEAN /\ c.grants \in Seq(Grants)
         /\ Len(c.grants) \in Nat /\ 1 \in 1 .. Len(c.grants)
<1>1. c \in AllCommands
  OBVIOUS
<1>2. c.who \in Principals /\ c.allow \in BOOLEAN /\ c.grants \in Seq(Grants) /\ c.grants # <<>>
  BY <1>1, AccessAssumption
<1> QED
  BY <1>2

\* The entries a grant writes are entries, all of its principal.
LEMMA EntryType ==
  ASSUME NEW c \in AllCommands \cup {[kind |-> "none"]}, c.kind = "grant", NEW i \in 1 .. Len(c.grants)
  PROVE  Entry(c, i) \in Entries /\ Entry(c, i).who = c.who /\ Entry(c, i) \in Wanted(c)
<1>1. c.who \in Principals /\ c.grants[i] \in Grants
  BY GrantCommand
<1>2. Entry(c, i) \in Entries /\ Entry(c, i).who = c.who
  BY <1>1 DEF Entry, Entries, Grants
<1> QED
  BY <1>2 DEF Wanted

LEMMA WantedType ==
  ASSUME NEW c \in AllCommands \cup {[kind |-> "none"]}, c.kind = "grant"
  PROVE  Wanted(c) \in SUBSET Entries
<1>1. ASSUME NEW e \in Wanted(c) PROVE e \in Entries
  <2>1. PICK i \in 1 .. Len(c.grants) : e = Entry(c, i)
    BY DEF Wanted
  <2> QED
    BY <2>1, EntryType
<1> QED
  BY <1>1

\* The target's own token, and the user it belongs to.
LEMMA OwnTypes ==
  ASSUME NEW p \in Runs, target[p] \in Targets
  PROVE  /\ Own(p) \in Tokens \cup {None} /\ ownUser(p) \in Users \cup {None}
         /\ Own(p) # None => ownUser(p) \in Users
  BY AccessAssumption DEF Own, ownUser, Principals

LEMMA GroupsOfType == \A U \in UserMaps, u \in Users : GroupsOf(u, U) \in SUBSET Groups
  BY DEF UserMaps, UserStates, GroupsOf

\* Who holds what is a relation of principals and entries.
LEMMA HoldingsType ==
  ASSUME NEW U, NEW A \in SUBSET Entries
  PROVE  Holdings(U, A) \in SUBSET (Principals \X Entries)
  BY DEF Holdings

-----------------------------------------------------------------------------
(* The initial states                                                      *)

\* A cluster in which no run has started.
LEMMA InitAccess == Init => AccessInv
<1> SUFFICES ASSUME Init PROVE AccessInv
  OBVIOUS
<1>1. PICK c \in Clusters : user = c.user /\ group = c.group /\ acl = c.acl /\ role = c.role /\ lists = c.lists
  BY DEF Init
<1>2. c \in [user : UserMaps, group : GroupMaps, acl : SUBSET Entries, role : RoleMaps, lists : BOOLEAN]
  BY AccessAssumption DEF UserMaps, GroupMaps, RoleMaps
<1>3. PveTyped
  BY <1>1, <1>2, AccessAssumption DEF PveTyped, Init
<1>4. HistoryTyped
  BY DEF Init, HistoryTyped
<1>5. NoUsers \in UserMaps /\ NoRoles \in RoleMaps
  BY DEF NoUsers, NoRoles, UserMaps, RoleMaps
<1>6. LocalsTyped
  BY <1>5 DEF Init, LocalsTyped, Labels, Verdicts
<1>7. Keys
  BY DEF Init, Keys, HoldsKey
<1>8. ASSUME NEW p \in Runs PROVE RunInv(p)
  BY DEF Init, RunInv, SeenTyped, Control, Met, Wrote, Held, OwnKept, Warned, EnableSeen, Says, Writing
<1> QED
  BY <1>3, <1>4, <1>6, <1>7, <1>8, InvParts DEF Typed

-----------------------------------------------------------------------------
(* What a step of somebody else leaves of a run                            *)

\* A step leaves what a run has in hand, and what was noted for it.
SameRun(q) ==
    /\ pc'[q] = pc[q] /\ target'[q] = target[q] /\ cmd'[q] = cmd[q] /\ seen'[q] = seen[q]
    /\ listed'[q] = listed[q] /\ known'[q] = known[q] /\ at'[q] = at[q] /\ warned'[q] = warned[q]
    /\ shown'[q] = shown[q] /\ result'[q] = result[q] /\ late'[q] = late[q] /\ wrote'[q] = wrote[q]

SamePast(q) == stale'[q] = stale[q] /\ met'[q] = met[q] /\ lasting'[q] = lasting[q]

\* What is computed from a run's own variables stays with them.
LEMMA SameDerived ==
  ASSUME NEW q \in Runs, SameRun(q)
  PROVE  /\ (Own(q)' = Own(q)) /\ (ownUser(q)' = ownUser(q)) /\ (Writing(q)' <=> Writing(q))
         /\ (applied(q)' = applied(q)) /\ (HoldsKey(q)' <=> HoldsKey(q))
         /\ (checkNotSelf(q, cmd[q])' <=> checkNotSelf(q, cmd[q]))
  BY DEF SameRun, Own, ownUser, Writing, applied, HoldsKey, checkNotSelf

\* The parts that no change of the cluster can disturb.
LEMMA SameFixed ==
  ASSUME NEW q \in Runs, RunInv(q), SameRun(q)
  PROVE  SeenTyped(q)' /\ Control(q)' /\ Wrote(q)'
<1>1. SeenTyped(q)' /\ Control(q)'
  BY DEF RunInv, SameRun, SeenTyped, Control
<1>2. Wrote(q)'
  BY SameDerived DEF RunInv, SameRun, Wrote
<1> QED
  BY <1>1, <1>2

\* A step that leaves the cluster and a run alone keeps the run's part.
LEMMA SameQuiet ==
  ASSUME NEW q \in Runs, RunInv(q), SameRun(q), SamePast(q), UNCHANGED pve
  PROVE  RunInv(q)'
<1>1. Met(q)' /\ Held(q)' /\ Says(q)'
  BY DEF RunInv, SameRun, SamePast, pve, Met, Held, Says
<1>2. OwnKept(q)'
  BY SameDerived DEF RunInv, SameRun, SamePast, pve, OwnKept
<1>3. Warned(q)'
  BY SameDerived DEF RunInv, SameRun, SamePast, pve, Warned
<1>4. EnableSeen(q)'
  BY SameDerived DEF RunInv, SameRun, SamePast, pve, EnableSeen
<1> QED
  BY <1>1, <1>2, <1>3, <1>4, SameFixed DEF RunInv

\* What a run relies on is as it was, or is noted as changed.
LEMMA Noted ==
  ASSUME Typed, NEW q \in Runs, NEW U, NEW G, NEW A, NEW R, NEW by, Become(U, G, A, R, by), q # by
  PROVE  /\ stale[q] \subseteq stale'[q]
         /\ Busy(q) => /\ Flips(q, U, by) => "enable" \in stale'[q]
                       /\ "members" \in stale'[q] \/ \A u \in Users : GroupsOf(u, U) = GroupsOf(u, user)
                       /\ "acl" \in stale'[q] \/ A = acl
                       /\ "role" \in stale'[q] \/ R = role
         /\ met[q] => met'[q]
         /\ Busy(q) /\ Goal(cmd[q], U, G, A) => met'[q]
         /\ lasting'[q] = lasting[q] \cap Holdings(U, A)
  BY DEF Become, Typed, HistoryTyped, Lists

\* A step of somebody else that changes the cluster keeps a run's part: whatever
\* the run relies on is as it was, or noted as changed since it was read.
LEMMA SameBecome ==
  ASSUME Typed, NEW q \in Runs, RunInv(q), SameRun(q),
         NEW U, NEW G, NEW A \in SUBSET Entries, NEW R, NEW by,
         Become(U, G, A, R, by), q # by,
         cmd[q].kind = "user" /\ pc[q] \in {"joinroles", "joinacls", "write"} /\ ~Flips(q, U, by)
            => Enabled(cmd[q].who, U) = Enabled(cmd[q].who, user),
         late[q] /\ cmd[q].kind = "user" /\ ~Flips(q, U, by) => Enabled(cmd[q].who, U) = Enabled(cmd[q].who, user)
  PROVE  RunInv(q)'
<1>0. user' = U /\ group' = G /\ acl' = A /\ role' = R
  BY DEF Become
<1>1. Met(q)'
  BY <1>0, Noted DEF RunInv, SameRun, Met, Busy
<1>2. Held(q)'
  <2>1. CASE pc[q] \in {"groups", "acls"}
    <3>1. lasting[q] \subseteq Holdings(listed[q], acl)
      BY <2>1 DEF RunInv, Held
    <3>2. ASSUME NEW h \in lasting'[q] PROVE h \in Holdings(listed[q], A)
      <4>1. h \in Holdings(listed[q], acl) /\ h \in Holdings(U, A)
        BY <3>1, <3>2, Noted
      <4> QED
        BY <4>1 DEF Holdings
    <3> QED
      BY <1>0, <2>1, <3>2 DEF SameRun, Held
  <2>2. CASE pc[q] \in {"rolelist", "accounts"}
    BY <2>2, Noted DEF RunInv, SameRun, Held
  <2> QED
    BY <2>1, <2>2 DEF SameRun, Held
<1>3. Says(q)'
  BY Noted DEF RunInv, SameRun, Says
<1>4. OwnKept(q)'
  <2>1. (pc[q] = "decide" \/ Writing(q)) => Busy(q)
    BY DEF Writing, Busy
  <2>2. ownUser(q) # None /\ (pc[q] = "decide" \/ Writing(q)) => ownUser(q) \in Users
    BY <2>1, OwnTypes DEF RunInv, Control, Writing
  <2>3. ASSUME cmd[q].kind = "grant", pc[q] = "decide" \/ Writing(q), ownUser(q) # None, cmd[q].who \in Groups
        PROVE  "members" \in stale'[q] \/ cmd[q].who \notin GroupsOf(ownUser(q), U)
    <3>1. "members" \in stale[q] \/ cmd[q].who \notin GroupsOf(ownUser(q), user)
      BY <2>3 DEF RunInv, OwnKept
    <3> QED
      BY <2>1, <2>2, <2>3, <3>1, Noted
  <2> QED
    BY <1>0, <2>3, SameDerived DEF RunInv, SameRun, OwnKept
<1>5. Warned(q)'
  <2>1. (pc[q] \in {"members", "owner", "decide", "joinacls"} \/ Writing(q)) => Busy(q)
    BY DEF Writing, Busy
  <2>2. ASSUME cmd[q].kind = "grant", pc[q] \in {"members", "owner", "decide"} \/ Writing(q)
        PROVE  "role" \in stale'[q] \/ warned[q] = {e \in Wanted(cmd[q]) : Escalates(e, R)}
    BY <2>1, <2>2, Noted DEF RunInv, Warned
  <2>3. ASSUME pc[q] = "joinacls" PROVE "role" \in stale'[q] \/ known[q] = R
    BY <2>1, <2>3, Noted DEF RunInv, Warned
  <2>4. ASSUME cmd[q].kind = "user", Writing(q), {"role", "acl"} \cap stale'[q] = {}
        PROVE  \A e \in A : e.who \in missingGroups(cmd[q], seen[q]) /\ Escalates(e, R) => e \in warned[q]
    <3>1. A = acl /\ R = role /\ {"role", "acl"} \cap stale[q] = {}
      BY <2>1, <2>4, Noted
    <3> QED
      BY <2>4, <3>1 DEF RunInv, Warned
  <2> QED
    BY <1>0, <2>2, <2>3, <2>4, SameDerived DEF RunInv, SameRun, Warned
<1>6. EnableSeen(q)'
  <2> SUFFICES ASSUME cmd[q].kind = "user", pc[q] \in {"joinroles", "joinacls"} \/ Writing(q), seen[q] # None
               PROVE  "enable" \in stale'[q] \/ Enabled(cmd[q].who, U) = seen[q].enable
    BY <1>0, SameDerived DEF SameRun, EnableSeen
  <2>1. Busy(q)
    BY DEF Writing, Busy
  <2>2. "enable" \in stale[q] \/ Enabled(cmd[q].who, user) = seen[q].enable
    BY DEF RunInv, EnableSeen
  <2>3. CASE Flips(q, U, by)
    BY <2>1, <2>3, Noted
  <2>4. CASE ~Flips(q, U, by)
    BY <2>2, <2>4, Noted DEF Writing
  <2> QED
    BY <2>3, <2>4
<1> QED
  BY <1>1, <1>2, <1>3, <1>4, <1>5, <1>6, SameFixed DEF RunInv

-----------------------------------------------------------------------------
(* Steps that leave PVE alone                                              *)

\* A step of p leaves every other run alone.
Leaves(p) == \A q \in Runs \ {p} : SameRun(q) /\ SamePast(q)

\* The key that p holds it held before, or nobody else does.
KeyKept(p) ==
    HoldsKey(p)' => \/ HoldsKey(p) /\ target'[p] = target[p] /\ cmd'[p] = cmd[p]
                    \/ \A q \in Runs : HoldsKey(q) => target[q] # target'[p] \/ cmd[q].who # cmd'[p].who

\* The runs' parts and the locks make up the invariant.
LEMMA WholeStep ==
  ASSUME AccessInv, NEW p \in Runs, Typed', \A q \in Runs \ {p} : SameRun(q),
         KeyKept(p), RunInv(p)', \A q \in Runs \ {p} : RunInv(q)'
  PROVE  AccessInv'
<1>1. \A q \in Runs \ {p} : (HoldsKey(q)' <=> HoldsKey(q)) /\ target'[q] = target[q] /\ cmd'[q] = cmd[q]
  BY SameDerived DEF SameRun
<1>2. Keys
  BY InvParts
<1>3. Keys'
  BY <1>1, <1>2 DEF Keys, KeyKept
<1> QED
  BY <1>3, InvPartsNext

\* Without a change at PVE, only the acting run's part is at stake.
LEMMA QuietStep ==
  ASSUME AccessInv, NEW p \in Runs, UNCHANGED <<pve, lists, outside>>, HistoryTyped', LocalsTyped',
         Leaves(p), KeyKept(p), RunInv(p)'
  PROVE  AccessInv'
<1>1. Typed'
  BY InvParts DEF Typed, PveTyped, pve
<1>2. \A q \in Runs \ {p} : RunInv(q)'
  BY InvParts, SameQuiet DEF Leaves
<1> QED
  BY <1>1, <1>2, WholeStep DEF Leaves

\* The end of a run drops what it had read.
LEMMA EndsFacts ==
  ASSUME Typed, NEW p \in Runs, NEW o \in Verdicts, Ends(p, o), late' = late,
         UNCHANGED <<met, wrote, gave, lasting>>
  PROVE  /\ HistoryTyped' /\ LocalsTyped' /\ Leaves(p)
         /\ pc'[p] = "done" /\ result'[p] = o /\ seen'[p] = None /\ warned'[p] = {}
<1>1. NoUsers \in UserMaps /\ NoRoles \in RoleMaps
  BY DEF NoUsers, NoRoles, UserMaps, RoleMaps
<1>2. HistoryTyped'
  BY DEF Typed, HistoryTyped, Ends, Fresh
<1>3. pc' \in [Runs -> Labels] /\ result' \in [Runs -> Verdicts]
  BY DEF Typed, LocalsTyped, Ends, Goto, Labels
<1>4. seen' \in [Runs -> UserStates \cup Comments \cup {None}] /\ listed' \in [Runs -> UserMaps]
      /\ known' \in [Runs -> RoleMaps] /\ warned' \in [Runs -> SUBSET Entries]
  BY <1>1 DEF Typed, LocalsTyped, Ends
<1>5. LocalsTyped'
  BY <1>3, <1>4 DEF Typed, LocalsTyped, Ends
<1>6. Leaves(p)
  BY DEF Typed, LocalsTyped, HistoryTyped, Ends, Goto, Fresh, Leaves, SameRun, SamePast
<1> QED
  BY <1>2, <1>5, <1>6 DEF Typed, LocalsTyped, Ends, Goto

\* A run may end whenever what it says is so.
LEMMA EndsKeeps ==
  ASSUME AccessInv, NEW p \in Runs, pc[p] \notin {"idle", "done"}, NEW o \in Verdicts, Ends(p, o),
         Quiet, UNCHANGED <<met, wrote, gave, lasting>>,
         o \in {"unchanged", "created", "updated", "granted"} => met[p],
         o = "shown" => lasting[p] \subseteq shown[p]
  PROVE  AccessInv'
<1>1. /\ HistoryTyped' /\ LocalsTyped' /\ Leaves(p)
      /\ pc'[p] = "done" /\ result'[p] = o /\ seen'[p] = None /\ warned'[p] = {}
  BY InvParts, EndsFacts DEF Quiet
<1>2. UNCHANGED <<target, cmd, at, shown, late, met, wrote, lasting>>
  BY DEF Ends, Quiet
<1>3. ~late[p] /\ RunInv(p)
  BY InvParts DEF RunInv, Control
<1>4. SeenTyped(p)' /\ Control(p)' /\ Says(p)'
  BY <1>1, <1>2, <1>3 DEF RunInv, SeenTyped, Control, Says
<1>5. Wrote(p)'
  BY <1>2, <1>3 DEF RunInv, Wrote, applied
<1>6. ~Writing(p)'
  BY <1>1, <1>2, <1>3 DEF Writing
<1>7. Met(p)' /\ Held(p)' /\ OwnKept(p)' /\ Warned(p)' /\ EnableSeen(p)'
  BY <1>1, <1>2, <1>3, <1>6 DEF Met, Held, OwnKept, Warned, EnableSeen
<1>8. KeyKept(p)
  BY <1>1 DEF KeyKept, HoldsKey
<1> QED
  BY <1>1, <1>4, <1>5, <1>7, <1>8, QuietStep DEF RunInv, Quiet

LEMMA ReadFailsKeeps == ASSUME AccessInv, NEW p \in Runs, ReadFails(p) \/ Unverifiable(p) PROVE AccessInv'
<1>1. PICK o \in {"unconfirmed", "failed"} : Ends(p, o)
  BY DEF ReadFails, Unverifiable
<1>2. pc[p] \notin {"idle", "done"} /\ Quiet /\ UNCHANGED <<met, wrote, gave, lasting>>
  BY DEF ReadFails, Unverifiable, Reading, history
<1> QED
  BY <1>1, <1>2, EndsKeeps DEF Verdicts

\* A step to another label that leaves what p has read alone.
LEMMA MovesFacts ==
  ASSUME Typed, NEW p \in Runs, NEW l \in Labels, Goto(p, l), UNCHANGED <<locals, late>>,
         UNCHANGED <<met, wrote, gave>>, lasting' \in [Runs -> SUBSET (Principals \X Entries)],
         \A q \in Runs \ {p} : lasting'[q] = lasting[q],
         UNCHANGED stale \/ \E reads \in SUBSET Lists : Fresh(p, reads)
  PROVE  HistoryTyped' /\ LocalsTyped' /\ Leaves(p) /\ pc'[p] = l
<1>1. stale' \in [Runs -> SUBSET Lists] /\ \A q \in Runs \ {p} : stale'[q] = stale[q]
  BY DEF Fresh, Typed, HistoryTyped
<1>2. HistoryTyped'
  BY <1>1 DEF Typed, HistoryTyped
<1>3. LocalsTyped' /\ pc'[p] = l /\ \A q \in Runs \ {p} : pc'[q] = pc[q]
  BY DEF Typed, LocalsTyped, Goto, locals
<1> QED
  BY <1>1, <1>2, <1>3 DEF Leaves, SameRun, SamePast, locals

\* What a step of p itself keeps while it goes on with its command.
LEMMA GoesOn ==
  ASSUME AccessInv, NEW p \in Runs, pc[p] \notin {"idle", "done"}, NEW l \in Labels \ {"idle", "done"}, pc'[p] = l,
         UNCHANGED <<pve, late, met, wrote, result, target, cmd, at>>,
         l \in {"joinroles", "joinacls"} => cmd[p].kind = "user",
         l \in {"members", "owner", "decide", "readback"} => cmd[p].kind = "grant",
         l \in {"lock", "read", "joinroles", "joinacls", "roles"} => warned'[p] = {}
  PROVE  /\ ~late[p] /\ Control(p)' /\ Met(p)' /\ Wrote(p)' /\ Says(p)'
         /\ (Writing(p)' <=> l = "write") /\ ownUser(p)' = ownUser(p)
         /\ (checkNotSelf(p, cmd[p])' <=> checkNotSelf(p, cmd[p]))
         /\ cmd[p].kind = "user" /\ cmd[p].who = ownUser(p) => cmd[p].groups = {}
<1>1. RunInv(p)
  BY InvParts
<1>2. ~late[p] /\ result[p] = "none"
  BY <1>1 DEF RunInv, Control
<1>3. Control(p)' /\ Met(p)' /\ Says(p)'
  BY <1>1, <1>2 DEF RunInv, Control, Met, Says, pve
<1>4. Wrote(p)'
  BY <1>1 DEF RunInv, Wrote, applied
<1>5. (Writing(p)' <=> l = "write") /\ ownUser(p)' = ownUser(p)
      /\ (checkNotSelf(p, cmd[p])' <=> checkNotSelf(p, cmd[p]))
  BY <1>2 DEF Writing, ownUser, Own, checkNotSelf
<1>6. cmd[p].kind = "user" /\ cmd[p].who = ownUser(p) => cmd[p].groups = {}
  BY <1>1 DEF RunInv, OwnKept
<1> QED
  BY <1>2, <1>3, <1>4, <1>5, <1>6

LEMMA StartKeeps == ASSUME AccessInv, NEW p \in Runs, Start(p) PROVE AccessInv'
<1> DEFINE OwnOf(t) == IF OwnToken(t) = None THEN None ELSE Owner(OwnToken(t))
           Refused(t, c) == c.kind = "user" /\ c.who = OwnOf(t) /\ (c.enable = FALSE \/ c.groups # {})
<1>0. PICK t \in Targets : \E c \in Commands(t) :
          /\ target' = [target EXCEPT ![p] = t]
          /\ cmd' = [cmd EXCEPT ![p] = c]
          /\ met' = [met EXCEPT ![p] = Goal(c, user, group, acl)]
          /\ result' = [result EXCEPT ![p] = IF Refused(t, c) THEN "refused" ELSE @]
          /\ Goto(p, CASE Refused(t, c) -> "done"
                       [] c.kind \in {"user", "group"} /\ ~Refused(t, c) -> "lock"
                       [] c.kind = "grant" -> "roles"
                       [] c.kind = "inventory" -> "users")
  BY DEF Start
<1>1. PICK c \in Commands(t) :
          /\ target' = [target EXCEPT ![p] = t]
          /\ cmd' = [cmd EXCEPT ![p] = c]
          /\ met' = [met EXCEPT ![p] = Goal(c, user, group, acl)]
          /\ result' = [result EXCEPT ![p] = IF Refused(t, c) THEN "refused" ELSE @]
          /\ Goto(p, CASE Refused(t, c) -> "done"
                       [] c.kind \in {"user", "group"} /\ ~Refused(t, c) -> "lock"
                       [] c.kind = "grant" -> "roles"
                       [] c.kind = "inventory" -> "users")
  BY <1>0
<1> DEFINE no == Refused(t, c)
<1>2. c \in AllCommands
  BY DEF AllCommands
<1>3. c.kind \in {"user", "group", "grant", "inventory"}
  BY <1>2, AccessAssumption
<1>4. no => c.kind = "user"
  OBVIOUS
<1>5. c.kind = "user" /\ c.who = OwnOf(t) /\ ~no => c.groups = {}
  OBVIOUS
<1>6. no \in BOOLEAN
  OBVIOUS
<1> HIDE DEF no, Refused
<1>7. PICK l \in {"done", "lock", "roles", "users"} :
        /\ pc' = [pc EXCEPT ![p] = l]
        /\ no <=> l = "done"
        /\ l = "lock" => c.kind \in {"user", "group"}
  <2>1. CASE no
    BY <1>1, <1>4, <2>1 DEF Goto, no
  <2>2. CASE ~no /\ c.kind \in {"user", "group"}
    BY <1>1, <2>2 DEF Goto, no
  <2>3. CASE ~no /\ c.kind = "grant"
    BY <1>1, <2>3 DEF Goto, no
  <2>4. CASE ~no /\ c.kind = "inventory"
    BY <1>1, <2>4 DEF Goto, no
  <2> QED
    BY <1>3, <2>1, <2>2, <2>3, <2>4
<1>8. Typed /\ RunInv(p) /\ pc[p] = "idle"
  BY InvParts DEF Start
<1>9. /\ Quiet /\ UNCHANGED <<seen, listed, known, at, warned, shown, stale, wrote, gave, lasting>>
  BY DEF Start
<1>10. HistoryTyped'
  <2>1. Goal(c, user, group, acl) \in BOOLEAN
    BY DEF Goal
  <2> QED
    BY <1>1, <1>8, <1>9, <2>1 DEF Typed, HistoryTyped
<1>11. LocalsTyped'
  <2>1. target' \in [Runs -> Targets \cup {None}] /\ cmd' \in [Runs -> AllCommands \cup {[kind |-> "none"]}]
    BY <1>1, <1>2, <1>8 DEF Typed, LocalsTyped
  <2>2. result' \in [Runs -> Verdicts] /\ pc' \in [Runs -> Labels]
    BY <1>1, <1>7, <1>8 DEF Typed, LocalsTyped, Verdicts, Labels
  <2> QED
    BY <1>8, <1>9, <2>1, <2>2 DEF Typed, LocalsTyped, Quiet
<1>12. Leaves(p)
  BY <1>1, <1>7, <1>8, <1>9 DEF Typed, LocalsTyped, HistoryTyped, Leaves, SameRun, SamePast, Quiet
<1>13. /\ pc'[p] = l /\ target'[p] = t /\ cmd'[p] = c /\ (met'[p] <=> Goal(c, user, group, acl))
       /\ result'[p] = (IF no THEN "refused" ELSE "none") /\ ~late'[p]
       /\ at'[p] = 1 /\ seen'[p] = None /\ wrote'[p] = {} /\ warned'[p] = {}
  <2>1. ~late[p] /\ at[p] = 1 /\ seen[p] = None /\ wrote[p] = {} /\ warned[p] = {} /\ result[p] = "none"
    BY <1>8 DEF RunInv, Control
  <2> QED
    BY <1>1, <1>7, <1>8, <1>9, <2>1 DEF Typed, LocalsTyped, HistoryTyped, Quiet, no
<1>14. RunInv(p)'
  <2>1. SeenTyped(p)'
    BY <1>2, <1>13, GrantCommand DEF SeenTyped
  <2>2. Control(p)' /\ Says(p)'
    BY <1>2, <1>7, <1>13 DEF Control, Says
  <2>3. Met(p)'
    BY <1>9, <1>13 DEF Met, Quiet, pve
  <2>4. Wrote(p)'
    BY <1>13 DEF Wrote, applied
  <2>5. ~Writing(p)' /\ Held(p)'
    BY <1>7, <1>13 DEF Writing, Held
  <2>6. OwnKept(p)'
    <3>1. ownUser(p)' = OwnOf(t)
      BY <1>13 DEF ownUser, Own
    <3> HIDE DEF OwnOf
    <3> QED
      BY <1>5, <1>7, <1>13, <2>5, <3>1 DEF OwnKept
  <2>7. Warned(p)' /\ EnableSeen(p)'
    BY <1>7, <1>13, <2>5 DEF Warned, EnableSeen
  <2> QED
    BY <2>1, <2>2, <2>3, <2>4, <2>5, <2>6, <2>7 DEF RunInv
<1>15. KeyKept(p)
  BY <1>7, <1>13 DEF KeyKept, HoldsKey
<1> QED
  BY <1>9, <1>10, <1>11, <1>12, <1>14, <1>15, QuietStep DEF Quiet

LEMMA LockKeeps == ASSUME AccessInv, NEW p \in Runs, Lock(p) PROVE AccessInv'
<1>1. pc[p] = "lock" /\ Typed /\ RunInv(p) /\ Quiet /\ UNCHANGED <<locals, stale, met, wrote, gave, lasting>>
  BY InvParts DEF Lock, Stays, history
<1>2. HistoryTyped' /\ LocalsTyped' /\ Leaves(p) /\ pc'[p] = "read"
  BY <1>1, MovesFacts DEF Lock, Labels, Quiet, Typed, HistoryTyped
<1>3. warned'[p] = {}
  BY <1>1 DEF RunInv, Control, locals
<1>4. /\ Control(p)' /\ Met(p)' /\ Wrote(p)' /\ Says(p)' /\ ~Writing(p)' /\ ownUser(p)' = ownUser(p)
      /\ cmd[p].kind = "user" /\ cmd[p].who = ownUser(p) => cmd[p].groups = {}
  BY <1>1, <1>2, <1>3, GoesOn DEF Labels, Quiet, locals
<1>5. RunInv(p)'
  BY <1>1, <1>2, <1>4 DEF RunInv, SeenTyped, Held, OwnKept, Warned, EnableSeen, locals
<1>6. KeyKept(p)
  BY <1>1 DEF Lock, KeyKept, locals
<1> QED
  BY <1>1, <1>2, <1>5, <1>6, QuietStep DEF Quiet

\* A read that finds what is asked for finds it at that moment.
LEMMA SatisfiedGoal ==
  ASSUME AccessInv, NEW p \in Runs
  PROVE  /\ cmd[p].kind = "user" => \A u \in ListUsers(p) : UserSatisfied(cmd[p], u) => Goal(cmd[p], user, group, acl)
         /\ cmd[p].kind = "group" => \A g \in ListGroups(p) : GroupSatisfied(cmd[p], g) => Goal(cmd[p], user, group, acl)
<1>1. ASSUME cmd[p].kind = "user", NEW u \in ListUsers(p), UserSatisfied(cmd[p], u)
      PROVE  Goal(cmd[p], user, group, acl)
  <2>1. u = user[cmd[p].who] /\ u # None
    BY <1>1 DEF ListUsers, UserSatisfied
  <2>2. cmd[p].groups \subseteq u.groups
    BY <1>1, <2>1 DEF UserSatisfied, missingGroups
  <2> QED
    BY <1>1, <2>1, <2>2 DEF UserSatisfied, Goal
<1>2. ASSUME cmd[p].kind = "group", NEW g \in ListGroups(p), GroupSatisfied(cmd[p], g)
      PROVE  Goal(cmd[p], user, group, acl)
  BY <1>2 DEF ListGroups, GroupSatisfied, Goal
<1> QED
  BY <1>1, <1>2

LEMMA ReadUserKeeps == ASSUME AccessInv, NEW p \in Runs, ReadUser(p) PROVE AccessInv'
<1>1. /\ pc[p] = "read" /\ cmd[p].kind = "user" /\ Typed /\ RunInv(p)
      /\ Quiet /\ UNCHANGED <<met, wrote, gave, lasting>>
  BY InvParts DEF ReadUser, Is, history
<1>2. PICK u \in ListUsers(p) :
        IF UserSatisfied(cmd[p], u) THEN Ends(p, "unchanged")
        ELSE /\ seen' = [seen EXCEPT ![p] = u]
             /\ Goto(p, IF missingGroups(cmd[p], u) = {} THEN "write" ELSE "joinroles")
             /\ Fresh(p, {"enable"})
             /\ UNCHANGED <<target, cmd, listed, known, at, warned, shown, result>>
  BY DEF ReadUser
<1>3. CASE UserSatisfied(cmd[p], u)
  <2>1. met[p]
    BY <1>1, <1>3, SatisfiedGoal DEF RunInv, Met
  <2> QED
    BY <1>1, <1>2, <1>3, <2>1, EndsKeeps DEF Verdicts
<1>4. CASE ~UserSatisfied(cmd[p], u)
  <2>1. /\ seen' = [seen EXCEPT ![p] = u] /\ Fresh(p, {"enable"})
        /\ UNCHANGED <<target, cmd, listed, known, at, warned, shown, result>>
    BY <1>2, <1>4
  <2>2. PICK l \in {"write", "joinroles"} : Goto(p, l) /\ (l = "write" => missingGroups(cmd[p], u) = {})
    BY <1>2, <1>4
  <2>3. u \in UserStates \cup {None} /\ (u # None => u = user[cmd[p].who])
    <3>1. cmd[p].who \in Users
      BY <1>1, UserCommand DEF Typed, LocalsTyped
    <3> QED
      BY <1>1, <3>1 DEF ListUsers, Typed, PveTyped, UserMaps
  <2>4. HistoryTyped' /\ LocalsTyped' /\ Leaves(p) /\ pc'[p] = l /\ seen'[p] = u
    <3>1. stale' \in [Runs -> SUBSET Lists] /\ \A q \in Runs \ {p} : stale'[q] = stale[q]
      BY <1>1, <2>1 DEF Fresh, Typed, HistoryTyped
    <3>2. seen' \in [Runs -> UserStates \cup Comments \cup {None}] /\ pc' \in [Runs -> Labels]
          /\ pc'[p] = l /\ seen'[p] = u /\ \A q \in Runs \ {p} : seen'[q] = seen[q] /\ pc'[q] = pc[q]
      BY <1>1, <2>1, <2>2, <2>3 DEF Goto, Typed, LocalsTyped, Labels
    <3>3. HistoryTyped'
      BY <1>1, <3>1 DEF Typed, HistoryTyped
    <3>4. LocalsTyped'
      BY <1>1, <2>1, <3>2 DEF Typed, LocalsTyped, Quiet
    <3> QED
      BY <1>1, <2>1, <3>1, <3>2, <3>3, <3>4 DEF Leaves, SameRun, SamePast, Quiet
  <2>5. warned[p] = {} /\ warned'[p] = {}
    BY <1>1, <2>1 DEF RunInv, Control
  <2>6. /\ Control(p)' /\ Met(p)' /\ Wrote(p)' /\ Says(p)' /\ (Writing(p)' <=> l = "write") /\ ownUser(p)' = ownUser(p)
        /\ cmd[p].kind = "user" /\ cmd[p].who = ownUser(p) => cmd[p].groups = {}
    BY <1>1, <2>1, <2>4, <2>5, GoesOn DEF Labels, Quiet
  <2>7. SeenTyped(p)' /\ Held(p)' /\ OwnKept(p)'
    BY <1>1, <2>1, <2>3, <2>4, <2>6 DEF SeenTyped, Held, OwnKept
  <2>8. Warned(p)'
    BY <1>1, <2>1, <2>2, <2>4, <2>5, <2>6 DEF Warned
  <2>9. EnableSeen(p)'
    BY <1>1, <2>1, <2>3, <2>4 DEF EnableSeen, Enabled, Quiet, pve
  <2>10. KeyKept(p)
    BY <1>1, <2>1 DEF KeyKept, HoldsKey
  <2>11. RunInv(p)'
    BY <2>6, <2>7, <2>8, <2>9 DEF RunInv
  <2> QED
    BY <1>1, <2>4, <2>10, <2>11, QuietStep DEF Quiet
<1> QED
  BY <1>3, <1>4

LEMMA ReadGroupKeeps == ASSUME AccessInv, NEW p \in Runs, ReadGroup(p) PROVE AccessInv'
<1>1. /\ pc[p] = "read" /\ cmd[p].kind = "group" /\ Typed /\ RunInv(p)
      /\ Quiet /\ UNCHANGED <<met, wrote, gave, lasting>>
  BY InvParts DEF ReadGroup, Is, history
<1>2. PICK g \in ListGroups(p) :
        IF GroupSatisfied(cmd[p], g) THEN Ends(p, "unchanged")
        ELSE /\ seen' = [seen EXCEPT ![p] = g]
             /\ Goto(p, "write")
             /\ UNCHANGED <<target, cmd, listed, known, at, warned, shown, result, stale>>
  BY DEF ReadGroup
<1>3. CASE GroupSatisfied(cmd[p], g)
  <2>1. met[p]
    BY <1>1, <1>3, SatisfiedGoal DEF RunInv, Met
  <2> QED
    BY <1>1, <1>2, <1>3, <2>1, EndsKeeps DEF Verdicts
<1>4. CASE ~GroupSatisfied(cmd[p], g)
  <2>1. /\ seen' = [seen EXCEPT ![p] = g] /\ Goto(p, "write")
        /\ UNCHANGED <<target, cmd, listed, known, at, warned, shown, result, stale>>
    BY <1>2, <1>4
  <2>3. g \in Comments \cup {None}
    <3>1. cmd[p].who \in Groups
      BY <1>1, GroupCommand DEF Typed, LocalsTyped
    <3> QED
      BY <1>1, <3>1 DEF ListGroups, Typed, PveTyped, GroupMaps
  <2>4. HistoryTyped' /\ LocalsTyped' /\ Leaves(p) /\ pc'[p] = "write" /\ seen'[p] = g
    <3>2. seen' \in [Runs -> UserStates \cup Comments \cup {None}] /\ pc' \in [Runs -> Labels]
          /\ pc'[p] = "write" /\ seen'[p] = g /\ \A q \in Runs \ {p} : seen'[q] = seen[q] /\ pc'[q] = pc[q]
      BY <1>1, <2>1, <2>3 DEF Goto, Typed, LocalsTyped, Labels
    <3>3. HistoryTyped'
      BY <1>1, <2>1 DEF Typed, HistoryTyped
    <3>4. LocalsTyped'
      BY <1>1, <2>1, <3>2 DEF Typed, LocalsTyped, Quiet
    <3> QED
      BY <1>1, <2>1, <3>2, <3>3, <3>4 DEF Leaves, SameRun, SamePast, Quiet
  <2>6. Control(p)' /\ Met(p)' /\ Wrote(p)' /\ Says(p)'
    BY <1>1, <2>1, <2>4, GoesOn DEF Labels, Quiet
  <2>7. SeenTyped(p)' /\ Held(p)' /\ OwnKept(p)' /\ Warned(p)' /\ EnableSeen(p)'
    BY <1>1, <2>1, <2>3, <2>4 DEF SeenTyped, Held, OwnKept, Warned, EnableSeen
  <2>10. KeyKept(p)
    BY <1>1, <2>1 DEF KeyKept, HoldsKey
  <2>11. RunInv(p)'
    BY <2>6, <2>7 DEF RunInv
  <2> QED
    BY <1>1, <2>4, <2>10, <2>11, QuietStep DEF Quiet
<1> QED
  BY <1>3, <1>4

LEMMA JoinRolesKeeps == ASSUME AccessInv, NEW p \in Runs, JoinReadsRoles(p) PROVE AccessInv'
<1>1. /\ pc[p] = "joinroles" /\ cmd[p].kind = "user" /\ Typed /\ RunInv(p)
      /\ Quiet /\ UNCHANGED <<met, wrote, gave, lasting>>
  BY InvParts DEF JoinReadsRoles, history, RunInv, Control
<1>2. CASE Ends(p, "refused")
  BY <1>1, <1>2, EndsKeeps DEF Verdicts
<1>3. CASE /\ known' = [known EXCEPT ![p] = role]
           /\ Fresh(p, {"role"})
           /\ Goto(p, "joinacls")
           /\ UNCHANGED <<target, cmd, seen, listed, at, warned, shown, result>>
  <2>1. stale' \in [Runs -> SUBSET Lists] /\ (\A q \in Runs \ {p} : stale'[q] = stale[q])
        /\ stale'[p] = stale[p] \ {"role"}
    BY <1>1, <1>3 DEF Fresh, Typed, HistoryTyped
  <2>2. known' \in [Runs -> RoleMaps] /\ pc' \in [Runs -> Labels]
        /\ pc'[p] = "joinacls" /\ known'[p] = role /\ \A q \in Runs \ {p} : known'[q] = known[q] /\ pc'[q] = pc[q]
    BY <1>1, <1>3 DEF Goto, Typed, LocalsTyped, PveTyped, Labels
  <2>3. HistoryTyped'
    BY <1>1, <2>1 DEF Typed, HistoryTyped
  <2>4. LocalsTyped'
    BY <1>1, <1>3, <2>2 DEF Typed, LocalsTyped, Quiet
  <2>5. Leaves(p)
    BY <1>1, <1>3, <2>1, <2>2 DEF Leaves, SameRun, SamePast, Quiet
  <2>6. warned[p] = {} /\ warned'[p] = {}
    BY <1>1, <1>3 DEF RunInv, Control
  <2>7. /\ Control(p)' /\ Met(p)' /\ Wrote(p)' /\ Says(p)' /\ ~Writing(p)' /\ ownUser(p)' = ownUser(p)
        /\ cmd[p].kind = "user" /\ cmd[p].who = ownUser(p) => cmd[p].groups = {}
    BY <1>1, <1>3, <2>2, <2>6, GoesOn DEF Labels, Quiet
  <2>8. SeenTyped(p)' /\ Held(p)' /\ OwnKept(p)'
    BY <1>1, <1>3, <2>2, <2>7 DEF RunInv, SeenTyped, Held, OwnKept
  <2>9. Warned(p)'
    BY <1>1, <1>3, <2>2, <2>7 DEF Warned, Quiet, pve
  <2>10. EnableSeen(p)'
    BY <1>1, <1>3, <2>1, <2>2 DEF RunInv, EnableSeen, Quiet, pve
  <2>11. KeyKept(p)
    BY <1>1, <1>3 DEF KeyKept, HoldsKey
  <2>12. RunInv(p)'
    BY <2>7, <2>8, <2>9, <2>10 DEF RunInv
  <2> QED
    BY <1>1, <2>3, <2>4, <2>5, <2>11, <2>12, QuietStep DEF Quiet
<1> QED
  BY <1>2, <1>3 DEF JoinReadsRoles, allRolePrivs

LEMMA CheckJoinKeeps == ASSUME AccessInv, NEW p \in Runs, CheckGroupJoin(p) PROVE AccessInv'
<1> DEFINE held == {e \in acl : e.who \in missingGroups(cmd[p], seen[p])}
           esc == {e \in held : Escalates(e, known[p])}
<1>1. /\ pc[p] = "joinacls" /\ cmd[p].kind = "user" /\ Typed /\ RunInv(p)
      /\ Quiet /\ UNCHANGED <<met, wrote, gave, lasting>>
  BY InvParts DEF CheckGroupJoin, history, RunInv, Control
<1>2. CASE Ends(p, "refused") \/ Ends(p, "failed")
  BY <1>1, <1>2, EndsKeeps DEF Verdicts
<1>3. CASE /\ ~(esc # {} /\ ~cmd[p].allow)
           /\ warned' = [warned EXCEPT ![p] = esc]
           /\ known' = [known EXCEPT ![p] = NoRoles]
           /\ Fresh(p, {"acl"})
           /\ Goto(p, "write")
           /\ UNCHANGED <<target, cmd, seen, listed, at, shown, result>>
  <2>1. stale' \in [Runs -> SUBSET Lists] /\ (\A q \in Runs \ {p} : stale'[q] = stale[q])
        /\ stale'[p] = stale[p] \ {"acl"}
    BY <1>1, <1>3 DEF Fresh, Typed, HistoryTyped
  <2>2. esc \in SUBSET Entries /\ NoRoles \in RoleMaps
    BY <1>1 DEF Typed, PveTyped, NoRoles, RoleMaps
  <2>3. /\ esc = {} \/ cmd[p].allow
        /\ \A e \in acl : e.who \in missingGroups(cmd[p], seen[p]) /\ Escalates(e, known[p])
                            => e \in esc
    BY <1>3
  <2> HIDE DEF esc
  <2>4. known' \in [Runs -> RoleMaps] /\ warned' \in [Runs -> SUBSET Entries] /\ pc' \in [Runs -> Labels]
        /\ pc'[p] = "write" /\ warned'[p] = esc
        /\ \A q \in Runs \ {p} : known'[q] = known[q] /\ pc'[q] = pc[q] /\ warned'[q] = warned[q]
    BY <1>1, <1>3, <2>2 DEF Goto, Typed, LocalsTyped, Labels
  <2>5. HistoryTyped'
    BY <1>1, <2>1 DEF Typed, HistoryTyped
  <2>6. LocalsTyped'
    BY <1>1, <1>3, <2>4 DEF Typed, LocalsTyped, Quiet
  <2>7. Leaves(p)
    BY <1>1, <1>3, <2>1, <2>4 DEF Leaves, SameRun, SamePast, Quiet
  <2>8. /\ Control(p)' /\ Met(p)' /\ Wrote(p)' /\ Says(p)' /\ ownUser(p)' = ownUser(p)
        /\ cmd[p].kind = "user" /\ cmd[p].who = ownUser(p) => cmd[p].groups = {}
    BY <1>1, <1>3, <2>4, GoesOn DEF Labels, Quiet
  <2>9. SeenTyped(p)' /\ Held(p)' /\ OwnKept(p)'
    BY <1>1, <1>3, <2>4, <2>8 DEF RunInv, SeenTyped, Held, OwnKept
  <2>10. Warned(p)'
    <3>1. "role" \in stale'[p] \/ known[p] = role
      BY <1>1, <2>1 DEF RunInv, Warned
    <3>2. {"role", "acl"} \cap stale'[p] # {} \/
          \A e \in acl : e.who \in missingGroups(cmd[p], seen[p]) /\ Escalates(e, role) => e \in esc
      BY <2>3, <3>1
    <3> QED
      BY <1>1, <1>3, <2>3, <2>4, <3>2 DEF Warned, Quiet, pve
  <2>11. EnableSeen(p)'
    BY <1>1, <1>3, <2>1, <2>4 DEF RunInv, EnableSeen, Quiet, pve
  <2>12. KeyKept(p)
    BY <1>1, <1>3 DEF KeyKept, HoldsKey
  <2>13. RunInv(p)'
    BY <2>8, <2>9, <2>10, <2>11 DEF RunInv
  <2> QED
    BY <1>1, <2>5, <2>6, <2>7, <2>12, <2>13, QuietStep DEF Quiet
<1> QED
  BY <1>2, <1>3 DEF CheckGroupJoin, rootACLs

LEMMA RereadKeeps == ASSUME AccessInv, NEW p \in Runs, Reread(p) PROVE AccessInv'
<1>1. /\ pc[p] = "reread" /\ Typed /\ RunInv(p) /\ Quiet /\ UNCHANGED <<met, wrote, gave, lasting>>
  BY InvParts DEF Reread, history
<1>2. CASE Ends(p, "unconfirmed")
  BY <1>1, <1>2, EndsKeeps DEF Verdicts
<1>3. ASSUME Ends(p, ensureVerb(p)),
             \/ cmd[p].kind = "user" /\ \E u \in ListUsers(p) : UserSatisfied(cmd[p], u)
             \/ cmd[p].kind = "group" /\ \E g \in ListGroups(p) : GroupSatisfied(cmd[p], g)
      PROVE  AccessInv'
  <2>1. met[p]
    BY <1>1, <1>3, SatisfiedGoal DEF RunInv, Met
  <2>2. ensureVerb(p) \in Verdicts /\ ensureVerb(p) # "shown"
    BY DEF ensureVerb, Verdicts
  <2> QED
    BY <1>1, <1>3, <2>1, <2>2, EndsKeeps
<1> QED
  BY <1>2, <1>3 DEF Reread

LEMMA GrantRolesKeeps == ASSUME AccessInv, NEW p \in Runs, GrantReadsRoles(p) PROVE AccessInv'
<1>1. /\ pc[p] = "roles" /\ cmd[p].kind = "grant" /\ Typed /\ RunInv(p)
      /\ Quiet /\ UNCHANGED <<met, wrote, gave, lasting>>
  BY InvParts DEF GrantReadsRoles, Is, history
<1>2. CASE Ends(p, "refused")
  BY <1>1, <1>2, EndsKeeps DEF Verdicts
<1>3. CASE /\ checkNotSelf(p, cmd[p])
           /\ Fresh(p, {"role"})
           /\ warned' = [warned EXCEPT ![p] = EscalatingGrants(cmd[p])]
           /\ Goto(p, IF cmd[p].who \in Groups THEN "members" ELSE "decide")
           /\ UNCHANGED <<target, cmd, seen, listed, known, at, shown, result>>
  <2>1. stale' \in [Runs -> SUBSET Lists] /\ (\A q \in Runs \ {p} : stale'[q] = stale[q])
    BY <1>1, <1>3 DEF Fresh, Typed, HistoryTyped
  <2> DEFINE esc == EscalatingGrants(cmd[p])
  <2>2. esc \in SUBSET Entries
    BY <1>1, WantedType DEF EscalatingGrants, Typed, LocalsTyped
  <2>3. esc = {e \in Wanted(cmd[p]) : Escalates(e, role)}
    BY DEF EscalatingGrants, allRolePrivs
  <2> HIDE DEF esc
  <2>4. PICK l \in {"members", "decide"} : Goto(p, l) /\ (l = "decide" => cmd[p].who \notin Groups)
    BY <1>3
  <2>5. warned' \in [Runs -> SUBSET Entries] /\ pc' \in [Runs -> Labels]
        /\ pc'[p] = l /\ warned'[p] = esc
        /\ \A q \in Runs \ {p} : pc'[q] = pc[q] /\ warned'[q] = warned[q]
    BY <1>1, <1>3, <2>2, <2>4 DEF Goto, Typed, LocalsTyped, Labels, esc
  <2>6. HistoryTyped'
    BY <1>1, <2>1 DEF Typed, HistoryTyped
  <2>7. LocalsTyped'
    BY <1>1, <1>3, <2>5 DEF Typed, LocalsTyped, Quiet
  <2>8. Leaves(p)
    BY <1>1, <1>3, <2>1, <2>5 DEF Leaves, SameRun, SamePast, Quiet
  <2>9. /\ Control(p)' /\ Met(p)' /\ Wrote(p)' /\ Says(p)' /\ ~Writing(p)' /\ ownUser(p)' = ownUser(p)
        /\ (checkNotSelf(p, cmd[p])' <=> checkNotSelf(p, cmd[p]))
    BY <1>1, <1>3, <2>5, GoesOn DEF Labels, Quiet
  <2>10. SeenTyped(p)' /\ Held(p)' /\ EnableSeen(p)'
    BY <1>1, <1>3, <2>5 DEF RunInv, SeenTyped, Held, EnableSeen
  <2>11. OwnKept(p)'
    BY <1>1, <1>3, <2>4, <2>5, <2>9 DEF OwnKept
  <2>12. Warned(p)'
    BY <1>1, <1>3, <2>3, <2>5, <2>9 DEF Warned, Quiet, pve
  <2>13. KeyKept(p)
    BY <1>1, <1>3 DEF KeyKept, HoldsKey
  <2>14. RunInv(p)'
    BY <2>9, <2>10, <2>11, <2>12 DEF RunInv
  <2> QED
    BY <1>1, <2>6, <2>7, <2>8, <2>13, <2>14, QuietStep DEF Quiet
<1> QED
  BY <1>2, <1>3 DEF GrantReadsRoles

\* Between its checks a grant moves on with what it has read.
LEMMA GrantMoves ==
  ASSUME AccessInv, NEW p \in Runs, pc[p] \in {"members", "owner", "decide"},
         NEW l \in {"owner", "decide", "write"}, Goto(p, l), Quiet, UNCHANGED locals,
         UNCHANGED <<met, wrote, gave, lasting>>,
         UNCHANGED stale \/ Fresh(p, {"members"}),
         l \in {"decide", "write"} /\ ownUser(p) # None /\ cmd[p].who \in Groups
            => "members" \in stale'[p] \/ cmd[p].who \notin GroupsOf(ownUser(p), user),
         l = "write" => warned[p] = {} \/ cmd[p].allow
  PROVE  AccessInv'
<1>1. Typed /\ RunInv(p) /\ cmd[p].kind = "grant"
  BY InvParts DEF RunInv, Control
<1>2. HistoryTyped' /\ LocalsTyped' /\ Leaves(p) /\ pc'[p] = l
  <2>1. UNCHANGED stale \/ \E reads \in SUBSET Lists : Fresh(p, reads)
    BY DEF Lists
  <2>2. lasting' \in [Runs -> SUBSET (Principals \X Entries)]
    BY <1>1 DEF Typed, HistoryTyped
  <2> QED
    BY <1>1, <2>1, <2>2, MovesFacts DEF Labels, Quiet
<1>3. "role" \in stale[p] => "role" \in stale'[p]
  BY <1>1 DEF Fresh, Typed, HistoryTyped
<1>4. /\ Control(p)' /\ Met(p)' /\ Wrote(p)' /\ Says(p)' /\ (Writing(p)' <=> l = "write") /\ ownUser(p)' = ownUser(p)
      /\ (checkNotSelf(p, cmd[p])' <=> checkNotSelf(p, cmd[p]))
  BY <1>1, <1>2, GoesOn DEF Labels, Quiet, locals
<1>5. SeenTyped(p)' /\ Held(p)' /\ EnableSeen(p)'
  BY <1>1, <1>2 DEF RunInv, SeenTyped, Held, EnableSeen, locals
<1>6. OwnKept(p)'
  BY <1>1, <1>2, <1>4 DEF RunInv, OwnKept, locals, Quiet, pve
<1>7. Warned(p)'
  BY <1>1, <1>2, <1>3, <1>4 DEF RunInv, Warned, locals, Quiet, pve
<1>8. KeyKept(p)
  BY <1>1 DEF KeyKept, HoldsKey, locals
<1>9. RunInv(p)'
  BY <1>4, <1>5, <1>6, <1>7 DEF RunInv
<1> QED
  BY <1>2, <1>8, <1>9, QuietStep DEF Quiet

LEMMA GroupHoldsKeeps == ASSUME AccessInv, NEW p \in Runs, GroupHolds(p) PROVE AccessInv'
<1>1. pc[p] = "members" /\ Quiet /\ UNCHANGED <<met, wrote, gave, lasting>>
  BY DEF GroupHolds, Is, history
<1>2. CASE Ends(p, "refused")
  BY <1>1, <1>2, EndsKeeps DEF Verdicts
<1>3. CASE Goto(p, IF ownUser(p) = None THEN "decide" ELSE "owner") /\ Stays
  BY <1>1, <1>3, GrantMoves DEF Stays
<1> QED
  BY <1>2, <1>3 DEF GroupHolds

LEMMA OwnerKeeps == ASSUME AccessInv, NEW p \in Runs, OwnerInGroup(p) PROVE AccessInv'
<1>1. pc[p] = "owner" /\ Quiet /\ UNCHANGED <<met, wrote, gave, lasting>>
  BY DEF OwnerInGroup, history
<1>2. CASE Ends(p, "refused")
  BY <1>1, <1>2, EndsKeeps DEF Verdicts
<1>3. CASE cmd[p].who \notin GroupsOf(ownUser(p), user) /\ Goto(p, "decide") /\ Fresh(p, {"members"}) /\ UNCHANGED locals
  BY <1>1, <1>3, GrantMoves
<1> QED
  BY <1>2, <1>3 DEF OwnerInGroup

LEMMA DecideKeeps == ASSUME AccessInv, NEW p \in Runs, Decide(p) PROVE AccessInv'
<1>1. pc[p] = "decide" /\ Quiet /\ UNCHANGED <<met, wrote, gave, lasting>> /\ RunInv(p)
  BY InvParts DEF Decide, history
<1>2. CASE Ends(p, "refused")
  BY <1>1, <1>2, EndsKeeps DEF Verdicts
<1>3. CASE ~(warned[p] # {} /\ ~cmd[p].allow) /\ Goto(p, "write") /\ Stays
  <2>1. cmd[p].kind = "grant"
    BY <1>1 DEF RunInv, Control
  <2>2. ownUser(p) # None /\ cmd[p].who \in Groups
            => "members" \in stale[p] \/ cmd[p].who \notin GroupsOf(ownUser(p), user)
    BY <1>1, <2>1 DEF RunInv, OwnKept
  <2> QED
    BY <1>1, <1>3, <2>2, GrantMoves DEF Stays
<1> QED
  BY <1>2, <1>3 DEF Decide

LEMMA ReadBackKeeps == ASSUME AccessInv, NEW p \in Runs, ReadBack(p) PROVE AccessInv'
<1>1. pc[p] = "readback" /\ Quiet /\ UNCHANGED <<met, wrote, gave, lasting>> /\ RunInv(p)
  BY InvParts DEF ReadBack, history
<1>2. CASE Wanted(cmd[p]) \subseteq acl
  <2>1. cmd[p].kind = "grant"
    BY <1>1 DEF RunInv, Control
  <2>2. met[p]
    BY <1>1, <1>2, <2>1 DEF RunInv, Met, Goal
  <2> QED
    BY <1>1, <1>2, <2>2, EndsKeeps DEF ReadBack, rootACLs, Verdicts
<1>3. CASE ~(Wanted(cmd[p]) \subseteq acl)
  BY <1>1, <1>3, EndsKeeps DEF ReadBack, rootACLs, Verdicts
<1> QED
  BY <1>2, <1>3

-----------------------------------------------------------------------------
(* access inventory                                                        *)

\* An inventory goes on with its lists.
LEMMA ListsOn ==
  ASSUME AccessInv, NEW p \in Runs, pc[p] \in {"users", "groups", "acls", "rolelist"},
         NEW l \in {"groups", "acls", "rolelist", "accounts"}, pc'[p] = l, Quiet,
         UNCHANGED <<target, cmd, seen, known, at, warned, result, stale, met, wrote, gave>>,
         HistoryTyped', LocalsTyped', Leaves(p), Held(p)'
  PROVE  AccessInv'
<1>1. RunInv(p)
  BY InvParts
<1>2. /\ Control(p)' /\ Met(p)' /\ Wrote(p)' /\ Says(p)' /\ ~Writing(p)' /\ ownUser(p)' = ownUser(p)
      /\ cmd[p].kind = "user" /\ cmd[p].who = ownUser(p) => cmd[p].groups = {}
  BY GoesOn DEF Labels, Quiet
<1>3. SeenTyped(p)'
  BY <1>1 DEF RunInv, SeenTyped
<1>4. OwnKept(p)' /\ Warned(p)' /\ EnableSeen(p)'
  BY <1>2 DEF OwnKept, Warned, EnableSeen
<1>5. KeyKept(p)
  BY DEF KeyKept, HoldsKey
<1>6. RunInv(p)'
  BY <1>2, <1>3, <1>4 DEF RunInv
<1> QED
  BY <1>5, <1>6, QuietStep DEF Quiet

LEMMA InventoryUsersKeeps == ASSUME AccessInv, NEW p \in Runs, InventoryUsers(p) PROVE AccessInv'
<1>1. /\ Typed /\ Quiet /\ pc[p] = "users"
      /\ UNCHANGED <<target, cmd, seen, known, at, warned, shown, result, stale, met, wrote, gave>>
  BY InvParts DEF InventoryUsers
<1>2. Holdings(user, acl) \in SUBSET (Principals \X Entries)
  BY <1>1, HoldingsType DEF Typed, PveTyped
<1>3. HistoryTyped' /\ lasting'[p] = Holdings(user, acl) /\ \A q \in Runs \ {p} : lasting'[q] = lasting[q]
  BY <1>1, <1>2 DEF InventoryUsers, Typed, HistoryTyped
<1>4. /\ listed' \in [Runs -> UserMaps] /\ pc' \in [Runs -> Labels] /\ listed'[p] = user /\ pc'[p] = "groups"
      /\ \A q \in Runs \ {p} : listed'[q] = listed[q] /\ pc'[q] = pc[q]
  BY <1>1 DEF InventoryUsers, Goto, Typed, PveTyped, LocalsTyped, Labels
<1>5. LocalsTyped'
  BY <1>1, <1>4 DEF Typed, LocalsTyped, Quiet
<1>6. Leaves(p)
  BY <1>1, <1>3, <1>4 DEF Leaves, SameRun, SamePast, Quiet
<1>7. Held(p)'
  BY <1>1, <1>3, <1>4 DEF Held, Quiet, pve
<1> QED
  BY <1>1, <1>3, <1>4, <1>5, <1>6, <1>7, ListsOn

LEMMA InventoryGroupsKeeps == ASSUME AccessInv, NEW p \in Runs, InventoryGroups(p) PROVE AccessInv'
<1>1. Typed /\ RunInv(p) /\ Quiet /\ pc[p] = "groups" /\ UNCHANGED <<met, wrote, gave>>
  BY InvParts DEF InventoryGroups
<1>2. CASE Ends(p, "failed") /\ UNCHANGED lasting
  BY <1>1, <1>2, EndsKeeps DEF Verdicts
<1>3. CASE /\ checkMembership(listed[p]) /\ Goto(p, "acls") /\ Stays
           /\ lasting' = [lasting EXCEPT ![p] = IF lists THEN Holdings(user, acl) ELSE @]
  <2>1. Holdings(user, acl) \in SUBSET (Principals \X Entries)
    BY <1>1, HoldingsType DEF Typed, PveTyped
  <2>2. /\ lasting' \in [Runs -> SUBSET (Principals \X Entries)] /\ \A q \in Runs \ {p} : lasting'[q] = lasting[q]
    BY <1>1, <1>3, <2>1 DEF Typed, HistoryTyped
  <2>3. HistoryTyped' /\ LocalsTyped' /\ Leaves(p) /\ pc'[p] = "acls"
    BY <1>1, <1>3, <2>2, MovesFacts DEF Labels, Quiet, Stays
  <2>4. lasting'[p] \subseteq Holdings(listed[p], acl)
    <3>1. CASE ~lists
      BY <1>1, <1>3, <3>1 DEF RunInv, Held, Typed, HistoryTyped
    <3>2. CASE lists
      <4>1. lasting'[p] = Holdings(user, acl)
        BY <1>1, <1>3, <3>2 DEF Typed, HistoryTyped
      <4>2. ASSUME NEW h \in Holdings(user, acl) PROVE h \in Holdings(listed[p], acl)
        <5>1. h \in Principals \X acl
          BY <4>2 DEF Holdings
        <5>2. CASE h[2].who = h[1]
          BY <5>1, <5>2 DEF Holdings
        <5>3. CASE h[1] \in Users /\ h[2].who \in GroupsOf(h[1], user)
          <6>1. h[2].who \in Groups
            BY <1>1, <5>3, GroupsOfType DEF Typed, PveTyped
          <6>2. h[1] \in Members(h[2].who)
            BY <5>3 DEF Members
          <6>3. h[2].who \in GroupsOf(h[1], listed[p])
            BY <1>3, <3>2, <6>1, <6>2 DEF checkMembership
          <6> QED
            BY <5>1, <5>3, <6>3 DEF Holdings
        <5> QED
          BY <4>2, <5>2, <5>3 DEF Holdings
      <4> QED
        BY <4>1, <4>2
    <3> QED
      BY <3>1, <3>2
  <2>5. Held(p)'
    BY <1>1, <1>3, <2>3, <2>4 DEF Held, Stays, locals, Quiet, pve
  <2> QED
    BY <1>1, <1>3, <2>3, <2>5, ListsOn DEF Stays, locals
<1> QED
  BY <1>2, <1>3 DEF InventoryGroups

LEMMA InventoryACLsKeeps == ASSUME AccessInv, NEW p \in Runs, InventoryACLs(p) PROVE AccessInv'
<1>1. /\ Typed /\ RunInv(p) /\ Quiet /\ pc[p] = "acls"
      /\ UNCHANGED <<target, cmd, seen, listed, known, at, warned, result, stale, met, wrote, gave, lasting>>
  BY InvParts DEF InventoryACLs, history
<1>2. Holdings(listed[p], acl) \in SUBSET (Principals \X Entries)
  BY <1>1, HoldingsType DEF Typed, PveTyped
<1>3. HistoryTyped'
  BY <1>1 DEF Typed, HistoryTyped
<1>4. /\ shown' \in [Runs -> SUBSET (Principals \X Entries)] /\ pc' \in [Runs -> Labels]
      /\ shown'[p] = Holdings(listed[p], acl) /\ pc'[p] = "rolelist"
      /\ \A q \in Runs \ {p} : shown'[q] = shown[q] /\ pc'[q] = pc[q]
  BY <1>1, <1>2 DEF InventoryACLs, rootACLs, Goto, Typed, LocalsTyped, Labels
<1>5. LocalsTyped'
  BY <1>1, <1>4 DEF Typed, LocalsTyped, Quiet
<1>6. Leaves(p)
  BY <1>1, <1>4 DEF Leaves, SameRun, SamePast, Quiet
<1>7. Held(p)'
  BY <1>1, <1>4 DEF RunInv, Held
<1> QED
  BY <1>1, <1>3, <1>4, <1>5, <1>6, <1>7, ListsOn

LEMMA InventoryKeeps == ASSUME AccessInv, NEW p \in Runs, Inventory(p) \/ rootOSAccounts(p) PROVE AccessInv'
<1>1. /\ Typed /\ RunInv(p) /\ Quiet /\ pc[p] \in {"rolelist", "accounts"} /\ UNCHANGED <<met, wrote, gave, lasting>>
  BY InvParts DEF Inventory, rootOSAccounts, history
<1>2. lasting[p] \subseteq shown[p]
  BY <1>1 DEF RunInv, Held
<1>3. CASE Ends(p, "shown") \/ Ends(p, "failed")
  BY <1>1, <1>2, <1>3, EndsKeeps DEF Verdicts
<1>4. CASE pc[p] = "rolelist" /\ Goto(p, "accounts") /\ Stays
  <2>1. HistoryTyped' /\ LocalsTyped' /\ Leaves(p) /\ pc'[p] = "accounts"
    BY <1>1, <1>4, MovesFacts DEF Labels, Quiet, Stays, Typed, HistoryTyped
  <2>2. Held(p)'
    BY <1>1, <1>2, <1>4, <2>1 DEF Held, Stays, locals
  <2> QED
    BY <1>1, <1>4, <2>1, <2>2, ListsOn DEF Stays, locals
<1> QED
  BY <1>3, <1>4 DEF Inventory, rootOSAccounts

-----------------------------------------------------------------------------
(* What changes PVE                                                        *)

\* A change of the cluster keeps the types.
LEMMA BecomeTypes ==
  ASSUME Typed, NEW U \in UserMaps, NEW G \in GroupMaps, NEW A \in SUBSET Entries, NEW R \in RoleMaps, NEW by,
         Become(U, G, A, R, by)
  PROVE  /\ user' \in UserMaps /\ group' \in GroupMaps /\ acl' \in SUBSET Entries /\ role' \in RoleMaps
         /\ stale' \in [Runs -> SUBSET Lists] /\ met' \in [Runs -> BOOLEAN]
         /\ lasting' \in [Runs -> SUBSET (Principals \X Entries)]
<1>1. stale' \in [Runs -> SUBSET Lists]
  BY DEF Become, Typed, HistoryTyped
<1>2. met' \in [Runs -> BOOLEAN]
  BY DEF Become, Typed, HistoryTyped
<1>3. lasting' \in [Runs -> SUBSET (Principals \X Entries)]
  BY DEF Become, Typed, HistoryTyped
<1> QED
  BY <1>1, <1>2, <1>3 DEF Become

\* What was so, and what lasts, is noted for the one that acts too.
LEMMA BecomePast ==
  ASSUME Typed, NEW p \in Runs, NEW U, NEW G, NEW A, NEW R, NEW by, Become(U, G, A, R, by)
  PROVE  /\ met[p] => met'[p]
         /\ Busy(p) /\ Goal(cmd[p], U, G, A) => met'[p]
         /\ lasting'[p] \subseteq lasting[p]
         /\ p = by => stale'[p] = stale[p]
  BY DEF Become, Typed, HistoryTyped

\* A change by somebody beyond the runs.
LEMMA OutsideKeeps ==
  ASSUME AccessInv, NEW U \in UserMaps, NEW G \in GroupMaps, NEW A \in SUBSET Entries, NEW R \in RoleMaps,
         Outside(U, G, A, R)
  PROVE  AccessInv'
<1>1. Typed /\ Become(U, G, A, R, None) /\ UNCHANGED <<wrote, gave, lists, locals, late, pc>>
  BY InvParts DEF Outside
<1>2. Typed'
  <2>1. outside' \in 0 .. MaxOutside
    BY <1>1, AccessAssumption DEF Outside, Typed, PveTyped
  <2>2. PveTyped'
    BY <1>1, <2>1, BecomeTypes DEF Typed, PveTyped
  <2>3. HistoryTyped'
    BY <1>1, BecomeTypes DEF Typed, HistoryTyped
  <2>4. LocalsTyped'
    BY <1>1 DEF Typed, LocalsTyped, locals
  <2> QED
    BY <2>2, <2>3, <2>4 DEF Typed
<1>3. \A q \in Runs : SameRun(q)
  BY <1>1 DEF SameRun, locals
<1>4. ASSUME NEW q \in Runs PROVE RunInv(q)'
  <2>1. q # None
    BY AccessAssumption
  <2>2. cmd[q].kind = "user" /\ ~Flips(q, U, None) => Enabled(cmd[q].who, U) = Enabled(cmd[q].who, user)
    BY DEF Flips
  <2> QED
    BY <1>1, <1>3, <2>1, <2>2, InvParts, SameBecome
<1>5. Keys'
  <2>1. \A q \in Runs : (HoldsKey(q)' <=> HoldsKey(q)) /\ target'[q] = target[q] /\ cmd'[q] = cmd[q]
    BY <1>3, SameDerived DEF SameRun
  <2> QED
    BY <2>1, InvParts DEF Keys
<1> QED
  BY <1>2, <1>4, <1>5, InvPartsNext

\* pveum acl modify makes an ACL of an ACL.
LEMMA AclModifyType ==
  ASSUME acl \in SUBSET Entries, NEW e \in Entries
  PROVE  aclModify(e) \in SUBSET Entries
  BY DEF aclModify

\* Whatever an administrator edits meanwhile.
LEMMA OthersKeep == ASSUME AccessInv, Others PROVE AccessInv'
<1>0. user \in UserMaps /\ group \in GroupMaps /\ acl \in SUBSET Entries /\ role \in RoleMaps
  BY InvParts DEF Typed, PveTyped
<1>1. ASSUME NEW u \in Users, NEW s \in UserEdits, EditUser(u, s) PROVE AccessInv'
  <2> DEFINE A == IF s = None THEN {e \in acl : e.who # u /\ ~(e.who \in Tokens /\ Owner(e.who) = u)} ELSE acl
  <2>1. [user EXCEPT ![u] = s] \in UserMaps
    BY <1>0, AccessAssumption DEF UserMaps
  <2>2. A \in SUBSET Entries
    BY <1>0
  <2>3. Outside([user EXCEPT ![u] = s], group, A, role)
    BY <1>1 DEF EditUser
  <2> HIDE DEF A
  <2> QED
    BY <1>0, <2>1, <2>2, <2>3, OutsideKeeps
<1>2. ASSUME NEW g \in Groups, EditGroup(g) PROVE AccessInv'
  <2>1. CASE group[g] = None
    <3>1. [group EXCEPT ![g] = NoComment] \in GroupMaps
      BY <1>0, AccessAssumption DEF GroupMaps
    <3> QED
      BY <1>0, <1>2, <2>1, <3>1, OutsideKeeps DEF EditGroup
  <2>2. CASE group[g] # None
    <3> DEFINE U == [u \in Users |-> IF user[u] = None THEN None ELSE [user[u] EXCEPT !.groups = @ \ {g}]]
               G == [group EXCEPT ![g] = None]
               A == {e \in acl : e.who # g}
    <3>1. U \in UserMaps
      <4>1. ASSUME NEW u \in Users, user[u] # None PROVE [user[u] EXCEPT !.groups = @ \ {g}] \in UserStates
        <5>1. user[u] \in UserStates
          BY <1>0, <4>1 DEF UserMaps
        <5> QED
          BY <5>1 DEF UserStates
      <4> QED
        BY <4>1 DEF UserMaps
    <3>2. G \in GroupMaps /\ A \in SUBSET Entries
      BY <1>0 DEF GroupMaps
    <3>3. Outside(U, G, A, role)
      BY <1>2, <2>2 DEF EditGroup
    <3> HIDE DEF U, G, A
    <3> QED
      BY <1>0, <3>1, <3>2, <3>3, OutsideKeeps
  <2> QED
    BY <2>1, <2>2
<1>3. ASSUME NEW r \in Roles, NEW privs \in RoleEdits, EditRole(r, privs) PROVE AccessInv'
  <2> DEFINE A == IF privs = None THEN {e \in acl : e.role # r} ELSE acl
  <2>1. [role EXCEPT ![r] = privs] \in RoleMaps
    BY <1>0, AccessAssumption DEF RoleMaps
  <2>2. A \in SUBSET Entries
    BY <1>0
  <2>3. Outside(user, group, A, [role EXCEPT ![r] = privs])
    BY <1>3 DEF EditRole
  <2> HIDE DEF A
  <2> QED
    BY <1>0, <2>1, <2>2, <2>3, OutsideKeeps
<1>4. ASSUME NEW c \in AllCommands, c.kind = "grant", EditACL(Entry(c, 1)) PROVE AccessInv'
  <2> DEFINE e == Entry(c, 1)
             A == IF e \in acl THEN acl \ {e} ELSE aclModify(e)
  <2>1. e \in Entries
    BY <1>4, EntryType, GrantCommand
  <2>2. A \in SUBSET Entries
    BY <1>0, <2>1, AclModifyType
  <2>3. Outside(user, group, A, role)
    BY <1>4 DEF EditACL
  <2> HIDE DEF A
  <2> QED
    BY <1>0, <2>2, <2>3, OutsideKeeps
<1> QED
  BY <1>1, <1>2, <1>3, <1>4 DEF Others

-----------------------------------------------------------------------------
(* The write                                                               *)

\* The cluster as p's write leaves it.
UserAfter(p) == IF cmd[p].kind = "user" THEN UserApply(p) ELSE user
GroupAfter(p) == IF cmd[p].kind = "group" THEN GroupApply(p) ELSE group
AclAfter(p) == IF cmd[p].kind = "grant" THEN aclModify(Entry(cmd[p], at[p])) ELSE acl

\* What a user ensure makes of its user, and that it is no other's.
LEMMA UserWrite ==
  ASSUME AccessInv, NEW p \in Runs, Accepts(p), cmd[p].kind = "user"
  PROVE  /\ cmd[p].who \in Users /\ UserAfter(p) \in UserMaps
         /\ \A u \in Users : u # cmd[p].who => UserAfter(p)[u] = user[u]
         /\ UserAfter(p)[cmd[p].who] \in UserStates
         /\ GroupsOf(cmd[p].who, UserAfter(p)) = GroupsOf(cmd[p].who, user) \cup missingGroups(cmd[p], seen[p])
         /\ user[cmd[p].who] # None =>
               /\ seen[p] # None
               /\ UserAfter(p)[cmd[p].who].enable = Or(cmd[p].enable, seen[p].enable)
<1> DEFINE c == cmd[p]
           w == cmd[p].who
           s == seen[p]
           now == user[w]
           new == IF s = None THEN AddUser(c) ELSE ModifyUser(c, s, now)
<1>1. /\ w \in Users /\ c.enable \in BOOLEAN \cup {None} /\ c.comment \in Comments \cup {None}
      /\ c.groups \in SUBSET Groups
  BY InvParts, UserCommand DEF Typed, LocalsTyped
<1>2. s \in UserStates \cup {None} /\ now \in UserStates \cup {None} /\ user \in UserMaps
  BY <1>1, InvParts DEF RunInv, SeenTyped, Typed, PveTyped, UserMaps
<1>3. (now = None) <=> (s = None)
  BY DEF Accepts
<1>4. NoComment \in Comments /\ None \notin UserStates
  BY AccessAssumption
<1>5. UserAfter(p) = [user EXCEPT ![w] = new]
  BY <1>1, <1>2 DEF UserAfter, UserApply, UserMaps
<1> HIDE DEF c, w, s, now
<1>6. /\ new \in UserStates
      /\ new.groups = GroupsOf(w, user) \cup missingGroups(c, s)
      /\ now # None => new.enable = Or(c.enable, s.enable)
  <2>1. CASE s = None
    <3>1. Or(c.enable, TRUE) \in BOOLEAN /\ Or(c.comment, NoComment) \in Comments
      BY <1>1, <1>4 DEF Or, c
    <3>2. AddUser(c) \in UserStates /\ AddUser(c).groups = c.groups
      BY <1>1, <3>1 DEF AddUser, UserStates, c
    <3> QED
      BY <1>3, <2>1, <3>2 DEF GroupsOf, missingGroups, now
  <2>2. CASE s # None
    <3>1. s \in UserStates /\ now \in UserStates /\ missingGroups(c, s) \in SUBSET Groups
      BY <1>1, <1>2, <1>3, <2>2 DEF missingGroups, c
    <3>2. /\ s.enable \in BOOLEAN /\ now.comment \in Comments /\ now.groups \in SUBSET Groups
      BY <3>1 DEF UserStates
    <3>3. Or(c.enable, s.enable) \in BOOLEAN /\ Or(c.comment, now.comment) \in Comments
      BY <1>1, <3>2 DEF Or, c
    <3>4. /\ ModifyUser(c, s, now) \in UserStates
          /\ ModifyUser(c, s, now).groups = now.groups \cup missingGroups(c, s)
          /\ ModifyUser(c, s, now).enable = Or(c.enable, s.enable)
      BY <3>1, <3>2, <3>3 DEF ModifyUser, UserStates
    <3>5. GroupsOf(w, user) = now.groups
      BY <1>3, <2>2 DEF GroupsOf, now
    <3> QED
      BY <2>2, <3>4, <3>5
  <2> QED
    BY <2>1, <2>2
<1> HIDE DEF new
<1>7. UserAfter(p) \in UserMaps /\ UserAfter(p)[w] = new /\ \A u \in Users : u # w => UserAfter(p)[u] = user[u]
  BY <1>1, <1>2, <1>5, <1>6 DEF UserMaps, w
<1>8. GroupsOf(w, UserAfter(p)) = new.groups
  BY <1>4, <1>6, <1>7 DEF GroupsOf
<1> QED
  BY <1>1, <1>3, <1>6, <1>7, <1>8 DEF c, w, s, now

\* A write touches only the users, the groups or the entries of its kind.
LEMMA LandsTypes ==
  ASSUME AccessInv, NEW p \in Runs, Accepts(p)
  PROVE  /\ cmd[p].kind \in {"user", "group", "grant"}
         /\ UserAfter(p) \in UserMaps /\ GroupAfter(p) \in GroupMaps /\ AclAfter(p) \in SUBSET Entries
         /\ \A u \in Users : cmd[p].kind # "user" \/ u # cmd[p].who => UserAfter(p)[u] = user[u]
         /\ cmd[p].kind = "grant" => Entry(cmd[p], at[p]) \in Entries
<1>0. Typed /\ RunInv(p)
  BY InvParts
<1>1. cmd[p].kind \in {"user", "group", "grant"}
  BY DEF Accepts
<1>2. UserAfter(p) \in UserMaps /\ \A u \in Users : cmd[p].kind # "user" \/ u # cmd[p].who => UserAfter(p)[u] = user[u]
  BY <1>0, UserWrite DEF UserAfter, Typed, PveTyped
<1>3. GroupAfter(p) \in GroupMaps
  <2>1. CASE cmd[p].kind = "group"
    <3>1. cmd[p].who \in Groups /\ cmd[p].comment \in Comments \cup {None}
      BY <1>0, <2>1, GroupCommand DEF Typed, LocalsTyped
    <3>2. AddGroup(cmd[p]) \in Comments \cup {None} /\ ModifyGroup(cmd[p]) \in Comments \cup {None}
      BY <3>1, AccessAssumption DEF AddGroup, ModifyGroup, Or
    <3> QED
      BY <1>0, <2>1, <3>1, <3>2 DEF GroupAfter, GroupApply, Typed, PveTyped, GroupMaps
  <2> QED
    BY <1>0, <2>1 DEF GroupAfter, Typed, PveTyped
<1>4. cmd[p].kind = "grant" => Entry(cmd[p], at[p]) \in Entries
  BY <1>0, EntryType DEF RunInv, SeenTyped, Typed, LocalsTyped
<1>5. AclAfter(p) \in SUBSET Entries
  BY <1>0, <1>4, AclModifyType DEF AclAfter, Typed, PveTyped
<1> QED
  BY <1>1, <1>2, <1>3, <1>4, <1>5

\* A write notes the entry it wrote and the escalating ones it gave.
LEMMA LandsFacts ==
  ASSUME AccessInv, NEW p \in Runs, NEW by, Lands(p, by), UNCHANGED <<lists, outside>>
  PROVE  /\ Accepts(p) /\ Become(UserAfter(p), GroupAfter(p), AclAfter(p), role, by)
         /\ PveTyped' /\ HistoryTyped'
         /\ wrote'[p] = IF cmd[p].kind = "grant" THEN wrote[p] \cup {Entry(cmd[p], at[p])} ELSE wrote[p]
         /\ \A q \in Runs \ {p} : wrote'[q] = wrote[q]
         /\ gave'[p] = gave[p] \cup {h[2] : h \in {x \in Holdings(UserAfter(p), AclAfter(p)) \ Holdings(user, acl) :
                                                  Escalates(x[2], role)}}
<1> DEFINE more == {h[2] : h \in {x \in Holdings(UserAfter(p), AclAfter(p)) \ Holdings(user, acl) : Escalates(x[2], role)}}
<1>1. Accepts(p) /\ Become(UserAfter(p), GroupAfter(p), AclAfter(p), role, by)
  BY DEF Lands, UserAfter, GroupAfter, AclAfter
<1>2. wrote' = [wrote EXCEPT ![p] = IF cmd[p].kind = "grant" THEN @ \cup {Entry(cmd[p], at[p])} ELSE @]
  BY DEF Lands
<1>3. gave' = [gave EXCEPT ![p] = @ \cup more]
  BY DEF Lands, UserAfter, AclAfter
<1>4. Typed
  BY InvParts
<1>5. more \in SUBSET Entries
  <2>1. Holdings(UserAfter(p), AclAfter(p)) \in SUBSET (Principals \X Entries)
    BY <1>1, LandsTypes, HoldingsType
  <2> QED
    BY <2>1
<1> HIDE DEF more
<1>6. gave' \in [Runs -> SUBSET Entries] /\ gave'[p] = gave[p] \cup more
  BY <1>3, <1>4, <1>5 DEF Typed, HistoryTyped
<1>7. /\ wrote' \in [Runs -> SUBSET Entries]
      /\ wrote'[p] = IF cmd[p].kind = "grant" THEN wrote[p] \cup {Entry(cmd[p], at[p])} ELSE wrote[p]
      /\ \A q \in Runs \ {p} : wrote'[q] = wrote[q]
  BY <1>1, <1>2, <1>4, LandsTypes DEF Typed, HistoryTyped
<1>8. PveTyped' /\ stale' \in [Runs -> SUBSET Lists] /\ met' \in [Runs -> BOOLEAN]
      /\ lasting' \in [Runs -> SUBSET (Principals \X Entries)]
  <2>1. UserAfter(p) \in UserMaps /\ GroupAfter(p) \in GroupMaps /\ AclAfter(p) \in SUBSET Entries /\ role \in RoleMaps
    BY <1>1, <1>4, LandsTypes DEF Typed, PveTyped
  <2> QED
    BY <1>1, <1>4, <2>1, BecomeTypes DEF Typed, PveTyped
<1> QED
  BY <1>1, <1>6, <1>7, <1>8 DEF HistoryTyped, more

\* A write of p in time leaves another run's user as it is, or the other notices.
LEMMA OthersEnable ==
  ASSUME AccessInv, NEW p \in Runs, NEW q \in Runs \ {p}, Accepts(p), NEW by \in {p, None},
         by = p => pc[p] = "write", cmd[q].kind = "user",
         pc[q] \in {"joinroles", "joinacls", "write"} \/ late[q],
         ~Flips(q, UserAfter(p), by)
  PROVE  Enabled(cmd[q].who, UserAfter(p)) = Enabled(cmd[q].who, user)
<1> SUFFICES ASSUME Enabled(cmd[q].who, UserAfter(p)) # Enabled(cmd[q].who, user) PROVE FALSE
  OBVIOUS
<1>1. by = p /\ ~late[q] /\ target[p] = target[q] /\ pc[p] = "write"
  BY DEF Flips
<1>2. cmd[q].who \in Users
  BY InvParts, UserCommand DEF Typed, LocalsTyped
<1>3. UserAfter(p)[cmd[q].who] # user[cmd[q].who]
  BY DEF Enabled
<1>4. cmd[p].kind = "user" /\ cmd[p].who = cmd[q].who
  BY <1>2, <1>3, LandsTypes
<1>5. HoldsKey(p) /\ HoldsKey(q)
  BY <1>1, <1>4 DEF HoldsKey
<1> QED
  BY <1>1, <1>4, <1>5, InvParts DEF Keys

\* A write of p keeps every other run's part.
LEMMA LandsOthers ==
  ASSUME AccessInv, NEW p \in Runs, NEW by \in {p, None}, Lands(p, by), UNCHANGED <<lists, outside>>,
         by = p => pc[p] = "write", NEW q \in Runs \ {p}, SameRun(q)
  PROVE  RunInv(q)'
<1>1. Accepts(p) /\ Become(UserAfter(p), GroupAfter(p), AclAfter(p), role, by) /\ AclAfter(p) \in SUBSET Entries
  BY LandsFacts, LandsTypes
<1>2. q # by
  BY AccessAssumption
<1>3. cmd[q].kind = "user" /\ (pc[q] \in {"joinroles", "joinacls", "write"} \/ late[q]) /\ ~Flips(q, UserAfter(p), by)
         => Enabled(cmd[q].who, UserAfter(p)) = Enabled(cmd[q].who, user)
  BY <1>1, OthersEnable
<1> QED
  BY <1>1, <1>2, <1>3, InvParts, SameBecome

\* A write that lands while its run waits for the answer.
LEMMA WriteLandsKeeps ==
  ASSUME AccessInv, NEW p \in Runs, pc[p] = "write", Lands(p, p),
         Goto(p, IF cmd[p].kind # "grant" THEN "reread" ELSE IF LastGrant(p) THEN "readback" ELSE "write"),
         at' = [at EXCEPT ![p] = IF pc'[p] = "write" THEN @ + 1 ELSE @],
         UNCHANGED <<lists, outside, target, cmd, seen, listed, known, warned, shown, result, late>>
  PROVE  AccessInv'
<1>0. Typed /\ RunInv(p)
  BY InvParts
<1>1. PICK l \in {"reread", "readback", "write"} :
        /\ pc' = [pc EXCEPT ![p] = l]
        /\ l = "reread" <=> cmd[p].kind # "grant"
        /\ l = "write" => ~LastGrant(p)
  BY DEF Goto
<1>2. /\ Accepts(p) /\ Become(UserAfter(p), GroupAfter(p), AclAfter(p), role, p)
      /\ PveTyped' /\ HistoryTyped'
      /\ wrote'[p] = IF cmd[p].kind = "grant" THEN wrote[p] \cup {Entry(cmd[p], at[p])} ELSE wrote[p]
      /\ \A q \in Runs \ {p} : wrote'[q] = wrote[q]
  BY LandsFacts
<1>3. cmd[p].kind \in {"user", "group", "grant"} /\ cmd[p] \in AllCommands \cup {[kind |-> "none"]}
  BY <1>0, <1>2, LandsTypes DEF Typed, LocalsTyped
<1>4. cmd[p].kind = "grant" => at[p] \in Nat /\ Len(cmd[p].grants) \in Nat /\ at[p] >= 1 /\ at[p] <= Len(cmd[p].grants)
  <2>1. cmd[p].kind = "grant" => at[p] \in 1 .. Len(cmd[p].grants) /\ Len(cmd[p].grants) \in Nat
    BY <1>0, <1>3, GrantCommand DEF RunInv, SeenTyped
  <2> QED
    BY <2>1
<1>5. /\ pc' \in [Runs -> Labels] /\ at' \in [Runs -> Nat] /\ pc'[p] = l
      /\ at'[p] = (IF l = "write" THEN at[p] + 1 ELSE at[p])
      /\ \A q \in Runs \ {p} : pc'[q] = pc[q] /\ at'[q] = at[q]
  BY <1>0, <1>1 DEF Typed, LocalsTyped, Labels
<1>6. LocalsTyped'
  BY <1>0, <1>5 DEF Typed, LocalsTyped
<1>7. \A q \in Runs \ {p} : SameRun(q)
  BY <1>2, <1>5 DEF SameRun
<1>8. \A q \in Runs \ {p} : RunInv(q)'
  BY <1>7, LandsOthers
<1>9. /\ Goal(cmd[p], user, group, acl)' => met'[p]
      /\ stale'[p] = stale[p]
      /\ user' = UserAfter(p) /\ acl' = AclAfter(p) /\ role' = role
  <2>1. Busy(p)
    BY DEF Busy
  <2>2. user' = UserAfter(p) /\ group' = GroupAfter(p) /\ acl' = AclAfter(p) /\ role' = role
    BY <1>2 DEF Become
  <2> QED
    BY <1>0, <1>2, <2>1, <2>2, BecomePast
<1>10. result'[p] = "none" /\ ~late'[p] /\ cmd[p] \in AllCommands /\ target[p] \in Targets
  BY <1>0 DEF RunInv, Control
<1>11. SeenTyped(p)'
  BY <1>0, <1>1, <1>4, <1>5 DEF RunInv, SeenTyped, LastGrant
<1>12. Control(p)' /\ Met(p)' /\ Says(p)' /\ Held(p)'
  BY <1>1, <1>3, <1>5, <1>9, <1>10 DEF Control, Met, Says, Held
<1>13. Wrote(p)'
  <2> SUFFICES ASSUME cmd[p].kind = "grant"
               PROVE  /\ {Entry(cmd[p], i) : i \in 1 .. (at'[p] - 1)} \subseteq wrote'[p]
                      /\ wrote'[p] \subseteq {Entry(cmd[p], i) : i \in 1 .. (at'[p] - 1)} \cup {Entry(cmd[p], at'[p])}
    BY DEF Wrote, applied
  <2>1. /\ {Entry(cmd[p], i) : i \in 1 .. (at[p] - 1)} \subseteq wrote[p]
        /\ wrote[p] \subseteq {Entry(cmd[p], i) : i \in 1 .. (at[p] - 1)} \cup {Entry(cmd[p], at[p])}
    BY <1>0 DEF RunInv, Wrote, applied
  <2>2. wrote'[p] = wrote[p] \cup {Entry(cmd[p], at[p])}
    BY <1>2
  <2>3. CASE l # "write"
    BY <1>5, <2>1, <2>2, <2>3
  <2>4. CASE l = "write"
    <3>1. at'[p] = at[p] + 1 /\ at[p] \in Nat /\ at[p] >= 1
      BY <1>4, <1>5, <2>4
    <3>2. 1 .. (at'[p] - 1) = (1 .. (at[p] - 1)) \cup {at[p]}
      BY <3>1
    <3>3. {Entry(cmd[p], i) : i \in 1 .. (at'[p] - 1)} = {Entry(cmd[p], i) : i \in 1 .. (at[p] - 1)} \cup {Entry(cmd[p], at[p])}
      BY <3>2
    <3> QED
      BY <2>1, <2>2, <3>3
  <2> QED
    BY <2>3, <2>4
<1>14. (Writing(p)' <=> l = "write") /\ ownUser(p)' = ownUser(p) /\ (checkNotSelf(p, cmd[p])' <=> checkNotSelf(p, cmd[p]))
  BY <1>5, <1>10 DEF Writing, ownUser, Own, checkNotSelf
<1>15. cmd[p].kind = "grant" => user' = user
  BY <1>9 DEF UserAfter
<1>16. OwnKept(p)'
  BY <1>0, <1>1, <1>5, <1>9, <1>14, <1>15 DEF RunInv, OwnKept, Writing
<1>17. Warned(p)'
  BY <1>0, <1>1, <1>5, <1>9, <1>14 DEF RunInv, Warned, Writing
<1>18. EnableSeen(p)'
  BY <1>1, <1>5, <1>14 DEF EnableSeen
<1>19. KeyKept(p)
  BY <1>5 DEF KeyKept, HoldsKey
<1>20. RunInv(p)'
  BY <1>11, <1>12, <1>13, <1>16, <1>17, <1>18 DEF RunInv
<1> QED
  BY <1>2, <1>6, <1>7, <1>8, <1>19, <1>20, WholeStep DEF Typed

\* A pveum write that ends without its answer: it may still land.
LEMMA PveumWriteKeeps == ASSUME AccessInv, NEW p \in Runs, pc[p] = "write", pveumWrite(p) PROVE AccessInv'
<1>0. Typed /\ RunInv(p)
  BY InvParts
<1>1. PICK o \in {"unknown", "failed"} : result' = [result EXCEPT ![p] = o]
  BY DEF pveumWrite
<1>2. UNCHANGED <<pve, lists, outside, met, wrote, gave, lasting, stale, target, cmd, seen, listed, known, at, warned, shown>>
  BY DEF pveumWrite, history
<1>3. /\ pc' \in [Runs -> Labels] /\ result' \in [Runs -> Verdicts] /\ late' \in [Runs -> BOOLEAN]
      /\ pc'[p] = "done" /\ result'[p] = o /\ late'[p]
      /\ \A q \in Runs \ {p} : pc'[q] = pc[q] /\ result'[q] = result[q] /\ late'[q] = late[q]
  BY <1>0, <1>1 DEF pveumWrite, Goto, Typed, LocalsTyped, Labels, Verdicts
<1>4. LocalsTyped' /\ HistoryTyped'
  BY <1>0, <1>2, <1>3 DEF Typed, LocalsTyped, HistoryTyped
<1>5. Leaves(p)
  BY <1>2, <1>3 DEF Leaves, SameRun, SamePast
<1>6. Writing(p) /\ Writing(p)' /\ ownUser(p)' = ownUser(p) /\ applied(p)' = applied(p)
      /\ (checkNotSelf(p, cmd[p])' <=> checkNotSelf(p, cmd[p]))
  BY <1>2, <1>3 DEF Writing, ownUser, Own, applied, checkNotSelf
<1>7. SeenTyped(p)' /\ Control(p)' /\ Met(p)' /\ Held(p)' /\ Says(p)'
  BY <1>0, <1>2, <1>3 DEF RunInv, SeenTyped, Control, Met, Held, Says
<1>8. Wrote(p)' /\ OwnKept(p)'
  BY <1>0, <1>2, <1>3, <1>6 DEF RunInv, Wrote, OwnKept, pve
<1>9. Warned(p)' /\ EnableSeen(p)'
  BY <1>0, <1>2, <1>3, <1>6 DEF RunInv, Warned, EnableSeen, pve
<1>10. KeyKept(p)
  BY <1>3 DEF KeyKept, HoldsKey
<1>11. RunInv(p)'
  BY <1>7, <1>8, <1>9 DEF RunInv
<1> QED
  BY <1>2, <1>4, <1>5, <1>10, <1>11, QuietStep

LEMMA WriteKeeps == ASSUME AccessInv, NEW p \in Runs, Write(p) PROVE AccessInv'
<1>1. CASE Ends(p, "failed") /\ Quiet /\ UNCHANGED history
  BY <1>1, EndsKeeps DEF Write, Verdicts, history
<1> QED
  BY <1>1, WriteLandsKeeps, PveumWriteKeeps DEF Write, Writes

\* A write that lands after its run has given up on it.
LEMMA LateWriteKeeps == ASSUME AccessInv, NEW p \in Runs, LateWrite(p) PROVE AccessInv'
<1>0. Typed /\ RunInv(p) /\ Lands(p, None) /\ UNCHANGED <<lists, outside, locals, pc>> /\ late[p] /\ pc[p] = "done"
  BY InvParts DEF LateWrite, RunInv, Control
<1>1. /\ Accepts(p) /\ Become(UserAfter(p), GroupAfter(p), AclAfter(p), role, None)
      /\ PveTyped' /\ HistoryTyped'
      /\ wrote'[p] = IF cmd[p].kind = "grant" THEN wrote[p] \cup {Entry(cmd[p], at[p])} ELSE wrote[p]
      /\ \A q \in Runs \ {p} : wrote'[q] = wrote[q]
  BY <1>0, LandsFacts
<1>2. late' \in [Runs -> BOOLEAN] /\ ~late'[p] /\ \A q \in Runs \ {p} : late'[q] = late[q]
  BY <1>0 DEF LateWrite, Typed, LocalsTyped
<1>3. LocalsTyped'
  BY <1>0, <1>2 DEF Typed, LocalsTyped, locals
<1>4. \A q \in Runs \ {p} : SameRun(q)
  BY <1>0, <1>1, <1>2 DEF SameRun, locals
<1>5. p # None
  BY AccessAssumption
<1>6. \A q \in Runs \ {p} : RunInv(q)'
  BY <1>0, <1>4, <1>5, LandsOthers
<1>7. (met[p] => met'[p]) /\ lasting'[p] \subseteq lasting[p]
  BY <1>0, <1>1, BecomePast
<1>8. SeenTyped(p)' /\ Control(p)' /\ Met(p)' /\ Held(p)' /\ Says(p)'
  BY <1>0, <1>2, <1>7 DEF RunInv, SeenTyped, Control, Met, Held, Says, locals
<1>9. ~Writing(p)'
  BY <1>0, <1>2 DEF Writing
<1>10. OwnKept(p)' /\ Warned(p)' /\ EnableSeen(p)'
  BY <1>0, <1>2, <1>9 DEF OwnKept, Warned, EnableSeen
<1>11. Wrote(p)'
  BY <1>0, <1>1 DEF RunInv, Wrote, applied, locals
<1>12. KeyKept(p)
  BY <1>0 DEF KeyKept, HoldsKey
<1>13. RunInv(p)'
  BY <1>8, <1>10, <1>11 DEF RunInv
<1> QED
  BY <1>1, <1>3, <1>4, <1>6, <1>12, <1>13, WholeStep DEF Typed

\* Every step of a run, and every edit of somebody else, keeps the invariant.
LEMMA StepAccess == AccessInv /\ [Next]_vars => AccessInv'
<1> SUFFICES ASSUME AccessInv, [Next]_vars PROVE AccessInv'
  OBVIOUS
<1>1. ASSUME NEW p \in Runs, Step(p) PROVE AccessInv'
  BY <1>1, StartKeeps, ReadFailsKeeps, LockKeeps, ReadUserKeeps, ReadGroupKeeps, JoinRolesKeeps, CheckJoinKeeps,
     WriteKeeps, LateWriteKeeps, RereadKeeps, GrantRolesKeeps, GroupHoldsKeeps, OwnerKeeps, DecideKeeps,
     ReadBackKeeps, InventoryUsersKeeps, InventoryGroupsKeeps, InventoryACLsKeeps, InventoryKeeps DEF Step
<1>2. CASE Others
  BY <1>2, OthersKeep
<1>3. CASE UNCHANGED vars
  <2>1. Typed'
    BY <1>3, InvParts DEF vars, pve, history, locals, Typed, PveTyped, HistoryTyped, LocalsTyped
  <2>2. \A q \in Runs : SameRun(q) /\ SamePast(q)
    BY <1>3 DEF vars, history, locals, SameRun, SamePast
  <2>3. \A q \in Runs : RunInv(q)'
    BY <1>3, <2>2, InvParts, SameQuiet DEF vars
  <2>4. Keys'
    BY <1>3, InvParts DEF vars, locals, Keys, HoldsKey
  <2> QED
    BY <2>1, <2>3, <2>4, InvPartsNext
<1> QED
  BY <1>1, <1>2, <1>3 DEF Next

\* An access command that reports success has seen what it asked for, a grant that
\* broke off names what it may have written, and an inventory shows whatever was held
\* all along: whatever other runs, late writes and administrators do meanwhile.
THEOREM AccessInvariant == Spec => []AccessInv
<1>1. Init => AccessInv
  BY InitAccess
<1>2. AccessInv /\ [Next]_vars => AccessInv'
  BY StepAccess
<1> QED
  BY <1>1, <1>2, PTL DEF Spec

-----------------------------------------------------------------------------
(* What a write may do                                                     *)

\* A step that is p's write is its landing, in time or late, or changes nothing at PVE.
LEMMA WriteStep ==
  ASSUME AccessInv, [Next]_vars, NEW p \in Runs, WriteOf(p)
  PROVE  \/ Writing(p) /\ \E by \in {p, None} : Lands(p, by) /\ UNCHANGED <<lists, outside>>
         \/ UNCHANGED <<user, acl, gave>>
<1>0. Typed
  BY InvParts
<1>1. ~(UNCHANGED <<pc, at, late>>)
  BY DEF WriteOf
<1>2. CASE Others \/ UNCHANGED vars
  <2>1. UNCHANGED <<pc, at, late>>
    BY <1>2 DEF Others, EditUser, EditGroup, EditRole, EditACL, Outside, locals, vars
  <2> QED
    BY <1>1, <2>1
<1>3. ASSUME NEW q \in Runs, Start(q) \/ ReadFails(q) \/ Unverifiable(q) \/ Lock(q) \/ ReadUser(q) \/ ReadGroup(q)
                 \/ JoinReadsRoles(q) \/ CheckGroupJoin(q) \/ Reread(q)
      PROVE  UNCHANGED <<user, acl, gave>>
  BY <1>3 DEF Start, ReadFails, Unverifiable, Lock, ReadUser, ReadGroup, JoinReadsRoles, CheckGroupJoin, Reread,
              Quiet, pve, history
<1>4. ASSUME NEW q \in Runs, GrantReadsRoles(q) \/ GroupHolds(q) \/ OwnerInGroup(q) \/ Decide(q) \/ ReadBack(q)
                 \/ InventoryUsers(q) \/ InventoryGroups(q) \/ InventoryACLs(q) \/ Inventory(q) \/ rootOSAccounts(q)
      PROVE  UNCHANGED <<user, acl, gave>>
  BY <1>4 DEF GrantReadsRoles, GroupHolds, OwnerInGroup, Decide, ReadBack, InventoryUsers, InventoryGroups,
              InventoryACLs, Inventory, rootOSAccounts, Quiet, pve, history
<1>5. ASSUME NEW q \in Runs, Write(q)
      PROVE  \/ pc[q] = "write" /\ Lands(q, q) /\ UNCHANGED <<lists, outside>>
             \/ UNCHANGED <<user, acl, gave>>
  BY <1>5 DEF Write, Writes, pveumWrite, Quiet, pve, history
<1>6. ASSUME NEW q \in Runs, q # p, Write(q) \/ LateWrite(q) PROVE FALSE
  <2>1. pc'[p] = pc[p] /\ at'[p] = at[p] /\ late'[p] = late[p]
    BY <1>0, <1>6 DEF Write, Writes, pveumWrite, LateWrite, Ends, Goto, Quiet, locals, Typed, LocalsTyped
  <2> QED
    BY <2>1 DEF WriteOf
<1>7. CASE LateWrite(p)
  BY <1>7 DEF LateWrite, Writing
<1>8. CASE Write(p)
  BY <1>5, <1>8 DEF Writing
<1> QED
  BY <1>2, <1>3, <1>4, <1>6, <1>7, <1>8 DEF Next, Step

\* What a write gives: a user ensure gives its user the entries of the groups it joins,
\* a grant gives its entry, to the principal and to a group's members.
LEMMA WriteGains ==
  ASSUME AccessInv, NEW p \in Runs, NEW by, Lands(p, by), NEW h \in Gains
  PROVE  \/ /\ cmd[p].kind = "user" /\ h[1] = cmd[p].who /\ h[1] \in Users
            /\ h[2] \in acl /\ h[2].who \in missingGroups(cmd[p], seen[p])
         \/ /\ cmd[p].kind = "grant" /\ h[2] = Entry(cmd[p], at[p]) /\ h[2] \in Wanted(cmd[p])
            /\ \/ h[1] = cmd[p].who
               \/ h[1] \in Users /\ cmd[p].who \in Groups /\ cmd[p].who \in GroupsOf(h[1], user)
<1> DEFINE U == UserAfter(p)
           A == AclAfter(p)
<1>0. Typed /\ RunInv(p)
  BY InvParts
<1>1. Accepts(p) /\ user' = U /\ acl' = A
  BY DEF Lands, Become, UserAfter, AclAfter
<1>2. h \in Holdings(U, A) /\ h \notin Holdings(user, acl)
  BY <1>1 DEF Gains
<1>3. h \in Principals \X A /\ (h[2].who = h[1] \/ (h[1] \in Users /\ h[2].who \in GroupsOf(h[1], U)))
  BY <1>2 DEF Holdings
<1>4. CASE cmd[p].kind = "user"
  <2>1. A = acl
    BY <1>4 DEF AclAfter
  <2>2. h[1] \in Users /\ h[2].who \in GroupsOf(h[1], U) /\ h[2].who \notin GroupsOf(h[1], user)
    BY <1>2, <1>3, <2>1 DEF Holdings
  <2>3. h[1] = cmd[p].who
    BY <1>1, <1>4, <2>2, UserWrite DEF GroupsOf
  <2>4. h[2].who \in missingGroups(cmd[p], seen[p])
    BY <1>1, <1>4, <2>2, <2>3, UserWrite
  <2> QED
    BY <1>3, <1>4, <2>1, <2>2, <2>3, <2>4
<1>5. CASE cmd[p].kind = "group"
  <2>1. A = acl /\ U = user
    BY <1>5 DEF AclAfter, UserAfter
  <2> QED
    BY <1>2, <2>1
<1>6. CASE cmd[p].kind = "grant"
  <2>1. U = user /\ A \subseteq acl \cup {Entry(cmd[p], at[p])}
    BY <1>6 DEF AclAfter, UserAfter, aclModify
  <2>2. h[2] \notin acl
    BY <1>2, <1>3, <2>1 DEF Holdings
  <2>3. h[2] = Entry(cmd[p], at[p])
    BY <1>3, <2>1, <2>2
  <2>4. Entry(cmd[p], at[p]).who = cmd[p].who /\ Entry(cmd[p], at[p]) \in Wanted(cmd[p])
    BY <1>0, <1>6, EntryType DEF RunInv, SeenTyped, Typed, LocalsTyped
  <2>5. h[1] \in Users /\ h[2].who \in GroupsOf(h[1], user) => h[2].who \in Groups
    BY <1>0, GroupsOfType DEF Typed, PveTyped
  <2> QED
    BY <1>3, <1>6, <2>1, <2>3, <2>4, <2>5
<1> QED
  BY <1>1, <1>4, <1>5, <1>6, LandsTypes

\* No write gives the target's own token, or the user it belongs to, anything, but
\* through a group that this user has joined since the members were read.
THEOREM OwnNeverGains == Spec => OwnGainsNothing
<1>1. AccessInv /\ [Next]_vars =>
        [\A p \in Runs : WriteOf(p) =>
          \A h \in Gains :
              /\ h[1] # Own(p)
              /\ h[1] = ownUser(p) => cmd[p].who \in Groups /\ "members" \in stale[p]]_vars
  <2> SUFFICES ASSUME AccessInv, [Next]_vars, NEW p \in Runs, WriteOf(p), NEW h \in Gains
               PROVE  /\ h[1] # Own(p)
                      /\ h[1] = ownUser(p) => cmd[p].who \in Groups /\ "members" \in stale[p]
    OBVIOUS
  <2>0. Typed /\ RunInv(p)
    BY InvParts
  <2>1. PICK by \in {p, None} : Writing(p) /\ Lands(p, by)
    <3>1. ~UNCHANGED <<user, acl, gave>>
      BY DEF Gains
    <3> QED
      BY <3>1, WriteStep
  <2>2. Own(p) \in Tokens \cup {None} /\ ownUser(p) \in Users \cup {None} /\ (ownUser(p) = None => Own(p) = None)
    <3>1. target[p] \in Targets
      BY <2>0, <2>1 DEF RunInv, Control, Writing
    <3> QED
      BY <3>1, OwnTypes, AccessAssumption DEF Principals
  <2>3. h[1] \in Principals
    BY DEF Gains, Holdings
  <2>4. CASE cmd[p].kind = "user" /\ h[1] = cmd[p].who /\ h[1] \in Users /\ h[2].who \in missingGroups(cmd[p], seen[p])
    <3>1. cmd[p].who = ownUser(p) => cmd[p].groups = {}
      BY <2>0, <2>1, <2>4 DEF RunInv, OwnKept, Writing
    <3>2. cmd[p].groups # {}
      BY <2>4 DEF missingGroups
    <3> QED
      BY <2>2, <2>3, <2>4, <3>1, <3>2, AccessAssumption
  <2>5. CASE /\ cmd[p].kind = "grant"
             /\ \/ h[1] = cmd[p].who
                \/ h[1] \in Users /\ cmd[p].who \in Groups /\ cmd[p].who \in GroupsOf(h[1], user)
    <3>1. cmd[p].who # Own(p) /\ cmd[p].who # ownUser(p)
      BY <2>0, <2>1, <2>5 DEF RunInv, OwnKept, checkNotSelf
    <3>2. ownUser(p) # None /\ cmd[p].who \in Groups
             => "members" \in stale[p] \/ cmd[p].who \notin GroupsOf(ownUser(p), user)
      BY <2>0, <2>1, <2>5 DEF RunInv, OwnKept
    <3> QED
      BY <2>2, <2>3, <2>5, <3>1, <3>2, AccessAssumption DEF Principals
  <2> QED
    BY <2>1, <2>4, <2>5, WriteGains
<1> QED
  BY <1>1, AccessInvariant, PTL DEF Spec, OwnGainsNothing

\* No write gives anybody an escalating role that was not allowed or warned of, while
\* the roles and ACLs it was decided from are as they were read.
THEOREM EscalationIsAllowed == Spec => EscalatesOnlyAllowed
<1>1. AccessInv /\ [Next]_vars =>
        [\A p \in Runs :
          /\ WriteOf(p) /\ ~Excused(p) /\ cmd[p].kind # "group" /\ ~cmd[p].allow => \A h \in Gains : ~Escalates(h[2], role)
          /\ WriteOf(p) /\ ~Excused(p) => gave'[p] \ gave[p] \subseteq warned[p]]_vars
  <2> SUFFICES ASSUME AccessInv, [Next]_vars, NEW p \in Runs, WriteOf(p), ~Excused(p)
               PROVE  /\ cmd[p].kind # "group" /\ ~cmd[p].allow => \A h \in Gains : ~Escalates(h[2], role)
                      /\ gave'[p] \ gave[p] \subseteq warned[p]
    OBVIOUS
  <2>0. Typed /\ RunInv(p)
    BY InvParts
  <2>1. CASE UNCHANGED <<user, acl, gave>>
    BY <2>1 DEF Gains
  <2>2. ASSUME NEW by \in {p, None}, Writing(p), Lands(p, by), UNCHANGED <<lists, outside>>
        PROVE  /\ cmd[p].kind # "group" /\ ~cmd[p].allow => \A h \in Gains : ~Escalates(h[2], role)
               /\ gave'[p] \ gave[p] \subseteq warned[p]
    <3>1. ASSUME NEW h \in Gains, Escalates(h[2], role)
          PROVE  h[2] \in warned[p] /\ cmd[p].kind \in {"user", "grant"}
      <4>1. CASE cmd[p].kind = "user" /\ h[2] \in acl /\ h[2].who \in missingGroups(cmd[p], seen[p])
        BY <2>0, <2>2, <3>1, <4>1 DEF RunInv, Warned, Excused
      <4>2. CASE cmd[p].kind = "grant" /\ h[2] \in Wanted(cmd[p])
        BY <2>0, <2>2, <3>1, <4>2 DEF RunInv, Warned, Excused
      <4> QED
        BY <2>2, <4>1, <4>2, WriteGains
    <3>2. cmd[p].kind \in {"user", "grant"} => warned[p] = {} \/ cmd[p].allow
      BY <2>0, <2>2 DEF RunInv, Warned
    <3>3. ASSUME NEW e \in gave'[p] \ gave[p] PROVE e \in warned[p]
      <4>1. e \in {h[2] : h \in {x \in Holdings(UserAfter(p), AclAfter(p)) \ Holdings(user, acl) : Escalates(x[2], role)}}
        BY <2>2, <3>3, LandsFacts
      <4>2. PICK h \in Holdings(UserAfter(p), AclAfter(p)) \ Holdings(user, acl) : Escalates(h[2], role) /\ e = h[2]
        BY <4>1
      <4>3. h \in Gains
        BY <2>2, <4>2 DEF Gains, Lands, Become, UserAfter, AclAfter
      <4> QED
        BY <3>1, <4>2, <4>3
    <3> QED
      BY <3>1, <3>2, <3>3
  <2> QED
    BY <2>1, <2>2, WriteStep
<1> QED
  BY <1>1, AccessInvariant, PTL DEF Spec, EscalatesOnlyAllowed

\* A write takes nobody out of a group and nothing off the ACL, and leaves a user
\* enabled or disabled, unless asked for or changed since the user was read.
THEOREM TheRestIsLeft == Spec => LeavesTheRest
<1>1. AccessInv /\ [Next]_vars =>
        [\A p \in Runs : WriteOf(p) =>
          /\ \A u \in Users : user[u] # None =>
                 /\ user[u].groups \subseteq GroupsOf(u, user')
                 /\ user'[u].enable # user[u].enable => cmd[p].enable # None \/ "enable" \in stale[p]
          /\ \A e \in acl : e \in acl' \/ [e EXCEPT !.propagate = ~@] \in wrote'[p]]_vars
  <2> SUFFICES ASSUME AccessInv, [Next]_vars, NEW p \in Runs, WriteOf(p)
               PROVE  /\ \A u \in Users : user[u] # None =>
                            /\ user[u].groups \subseteq GroupsOf(u, user')
                            /\ user'[u].enable # user[u].enable => cmd[p].enable # None \/ "enable" \in stale[p]
                      /\ \A e \in acl : e \in acl' \/ [e EXCEPT !.propagate = ~@] \in wrote'[p]
    OBVIOUS
  <2>0. Typed /\ RunInv(p)
    BY InvParts
  <2>1. CASE UNCHANGED <<user, acl, gave>>
    BY <2>1 DEF GroupsOf
  <2>2. ASSUME NEW by \in {p, None}, Writing(p), Lands(p, by), UNCHANGED <<lists, outside>>
        PROVE  /\ \A u \in Users : user[u] # None =>
                      /\ user[u].groups \subseteq GroupsOf(u, user')
                      /\ user'[u].enable # user[u].enable => cmd[p].enable # None \/ "enable" \in stale[p]
               /\ \A e \in acl : e \in acl' \/ [e EXCEPT !.propagate = ~@] \in wrote'[p]
    <3>1. Accepts(p) /\ user' = UserAfter(p) /\ acl' = AclAfter(p)
      BY <2>2 DEF Lands, Become, UserAfter, AclAfter
    <3>2. ASSUME NEW u \in Users, user[u] # None
          PROVE  /\ user[u].groups \subseteq GroupsOf(u, user')
                 /\ user'[u].enable # user[u].enable => cmd[p].enable # None \/ "enable" \in stale[p]
      <4>1. CASE user'[u] = user[u]
        BY <3>2, <4>1 DEF GroupsOf
      <4>2. CASE cmd[p].kind = "user" /\ u = cmd[p].who
        <5>1. /\ GroupsOf(u, user') = GroupsOf(u, user) \cup missingGroups(cmd[p], seen[p])
              /\ seen[p] # None /\ user'[u].enable = Or(cmd[p].enable, seen[p].enable)
          BY <3>1, <3>2, <4>2, UserWrite
        <5>2. "enable" \in stale[p] \/ Enabled(u, user) = seen[p].enable
          BY <2>0, <2>2, <4>2, <5>1 DEF RunInv, EnableSeen
        <5>3. Enabled(u, user) = user[u].enable /\ GroupsOf(u, user) = user[u].groups
          BY <3>2 DEF Enabled, GroupsOf
        <5> QED
          BY <5>1, <5>2, <5>3 DEF Or
      <4> QED
        BY <3>1, <4>1, <4>2, LandsTypes
    <3>3. ASSUME NEW e \in acl, e \notin acl' PROVE [e EXCEPT !.propagate = ~@] \in wrote'[p]
      <4> DEFINE f == Entry(cmd[p], at[p])
      <4>1. cmd[p].kind = "grant"
        BY <3>1, <3>3 DEF AclAfter
      <4>2. acl' = aclModify(f)
        BY <3>1, <4>1 DEF AclAfter
      <4>3. f \in Entries /\ e \in Entries
        BY <2>0, <3>1, <4>1, LandsTypes DEF Typed, PveTyped
      <4> HIDE DEF f
      <4>4. [e EXCEPT !.propagate = f.propagate] = f /\ e # f
        BY <3>3, <4>2 DEF aclModify
      <4>5. f = [e EXCEPT !.propagate = ~e.propagate]
        <5>1. e.propagate \in BOOLEAN /\ f.propagate \in BOOLEAN
          BY <4>3 DEF Entries
        <5>2. f.propagate # e.propagate
          BY <4>3, <4>4 DEF Entries
        <5>3. f.propagate = ~e.propagate
          BY <5>1, <5>2
        <5> QED
          BY <4>4, <5>3
      <4>6. f \in wrote'[p]
        BY <2>2, <4>1, LandsFacts DEF f
      <4> QED
        BY <4>5, <4>6
    <3> QED
      BY <3>2, <3>3
  <2> QED
    BY <2>1, <2>2, WriteStep
<1> QED
  BY <1>1, AccessInvariant, PTL DEF Spec, LeavesTheRest
=============================================================================
