---------------------------- MODULE StorageProofs ----------------------------
(***************************************************************************)
(* Theorems about Storage, for every set of commands, targets, VMs, nodes  *)
(* and volumes, every start and every number of acts of others.            *)
(***************************************************************************)
EXTENDS Storage, TLAPS

\* HonestReport and NeverFreesHeld, of one run.
Honest(p) ==
    /\ applied[p] \subseteq gone[p]
    /\ cmd[p].kind # "free" /\ result[p] \in {"unchanged", "allocated", "created", "added"} => met[p]

Frees(p) ==
    cmd[p].kind \in {"free", "report"} /\ pc[p] \in {"apply", "wait"} => orphans[p] \subseteq loose[p]

RunInv(p) == Control(p) /\ Deletes(p) /\ Noted(p) /\ Kept(p) /\ Honest(p) /\ Frees(p)

Inductive == TypeOK /\ Exclusion /\ \A p \in Runs : RunInv(p)

-----------------------------------------------------------------------------
(* What a step leaves alone                                                *)

\* Run q is where it was, and knows what it knew.
Still(q) ==
    /\ pc'[q] = pc[q] /\ cmd'[q] = cmd[q] /\ listed'[q] = listed[q] /\ todo'[q] = todo[q]
    /\ reading'[q] = reading[q] /\ orphans'[q] = orphans[q] /\ applied'[q] = applied[q]
    /\ pre'[q] = pre[q] /\ attempt'[q] = attempt[q] /\ result'[q] = result[q]

\* What becomes so is noted for run q.
Records(q) ==
    /\ gone[q] \subseteq gone'[q]
    /\ met[q] => met'[q]
    /\ q \in Busy /\ Goal(cmd[q], where', def') => met'[q]

\* A run that stands still keeps what does not depend on the VMs.
LEMMA StillKeeps ==
    ASSUME NEW q \in Runs, TypeOK, Control(q), Noted(q), Honest(q), Frees(q),
           Still(q), Records(q), shared' = shared, loose[q] \subseteq loose'[q]
    PROVE  Control(q)' /\ Noted(q)' /\ Honest(q)' /\ Frees(q)'
<1>1. Control(q)'
    BY DEF Control, Still, Arguments
<1>2. Noted(q)'
    BY DEF Noted, Still, Records, Busy, Goal, Content
<1>3. Honest(q)' /\ Frees(q)'
    BY DEF Honest, Frees, Still, Records, TypeOK
<1> QED
    BY <1>1, <1>2, <1>3

\* Its delete is as it was.
LEMMA DeletesKept ==
    ASSUME NEW q \in Runs, Deletes(q), Still(q), Records(q), task'[q] = task[q]
    PROVE  Deletes(q)'
BY DEF Deletes, Still, Records

\* The determination of a run that stands still remains sound if whatever a VM comes
\* to hold is loose, and so is what a VM that moves, or drops a snapshot, holds.
LEMMA KeptFrame ==
    ASSUME NEW q \in Runs, Control(q), Kept(q), Still(q), shared' = shared,
           loose[q] \subseteq loose'[q],
           q \in Determining => Volids \ Held(vm, where)' \subseteq loose'[q],
           q \in Determining =>
               \A m \in VMs : \A v \in Has(vm, where, m)' :
                   \/ v \in loose'[q]
                   \/ /\ v \in Has(vm, where, m)
                      /\ vm'[m].node = vm[m].node \/ shared
                      /\ reading[q] = m /\ v \in vm[m].snap => v \in vm'[m].snap,
           pc[q] = "quorum" /\ quorate' => quorate \/ Volids \subseteq loose'[q],
           \A m \in VMs : Has(vm, where, m)' \subseteq Volids
    PROVE  Kept(q)'
<1>1. (q \in Determining)' => q \in Determining
    BY DEF Determining, Still
<1>2. /\ cmd[q].kind = "free" /\ pc[q] \in {"quorum", "lock", "read", "claims"} => q \in Determining
      /\ pc[q] \in {"guests", "claims"} => q \in Determining
    BY DEF Determining, Control
<1>3. ASSUME cmd'[q].kind = "free",
             pc'[q] \in {"lock", "read"} \/ (pc'[q] = "quorum" /\ quorate')
      PROVE  \A m \in VMs : Has(vm, where, m)' \subseteq loose'[q] \/ listed'[q][m] # None
                               \/ (~shared' /\ vm'[m].node # Home)
    <2>1. cmd[q].kind = "free" /\ q \in Determining
        BY <1>2, <1>3 DEF Still
    <2>2. CASE Volids \subseteq loose'[q]
        BY <2>2
    <2>3. CASE ~(Volids \subseteq loose'[q])
        <3>1. \A m \in VMs : Has(vm, where, m) \subseteq loose[q] \/ listed[q][m] # None
                                \/ (~shared /\ vm[m].node # Home)
            BY <1>3, <2>1, <2>3 DEF Kept, Still
        <3> QED
            BY <2>1, <3>1 DEF Still
    <2> QED
        BY <2>2, <2>3
<1>4. ASSUME pc'[q] = "guests"
      PROVE  \A m \in VMs :
                 Has(vm, where, m)' \cap orphans'[q] \subseteq loose'[q] \/ vm'[m].node = Home
    <2>1. ~shared /\ q \in Determining
        BY <1>2, <1>4 DEF Control, Still
    <2>2. \A m \in VMs : Has(vm, where, m) \cap orphans[q] \subseteq loose[q] \/ vm[m].node = Home
        BY <1>4 DEF Kept, Still
    <2> QED
        BY <2>1, <2>2 DEF Still
<1>5. ASSUME pc'[q] = "claims", NEW m \in VMs,
             NEW v \in (Has(vm, where, m)' \cap orphans'[q]) \ loose'[q]
      PROVE  m \in todo'[q] \/ (m = reading'[q] /\ v \in vm'[m].snap)
    <2>1. q \in Determining
        BY <1>2, <1>5 DEF Still
    <2>2. v \in (Has(vm, where, m) \cap orphans[q]) \ loose[q]
        BY <1>5, <2>1 DEF Still
    <2>3. m \in todo[q] \/ (m = reading[q] /\ v \in vm[m].snap)
        BY <1>5, <2>2 DEF Kept, Still
    <2> QED
        BY <1>5, <2>1, <2>3 DEF Still
<1> QED
    BY <1>1, <1>3, <1>4, <1>5 DEF Kept

-----------------------------------------------------------------------------
(* The VMs and the other writers                                           *)

\* What Become says, of the state it makes.
Notes ==
    /\ gone' = [p \in Runs |->
           IF p \in Busy /\ cmd[p].kind = "free" THEN gone[p] \cup Missing(where') ELSE gone[p]]
    /\ met' = [p \in Runs |-> met[p] \/ (p \in Busy /\ Goal(cmd[p], where', def'))]

\* What Loosen says, of the state it makes.
Loosens == \A q \in Runs : /\ loose[q] \subseteq loose'[q]
                           /\ q \in Determining => Volids \ Held(vm', where') \subseteq loose'[q]

\* Nothing of a run but what it is noted for changes.
WorldStep ==
    /\ shared' = shared /\ pc' = pc /\ cmd' = cmd /\ listed' = listed /\ todo' = todo
    /\ reading' = reading /\ orphans' = orphans /\ applied' = applied /\ pre' = pre
    /\ attempt' = attempt /\ result' = result

LEMMA HasVolumes ==
    ASSUME TypeOK
    PROVE  \A m \in VMs : Has(vm, where, m) \subseteq Volids
BY DEF TypeOK, Has, Holds, Guests

LEMMA NotesType ==
    ASSUME TypeOK, Notes
    PROVE  gone' \in [Runs -> SUBSET Volids] /\ met' \in [Runs -> BOOLEAN]
BY DEF TypeOK, Notes, Missing

LEMMA NotesRecord ==
    ASSUME TypeOK, Notes
    PROVE  \A q \in Runs : Records(q)
BY DEF TypeOK, Notes, Records

\* A step that leaves volumes and definition alone has nothing to note.
LEMMA SameRecord ==
    ASSUME TypeOK, NEW q \in Runs, Noted(q), where' = where, def' = def,
           gone'[q] = gone[q], met'[q] = met[q]
    PROVE  Records(q)
BY DEF Records, Noted

\* A volume nobody held may be made: it is loose already.
LEMMA AllocationKeeps ==
    ASSUME TypeOK, NEW q \in Runs, Control(q), Kept(q), Still(q), shared' = shared,
           quorate' = quorate, loose'[q] = loose[q], vm' = vm, NEW v \in Volids,
           where[v] = None, where' = [where EXCEPT ![v] = Home]
    PROVE  Kept(q)'
<1>1. Home # None
    BY StorageAssumption
<1>2. \A m \in VMs : /\ Has(vm, where, m) \subseteq Has(vm, where, m)'
                     /\ \A u \in Has(vm, where, m)' : u \in Has(vm, where, m) \/ u = v
    BY <1>1 DEF Has, Holds, TypeOK, Guests
<1>3. v \notin Held(vm, where)
    BY DEF Held, Has
<1>4. Held(vm, where) \subseteq Held(vm, where)'
    BY <1>2 DEF Held
<1>5. q \in Determining => Volids \ Held(vm, where) \subseteq loose[q]
    BY DEF Kept
<1>6. \A m \in VMs : Has(vm, where, m)' \subseteq Volids
    BY <1>2, HasVolumes
<1> QED
    BY <1>2, <1>3, <1>4, <1>5, <1>6, KeptFrame

\* What a VM holds after the step is loose for q, or it held it before, on the same
\* node, and in a snapshot if q has yet to read that.
Passes(q) ==
    \A m \in VMs : \A v \in Has(vm, where, m)' :
        \/ v \in loose'[q]
        \/ /\ v \in Has(vm, where, m)
           /\ vm'[m].node = vm[m].node \/ shared
           /\ reading[q] = m /\ v \in vm[m].snap => v \in vm'[m].snap

\* What the steps of PVE and of the other writers must leave true.
Settled ==
    /\ vm' \in [VMs -> Guests] /\ where' \in [Volids -> Nodes \cup {None}]
    /\ def' \in Defs \cup {None}
    /\ loose' \in [Runs -> SUBSET Volids]
    /\ gone' \in [Runs -> SUBSET Volids] /\ met' \in [Runs -> BOOLEAN]
    /\ \A q \in Runs : loose[q] \subseteq loose'[q] /\ Records(q) /\ Kept(q)'

LEMMA HeldAfter ==
    ASSUME shared' = shared
    PROVE  /\ \A m \in VMs : Has(vm, where, m)' = Has(vm', where', m)
           /\ Held(vm, where)' = Held(vm', where')
BY DEF Held, Has, Holds

LEMMA StillInWorld == ASSUME WorldStep PROVE \A q \in Runs : Still(q)
BY DEF WorldStep, Still

\* A change of the VMs that is noted, and loosens what nobody holds after it.
LEMMA ChangeSettles ==
    ASSUME Inductive, WorldStep, quorate' = quorate, Notes, Loosens,
           vm' \in [VMs -> Guests], where' \in [Volids -> Nodes \cup {None}], def' = def,
           loose' \in [Runs -> SUBSET Volids],
           \A q \in Runs : q \in Determining => Passes(q)
    PROVE  Settled
<1>1. TypeOK /\ shared' = shared
    BY DEF Inductive, WorldStep
<1>2. \A m \in VMs : Has(vm, where, m)' \subseteq Volids
    BY DEF Has, Holds, Guests
<1>3. ASSUME NEW q \in Runs PROVE Kept(q)'
    <2>1. Control(q) /\ Kept(q) /\ Still(q)
        BY StillInWorld DEF Inductive, RunInv
    <2>2. loose[q] \subseteq loose'[q] /\ (q \in Determining => Volids \ Held(vm, where)' \subseteq loose'[q])
        BY <1>1, HeldAfter DEF Loosens
    <2>3. q \in Determining => Passes(q)
        OBVIOUS
    <2> QED
        BY <1>1, <1>2, <2>1, <2>2, <2>3, KeptFrame DEF Passes
<1> QED
    BY <1>1, <1>3, NotesType, NotesRecord DEF Settled, TypeOK, Loosens

LEMMA RaceLoosens ==
    ASSUME TypeOK, NEW race \in [Runs -> SUBSET Volids],
           loose' = [p \in Runs |-> loose[p] \cup race[p]
                        \cup (IF p \in Determining THEN Volids \ Held(vm', where') ELSE {})]
    PROVE  /\ Loosens /\ loose' \in [Runs -> SUBSET Volids]
           /\ \A q \in Runs : race[q] \subseteq loose'[q]
BY DEF TypeOK, Loosens

\* Changes without a race.
LEMMA QuietChange ==
    ASSUME TypeOK, Notes,
           loose' = [p \in Runs |-> loose[p] \cup NoRace(p)
                        \cup (IF p \in Determining THEN Volids \ Held(vm', where') ELSE {})]
    PROVE  Loosens /\ loose' \in [Runs -> SUBSET Volids]
BY DEF TypeOK, Loosens, NoRace

\* What nobody holds is loose for every run at work on a determination.
LEMMA LooseNow ==
    ASSUME Inductive, Loosens, NEW q \in Runs, q \in Determining, NEW v \in Volids,
           v \notin Held(vm, where)
    PROVE  v \in loose'[q]
BY DEF Inductive, RunInv, Kept, Loosens

LEMMA RegisterSettles ==
    ASSUME Inductive, WorldStep, quorate' = quorate, NEW m \in VMs, NEW v \in Volids,
           Register(m, v)
    PROVE  Settled
<1>1. TypeOK
    BY DEF Inductive
<1>2. vm' = [vm EXCEPT ![m] = [node |-> where[v], live |-> {v}, snap |-> {}]] /\ where' = where
      /\ def' = def /\ Notes
    BY DEF Register, Changes, Become, Notes
<1>3. Loosens /\ loose' \in [Runs -> SUBSET Volids]
    BY <1>1, <1>2, QuietChange DEF Register, Changes, Loosen
<1>4. vm' \in [VMs -> Guests] /\ where' \in [Volids -> Nodes \cup {None}]
    BY <1>1, <1>2 DEF TypeOK, Guests
<1>5. ASSUME NEW q \in Runs, q \in Determining PROVE Passes(q)
    <2>1. v \in loose'[q]
        BY <1>3, <1>5, LooseNow DEF Register
    <2>2. \A k \in VMs : k # m => vm'[k] = vm[k]
        BY <1>1, <1>2 DEF TypeOK
    <2>3. \A k \in VMs : k # m => Has(vm, where, k)' = Has(vm, where, k)
        BY <1>2, <2>2 DEF Has, Holds, WorldStep
    <2>4. Has(vm, where, m)' \subseteq {v}
        BY <1>1, <1>2 DEF Has, Holds, TypeOK
    <2> QED
        BY <2>1, <2>2, <2>3, <2>4 DEF Passes
<1> QED
    BY <1>2, <1>3, <1>4, <1>5, ChangeSettles

\* The parts of a VM's record after a change of one of them.
LEMMA GuestParts ==
    ASSUME NEW g \in Guests
    PROVE  /\ g.node \in Nodes \cup {None} /\ g.live \in SUBSET Volids /\ g.snap \in SUBSET Volids
           /\ \A x : [g EXCEPT !.node = x] = [node |-> x, live |-> g.live, snap |-> g.snap]
           /\ \A x : [g EXCEPT !.live = x] = [node |-> g.node, live |-> x, snap |-> g.snap]
           /\ \A x : [g EXCEPT !.snap = x] = [node |-> g.node, live |-> g.live, snap |-> x]
<1>1. /\ g.node \in Nodes \cup {None} /\ g.live \in SUBSET Volids /\ g.snap \in SUBSET Volids
      /\ g = [node |-> g.node, live |-> g.live, snap |-> g.snap]
    BY DEF Guests
<1>2. \A x : [g EXCEPT !.node = x] = [node |-> x, live |-> g.live, snap |-> g.snap]
    BY <1>1
<1>3. \A x : [g EXCEPT !.live = x] = [node |-> g.node, live |-> x, snap |-> g.snap]
    BY <1>1
<1>4. \A x : [g EXCEPT !.snap = x] = [node |-> g.node, live |-> g.live, snap |-> x]
    BY <1>1
<1> QED
    BY <1>1, <1>2, <1>3, <1>4

LEMMA OneGuest ==
    ASSUME TypeOK, NEW m \in VMs, NEW n \in Nodes \cup {None}, NEW l \in SUBSET Volids,
           NEW s \in SUBSET Volids,
           vm' = [vm EXCEPT ![m] = [node |-> n, live |-> l, snap |-> s]]
    PROVE  /\ vm' \in [VMs -> Guests]
           /\ \A k \in VMs : /\ vm'[k].node = IF k = m THEN n ELSE vm[k].node
                             /\ vm'[k].live = IF k = m THEN l ELSE vm[k].live
                             /\ vm'[k].snap = IF k = m THEN s ELSE vm[k].snap
<1>1. [node |-> n, live |-> l, snap |-> s] \in Guests
    BY DEF Guests
<1> QED
    BY <1>1 DEF TypeOK

\* One VM changes, and the volumes stay where they are.
LEMMA SectionsSettle ==
    ASSUME Inductive, WorldStep, quorate' = quorate, NEW m \in VMs, NEW v \in Volids,
           Attach(m, v) \/ Detach(m, v)
    PROVE  Settled
<1>1. TypeOK
    BY DEF Inductive
<1>2. where' = where /\ def' = def /\ Notes
    BY DEF Attach, Detach, Changes, Become, Notes
<1>3. Loosens /\ loose' \in [Runs -> SUBSET Volids]
    BY <1>1, <1>2, QuietChange DEF Attach, Detach, Changes, Become, Loosen
<1>4. PICK s \in SUBSET Volids : /\ vm' = [vm EXCEPT ![m].live = s]
                                 /\ s \subseteq vm[m].live \cup {v}
                                 /\ v \in s => v \notin Held(vm, where) \/ v \in vm[m].live
    <2>1. vm[m].live \in SUBSET Volids
        BY <1>1 DEF TypeOK, Guests
    <2>2. CASE Attach(m, v)
        <3>1. vm' = [vm EXCEPT ![m].live = vm[m].live \cup {v}] /\ v \notin Held(vm, where)
            BY <2>2 DEF Attach, Changes, Become
        <3> QED
            BY <2>1, <3>1
    <2>3. CASE Detach(m, v)
        <3>1. vm' = [vm EXCEPT ![m].live = vm[m].live \ {v}]
            BY <2>3 DEF Detach, Changes, Become
        <3> QED
            BY <2>1, <3>1
    <2> QED
        BY <2>2, <2>3
<1>45. vm' = [vm EXCEPT ![m] = [node |-> vm[m].node, live |-> s, snap |-> vm[m].snap]]
    BY <1>1, <1>4, GuestParts DEF TypeOK
<1>46. vm[m].node \in Nodes \cup {None} /\ vm[m].snap \in SUBSET Volids
    BY <1>1, GuestParts DEF TypeOK
<1>5. vm' \in [VMs -> Guests] /\ where' \in [Volids -> Nodes \cup {None}]
    <2>1. vm' \in [VMs -> Guests]
        BY <1>1, <1>45, <1>46, OneGuest
    <2>2. where' \in [Volids -> Nodes \cup {None}]
        BY <1>1, <1>2, <1>45 DEF TypeOK
    <2> QED
        BY <2>1, <2>2
<1>6. ASSUME NEW q \in Runs, q \in Determining PROVE Passes(q)
    <2>1. v \in s => v \in loose'[q] \/ v \in vm[m].live
        BY <1>3, <1>4, <1>6, LooseNow
    <2>2. \A k \in VMs : vm'[k].node = vm[k].node /\ vm'[k].snap = vm[k].snap
                           /\ (k # m => vm'[k].live = vm[k].live)
                           /\ (k = m => vm'[k].live = s)
        BY <1>1, <1>45, <1>46, OneGuest
    <2>3. \A k \in VMs : \A u \in Has(vm, where, k)' :
              u \in Has(vm, where, k) \/ u \in loose'[q]
        BY <1>2, <1>4, <2>1, <2>2 DEF Has, Holds, WorldStep
    <2> QED
        BY <2>2, <2>3 DEF Passes
<1> QED
    BY <1>2, <1>3, <1>5, <1>6, ChangeSettles

LEMMA TakeSnapshotSettles ==
    ASSUME Inductive, WorldStep, quorate' = quorate, NEW m \in VMs, NEW v \in Volids,
           TakeSnapshot(m, v)
    PROVE  Settled
<1>1. TypeOK
    BY DEF Inductive
<1>2. /\ vm' = [vm EXCEPT ![m].snap = vm[m].live \cup {v}]
      /\ where' = [where EXCEPT ![v] = vm[m].node] /\ def' = def /\ Notes
    BY DEF TakeSnapshot, Changes, Become, Notes
<1>3. Loosens /\ loose' \in [Runs -> SUBSET Volids]
    BY <1>1, <1>2, QuietChange DEF TakeSnapshot, Changes, Loosen
<1>35. /\ vm[m].node \in Nodes \cup {None} /\ vm[m].live \in SUBSET Volids
       /\ vm[m].live \cup {v} \in SUBSET Volids
    BY <1>1, GuestParts DEF TypeOK
<1>36. vm' = [vm EXCEPT ![m] =
                 [node |-> vm[m].node, live |-> vm[m].live, snap |-> vm[m].live \cup {v}]]
    BY <1>1, <1>2, GuestParts DEF TypeOK
<1>4. vm' \in [VMs -> Guests] /\ where' \in [Volids -> Nodes \cup {None}]
    <2>1. vm' \in [VMs -> Guests]
        BY <1>1, <1>35, <1>36, OneGuest
    <2>2. where' \in [Volids -> Nodes \cup {None}]
        BY <1>1, <1>2, <1>35 DEF TypeOK
    <2> QED
        BY <2>1, <2>2
<1>5. ASSUME NEW q \in Runs, q \in Determining PROVE Passes(q)
    <2>1. v \notin Held(vm, where)
        BY DEF TakeSnapshot, Held, Has
    <2>2. v \in loose'[q]
        BY <1>3, <1>5, <2>1, LooseNow
    <2>3. \A k \in VMs : /\ vm'[k].node = vm[k].node /\ vm'[k].live = vm[k].live
                         /\ vm'[k].snap = IF k = m THEN vm[k].live \cup {v} ELSE vm[k].snap
        BY <1>1, <1>35, <1>36, OneGuest
    <2>4. \A u \in Volids : u # v => where'[u] = where[u]
        BY <1>1, <1>2 DEF TypeOK
    <2>5. \A k \in VMs : \A u \in Has(vm, where, k)' : u \in Has(vm, where, k) \/ u = v
        <3> SUFFICES ASSUME NEW k \in VMs, NEW u \in Has(vm, where, k)', u # v
                     PROVE  u \in Has(vm, where, k)
            OBVIOUS
        <3>1. u \in Volids
            BY <1>4 DEF Has, Holds, Guests
        <3> QED
            BY <3>1, <2>3, <2>4 DEF Has, Holds, WorldStep
    <2>6. vm[m].snap = {}
        BY DEF TakeSnapshot
    <2> QED
        BY <2>2, <2>3, <2>5, <2>6 DEF Passes
<1> QED
    BY <1>2, <1>3, <1>4, <1>5, ChangeSettles

LEMMA DropSnapshotSettles ==
    ASSUME Inductive, WorldStep, quorate' = quorate, NEW m \in VMs, DropSnapshot(m)
    PROVE  Settled
<1> DEFINE race == [p \in Runs |-> IF reading[p] = m THEN vm[m].snap ELSE {}]
           g == [vm EXCEPT ![m] = [node |-> vm[m].node, live |-> vm[m].live \cup (vm[m].snap \ States),
                                   snap |-> {}]]
           w == [v \in Volids |-> IF v \in vm[m].snap \cap States /\ Near(m, v) THEN None ELSE where[v]]
<1>1. TypeOK
    BY DEF Inductive
<1>2. vm' = g /\ where' = w /\ def' = def /\ Notes
    BY DEF DropSnapshot, Changes, Become, Notes
<1>3. race \in [Runs -> SUBSET Volids]
    BY <1>1 DEF TypeOK, Guests
<1>4. loose' = [p \in Runs |-> loose[p] \cup race[p]
                   \cup (IF p \in Determining THEN Volids \ Held(vm', where') ELSE {})]
    BY <1>2 DEF DropSnapshot, Changes, Loosen
<1>5. /\ Loosens /\ loose' \in [Runs -> SUBSET Volids]
      /\ \A q \in Runs : race[q] \subseteq loose'[q]
    BY <1>1, <1>3, <1>4, RaceLoosens
<1>55. /\ vm[m].node \in Nodes \cup {None} /\ {} \in SUBSET Volids
       /\ vm[m].live \cup (vm[m].snap \ States) \in SUBSET Volids
    BY <1>1, GuestParts DEF TypeOK
<1>56. vm' = [vm EXCEPT ![m] = [node |-> vm[m].node, live |-> vm[m].live \cup (vm[m].snap \ States),
                               snap |-> {}]]
    BY <1>2
<1>6. \A k \in VMs : /\ vm'[k].node = vm[k].node
                     /\ vm'[k].live = IF k = m THEN vm[k].live \cup (vm[k].snap \ States) ELSE vm[k].live
                     /\ vm'[k].snap = IF k = m THEN {} ELSE vm[k].snap
    BY <1>1, <1>55, <1>56, OneGuest
<1>7. vm' \in [VMs -> Guests] /\ where' \in [Volids -> Nodes \cup {None}]
    <2>1. vm' \in [VMs -> Guests]
        BY <1>1, <1>55, <1>56, OneGuest
    <2>2. where' \in [Volids -> Nodes \cup {None}]
        BY <1>1, <1>2, <1>55 DEF TypeOK
    <2> QED
        BY <2>1, <2>2
<1>8. ASSUME NEW q \in Runs, q \in Determining PROVE Passes(q)
    <2>1. \A u \in Volids : where'[u] # None => where'[u] = where[u]
        BY <1>2
    <2>2. \A k \in VMs : \A u \in Has(vm, where, k)' : u \in Has(vm, where, k)
        <3> SUFFICES ASSUME NEW k \in VMs, NEW u \in Has(vm, where, k)'
                     PROVE  u \in Has(vm, where, k)
            OBVIOUS
        <3>1. u \in Volids
            BY <1>7 DEF Has, Holds, Guests
        <3> QED
            BY <3>1, <2>1, <1>6 DEF Has, Holds, WorldStep
    <2>3. reading[q] = m => vm[m].snap \subseteq loose'[q]
        BY <1>5
    <2> QED
        BY <1>6, <2>2, <2>3 DEF Passes
<1> QED
    BY <1>2, <1>5, <1>7, <1>8, ChangeSettles

LEMMA DestroySettles ==
    ASSUME Inductive, WorldStep, quorate' = quorate, NEW m \in VMs,
           NEW left \in SUBSET Has(vm, where, m), DestroyVM(m, left)
    PROVE  Settled
<1> DEFINE w == [v \in Volids |-> IF v \in Has(vm, where, m) \ left THEN None ELSE where[v]]
<1>1. TypeOK
    BY DEF Inductive
<1>2. /\ vm' = [vm EXCEPT ![m] = [node |-> None, live |-> {}, snap |-> {}]]
      /\ where' = w /\ def' = def /\ Notes
    BY DEF DestroyVM, Changes, Become, Notes
<1>3. Loosens /\ loose' \in [Runs -> SUBSET Volids]
    BY <1>1, <1>2, QuietChange DEF DestroyVM, Changes, Loosen
<1>4. vm' \in [VMs -> Guests] /\ where' \in [Volids -> Nodes \cup {None}]
    BY <1>1, <1>2 DEF TypeOK, Guests
<1>5. ASSUME NEW q \in Runs, q \in Determining PROVE Passes(q)
    <2>1. \A u \in Volids : where'[u] # None => where'[u] = where[u]
        BY <1>2
    <2>2. \A k \in VMs : IF k = m THEN vm'[k].node = None ELSE vm'[k] = vm[k]
        BY <1>1, <1>2 DEF TypeOK
    <2>3. \A k \in VMs : \A u \in Has(vm, where, k)' : k # m /\ u \in Has(vm, where, k)
        <3> SUFFICES ASSUME NEW k \in VMs, NEW u \in Has(vm, where, k)'
                     PROVE  k # m /\ u \in Has(vm, where, k)
            OBVIOUS
        <3>1. u \in Volids
            BY <1>4 DEF Has, Holds, Guests
        <3> QED
            BY <3>1, <2>1, <2>2 DEF Has, Holds, WorldStep
    <2> QED
        BY <2>2, <2>3 DEF Passes
<1> QED
    BY <1>2, <1>3, <1>4, <1>5, ChangeSettles

LEMMA MigrateSettles ==
    ASSUME Inductive, WorldStep, quorate' = quorate, NEW m \in VMs, NEW n \in Nodes,
           Migrate(m, n)
    PROVE  Settled
<1> DEFINE race == [p \in Runs |-> IF p \in Determining /\ ~shared THEN Holds(vm[m]) ELSE {}]
           w == [v \in Volids |-> IF v \in Has(vm, where, m) /\ ~shared THEN n ELSE where[v]]
<1>1. TypeOK
    BY DEF Inductive
<1>2. vm' = [vm EXCEPT ![m].node = n] /\ where' = w /\ def' = def /\ Notes
    BY DEF Migrate, Changes, Become, Notes
<1>3. race \in [Runs -> SUBSET Volids]
    BY <1>1 DEF TypeOK, Guests, Holds
<1>4. loose' = [p \in Runs |-> loose[p] \cup race[p]
                   \cup (IF p \in Determining THEN Volids \ Held(vm', where') ELSE {})]
    BY <1>2 DEF Migrate, Changes, Loosen
<1>5. /\ Loosens /\ loose' \in [Runs -> SUBSET Volids]
      /\ \A q \in Runs : race[q] \subseteq loose'[q]
    BY <1>1, <1>3, <1>4, RaceLoosens
<1>55. vm[m].live \in SUBSET Volids /\ vm[m].snap \in SUBSET Volids
    BY <1>1, GuestParts DEF TypeOK
<1>56. vm' = [vm EXCEPT ![m] = [node |-> n, live |-> vm[m].live, snap |-> vm[m].snap]]
    BY <1>1, <1>2, GuestParts DEF TypeOK
<1>6. \A k \in VMs : /\ vm'[k].node = IF k = m THEN n ELSE vm[k].node
                     /\ vm'[k].live = vm[k].live
                     /\ vm'[k].snap = vm[k].snap
    BY <1>1, <1>55, <1>56, OneGuest
<1>7. vm' \in [VMs -> Guests] /\ where' \in [Volids -> Nodes \cup {None}]
    <2>1. vm' \in [VMs -> Guests]
        BY <1>1, <1>55, <1>56, OneGuest
    <2>2. where' \in [Volids -> Nodes \cup {None}]
        BY <1>1, <1>2, <1>55 DEF TypeOK
    <2> QED
        BY <2>1, <2>2
<1>8. ASSUME NEW q \in Runs, q \in Determining PROVE Passes(q)
    <2>1. ~shared => Holds(vm[m]) \subseteq loose'[q]
        BY <1>5, <1>8
    <2>2. vm[m].node # None
        BY DEF Migrate, There
    <2>3. \A k \in VMs : \A u \in Has(vm, where, k)' :
              \/ u \in loose'[q]
              \/ u \in Has(vm, where, k) /\ (k # m \/ shared)
        <3> SUFFICES ASSUME NEW k \in VMs, NEW u \in Has(vm, where, k)', u \notin loose'[q]
                     PROVE  u \in Has(vm, where, k) /\ (k # m \/ shared)
            OBVIOUS
        <3>1. u \in Volids
            BY <1>7 DEF Has, Holds, Guests
        <3>2. shared \/ u \notin Holds(vm[m])
            BY <2>1
        <3>3. where'[u] = where[u]
            BY <1>2, <3>1, <3>2 DEF Has
        <3> QED
            BY <3>1, <3>2, <3>3, <1>6, <2>2 DEF Has, Holds, WorldStep
    <2> QED
        BY <1>6, <2>3 DEF Passes
<1> QED
    BY <1>2, <1>5, <1>7, <1>8, ChangeSettles

LEMMA QuorumSettles ==
    ASSUME Inductive, WorldStep, Quorum
    PROVE  Settled
<1> DEFINE race == [p \in Runs |-> IF pc[p] = "quorum" /\ ~quorate THEN Volids ELSE {}]
<1>1. TypeOK /\ vm' = vm /\ where' = where /\ def' = def /\ gone' = gone /\ met' = met
    BY DEF Inductive, Quorum
<1>2. race \in [Runs -> SUBSET Volids]
    OBVIOUS
<1>3. loose' = [p \in Runs |-> loose[p] \cup race[p]
                   \cup (IF p \in Determining THEN Volids \ Held(vm', where') ELSE {})]
    BY <1>1 DEF Quorum, Loosen
<1>4. /\ Loosens /\ loose' \in [Runs -> SUBSET Volids]
      /\ \A q \in Runs : race[q] \subseteq loose'[q]
    BY <1>1, <1>2, <1>3, RaceLoosens
<1>5. ASSUME NEW q \in Runs PROVE Records(q) /\ Kept(q)'
    <2>1. Control(q) /\ Kept(q) /\ Noted(q) /\ Still(q)
        BY StillInWorld DEF Inductive, RunInv
    <2>2. Records(q)
        BY <1>1, <2>1, SameRecord
    <2>3. shared' = shared
        BY DEF WorldStep
    <2>4. \A m \in VMs : Has(vm, where, m)' = Has(vm, where, m)
        BY <1>1, <2>3, HeldAfter
    <2>5. \A m \in VMs : Has(vm, where, m)' \subseteq Volids
        BY <1>1, <2>4, HasVolumes
    <2>6. loose[q] \subseteq loose'[q] /\ (q \in Determining => Volids \ Held(vm, where)' \subseteq loose'[q])
        BY <1>4, <2>3, HeldAfter DEF Loosens
    <2>7. pc[q] = "quorum" /\ quorate' => quorate \/ Volids \subseteq loose'[q]
        BY <1>4
    <2> QED
        BY <1>1, <2>1, <2>2, <2>3, <2>4, <2>5, <2>6, <2>7, KeptFrame
<1> QED
    BY <1>1, <1>4, <1>5 DEF Settled, TypeOK, Loosens

LEMMA AllocateSettles ==
    ASSUME Inductive, WorldStep, quorate' = quorate, NEW v \in Volids, AllocateForVM(v)
    PROVE  Settled
<1>1. /\ TypeOK /\ vm' = vm /\ where[v] = None /\ where' = [where EXCEPT ![v] = Home]
      /\ def' = def /\ loose' = loose /\ Notes
    BY DEF Inductive, AllocateForVM, Become, Notes
<1>2. where' \in [Volids -> Nodes \cup {None}]
    BY <1>1, StorageAssumption DEF TypeOK
<1>3. ASSUME NEW q \in Runs PROVE Kept(q)'
    <2>1. Control(q) /\ Kept(q) /\ Still(q) /\ shared' = shared /\ loose'[q] = loose[q]
        BY <1>1, StillInWorld DEF Inductive, RunInv, WorldStep
    <2> QED
        BY <1>1, <2>1, AllocationKeeps
<1> QED
    BY <1>1, <1>2, <1>3, NotesType, NotesRecord DEF Settled, TypeOK

LEMMA EditSettles ==
    ASSUME Inductive, WorldStep, quorate' = quorate, NEW d \in Definitions, EditDefinition(d)
    PROVE  Settled
<1>1. /\ TypeOK /\ vm' = vm /\ where' = where /\ def' = d /\ loose' = loose /\ Notes
    BY DEF Inductive, EditDefinition, Become, Notes
<1>2. def' \in Defs \cup {None}
    BY <1>1, StorageAssumption
<1>3. ASSUME NEW q \in Runs PROVE Kept(q)'
    BY <1>1 DEF Inductive, RunInv, Kept, WorldStep, Determining, Held, Has, Holds
<1> QED
    BY <1>1, <1>2, <1>3, NotesType, NotesRecord DEF Settled, TypeOK

\* A step of the world keeps the invariant if it settles and the deletes are sound.
LEMMA WorldKeeps ==
    ASSUME Inductive, WorldStep, Settled, quorate' \in BOOLEAN, outside' \in 0 .. MaxOutside,
           task' \in [Runs -> [volid : Volids \cup {None}, status : {"none", "running", "ok", "failed"}]],
           \A q \in Runs : Deletes(q)'
    PROVE  Inductive'
<1>1. TypeOK'
    BY DEF Inductive, TypeOK, WorldStep, Settled
<1>2. Exclusion'
    BY DEF Inductive, Exclusion, WorldStep, HoldsStorage
<1>3. ASSUME NEW q \in Runs PROVE RunInv(q)'
    <2>1. RunInv(q) /\ TypeOK /\ Still(q) /\ shared' = shared /\ Records(q) /\ loose[q] \subseteq loose'[q]
        BY StillInWorld DEF Inductive, WorldStep, Settled
    <2>2. Control(q)' /\ Noted(q)' /\ Honest(q)' /\ Frees(q)'
        BY <2>1, StillKeeps DEF RunInv
    <2> QED
        BY <2>2 DEF RunInv, Settled
<1> QED
    BY <1>1, <1>2, <1>3 DEF Inductive

\* Whatever the VMs, the cluster and the web UI do.
LEMMA OthersKeep ==
    ASSUME Inductive, Others
    PROVE  Inductive'
<1>1. TypeOK /\ WorldStep /\ task' = task
    BY DEF Inductive, Others, WorldStep
<1>2. quorate' \in BOOLEAN /\ outside' \in 0 .. MaxOutside
    <2>1. outside' \in 0 .. MaxOutside
        BY <1>1, StorageAssumption DEF Others, TypeOK
    <2>2. quorate' \in BOOLEAN
        BY <1>1 DEF Others, Quorum, TypeOK
    <2> QED
        BY <2>1, <2>2
<1>3. Settled
    <2>1. CASE Quorum
        BY <1>1, <2>1, QuorumSettles
    <2>2. CASE ~Quorum
        <3>1. quorate' = quorate
            BY <2>2 DEF Others
        <3>2. CASE \E v \in Volids : AllocateForVM(v)
            BY <1>1, <3>1, <3>2, AllocateSettles
        <3>3. CASE \E m \in VMs, v \in Volids : Register(m, v)
            BY <1>1, <3>1, <3>3, RegisterSettles
        <3>4. CASE \E m \in VMs, v \in Volids : Attach(m, v) \/ Detach(m, v)
            BY <1>1, <3>1, <3>4, SectionsSettle
        <3>5. CASE \E m \in VMs, v \in Volids : TakeSnapshot(m, v)
            BY <1>1, <3>1, <3>5, TakeSnapshotSettles
        <3>6. CASE \E m \in VMs : DropSnapshot(m)
            BY <1>1, <3>1, <3>6, DropSnapshotSettles
        <3>7. CASE \E m \in VMs : \E left \in SUBSET Has(vm, where, m) : DestroyVM(m, left)
            BY <1>1, <3>1, <3>7, DestroySettles
        <3>8. CASE \E m \in VMs, n \in Nodes : Migrate(m, n)
            BY <1>1, <3>1, <3>8, MigrateSettles
        <3>9. CASE \E d \in Definitions : EditDefinition(d)
            BY <1>1, <3>1, <3>9, EditSettles
        <3> QED
            BY <2>2, <3>2, <3>3, <3>4, <3>5, <3>6, <3>7, <3>8, <3>9 DEF Others
    <2> QED
        BY <2>1, <2>2
<1>4. ASSUME NEW q \in Runs PROVE Deletes(q)'
    BY <1>1, <1>3, DeletesKept, StillInWorld DEF Inductive, RunInv, Settled
<1> QED
    BY <1>1, <1>2, <1>3, <1>4, WorldKeeps DEF TypeOK

\* A delete ends, whether or not anybody waits for it.
LEMMA FreeLandsKeeps ==
    ASSUME Inductive, NEW p \in Runs, NEW ok \in BOOLEAN, FreeLands(p, ok)
    PROVE  Inductive'
<1>1. TypeOK /\ WorldStep /\ quorate' = quorate /\ outside' = outside
    BY DEF Inductive, FreeLands, WorldStep
<1>2. PICK v \in Volids : v = task[p].volid
    BY DEF FreeLands, Inductive, RunInv, Deletes
<1>3. PICK o \in {"ok", "failed"} : /\ task' = [task EXCEPT ![p].status = o]
                                    /\ (o = "ok") = ok
    BY DEF FreeLands
<1>4. /\ task' \in [Runs -> [volid : Volids \cup {None}, status : {"none", "running", "ok", "failed"}]]
      /\ \A q \in Runs : q # p => task'[q] = task[q]
      /\ task'[p].volid = v /\ task'[p].status = o
    <2>1. task[p] \in [volid : Volids \cup {None}, status : {"none", "running", "ok", "failed"}]
        BY <1>1 DEF TypeOK
    <2>2. /\ [task[p] EXCEPT !.status = o]
                \in [volid : Volids \cup {None}, status : {"none", "running", "ok", "failed"}]
          /\ [task[p] EXCEPT !.status = o].volid = v
          /\ [task[p] EXCEPT !.status = o].status = o
        BY <1>2, <2>1
    <2> QED
        BY <1>1, <1>3, <2>2 DEF TypeOK
<1>5. Settled /\ (ok /\ pc[p] = "wait" => v \in gone'[p])
    <2>1. CASE ok
        <3>1. vm' = vm /\ where' = [where EXCEPT ![v] = None] /\ def' = def /\ Notes
            BY <1>2, <2>1 DEF FreeLands, Changes, Become, Notes
        <3>2. Loosens /\ loose' \in [Runs -> SUBSET Volids]
            BY <1>1, <2>1, <3>1, QuietChange DEF FreeLands, Changes, Become, Loosen
        <3>3. where' \in [Volids -> Nodes \cup {None}] /\ where'[v] = None
            BY <1>1, <3>1 DEF TypeOK
        <3>4. \A m \in VMs : \A u \in Has(vm, where, m)' : u \in Has(vm, where, m)
            BY <1>1, <3>1 DEF Has, Holds, WorldStep, TypeOK, Guests
        <3>5. \A q \in Runs : Passes(q)
            BY <3>1, <3>4 DEF Passes
        <3>6. Settled
            BY <1>1, <3>1, <3>2, <3>3, <3>5, ChangeSettles DEF TypeOK
        <3>7. pc[p] = "wait" => v \in gone'[p]
            BY <3>1, <3>3 DEF Notes, Missing, Busy, Inductive, RunInv, Control
        <3> QED
            BY <3>6, <3>7
    <2>2. CASE ~ok
        <3>1. vm' = vm /\ where' = where /\ def' = def /\ gone' = gone /\ met' = met /\ loose' = loose
            BY <2>2 DEF FreeLands
        <3>2. ASSUME NEW q \in Runs PROVE Records(q) /\ Kept(q)'
            <4>1. Records(q)
                BY <1>1, <3>1, SameRecord DEF Inductive, RunInv
            <4>2. Kept(q)'
                BY <1>1, <3>1 DEF Inductive, RunInv, Kept, WorldStep, Determining, Held, Has, Holds
            <4> QED
                BY <4>1, <4>2
        <3> QED
            BY <1>1, <2>2, <3>1, <3>2 DEF Settled, TypeOK
    <2> QED
        BY <2>1, <2>2
<1>6. ASSUME NEW q \in Runs PROVE Deletes(q)'
    <2>1. Deletes(q) /\ Still(q) /\ Records(q)
        BY <1>1, <1>5, StillInWorld DEF Inductive, RunInv, Settled
    <2>2. CASE q # p
        BY <1>4, <2>1, <2>2, DeletesKept
    <2>3. CASE q = p
        BY <1>2, <1>3, <1>4, <1>5, <2>1, <2>3 DEF Deletes, Still, Records
    <2> QED
        BY <2>2, <2>3
<1> QED
    BY <1>1, <1>4, <1>5, <1>6, WorldKeeps DEF TypeOK

-----------------------------------------------------------------------------
(* The steps of a run                                                      *)

\* What a step of run p leaves alone.
Alone(p) ==
    /\ shared' = shared /\ vm' = vm /\ quorate' = quorate
    /\ \A q \in Runs : q # p => Still(q) /\ task'[q] = task[q] /\ loose'[q] = loose[q]

\* The volumes stay, or one is made that did not exist.
VolumeMade ==
    \/ where' = where
    \/ \E v \in Volids : where[v] = None /\ where' = [where EXCEPT ![v] = Home]

\* A run comes to hold the storage's lock only when it is free for it.
LocksFairly(p) ==
    HoldsStorage(p)' =>
        /\ cmd'[p].target = cmd[p].target /\ cmd'[p].kind = cmd[p].kind
        /\ \/ HoldsStorage(p)
           \/ \A q \in Runs : HoldsStorage(q) =>
                 cmd[q].target # cmd[p].target \/ (cmd[p].kind = "report" /\ cmd[q].kind = "report")

Acts(p) ==
    /\ TypeOK' /\ Alone(p) /\ VolumeMade /\ LocksFairly(p)
    /\ \A q \in Runs : q # p => Records(q)
    /\ RunInv(p)'

\* A step that does this keeps the invariant, for the other runs too.
LEMMA ActsKeep ==
    ASSUME Inductive, NEW p \in Runs, Acts(p)
    PROVE  Inductive'
<1>1. TypeOK /\ TypeOK' /\ shared' = shared
    BY DEF Inductive, Acts, Alone
<1>2. ASSUME NEW q \in Runs PROVE RunInv(q)'
    <2>1. CASE q = p
        BY <2>1 DEF Acts
    <2>2. CASE q # p
        <3>1. /\ RunInv(q) /\ Still(q) /\ Records(q) /\ task'[q] = task[q] /\ loose'[q] = loose[q]
              /\ vm' = vm /\ quorate' = quorate
            BY <2>2 DEF Inductive, Acts, Alone
        <3>2. Control(q)' /\ Noted(q)' /\ Honest(q)' /\ Frees(q)'
            BY <1>1, <3>1, StillKeeps DEF RunInv
        <3>3. Deletes(q)'
            BY <3>1, DeletesKept DEF RunInv
        <3>4. Kept(q)'
            <4>1. CASE where' = where
                BY <1>1, <3>1, <4>1 DEF RunInv, Kept, Still, Determining, Held, Has, Holds
            <4>2. CASE \E v \in Volids : where[v] = None /\ where' = [where EXCEPT ![v] = Home]
                BY <1>1, <3>1, <4>2, AllocationKeeps DEF RunInv
            <4> QED
                BY <4>1, <4>2 DEF Acts, VolumeMade
        <3> QED
            BY <3>2, <3>3, <3>4 DEF RunInv
    <2> QED
        BY <2>1, <2>2
<1>3. Exclusion'
    <2> SUFFICES ASSUME NEW a \in Runs, NEW b \in Runs, a # b, HoldsStorage(a)', HoldsStorage(b)',
                        cmd'[a].target = cmd'[b].target
                 PROVE  cmd'[a].kind = "report" /\ cmd'[b].kind = "report"
        BY DEF Exclusion
    <2>1. \A q \in Runs : q # p => (HoldsStorage(q)' => HoldsStorage(q)) /\ cmd'[q] = cmd[q]
        BY DEF Acts, Alone, Still, HoldsStorage
    <2>2. LocksFairly(p) /\ Exclusion
        BY DEF Acts, Inductive
    <2> QED
        BY <2>1, <2>2 DEF LocksFairly, Exclusion
<1> QED
    BY <1>1, <1>2, <1>3 DEF Inductive

\* What Ends does to the runs' variables.
LEMMA EndsRun ==
    ASSUME TypeOK, NEW p \in Runs, NEW o \in Results, Ends(p, o)
    PROVE  /\ pc' \in [Runs -> {"idle", "list", "quorum", "lock", "read", "guests", "claims", "apply",
                                "put", "verify", "wait", "done"}]
           /\ cmd' \in [Runs -> [kind : Kinds \cup {"none"}, target : Targets \cup {None},
                                 arg : Volids \cup VMs \cup Defs \cup Types \cup {None}]]
           /\ listed' \in [Runs -> [VMs -> Nodes \cup {None}]]
           /\ todo' \in [Runs -> SUBSET VMs] /\ reading' \in [Runs -> VMs \cup {None}]
           /\ orphans' \in [Runs -> SUBSET Volids] /\ applied' \in [Runs -> SUBSET Volids]
           /\ pre' \in [Runs -> Defs \cup {None}]
           /\ attempt' \in [Runs -> 1 .. MaxConflictRetries]
           /\ result' \in [Runs -> Results] /\ loose' \in [Runs -> SUBSET Volids]
           /\ pc'[p] = "done" /\ result'[p] = o /\ applied' = applied
           /\ cmd'[p].kind = cmd[p].kind /\ cmd'[p].target = cmd[p].target
           /\ \A q \in Runs : q # p => Still(q) /\ loose'[q] = loose[q]
<1>1. pc' = [pc EXCEPT ![p] = "done"] /\ result' = [result EXCEPT ![p] = o] /\ applied' = applied
    BY DEF Ends, Goto
<1>2. /\ cmd' \in [Runs -> [kind : Kinds \cup {"none"}, target : Targets \cup {None},
                            arg : Volids \cup VMs \cup Defs \cup Types \cup {None}]]
      /\ cmd'[p].kind = cmd[p].kind /\ cmd'[p].target = cmd[p].target
      /\ \A q \in Runs : q # p => cmd'[q] = cmd[q]
    <2> DEFINE C == [kind : Kinds \cup {"none"}, target : Targets \cup {None},
                     arg : Volids \cup VMs \cup Defs \cup Types \cup {None}]
    <2>1. cmd[p] \in C
        BY DEF TypeOK
    <2>2. /\ [cmd[p] EXCEPT !.arg = None] \in C
          /\ [cmd[p] EXCEPT !.arg = None].kind = cmd[p].kind
          /\ [cmd[p] EXCEPT !.arg = None].target = cmd[p].target
        BY <2>1
    <2>3. cmd' = [cmd EXCEPT ![p] = [cmd[p] EXCEPT !.arg = None]] /\ cmd \in [Runs -> C]
        BY DEF Ends, TypeOK
    <2> HIDE DEF C
    <2>4. /\ cmd' \in [Runs -> C] /\ cmd'[p] = [cmd[p] EXCEPT !.arg = None]
          /\ \A q \in Runs : q # p => cmd'[q] = cmd[q]
        BY <2>2, <2>3
    <2> QED
        BY <2>2, <2>4 DEF C
<1>3. 1 \in 1 .. MaxConflictRetries
    BY StorageAssumption
<1>4. [m \in VMs |-> None] \in [VMs -> Nodes \cup {None}]
    OBVIOUS
<1>5. /\ listed' \in [Runs -> [VMs -> Nodes \cup {None}]]
      /\ \A q \in Runs : q # p => listed'[q] = listed[q]
    BY <1>4 DEF Ends, TypeOK
<1>6. /\ todo' \in [Runs -> SUBSET VMs] /\ reading' \in [Runs -> VMs \cup {None}]
      /\ orphans' \in [Runs -> SUBSET Volids] /\ loose' \in [Runs -> SUBSET Volids]
      /\ \A q \in Runs : q # p => /\ todo'[q] = todo[q] /\ reading'[q] = reading[q]
                                  /\ orphans'[q] = orphans[q] /\ loose'[q] = loose[q]
    BY DEF Ends, TypeOK
<1>7. /\ pre' \in [Runs -> Defs \cup {None}] /\ attempt' \in [Runs -> 1 .. MaxConflictRetries]
      /\ \A q \in Runs : q # p => pre'[q] = pre[q] /\ attempt'[q] = attempt[q]
    BY <1>3 DEF Ends, TypeOK
<1>8. /\ pc' \in [Runs -> {"idle", "list", "quorum", "lock", "read", "guests", "claims", "apply",
                           "put", "verify", "wait", "done"}]
      /\ result' \in [Runs -> Results] /\ applied' \in [Runs -> SUBSET Volids]
      /\ pc'[p] = "done" /\ result'[p] = o
      /\ \A q \in Runs : q # p => pc'[q] = pc[q] /\ result'[q] = result[q]
    BY <1>1 DEF TypeOK
<1> QED
    BY <1>1, <1>2, <1>5, <1>6, <1>7, <1>8 DEF Still

\* A run that ends, in whatever state PVE is then: it says what is so, and a delete it
\* has not seen end it calls unknown.
LEMMA EndsActs ==
    ASSUME Inductive, NEW p \in Runs, NEW o \in Results, Ends(p, o),
           shared' = shared, vm' = vm, quorate' = quorate, outside' = outside,
           where' \in [Volids -> Nodes \cup {None}], def' \in Defs \cup {None}, VolumeMade,
           task' \in [Runs -> [volid : Volids \cup {None}, status : {"none", "running", "ok", "failed"}]],
           gone' \in [Runs -> SUBSET Volids], met' \in [Runs -> BOOLEAN],
           \A q \in Runs : Records(q),
           \A q \in Runs : q # p => task'[q] = task[q],
           task'[p].status # "none" => task'[p].volid \in Volids,
           task'[p].status = "running" => o = "unknown",
           cmd[p].kind # "free" /\ o \in {"unchanged", "allocated", "created", "added"} => met'[p]
    PROVE  Acts(p)
<1>1. TypeOK
    BY DEF Inductive
<1> HIDE DEF Ends
<1>2. TypeOK'
    BY <1>1, EndsRun DEF TypeOK
<1>3. Alone(p)
    BY <1>1, EndsRun DEF Alone
<1>4. pc'[p] = "done" /\ result'[p] = o /\ applied' = applied /\ cmd'[p].kind = cmd[p].kind
    BY <1>1, EndsRun
<1>5. LocksFairly(p)
    BY <1>4 DEF LocksFairly, HoldsStorage
<1>6. Honest(p)'
    <2>1. applied[p] \subseteq gone[p] /\ gone[p] \subseteq gone'[p]
        BY DEF Inductive, RunInv, Honest, Records
    <2> QED
        BY <1>4, <2>1 DEF Honest
<1>7. Control(p)' /\ Deletes(p)' /\ Noted(p)' /\ Kept(p)' /\ Frees(p)'
    BY <1>4 DEF Control, Deletes, Noted, Kept, Frees, Busy, Determining
<1> QED
    BY <1>2, <1>3, <1>5, <1>6, <1>7 DEF Acts, RunInv

LEMMA EndsQuietly ==
    ASSUME Inductive, NEW p \in Runs, NEW o \in Results, Ends(p, o), UNCHANGED pve,
           task[p].status = "running" => o = "unknown",
           cmd[p].kind # "free" /\ o \in {"unchanged", "allocated", "created", "added"} => met[p]
    PROVE  Acts(p)
<1>1. TypeOK /\ \A q \in Runs : Noted(q) /\ Deletes(q)
    BY DEF Inductive, RunInv
<1>2. /\ shared' = shared /\ vm' = vm /\ quorate' = quorate /\ outside' = outside /\ where' = where
      /\ def' = def /\ task' = task /\ gone' = gone /\ met' = met
    BY DEF pve
<1>3. \A q \in Runs : Records(q)
    BY <1>1, <1>2, SameRecord
<1> QED
    BY <1>1, <1>2, <1>3, EndsActs DEF TypeOK, VolumeMade, Deletes

\* A step of a run that neither ends it nor changes anything of PVE.
LEMMA QuietStep ==
    ASSUME Inductive, NEW p \in Runs, p \in Busy, TypeOK', Alone(p),
           where' = where, def' = def, met' = met, task' = task, cmd' = cmd, result' = result,
           \A q \in Runs : q # p => gone'[q] = gone[q],
           applied'[p] \subseteq gone'[p], LocksFairly(p),
           Control(p)', Deletes(p)', Kept(p)', Frees(p)'
    PROVE  Acts(p)
<1>1. TypeOK /\ \A q \in Runs : Noted(q)
    BY DEF Inductive, RunInv
<1>2. \A q \in Runs : q # p => Records(q)
    BY <1>1, SameRecord
<1>3. Noted(p)'
    BY <1>1 DEF Noted, Alone, Goal, Content, Busy
<1>4. result[p] = "none"
    BY DEF Inductive, RunInv, Control, Busy
<1>5. Honest(p)'
    BY <1>4 DEF Honest
<1> QED
    BY <1>2, <1>3, <1>5 DEF Acts, RunInv, VolumeMade

PCs == {"idle", "list", "quorum", "lock", "read", "guests", "claims", "apply", "put", "verify",
        "wait", "done"}

\* A run that only goes on to another place.
LEMMA MovesActs ==
    ASSUME Inductive, NEW p \in Runs, p \in Busy, NEW l \in PCs, Moves(p, l), UNCHANGED pve,
           l # "wait", pc[p] # "wait", l \notin {"list", "idle"}, LocksFairly(p),
           Control(p)', Kept(p)', Frees(p)'
    PROVE  Acts(p)
<1>1. TypeOK /\ Deletes(p) /\ Honest(p)
    BY DEF Inductive, RunInv
<1>2. pc' = [pc EXCEPT ![p] = l] /\ UNCHANGED <<cmd, listed, todo, reading, orphans, applied, loose, pre, attempt, result>>
    BY DEF Moves, Goto, locals, volumes
<1>3. UNCHANGED <<vm, where, shared, quorate, def, task, outside, gone, met>>
    BY DEF pve
<1>4. TypeOK'
    BY <1>1, <1>2, <1>3 DEF TypeOK, PCs
<1>5. Alone(p)
    BY <1>1, <1>2, <1>3 DEF Alone, Still, TypeOK
<1>6. pc'[p] = l
    BY <1>1, <1>2 DEF TypeOK
<1>7. Deletes(p)'
    BY <1>1, <1>2, <1>3, <1>6 DEF Deletes
<1>8. applied'[p] \subseteq gone'[p]
    BY <1>1, <1>2, <1>3 DEF Honest
<1> QED
    BY <1>2, <1>3, <1>4, <1>5, <1>7, <1>8, QuietStep

\* The places it goes to without holding the lock anew.
LEMMA StaysLocked ==
    ASSUME NEW p \in Runs, cmd' = cmd, HoldsStorage(p)
    PROVE  LocksFairly(p)
BY DEF LocksFairly

LEMMA StartActs ==
    ASSUME Inductive, NEW p \in Runs, Start(p)
    PROVE  Acts(p)
<1>1. TypeOK /\ RunInv(p) /\ pc[p] = "idle"
    BY DEF Inductive, Start
<1>2. PICK k \in Kinds, t \in Targets : \E a \in Arguments(k) :
          cmd' = [cmd EXCEPT ![p] = [kind |-> k, target |-> t, arg |-> a]]
    BY DEF Start
<1>3. PICK a \in Arguments(k) : cmd' = [cmd EXCEPT ![p] = [kind |-> k, target |-> t, arg |-> a]]
    BY <1>2
<1>4. a \in Volids \cup VMs \cup Defs \cup Types \cup {None}
    BY StorageAssumption DEF Arguments, Kinds
<1>5. cmd'[p] = [kind |-> k, target |-> t, arg |-> a] /\ \A q \in Runs : q # p => cmd'[q] = cmd[q]
    BY <1>1, <1>3 DEF TypeOK
<1>6. PICK l \in {"list", "lock"} : pc' = [pc EXCEPT ![p] = l] /\ (l = "list") = (k = "free")
    <2>1. cmd'[p].kind = k
        BY <1>5
    <2>2. pc' = [pc EXCEPT ![p] = IF k = "free" THEN "list" ELSE "lock"]
        BY <2>1 DEF Start, Goto
    <2>3. CASE k = "free"
        BY <2>2, <2>3
    <2>4. CASE k # "free"
        BY <2>2, <2>4
    <2> QED
        BY <2>3, <2>4
<1>7. /\ UNCHANGED <<vm, where, shared, quorate, def, task, outside, gone>>
      /\ UNCHANGED <<listed, todo, reading, orphans, applied, loose, pre, attempt, result>>
    BY DEF Start, volumes
<1>8. met' = [met EXCEPT ![p] = Goal(cmd'[p], where, def)]
    BY DEF Start
<1>9. Goal(cmd'[p], where, def) \in BOOLEAN
    BY DEF Goal
<1>10. TypeOK'
    <2>1. cmd' \in [Runs -> [kind : Kinds \cup {"none"}, target : Targets \cup {None},
                             arg : Volids \cup VMs \cup Defs \cup Types \cup {None}]]
        BY <1>1, <1>3, <1>4 DEF TypeOK
    <2>2. met' \in [Runs -> BOOLEAN]
        BY <1>1, <1>8, <1>9 DEF TypeOK
    <2>3. pc' \in [Runs -> PCs]
        BY <1>1, <1>6 DEF TypeOK, PCs
    <2> QED
        BY <1>1, <1>7, <2>1, <2>2, <2>3 DEF TypeOK, PCs
<1>11. pc'[p] = l /\ met'[p] = Goal(cmd'[p], where, def)
       /\ \A q \in Runs : q # p => pc'[q] = pc[q] /\ met'[q] = met[q]
    BY <1>1, <1>6, <1>8 DEF TypeOK
<1>12. Alone(p)
    BY <1>5, <1>7, <1>11 DEF Alone, Still
<1>13. \A q \in Runs : q # p => Records(q)
    BY <1>7, <1>11, SameRecord DEF Inductive, RunInv
<1>14. LocksFairly(p) /\ VolumeMade
    BY <1>7, <1>11 DEF LocksFairly, HoldsStorage, VolumeMade
<1>15. Control(p)'
    BY <1>1, <1>3, <1>5, <1>6, <1>7, <1>11 DEF RunInv, Control, Kinds, Arguments
<1>16. Deletes(p)' /\ Honest(p)' /\ Frees(p)'
    BY <1>1, <1>7, <1>11 DEF RunInv, Control, Deletes, Honest, Frees
<1>17. Noted(p)'
    BY <1>7, <1>11 DEF Noted, Goal, Content
<1>18. Kept(p)'
    BY <1>5, <1>6, <1>11 DEF Kept, Determining
<1> QED
    BY <1>10, <1>12, <1>13, <1>14, <1>15, <1>16, <1>17, <1>18 DEF Acts, RunInv

LEMMA LockActs ==
    ASSUME Inductive, NEW p \in Runs, Lock(p)
    PROVE  Acts(p)
<1>1. /\ TypeOK /\ RunInv(p) /\ pc[p] = "lock" /\ Moves(p, "read") /\ UNCHANGED pve /\ p \in Busy
      /\ "read" \in PCs
    BY DEF Inductive, Lock, Busy, PCs
<1>2. pc'[p] = "read"
    BY <1>1 DEF Moves, Goto, TypeOK
<1>3. LocksFairly(p)
    BY <1>1 DEF LocksFairly, Lock, Moves, locals
<1>4. Control(p)' /\ Frees(p)'
    BY <1>1, <1>2 DEF RunInv, Control, Frees, Moves, locals, pve, Arguments
<1>5. Kept(p)'
    BY <1>1, <1>2 DEF RunInv, Kept, Determining, Moves, locals, volumes, pve, Held, Has, Holds
<1> QED
    BY <1>1, <1>2, <1>3, <1>4, <1>5, MovesActs

LEMMA CheckQuorumActs ==
    ASSUME Inductive, NEW p \in Runs, CheckQuorum(p)
    PROVE  Acts(p)
<1>1. /\ TypeOK /\ RunInv(p) /\ pc[p] = "quorum" /\ Moves(p, "lock") /\ UNCHANGED pve /\ p \in Busy
      /\ "lock" \in PCs /\ quorate
    BY DEF Inductive, CheckQuorum, Busy, PCs
<1>2. pc'[p] = "lock"
    BY <1>1 DEF Moves, Goto, TypeOK
<1>3. LocksFairly(p)
    BY <1>2 DEF LocksFairly, HoldsStorage
<1>4. Control(p)' /\ Frees(p)'
    BY <1>1, <1>2 DEF RunInv, Control, Frees, Moves, locals, pve, Arguments
<1>5. Kept(p)'
    BY <1>1, <1>2 DEF RunInv, Control, Kept, Determining, Moves, locals, volumes, pve, Held, Has, Holds
<1> QED
    BY <1>1, <1>2, <1>3, <1>4, <1>5, MovesActs

\* The steps that end a run and leave PVE alone.
LEMMA OnlyEndsActs ==
    ASSUME Inductive, NEW p \in Runs,
           Refuses(p) \/ Killed(p) \/ Report(p) \/ Freed(p) \/ AllocVerify(p) \/ DiffGuard(p)
    PROVE  Acts(p)
<1>1. TypeOK /\ RunInv(p) /\ UNCHANGED pve
    BY DEF Inductive, Refuses, Killed, Report, Freed, AllocVerify, DiffGuard
<1>2. PICK o \in Results : /\ Ends(p, o)
                           /\ o = "unknown" \/ pc[p] \notin {"idle", "wait", "done"}
                           /\ o = "freed" => cmd[p].kind = "free"
                           /\ o \in {"unchanged", "allocated", "created", "added"} =>
                                 p \in Busy /\ Goal(cmd[p], where, def)
    BY DEF Refuses, Killed, Report, Freed, AllocVerify, DiffGuard, Results, Goal, Busy, Is
<1>3. task[p].status = "running" => o = "unknown"
    BY <1>1, <1>2 DEF RunInv, Deletes, Control
<1>4. cmd[p].kind # "free" /\ o \in {"unchanged", "allocated", "created", "added"} => met[p]
    BY <1>1, <1>2 DEF RunInv, Noted
<1> QED
    BY <1>1, <1>2, <1>3, <1>4, EndsQuietly

-----------------------------------------------------------------------------
(* The determination                                                       *)

LEMMA ListActs ==
    ASSUME Inductive, NEW p \in Runs, List(p)
    PROVE  Acts(p)
<1>1. TypeOK /\ RunInv(p) /\ pc[p] = "list" /\ p \in Busy
    BY DEF Inductive, List, Busy
<1>2. /\ UNCHANGED <<vm, where, shared, quorate, def, task, outside, met>>
      /\ UNCHANGED <<cmd, todo, reading, orphans, applied, pre, attempt, result>>
      /\ pc' = [pc EXCEPT ![p] = "quorum"]
      /\ loose' = [loose EXCEPT ![p] = Volids \ Held(vm, where)]
      /\ gone' = [gone EXCEPT ![p] = Missing(where)]
    BY DEF List, Goto
<1>3. PICK short \in SUBSET VMs :
          /\ quorate => short = {}
          /\ Takes(p, (IF shared THEN ClusterPairs ELSE NodeVMIDs) \ short)
    BY DEF List
<1> DEFINE ms == (IF shared THEN ClusterPairs ELSE NodeVMIDs) \ short
           seen == [m \in VMs |-> IF m \in ms THEN vm[m].node ELSE None]
<1>4. listed' = [listed EXCEPT ![p] = seen]
    BY <1>3 DEF Takes
<1>5. seen \in [VMs -> Nodes \cup {None}]
    BY <1>1 DEF TypeOK, Guests
<1>6. listed' \in [Runs -> [VMs -> Nodes \cup {None}]] /\ listed'[p] = seen
      /\ \A q \in Runs : q # p => listed'[q] = listed[q]
    BY <1>1, <1>4, <1>5 DEF TypeOK
<1>7. TypeOK'
    BY <1>1, <1>2, <1>6 DEF TypeOK, Missing
<1>8. Alone(p)
    BY <1>1, <1>2, <1>6 DEF Alone, Still, TypeOK
<1>9. /\ pc'[p] = "quorum" /\ loose'[p] = Volids \ Held(vm, where)
      /\ \A q \in Runs : q # p => gone'[q] = gone[q]
    BY <1>1, <1>2 DEF TypeOK
<1>10. applied[p] = {}
    BY <1>1 DEF RunInv, Deletes
<1>11. LocksFairly(p)
    BY <1>9 DEF LocksFairly, HoldsStorage
<1>12. Control(p)' /\ Frees(p)' /\ Deletes(p)'
    BY <1>1, <1>2, <1>9, <1>10 DEF RunInv, Control, Deletes, Frees, Arguments
<1>13. Kept(p)'
    <2>1. Held(vm, where)' = Held(vm, where) /\ \A m \in VMs : Has(vm, where, m)' = Has(vm, where, m)
        BY <1>2, HeldAfter
    <2>2. ASSUME quorate, NEW m \in VMs, seen[m] = None, shared \/ vm[m].node = Home
          PROVE  Has(vm, where, m) = {}
        <3>1. short = {}
            BY <1>3, <2>2
        <3>2. vm[m].node = None
            BY <2>2, <3>1, StorageAssumption DEF ClusterPairs, NodeVMIDs, There
        <3> QED
            BY <3>2 DEF Has, Holds
    <2> QED
        BY <1>2, <1>6, <1>9, <2>1, <2>2 DEF Kept
<1> QED
    BY <1>1, <1>2, <1>7, <1>8, <1>9, <1>10, <1>11, <1>12, <1>13, QuietStep

LEMMA ScanActs ==
    ASSUME Inductive, NEW p \in Runs, Scan(p)
    PROVE  Acts(p)
<1> DEFINE found == {v \in Content(where) : Named(v) = cmd[p].arg}
           ms == {m \in VMs : listed[p][m] # None}
<1>1. TypeOK /\ RunInv(p) /\ pc[p] = "read" /\ cmd[p].kind = "free" /\ p \in Busy
    BY DEF Inductive, Scan, Is, Busy
<1>2. /\ UNCHANGED <<vm, where, shared, quorate, def, task, outside, gone, met>>
      /\ UNCHANGED <<cmd, listed, reading, applied, loose, pre, attempt, result>>
      /\ pc' = [pc EXCEPT ![p] = "claims"] /\ orphans' = [orphans EXCEPT ![p] = found]
      /\ todo' = [todo EXCEPT ![p] = ms]
    BY DEF Scan, Goto, pve
<1>3. found \subseteq Volids
    BY DEF Content
<1>4. TypeOK'
    BY <1>1, <1>2, <1>3 DEF TypeOK
<1>5. Alone(p)
    BY <1>1, <1>2 DEF Alone, Still, TypeOK
<1>6. pc'[p] = "claims" /\ orphans'[p] = found /\ todo'[p] = ms
    BY <1>1, <1>2 DEF TypeOK
<1>7. LocksFairly(p)
    BY <1>1, <1>2, StaysLocked DEF HoldsStorage
<1>8. Control(p)' /\ Frees(p)' /\ Deletes(p)' /\ applied'[p] \subseteq gone'[p]
    BY <1>1, <1>2, <1>6 DEF RunInv, Control, Deletes, Frees, Honest, Arguments
<1>9. Kept(p)'
    <2>1. Held(vm, where)' = Held(vm, where) /\ \A m \in VMs : Has(vm, where, m)' = Has(vm, where, m)
        BY <1>2, HeldAfter
    <2>2. Volids \ Held(vm, where) \subseteq loose[p]
        BY <1>1 DEF RunInv, Kept, Determining
    <2>3. ASSUME NEW m \in VMs, NEW v \in (Has(vm, where, m) \cap found) \ loose[p]
          PROVE  m \in ms
        <3>1. listed[p][m] # None \/ (~shared /\ vm[m].node # Home)
            BY <1>1, <2>3 DEF RunInv, Kept
        <3>2. ~shared => vm[m].node = Home
            BY <2>3 DEF Has, Content
        <3> QED
            BY <3>1, <3>2
    <2> QED
        BY <1>2, <1>6, <2>1, <2>2, <2>3 DEF Kept
<1> QED
    BY <1>1, <1>2, <1>4, <1>5, <1>7, <1>8, <1>9, QuietStep

LEMMA ReportScanActs ==
    ASSUME Inductive, NEW p \in Runs, ReportScan(p)
    PROVE  Acts(p)
<1>1. TypeOK /\ RunInv(p) /\ pc[p] = "read" /\ cmd[p].kind = "report" /\ ~shared /\ p \in Busy
    BY DEF Inductive, ReportScan, Is, Busy
<1>2. /\ UNCHANGED <<vm, where, shared, quorate, def, task, outside, gone, met>>
      /\ UNCHANGED <<cmd, listed, todo, reading, applied, pre, attempt, result>>
      /\ pc' = [pc EXCEPT ![p] = "guests"] /\ orphans' = [orphans EXCEPT ![p] = Content(where)]
      /\ loose' = [loose EXCEPT ![p] = Volids \ Held(vm, where)]
    BY DEF ReportScan, Goto
<1>3. Content(where) \subseteq Volids
    BY DEF Content
<1>4. TypeOK'
    BY <1>1, <1>2, <1>3 DEF TypeOK
<1>5. Alone(p)
    BY <1>1, <1>2 DEF Alone, Still, TypeOK
<1>6. pc'[p] = "guests" /\ orphans'[p] = Content(where) /\ loose'[p] = Volids \ Held(vm, where)
    BY <1>1, <1>2 DEF TypeOK
<1>7. LocksFairly(p)
    BY <1>1, <1>2, StaysLocked DEF HoldsStorage
<1>8. Control(p)' /\ Frees(p)' /\ Deletes(p)' /\ applied'[p] \subseteq gone'[p]
    BY <1>1, <1>2, <1>6 DEF RunInv, Control, Deletes, Frees, Honest, Arguments
<1>9. Kept(p)'
    <2>1. Held(vm, where)' = Held(vm, where) /\ \A m \in VMs : Has(vm, where, m)' = Has(vm, where, m)
        BY <1>2, HeldAfter
    <2>2. \A m \in VMs : \A v \in Has(vm, where, m) \cap Content(where) : vm[m].node = Home
        BY <1>1 DEF Has, Content
    <2> QED
        BY <1>2, <1>6, <2>1, <2>2 DEF Kept
<1> QED
    BY <1>1, <1>2, <1>4, <1>5, <1>7, <1>8, <1>9, QuietStep

LEMMA ReportGuestsActs ==
    ASSUME Inductive, NEW p \in Runs, ReportGuests(p)
    PROVE  Acts(p)
<1>1. TypeOK /\ RunInv(p) /\ pc[p] = "guests" /\ cmd[p].kind = "report" /\ ~shared /\ p \in Busy
    BY DEF Inductive, ReportGuests, Busy, RunInv, Control
<1>2. /\ UNCHANGED <<vm, where, shared, quorate, def, task, outside, gone, met>>
      /\ UNCHANGED <<cmd, reading, orphans, applied, pre, attempt, result>>
      /\ pc' = [pc EXCEPT ![p] = "claims"]
    BY DEF ReportGuests, Goto
<1>3. PICK hidden \in SUBSET NodeVMIDs :
          /\ Takes(p, NodeVMIDs \ hidden)
          /\ todo' = [todo EXCEPT ![p] = NodeVMIDs \ hidden]
          /\ loose' = [loose EXCEPT ![p] = loose[p] \cup UNION {Has(vm, where, m) : m \in hidden}]
    BY DEF ReportGuests
<1> DEFINE seen == [m \in VMs |-> IF m \in NodeVMIDs \ hidden THEN vm[m].node ELSE None]
           theirs == UNION {Has(vm, where, m) : m \in hidden}
<1>4. listed' = [listed EXCEPT ![p] = seen]
    BY <1>3 DEF Takes
<1>5. seen \in [VMs -> Nodes \cup {None}] /\ NodeVMIDs \subseteq VMs
    BY <1>1 DEF TypeOK, Guests, NodeVMIDs
<1>6. theirs \subseteq Volids
    BY <1>1, <1>5, HasVolumes
<1>7. /\ listed' \in [Runs -> [VMs -> Nodes \cup {None}]]
      /\ \A q \in Runs : q # p => listed'[q] = listed[q]
    BY <1>1, <1>4, <1>5 DEF TypeOK
<1>8. /\ todo' \in [Runs -> SUBSET VMs] /\ loose' \in [Runs -> SUBSET Volids]
      /\ todo'[p] = NodeVMIDs \ hidden /\ loose'[p] = loose[p] \cup theirs
      /\ \A q \in Runs : q # p => todo'[q] = todo[q] /\ loose'[q] = loose[q]
    BY <1>1, <1>3, <1>5, <1>6 DEF TypeOK
<1>9. TypeOK'
    BY <1>1, <1>2, <1>7, <1>8 DEF TypeOK
<1>10. Alone(p) /\ pc'[p] = "claims"
    BY <1>1, <1>2, <1>7, <1>8 DEF Alone, Still, TypeOK
<1>11. LocksFairly(p)
    BY <1>1, <1>2, StaysLocked DEF HoldsStorage
<1>12. Control(p)' /\ Frees(p)' /\ Deletes(p)' /\ applied'[p] \subseteq gone'[p]
    BY <1>1, <1>2, <1>10 DEF RunInv, Control, Deletes, Frees, Honest, Arguments
<1>13. Kept(p)'
    <2>1. Held(vm, where)' = Held(vm, where) /\ \A m \in VMs : Has(vm, where, m)' = Has(vm, where, m)
        BY <1>2, HeldAfter
    <2>2. Volids \ Held(vm, where) \subseteq loose[p]
        BY <1>1 DEF RunInv, Kept, Determining
    <2>3. ASSUME NEW m \in VMs, NEW v \in (Has(vm, where, m) \cap orphans[p]) \ (loose[p] \cup theirs)
          PROVE  m \in NodeVMIDs \ hidden
        <3>1. vm[m].node = Home
            BY <1>1, <2>3 DEF RunInv, Kept
        <3> QED
            BY <2>3, <3>1 DEF NodeVMIDs
    <2> QED
        BY <1>2, <1>8, <1>10, <2>1, <2>2, <2>3 DEF Kept
<1> QED
    BY <1>1, <1>2, <1>9, <1>10, <1>11, <1>12, <1>13, QuietStep

LEMMA ReadConfigActs ==
    ASSUME Inductive, NEW p \in Runs, NEW m \in VMs, ReadConfig(p, m)
    PROVE  Acts(p)
<1>1. TypeOK /\ RunInv(p) /\ pc[p] = "claims" /\ reading[p] = None /\ p \in Busy
    BY DEF Inductive, ReadConfig, Busy
<1>2. /\ UNCHANGED <<vm, where, shared, quorate, def, task, outside, gone, met>>
      /\ UNCHANGED <<pc, cmd, listed, applied, loose, pre, attempt, result>>
      /\ orphans' = [orphans EXCEPT ![p] = orphans[p] \ vm[m].live]
      /\ todo' = [todo EXCEPT ![p] = todo[p] \ {m}]
      /\ reading' = [reading EXCEPT ![p] = m]
    BY DEF ReadConfig, pve
<1>3. TypeOK'
    BY <1>1, <1>2 DEF TypeOK
<1>4. Alone(p)
    BY <1>1, <1>2 DEF Alone, Still, TypeOK
<1>5. orphans'[p] = orphans[p] \ vm[m].live /\ todo'[p] = todo[p] \ {m} /\ reading'[p] = m
    BY <1>1, <1>2 DEF TypeOK
<1>6. LocksFairly(p)
    BY <1>1, <1>2, StaysLocked DEF HoldsStorage
<1>7. Control(p)' /\ Frees(p)' /\ Deletes(p)' /\ applied'[p] \subseteq gone'[p]
    BY <1>1, <1>2 DEF RunInv, Control, Deletes, Frees, Honest, Arguments
<1>8. Kept(p)'
    <2>1. Held(vm, where)' = Held(vm, where) /\ \A k \in VMs : Has(vm, where, k)' = Has(vm, where, k)
        BY <1>2, HeldAfter
    <2>2. (p \in Determining)' => Volids \ Held(vm, where) \subseteq loose[p]
        BY <1>1, <1>2 DEF RunInv, Kept, Determining
    <2>3. ASSUME NEW k \in VMs, NEW v \in (Has(vm, where, k) \cap (orphans[p] \ vm[m].live)) \ loose[p]
          PROVE  k \in todo[p] \ {m} \/ (k = m /\ v \in vm[k].snap)
        <3>1. k \in todo[p]
            BY <1>1, <2>3, StorageAssumption DEF RunInv, Kept
        <3>2. v \in vm[k].live \cup vm[k].snap
            BY <2>3 DEF Has, Holds
        <3> QED
            BY <2>3, <3>1, <3>2
    <2> QED
        BY <1>1, <1>2, <1>5, <2>1, <2>2, <2>3 DEF Kept
<1> QED
    BY <1>1, <1>2, <1>3, <1>4, <1>6, <1>7, <1>8, QuietStep

LEMMA ReadSectionsActs ==
    ASSUME Inductive, NEW p \in Runs, ReadSections(p)
    PROVE  Acts(p)
<1>1. TypeOK /\ RunInv(p) /\ pc[p] = "claims" /\ p \in Busy
    BY DEF Inductive, ReadSections, Busy
<1>2. PICK m \in VMs : m = reading[p]
    BY <1>1 DEF ReadSections, TypeOK
<1>3. /\ UNCHANGED <<vm, where, shared, quorate, def, task, outside, gone, met>>
      /\ UNCHANGED <<pc, cmd, listed, todo, applied, loose, pre, attempt, result>>
      /\ orphans' = [orphans EXCEPT ![p] = orphans[p] \ vm[m].snap]
      /\ reading' = [reading EXCEPT ![p] = None]
    BY <1>2 DEF ReadSections, pve
<1>4. TypeOK'
    BY <1>1, <1>3 DEF TypeOK
<1>5. Alone(p)
    BY <1>1, <1>3 DEF Alone, Still, TypeOK
<1>6. orphans'[p] = orphans[p] \ vm[m].snap /\ reading'[p] = None
    BY <1>1, <1>3 DEF TypeOK
<1>7. LocksFairly(p)
    BY <1>1, <1>3, StaysLocked DEF HoldsStorage
<1>8. Control(p)' /\ Frees(p)' /\ Deletes(p)' /\ applied'[p] \subseteq gone'[p]
    BY <1>1, <1>3 DEF RunInv, Control, Deletes, Frees, Honest, Arguments
<1>9. Kept(p)'
    <2>1. Held(vm, where)' = Held(vm, where) /\ \A k \in VMs : Has(vm, where, k)' = Has(vm, where, k)
        BY <1>3, HeldAfter
    <2>2. (p \in Determining)' => Volids \ Held(vm, where) \subseteq loose[p]
        BY <1>1, <1>3 DEF RunInv, Kept, Determining
    <2>3. ASSUME NEW k \in VMs, NEW v \in (Has(vm, where, k) \cap (orphans[p] \ vm[m].snap)) \ loose[p]
          PROVE  k \in todo[p]
        BY <1>1, <1>2, <2>3 DEF RunInv, Kept
    <2> QED
        BY <1>1, <1>3, <1>6, <2>1, <2>2, <2>3 DEF Kept
<1> QED
    BY <1>1, <1>3, <1>4, <1>5, <1>7, <1>8, <1>9, QuietStep

\* Once every section has been read, what is left is nobody's: the whole argument of
\* the determination comes to this step.
LEMMA DecideActs ==
    ASSUME Inductive, NEW p \in Runs, Decide(p)
    PROVE  Acts(p)
<1>1. /\ TypeOK /\ RunInv(p) /\ pc[p] = "claims" /\ p \in Busy /\ UNCHANGED pve
      /\ todo[p] = {} /\ reading[p] = None
    BY DEF Inductive, Decide, Busy
<1>2. CASE Ends(p, "unchanged") /\ cmd[p].kind = "free"
    <2>1. task[p].status # "running" /\ "unchanged" \in Results
        BY <1>1 DEF RunInv, Deletes, Control, Results
    <2> QED
        BY <1>1, <1>2, <2>1, EndsQuietly
<1>3. CASE Moves(p, "apply")
    <2>1. pc'[p] = "apply" /\ "apply" \in PCs
        BY <1>1, <1>3 DEF Moves, Goto, TypeOK, PCs
    <2>2. LocksFairly(p)
        BY <1>1, <1>3, StaysLocked DEF HoldsStorage, Moves, locals
    <2>3. Control(p)'
        BY <1>1, <1>3, <2>1 DEF RunInv, Control, Moves, locals, pve, Arguments
    <2>4. Kept(p)'
        BY <2>1 DEF Kept, Determining
    <2>5. orphans[p] \subseteq loose[p]
        <3> SUFFICES ASSUME NEW v \in orphans[p], v \notin loose[p] PROVE FALSE
            OBVIOUS
        <3>1. v \in Volids /\ p \in Determining
            BY <1>1 DEF TypeOK, Determining, RunInv, Control
        <3>2. v \in Held(vm, where)
            BY <1>1, <3>1 DEF RunInv, Kept
        <3>3. PICK m \in VMs : v \in Has(vm, where, m)
            BY <3>2 DEF Held
        <3> QED
            BY <1>1, <3>3, StorageAssumption DEF RunInv, Kept
    <2>6. Frees(p)'
        BY <1>3, <2>5 DEF Frees, Moves, locals, volumes
    <2> QED
        BY <1>1, <1>3, <2>1, <2>2, <2>3, <2>4, <2>6, MovesActs
<1> QED
    BY <1>2, <1>3 DEF Decide

-----------------------------------------------------------------------------
(* The deletes                                                             *)

LEMMA FreeActs ==
    ASSUME Inductive, NEW p \in Runs, Free(p)
    PROVE  Acts(p)
<1> DEFINE Work == [volid : Volids \cup {None}, status : {"none", "running", "ok", "failed"}]
<1>1. TypeOK /\ RunInv(p) /\ pc[p] = "apply" /\ cmd[p].kind = "free" /\ p \in Busy
    BY DEF Inductive, Free, Is, Busy
<1>2. UNCHANGED <<vm, where, shared, quorate, def, outside, gone, met>>
    BY DEF Free
<1>3. PICK v \in orphans[p] : /\ task' = [task EXCEPT ![p] = [volid |-> v, status |-> "running"]]
                              /\ Moves(p, "wait") \/ Ends(p, "unknown")
    BY DEF Free
<1>4. v \in Volids
    BY <1>1 DEF TypeOK
<1>5. /\ task' \in [Runs -> Work] /\ task'[p].volid = v /\ task'[p].status = "running"
      /\ \A q \in Runs : q # p => task'[q] = task[q]
    BY <1>1, <1>3, <1>4 DEF TypeOK
<1>6. \A q \in Runs : Records(q)
    BY <1>1, <1>2, SameRecord DEF Inductive, RunInv
<1>7. CASE Ends(p, "unknown")
    <2>1. "unknown" \in Results
        BY DEF Results
    <2> QED
        BY <1>1, <1>2, <1>4, <1>5, <1>6, <1>7, <2>1, EndsActs DEF TypeOK, VolumeMade
<1>8. CASE Moves(p, "wait")
    <2>1. /\ pc' = [pc EXCEPT ![p] = "wait"]
          /\ UNCHANGED <<cmd, listed, todo, reading, orphans, applied, loose, pre, attempt, result>>
        BY <1>8 DEF Moves, Goto, locals, volumes
    <2>2. TypeOK'
        BY <1>1, <1>2, <1>5, <2>1 DEF TypeOK
    <2>3. Alone(p) /\ pc'[p] = "wait"
        BY <1>1, <1>2, <1>5, <2>1 DEF Alone, Still, TypeOK
    <2>4. LocksFairly(p) /\ VolumeMade
        BY <1>1, <1>2, <2>1, StaysLocked DEF HoldsStorage, VolumeMade
    <2>5. Control(p)' /\ Frees(p)' /\ Honest(p)'
        BY <1>1, <1>2, <2>1, <2>3 DEF RunInv, Control, Frees, Honest, Arguments
    <2>6. Deletes(p)'
        BY <1>4, <1>5, <2>3 DEF Deletes
    <2>7. Noted(p)'
        BY <1>1, <1>2, <2>1 DEF RunInv, Noted, Goal, Content, Busy
    <2>8. Kept(p)'
        BY <2>3 DEF Kept, Determining
    <2> QED
        BY <1>6, <2>2, <2>3, <2>4, <2>5, <2>6, <2>7, <2>8 DEF Acts, RunInv
<1> QED
    BY <1>3, <1>7, <1>8

LEMMA WaitActs ==
    ASSUME Inductive, NEW p \in Runs, WaitForTask(p)
    PROVE  Acts(p)
<1>1. /\ TypeOK /\ RunInv(p) /\ pc[p] = "wait" /\ cmd[p].kind = "free" /\ p \in Busy
      /\ UNCHANGED pve
    BY DEF Inductive, WaitForTask, Busy, RunInv, Control
<1>2. CASE \E o \in {"error", "unknown"} :
              Ends(p, o) /\ (task[p].status = "running" => o = "unknown")
    <2>1. {"error", "unknown"} \subseteq Results
        BY DEF Results
    <2> QED
        BY <1>1, <1>2, <2>1, EndsQuietly
<1>3. CASE /\ task[p].status = "ok"
           /\ applied' = [applied EXCEPT ![p] = @ \cup {task[p].volid}]
           /\ orphans' = [orphans EXCEPT ![p] = @ \ {task[p].volid}]
           /\ Goto(p, "apply")
           /\ UNCHANGED <<cmd, listed, todo, reading, loose, pre, attempt, result>>
    <2>1. PICK v \in Volids : v = task[p].volid
        BY <1>1, <1>3 DEF RunInv, Deletes
    <2>2. /\ applied' = [applied EXCEPT ![p] = applied[p] \cup {v}]
          /\ orphans' = [orphans EXCEPT ![p] = orphans[p] \ {v}]
          /\ pc' = [pc EXCEPT ![p] = "apply"]
        BY <1>3, <2>1 DEF Goto
    <2>3. UNCHANGED <<vm, where, shared, quorate, def, task, outside, gone, met>>
        BY <1>1 DEF pve
    <2>4. TypeOK'
        BY <1>1, <1>3, <2>2, <2>3 DEF TypeOK
    <2>5. Alone(p)
        BY <1>1, <1>3, <2>2, <2>3 DEF Alone, Still, TypeOK
    <2>6. pc'[p] = "apply" /\ applied'[p] = applied[p] \cup {v} /\ orphans'[p] = orphans[p] \ {v}
        BY <1>1, <2>2 DEF TypeOK
    <2>7. LocksFairly(p)
        BY <1>1, <1>3, StaysLocked DEF HoldsStorage
    <2>8. applied'[p] \subseteq gone'[p]
        BY <1>1, <1>3, <2>1, <2>3, <2>6 DEF RunInv, Deletes, Honest
    <2>9. Control(p)' /\ Frees(p)' /\ Deletes(p)'
        BY <1>1, <1>3, <2>3, <2>6 DEF RunInv, Control, Deletes, Frees, Arguments
    <2>10. Kept(p)'
        BY <2>6 DEF Kept, Determining
    <2> QED
        BY <1>1, <1>3, <2>3, <2>4, <2>5, <2>7, <2>8, <2>9, <2>10, QuietStep
<1> QED
    BY <1>1, <1>2, <1>3 DEF WaitForTask

-----------------------------------------------------------------------------
(* alloc, create and set-content                                           *)

\* A run of these commands that only goes on.
LEMMA PlainMove ==
    ASSUME Inductive, NEW p \in Runs, cmd[p].kind \in {"alloc", "set"},
           pc[p] = "read", Moves(p, "apply"), UNCHANGED pve
    PROVE  Acts(p)
<1>1. TypeOK /\ RunInv(p) /\ p \in Busy /\ "apply" \in PCs
    BY DEF Inductive, Busy, PCs
<1>2. pc'[p] = "apply" /\ cmd' = cmd
    BY <1>1 DEF Moves, Goto, TypeOK, locals
<1>3. LocksFairly(p)
    BY <1>2, StaysLocked DEF HoldsStorage
<1>4. Control(p)' /\ Frees(p)'
    BY <1>1, <1>2 DEF RunInv, Control, Frees, Moves, locals, Arguments
<1>5. Kept(p)'
    BY <1>2 DEF Kept, Determining
<1> QED
    BY <1>1, <1>2, <1>3, <1>4, <1>5, MovesActs

\* One that finds nothing to do, and says so.
LEMMA NothingToDo ==
    ASSUME Inductive, NEW p \in Runs, pc[p] = "read", Goal(cmd[p], where, def),
           Ends(p, "unchanged"), UNCHANGED pve
    PROVE  Acts(p)
<1>1. task[p].status # "running" /\ "unchanged" \in Results
    BY DEF Inductive, RunInv, Deletes, Control, Results
<1>2. met[p]
    BY DEF Inductive, RunInv, Noted, Busy
<1> QED
    BY <1>1, <1>2, EndsQuietly

LEMMA ReadDefinitionActs ==
    ASSUME Inductive, NEW p \in Runs, NEW l \in {"apply", "put"}, ReadDefinition(p, l),
           UNCHANGED pve, HoldsStorage(p), pc[p] # "wait",
           cmd[p].kind \in {"create", "set"},
           l = "put" => cmd[p].kind = "set" /\ def # None
    PROVE  Acts(p)
<1>1. TypeOK /\ RunInv(p) /\ p \in Busy
    BY DEF Inductive, Busy, HoldsStorage
<1>2. /\ UNCHANGED <<vm, where, shared, quorate, def, task, outside, gone, met>>
      /\ UNCHANGED <<cmd, listed, todo, reading, orphans, applied, loose, attempt, result>>
      /\ pc' = [pc EXCEPT ![p] = l] /\ pre' = [pre EXCEPT ![p] = def]
    BY DEF ReadDefinition, Goto, volumes, pve
<1>3. TypeOK'
    BY <1>1, <1>2 DEF TypeOK
<1>4. Alone(p) /\ pc'[p] = l /\ pre'[p] = def
    BY <1>1, <1>2 DEF Alone, Still, TypeOK
<1>5. LocksFairly(p)
    BY <1>2, StaysLocked
<1>6. Control(p)' /\ Frees(p)' /\ Deletes(p)' /\ applied'[p] \subseteq gone'[p]
    <2>1. Control(p)'
        BY <1>1, <1>2, <1>4 DEF RunInv, Control, Arguments, HoldsStorage
    <2>2. Frees(p)' /\ applied'[p] \subseteq gone'[p]
        BY <1>1, <1>2 DEF RunInv, Frees, Honest
    <2>3. Deletes(p)'
        BY <1>1, <1>2, <1>4 DEF RunInv, Deletes
    <2> QED
        BY <2>1, <2>2, <2>3
<1>7. Kept(p)'
    BY <1>4 DEF Kept, Determining
<1> QED
    BY <1>1, <1>2, <1>3, <1>4, <1>5, <1>6, <1>7, QuietStep

LEMMA ReadActs ==
    ASSUME Inductive, NEW p \in Runs, AllocRead(p) \/ CreateRead(p) \/ SetRead(p) \/ SetReread(p)
    PROVE  Acts(p)
<1>1. CASE AllocRead(p)
    <2>1. CASE Ends(p, "unchanged") /\ cmd[p].arg \in Content(where)
        BY <1>1, <2>1, NothingToDo DEF AllocRead, Is, Goal
    <2>2. CASE Moves(p, "apply")
        BY <1>1, <2>2, PlainMove DEF AllocRead, Is
    <2> QED
        BY <1>1, <2>1, <2>2 DEF AllocRead
<1>2. CASE SetRead(p)
    <2>1. CASE Ends(p, "unchanged") /\ cmd[p].arg \in def.content
        BY <1>2, <2>1, NothingToDo DEF SetRead, Is, Goal
    <2>2. CASE Moves(p, "apply")
        BY <1>2, <2>2, PlainMove DEF SetRead, Is
    <2> QED
        BY <1>2, <2>1, <2>2 DEF SetRead
<1>3. CASE CreateRead(p)
    <2>1. CASE Ends(p, "unchanged") /\ def = cmd[p].arg
        BY <1>3, <2>1, NothingToDo DEF CreateRead, Is, Goal
    <2>2. CASE ReadDefinition(p, "apply")
        BY <1>3, <2>2, ReadDefinitionActs DEF CreateRead, Is, HoldsStorage
    <2> QED
        BY <1>3, <2>1, <2>2 DEF CreateRead
<1>4. CASE SetReread(p)
    BY <1>4, ReadDefinitionActs DEF SetReread, Is, HoldsStorage
<1> QED
    BY <1>1, <1>2, <1>3, <1>4

\* A write that PVE carries out: the run goes on to verify it, or ends.
LEMMA WriteActs ==
    ASSUME Inductive, NEW p \in Runs, p \in Busy, pc[p] \in {"apply", "put"},
           cmd[p].kind \in {"alloc", "create", "set"},
           Notes, vm' = vm, where' \in [Volids -> Nodes \cup {None}], def' \in Defs \cup {None},
           VolumeMade, UNCHANGED <<shared, quorate, task, outside>>,
           \/ Moves(p, "verify") /\ cmd[p].kind # "create"
           \/ Ends(p, "unknown")
           \/ Ends(p, "created") /\ Goal(cmd[p], where', def')
    PROVE  Acts(p)
<1>1. TypeOK /\ RunInv(p)
    BY DEF Inductive
<1>2. /\ \A q \in Runs : Records(q)
      /\ gone' \in [Runs -> SUBSET Volids] /\ met' \in [Runs -> BOOLEAN]
    BY <1>1, NotesRecord, NotesType
<1>3. task[p].status # "running" /\ (task[p].status # "none" => task[p].volid \in Volids)
    BY <1>1 DEF RunInv, Deletes, Control
<1>4. CASE Moves(p, "verify") /\ cmd[p].kind # "create"
    <2>1. /\ pc' = [pc EXCEPT ![p] = "verify"]
          /\ UNCHANGED <<cmd, listed, todo, reading, orphans, applied, loose, pre, attempt, result>>
        BY <1>4 DEF Moves, Goto, locals, volumes
    <2>2. TypeOK'
        BY <1>1, <1>2, <2>1 DEF TypeOK
    <2>3. Alone(p) /\ pc'[p] = "verify"
        BY <1>1, <2>1 DEF Alone, Still, TypeOK
    <2>4. LocksFairly(p)
        BY <2>1, StaysLocked DEF HoldsStorage
    <2>5. Control(p)' /\ Frees(p)'
        BY <1>1, <1>4, <2>1, <2>3 DEF RunInv, Control, Frees, Arguments
    <2>6. Deletes(p)'
        BY <1>1, <1>3, <2>1, <2>3 DEF RunInv, Deletes
    <2>7. Noted(p)'
        BY <1>2, <2>1 DEF Noted, Records, Goal, Content
    <2>8. Honest(p)'
        BY <1>1, <1>2, <2>1 DEF RunInv, Honest, Records
    <2>9. Kept(p)'
        BY <2>3 DEF Kept, Determining
    <2> QED
        BY <1>2, <2>2, <2>3, <2>4, <2>5, <2>6, <2>7, <2>8, <2>9 DEF Acts, RunInv
<1>5. CASE \E o \in {"unknown", "created"} : Ends(p, o) /\ (o = "created" => Goal(cmd[p], where', def'))
    <2>1. PICK o \in {"unknown", "created"} : Ends(p, o) /\ (o = "created" => Goal(cmd[p], where', def'))
        BY <1>5
    <2>2. o \in Results
        BY DEF Results
    <2>3. o \in {"unchanged", "allocated", "created", "added"} => met'[p]
        BY <1>2, <2>1 DEF Records
    <2> QED
        BY <1>1, <1>2, <1>3, <2>1, <2>2, <2>3, EndsActs DEF TypeOK
<1>6. CASE Ends(p, "unknown") \/ (Ends(p, "created") /\ Goal(cmd[p], where', def'))
    <2>1. CASE Ends(p, "unknown")
        BY <1>5, <2>1
    <2>2. CASE Ends(p, "created") /\ Goal(cmd[p], where', def')
        BY <1>5, <2>2
    <2> QED
        BY <1>6, <2>1, <2>2
<1> QED
    BY <1>4, <1>6

LEMMA PostActs ==
    ASSUME Inductive, NEW p \in Runs, AllocPost(p) \/ CreatePost(p) \/ Put(p)
    PROVE  Acts(p)
<1>1. TypeOK /\ RunInv(p)
    BY DEF Inductive
<1>2. CASE AllocPost(p)
    <2>1. PICK v \in Volids : v = cmd[p].arg
        BY <1>1, <1>2 DEF AllocPost, Is, RunInv, Control, Arguments
    <2>2. /\ vm' = vm /\ where[v] = None /\ where' = [where EXCEPT ![v] = Home] /\ def' = def /\ Notes
          /\ p \in Busy /\ pc[p] = "apply" /\ cmd[p].kind = "alloc"
          /\ UNCHANGED <<shared, quorate, task, outside>>
          /\ Moves(p, "verify") \/ Ends(p, "unknown")
        BY <1>2, <2>1 DEF AllocPost, Become, Notes, Is, Busy
    <2>3. where' \in [Volids -> Nodes \cup {None}] /\ def' \in Defs \cup {None}
        BY <1>1, <2>2, StorageAssumption DEF TypeOK
    <2>4. VolumeMade
        BY <2>2 DEF VolumeMade
    <2> QED
        BY <2>2, <2>3, <2>4, WriteActs
<1>3. CASE CreatePost(p)
    <2>1. cmd[p].arg \in Defs
        BY <1>1, <1>3, StorageAssumption DEF CreatePost, Is, RunInv, Control, Arguments
    <2>2. /\ vm' = vm /\ where' = where /\ def' = cmd[p].arg /\ Notes
          /\ p \in Busy /\ pc[p] = "apply" /\ cmd[p].kind = "create"
          /\ UNCHANGED <<shared, quorate, task, outside>>
          /\ Ends(p, "created") \/ Ends(p, "unknown")
        BY <1>3 DEF CreatePost, Become, Notes, Is, Busy
    <2>3. where' \in [Volids -> Nodes \cup {None}] /\ def' \in Defs \cup {None} /\ VolumeMade
        BY <1>1, <2>1, <2>2 DEF TypeOK, VolumeMade
    <2>4. Goal(cmd[p], where', def')
        BY <2>2 DEF Goal
    <2> QED
        BY <2>2, <2>3, <2>4, WriteActs
<1>4. CASE Put(p)
    <2>1. /\ vm' = vm /\ where' = where /\ def' = Written(p) /\ Notes
          /\ p \in Busy /\ pc[p] = "put" /\ cmd[p].kind = "set"
          /\ UNCHANGED <<shared, quorate, task, outside>>
          /\ Moves(p, "verify") \/ Ends(p, "unknown")
        BY <1>1, <1>4 DEF Put, Become, Notes, Busy, RunInv, Control
    <2>2. cmd[p].arg \in Types /\ def \in Defs /\ pre[p] \in Defs
        BY <1>1, <1>4, <2>1 DEF Put, RunInv, Control, Arguments, TypeOK
    <2>3. Written(p) \in Defs
        BY <2>2 DEF Written, Defs
    <2>4. where' \in [Volids -> Nodes \cup {None}] /\ def' \in Defs \cup {None} /\ VolumeMade
        BY <1>1, <2>1, <2>3 DEF TypeOK, VolumeMade
    <2> QED
        BY <2>1, <2>4, WriteActs
<1> QED
    BY <1>2, <1>3, <1>4

LEMMA PutConflictActs ==
    ASSUME Inductive, NEW p \in Runs, PutConflict(p)
    PROVE  Acts(p)
<1>1. /\ TypeOK /\ RunInv(p) /\ pc[p] = "put" /\ cmd[p].kind = "set" /\ p \in Busy
      /\ UNCHANGED pve
    BY DEF Inductive, PutConflict, Busy, RunInv, Control
<1>2. CASE LastAttempt(p) /\ Ends(p, "conflict")
    <2>1. task[p].status # "running" /\ "conflict" \in Results
        BY <1>1 DEF RunInv, Deletes, Control, Results
    <2> QED
        BY <1>1, <1>2, <2>1, EndsQuietly
<1>3. CASE /\ ~LastAttempt(p) /\ attempt' = [attempt EXCEPT ![p] = @ + 1]
           /\ Goto(p, "read") /\ UNCHANGED <<cmd, volumes, pre, result>>
    <2>1. UNCHANGED <<vm, where, shared, quorate, def, task, outside, gone, met>>
        BY <1>1 DEF pve
    <2>2. /\ UNCHANGED <<cmd, listed, todo, reading, orphans, applied, loose, pre, result>>
          /\ pc' = [pc EXCEPT ![p] = "read"] /\ attempt' = [attempt EXCEPT ![p] = attempt[p] + 1]
        BY <1>3 DEF volumes, Goto
    <2>3. attempt[p] + 1 \in 1 .. MaxConflictRetries
        BY <1>1, <1>3, StorageAssumption DEF TypeOK, LastAttempt
    <2>4. TypeOK'
        BY <1>1, <2>1, <2>2, <2>3 DEF TypeOK
    <2>5. Alone(p) /\ pc'[p] = "read"
        BY <1>1, <2>1, <2>2 DEF Alone, Still, TypeOK
    <2>6. LocksFairly(p)
        BY <1>1, <2>2, StaysLocked DEF HoldsStorage
    <2>7. Control(p)' /\ Frees(p)' /\ Deletes(p)' /\ applied'[p] \subseteq gone'[p]
        BY <1>1, <2>1, <2>2, <2>5 DEF RunInv, Control, Deletes, Frees, Honest, Arguments
    <2>8. Kept(p)'
        BY <1>1, <2>2, <2>5 DEF Kept, Determining
    <2> QED
        BY <1>1, <2>1, <2>2, <2>4, <2>5, <2>6, <2>7, <2>8, QuietStep
<1> QED
    BY <1>1, <1>2, <1>3 DEF PutConflict

-----------------------------------------------------------------------------
(* The theorems                                                            *)

LEMMA InitInductive == Init => Inductive
<1> SUFFICES ASSUME Init PROVE Inductive
    OBVIOUS
<1>1. TypeOK
    <2>1. PICK c \in Clusters : vm = c.vm /\ where = c.where /\ shared = c.shared /\ def = c.def
        BY DEF Init
    <2>2. /\ vm \in [VMs -> Guests] /\ where \in [Volids -> Nodes \cup {None}]
          /\ shared \in BOOLEAN /\ def \in Defs \cup {None}
        BY <2>1, StorageAssumption
    <2>3. task \in [Runs -> [volid : Volids \cup {None}, status : {"none", "running", "ok", "failed"}]]
        BY DEF Init, NoTask
    <2>4. cmd \in [Runs -> [kind : Kinds \cup {"none"}, target : Targets \cup {None},
                            arg : Volids \cup VMs \cup Defs \cup Types \cup {None}]]
        BY DEF Init
    <2>5. attempt \in [Runs -> 1 .. MaxConflictRetries] /\ outside \in 0 .. MaxOutside
        BY StorageAssumption DEF Init
    <2>6. listed \in [Runs -> [VMs -> Nodes \cup {None}]]
        BY DEF Init
    <2> QED
        BY <2>2, <2>3, <2>4, <2>5, <2>6 DEF Init, TypeOK, Results
<1>2. Exclusion
    BY DEF Init, Exclusion, HoldsStorage
<1>3. ASSUME NEW p \in Runs PROVE RunInv(p)
    BY DEF Init, NoTask, RunInv, Control, Deletes, Noted, Kept, Honest, Frees, Busy, Determining
<1> QED
    BY <1>1, <1>2, <1>3 DEF Inductive

LEMMA NextInductive == Inductive /\ [Next]_vars => Inductive'
<1> SUFFICES ASSUME Inductive, [Next]_vars PROVE Inductive'
    OBVIOUS
<1>1. CASE \E p \in Runs : Start(p) \/ Step(p) \/ Refuses(p) \/ Killed(p)
    <2>1. PICK p \in Runs : Start(p) \/ Step(p) \/ Refuses(p) \/ Killed(p)
        BY <1>1
    <2>2. Acts(p)
        <3>1. CASE Start(p)
            BY <3>1, StartActs
        <3>2. CASE Refuses(p) \/ Killed(p) \/ Report(p) \/ Freed(p) \/ AllocVerify(p) \/ DiffGuard(p)
            BY <3>2, OnlyEndsActs
        <3>3. CASE Lock(p) \/ List(p) \/ CheckQuorum(p) \/ Scan(p) \/ ReportScan(p) \/ ReportGuests(p)
            BY <3>3, LockActs, ListActs, CheckQuorumActs, ScanActs, ReportScanActs, ReportGuestsActs
        <3>4. CASE ReadSections(p) \/ Decide(p) \/ \E m \in VMs : ReadConfig(p, m)
            BY <3>4, ReadSectionsActs, DecideActs, ReadConfigActs
        <3>5. CASE Free(p) \/ WaitForTask(p)
            BY <3>5, FreeActs, WaitActs
        <3>6. CASE AllocRead(p) \/ CreateRead(p) \/ SetRead(p) \/ SetReread(p)
            BY <3>6, ReadActs
        <3>7. CASE AllocPost(p) \/ CreatePost(p) \/ Put(p) \/ PutConflict(p)
            BY <3>7, PostActs, PutConflictActs
        <3> QED
            BY <2>1, <3>1, <3>2, <3>3, <3>4, <3>5, <3>6, <3>7 DEF Step
    <2> QED
        BY <2>2, ActsKeep
<1>2. CASE \E p \in Runs, ok \in BOOLEAN : FreeLands(p, ok)
    BY <1>2, FreeLandsKeeps
<1>3. CASE Others
    BY <1>3, OthersKeep
<1>4. CASE UNCHANGED vars
    <2>1. TypeOK /\ WorldStep /\ UNCHANGED <<vm, where, quorate, def, task, outside, gone, met, loose>>
        BY <1>4 DEF Inductive, WorldStep, vars, pve, locals, volumes
    <2>2. ASSUME NEW q \in Runs PROVE Records(q) /\ Kept(q)' /\ Deletes(q)'
        <3>1. RunInv(q) /\ Still(q)
            BY <2>1, StillInWorld DEF Inductive
        <3>2. Records(q)
            BY <2>1, <3>1, SameRecord DEF RunInv
        <3>3. Kept(q)'
            BY <2>1, <3>1 DEF RunInv, Kept, WorldStep, Determining, Held, Has, Holds
        <3> QED
            BY <2>1, <3>1, <3>2, <3>3, DeletesKept DEF RunInv
    <2>3. Settled
        BY <2>1, <2>2 DEF Settled, TypeOK
    <2> QED
        BY <2>1, <2>2, <2>3, WorldKeeps DEF TypeOK
<1> QED
    BY <1>1, <1>2, <1>3, <1>4 DEF Next

\* No delete is under way beneath a command: its own run still holds the lock, or has
\* ended without having seen it end.
LEMMA InductiveEnough == Inductive => StorageInv /\ NeverFreesHeld
<1> SUFFICES ASSUME Inductive PROVE StorageInv /\ NeverFreesHeld
    OBVIOUS
<1>1. NoTaskUnderneath
    <2> SUFFICES ASSUME NEW p \in Runs, NEW q \in Runs, p # q, cmd[p].target = cmd[q].target,
                        HoldsStorage(q), task[p].status = "running", result[p] # "unknown"
                 PROVE  FALSE
        BY DEF NoTaskUnderneath
    <2>1. pc[p] = "wait" /\ cmd[p].kind = "free"
        BY DEF Inductive, RunInv, Deletes, Control
    <2> QED
        BY <2>1 DEF Inductive, Exclusion, HoldsStorage
<1>2. HonestReport
    BY DEF Inductive, RunInv, Honest, HonestReport
<1>3. NeverFreesHeld
    BY DEF Inductive, RunInv, Frees, NeverFreesHeld
<1> QED
    BY <1>1, <1>2, <1>3 DEF Inductive, StorageInv, RunInv

\* Storage commands, whatever VMs, cluster and web UI do: what one reports has been so,
\* and none works on a storage under a delete of its own target that was seen to start.
THEOREM StorageInvariant == Spec => []StorageInv
<1>1. Spec => []Inductive
    BY InitInductive, NextInductive, PTL DEF Spec
<1> QED
    BY <1>1, InductiveEnough, PTL

\* free-orphans deletes, and orphans reports, no volume that a VM has held all along:
\* of such a volume some VM's section is yet to be read until one is.
THEOREM HeldIsNeverFreed == Spec => []NeverFreesHeld
<1>1. Spec => []Inductive
    BY InitInductive, NextInductive, PTL DEF Spec
<1> QED
    BY <1>1, InductiveEnough, PTL

\* A write of set-content keeps what the storage's definition says when it lands: the
\* digest makes PVE refuse it otherwise.
THEOREM ContentIsKept == Spec => ContentKept
<1>1. ASSUME StorageInv, [Next]_vars, NEW p \in Runs, pc[p] = "put", def' # def,
             outside' = outside, def # None, pc'[p] # "put"
      PROVE  def'.options = def.options /\ def.content \subseteq def'.content
    <2>1. TypeOK /\ Control(p)
        BY <1>1 DEF StorageInv
    <2>2. ~Others
        BY <1>1, <2>1, StorageAssumption DEF Others, TypeOK
    <2>3. pc' # pc
        BY <1>1
    <2>4. PICK q \in Runs : Start(q) \/ Step(q) \/ Refuses(q) \/ Killed(q)
        BY <1>1, <2>2, <2>3 DEF Next, FreeLands, vars
    <2>5. Put(q) \/ CreatePost(q)
        BY <1>1, <2>4 DEF Start, Step, Refuses, Killed, Lock, List, CheckQuorum, Scan, ReportScan,
               ReportGuests, Report, ReadSections, Decide, ReadConfig, Free, WaitForTask, Freed, AllocRead,
               AllocPost, AllocVerify, CreateRead, SetRead, SetReread, PutConflict, DiffGuard, Become, pve
    <2>6. Put(q) /\ def \in Defs
        BY <1>1, <2>1, <2>5 DEF CreatePost, TypeOK
    <2>7. def' = [def EXCEPT !.content = pre[q].content \cup {cmd[q].arg}] /\ pre[q] = def
        BY <2>6 DEF Put, Become, Written
    <2> QED
        BY <2>6, <2>7 DEF Defs
<1>2. StorageInv /\ [Next]_vars =>
          [\A p \in Runs : pc[p] = "put" /\ def' # def /\ outside' = outside /\ def # None /\ pc'[p] # "put"
               => def'.options = def.options /\ def.content \subseteq def'.content]_vars
    BY <1>1
<1> QED
    BY <1>2, StorageInvariant, PTL DEF Spec, ContentKept
=============================================================================
