------------------------- MODULE MutationEngineProofs -------------------------
(***************************************************************************)
(* EngineInv is inductive, for any number of runs, rosters, keys and       *)
(* values and any number of abandoned writes.  A write is the same to every *)
(* run that did not make it (Undisturbed): its own lock keeps it out, or it *)
(* is noted; what a run's own step does is shown action by action.          *)
(***************************************************************************)
EXTENDS MutationEngine, FiniteSetTheorems, TLAPS

-----------------------------------------------------------------------------
(* Types                                                                   *)

Fits(key, value) ==
    \/ key \in Fields /\ value \in Held
    \/ key = TagKey /\ value \in SUBSET Tags

LEMMA OpSet ==
    ASSUME TypeOK, NEW p \in Runs, NEW new \in Ops, Set(p, new)
    PROVE  op' \in [Runs -> Ops] /\ op'[p] = new /\ \A q \in Runs \ {p} : op'[q] = op[q]
BY DEF TypeOK, Set

LEMMA GotoType ==
    ASSUME TypeOK, NEW p \in Runs, NEW from, NEW to, Goto(p, from, to),
           to \in {"idle", "read", "apply", "digest", "put", "ssh", "check", "done"}
    PROVE  /\ pc' \in [Runs -> {"idle", "read", "apply", "digest", "put", "ssh", "check", "done"}]
           /\ pc'[p] = to /\ \A q \in Runs \ {p} : pc'[q] = pc[q]
BY DEF TypeOK, Goto

\* What is written is a value the key may hold, and stays one.
LEMMA WrittenType ==
    ASSUME TypeOK, NEW key, NEW value, Fits(key, value), Written(key, value)
    PROVE  config' \in Configs /\ tags' \subseteq Tags /\ pending' \subseteq Keys
<1>1. key \in Keys
    BY DEF Fits, Keys
<1>2. pending' \subseteq Keys
    BY <1>1 DEF Written, TypeOK
<1>3. CASE key = TagKey
    BY <1>2, <1>3, EngineAssumption DEF Written, TypeOK, Fits, TagKey
<1>4. CASE key # TagKey
    BY <1>2, <1>4 DEF Written, TypeOK, Fits, Configs
<1> QED
    BY <1>3, <1>4

LEMMA SeenType ==
    ASSUME TypeOK, NEW key \in Keys, NEW sees, NEW beyond, SeenOutside(key, sees, beyond)
    PROVE  outside' \in [Runs -> SUBSET Keys] /\ moved' \in [Runs -> BOOLEAN]
<1>1. outside' \in [Runs -> SUBSET Keys]
    BY DEF TypeOK, SeenOutside
<1>2. moved' \in [Runs -> BOOLEAN]
    BY Zenon DEF TypeOK, SeenOutside
<1> QED
    BY <1>1, <1>2

LEMMA LandsType ==
    ASSUME TypeOK, NEW p \in Runs, NEW key, NEW value, Fits(key, value), Lands(p, key, value)
    PROVE  /\ config' \in Configs /\ tags' \subseteq Tags /\ pending' \subseteq Keys
           /\ outside' \in [Runs -> SUBSET Keys] /\ moved' \in [Runs -> BOOLEAN]
           /\ wrote' \in [Runs -> SUBSET Keys]
<1>1. key \in Keys
    BY DEF Fits, Keys
<1>2. wrote' \in [Runs -> SUBSET Keys]
    BY <1>1 DEF TypeOK, Lands
<1> QED
    BY <1>1, <1>2, WrittenType, SeenType DEF Lands

LEMMA UnansweredType ==
    ASSUME TypeOK, NEW p \in Runs, NEW key, NEW value, Fits(key, value),
           NEW guard \in Guards, Unanswered(p, key, value, guard)
    PROVE  /\ config' \in Configs /\ tags' \subseteq Tags /\ pending' \subseteq Keys
           /\ outside' \in [Runs -> SUBSET Keys] /\ moved' \in [Runs -> BOOLEAN]
           /\ wrote' \in [Runs -> SUBSET Keys]
           /\ late' \subseteq Writes /\ IsFiniteSet(late') /\ Cardinality(late') <= MaxLate
<1>1. CASE Lands(p, key, value) /\ UNCHANGED late
    BY <1>1, LandsType DEF TypeOK
<1>2. CASE Unwritten /\ UNCHANGED late
    BY <1>2 DEF TypeOK, Unwritten, history
<1>3. ASSUME Unwritten, Cardinality(late) < MaxLate,
             late' = late \cup {[key |-> key, value |-> value, guard |-> guard, by |-> p]}
      PROVE  /\ late' \subseteq Writes /\ IsFiniteSet(late') /\ Cardinality(late') <= MaxLate
    <2> DEFINE w == [key |-> key, value |-> value, guard |-> guard, by |-> p]
    <2>1. w \in Writes
        BY DEF Fits, Writes
    <2>2. IsFiniteSet(late) /\ Cardinality(late) \in Nat
        BY FS_CardinalityType DEF TypeOK
    <2>3. IsFiniteSet(late') /\ Cardinality(late') \in {Cardinality(late), Cardinality(late) + 1}
        BY <1>3, <2>2, FS_AddElement
    <2> QED
        BY <1>3, <2>1, <2>2, <2>3, EngineAssumption DEF TypeOK
<1> QED
    BY <1>1, <1>2, <1>3 DEF Unanswered, TypeOK, Unwritten, history

\* What a run is about to write is a value the key may hold.
LEMMA WantedFits ==
    ASSUME TypeOK, NEW p \in Runs, Control(p), pc[p] \in {"put", "ssh"}
    PROVE  Fits(op[p].field, Wanted(op[p]))
<1>1. op[p] \in Ops
    BY DEF TypeOK
<1>2. CASE op[p].kind = "fields"
    <2>1. op[p].field \in Requested(op[p])
        BY <1>2 DEF Control
    <2> QED
        BY <1>1, <1>2, <2>1 DEF Requested, Wanted, Fits, Ops
<1>3. CASE op[p].kind # "fields"
    <2>1. pc[p] = "put" /\ op[p].field = TagKey /\ op[p].kind = "tag" /\ op[p].tag \in Tags
        BY <1>1, <1>3 DEF Control, Ops
    <2>2. op[p].snap \in Configs \X SUBSET Tags
        BY <1>1, <2>1 DEF Control, Ops, Guards
    <2>3. op[p].snap[2] \in SUBSET Tags
        BY <2>2
    <2> QED
        BY <1>3, <2>1, <2>3 DEF Wanted, Fits
<1> QED
    BY <1>2, <1>3

\* The records a step makes of a run's own are of their type.
LEMMA OpTypes ==
    ASSUME TypeOK, NEW p \in Runs
    PROVE  /\ op[p] \in Ops /\ NoOp \in Ops
           /\ Visited(op[p]) \in Ops /\ Acknowledged(op[p]) \in Ops
           /\ Digest \in Guards /\ Digest # <<>>
<1>1. op[p] \in Ops
    BY DEF TypeOK
<1>2. NoOp \in Ops
    BY EngineAssumption DEF NoOp, Ops, Guards, Keys
<1>3. Visited(op[p]) \in Ops
    BY <1>1 DEF Visited, Ops, Guards
<1>4. Acknowledged(op[p]) \in Ops
    BY <1>1, <1>3 DEF Acknowledged, Ops
<1>5. Digest \in Guards /\ Digest # <<>>
    BY DEF Digest, Guards, TypeOK
<1> QED
    BY <1>1, <1>2, <1>3, <1>4, <1>5

\* So are the edits the steps make of such a record.
LEMMA OpEdits ==
    ASSUME NEW o \in Ops
    PROVE  /\ [o EXCEPT !.attempt = 1] \in Ops
           /\ \A want \in [Fields -> Held \cup {Keep}] :
                 [o EXCEPT !.kind = "fields", !.want = want] \in Ops
           /\ \A t \in Tags : [o EXCEPT !.kind = "tag", !.tag = t] \in Ops
           /\ \A d \in Guards, todo \in SUBSET Fields, r \in {"none", "noop"} :
                 [o EXCEPT !.snap = d, !.todo = todo, !.field = TagKey, !.result = r] \in Ops
           /\ \A a \in BOOLEAN, ns \in SUBSET Keys :
                 [o EXCEPT !.checked = a, !.notices = ns] \in Ops
<1>1. [o EXCEPT !.attempt = 1] \in Ops
    BY EngineAssumption DEF Ops
<1>2. ASSUME NEW want \in [Fields -> Held \cup {Keep}]
      PROVE  [o EXCEPT !.kind = "fields", !.want = want] \in Ops
    BY DEF Ops
<1>3. ASSUME NEW t \in Tags PROVE [o EXCEPT !.kind = "tag", !.tag = t] \in Ops
    BY DEF Ops
<1>4. ASSUME NEW d \in Guards, NEW todo \in SUBSET Fields, NEW r \in {"none", "noop"}
      PROVE  [o EXCEPT !.snap = d, !.todo = todo, !.field = TagKey, !.result = r] \in Ops
    <2>1. [o EXCEPT !.snap = d, !.todo = todo] \in Ops
        BY DEF Ops
    <2>2. \A x \in Ops : [x EXCEPT !.field = TagKey, !.result = r] \in Ops
        BY DEF Ops, Keys
    <2>3. [o EXCEPT !.snap = d, !.todo = todo, !.field = TagKey, !.result = r]
             = [[o EXCEPT !.snap = d, !.todo = todo] EXCEPT !.field = TagKey, !.result = r]
        BY DEF Ops
    <2> QED
        BY <2>1, <2>2, <2>3
<1>5. ASSUME NEW a \in BOOLEAN, NEW ns \in SUBSET Keys
      PROVE  [o EXCEPT !.checked = a, !.notices = ns] \in Ops
    BY DEF Ops
<1> QED
    BY <1>1, <1>2, <1>3, <1>4, <1>5

\* Every step keeps the types.
LEMMA TypeStep ==
    ASSUME TypeOK, \A p \in Runs : Control(p), [Next]_vars
    PROVE  TypeOK'
<1> USE OpTypes, EngineAssumption
<1>1. ASSUME NEW p \in Runs, StartFields(p) PROVE TypeOK'
    <2>1. PICK want \in [Fields -> Held \cup {Keep}] :
              Started(p, [NoOp EXCEPT !.kind = "fields", !.want = want])
        BY <1>1 DEF StartFields
    <2>2. [[NoOp EXCEPT !.kind = "fields", !.want = want] EXCEPT !.attempt = 1] \in Ops
        <3>1. [NoOp EXCEPT !.kind = "fields", !.want = want] \in Ops
            BY OpEdits
        <3> QED
            BY <3>1, OpEdits
    <2> QED
        BY <2>1, <2>2, OpSet, GotoType DEF Started, TypeOK, pve, history
<1>2. ASSUME NEW p \in Runs, StartTag(p) PROVE TypeOK'
    <2>1. PICK t \in Tags : Started(p, [NoOp EXCEPT !.kind = "tag", !.tag = t])
        BY <1>2 DEF StartTag
    <2>2. [[NoOp EXCEPT !.kind = "tag", !.tag = t] EXCEPT !.attempt = 1] \in Ops
        <3>1. [NoOp EXCEPT !.kind = "tag", !.tag = t] \in Ops
            BY OpEdits
        <3> QED
            BY <3>1, OpEdits
    <2> QED
        BY <2>1, <2>2, OpSet, GotoType DEF Started, TypeOK, pve, history
<1>3. ASSUME NEW p \in Runs, ReadsConfig(p) PROVE TypeOK'
    <2> DEFINE unmet == {f \in Requested(op[p]) : config[f] # op[p].want[f]}
    <2> DEFINE sat == IF op[p].kind = "fields" THEN unmet = {} ELSE op[p].tag \in tags
    <2> DEFINE new == [op[p] EXCEPT !.snap = Digest, !.todo = unmet, !.field = TagKey,
                                    !.result = IF sat THEN "noop" ELSE "none"]
    <2>1. unmet \in SUBSET Fields
        BY DEF Requested
    <2>2. new \in Ops
        <3>1. (IF sat THEN "noop" ELSE "none") \in {"none", "noop"}
            OBVIOUS
        <3> HIDE DEF unmet, sat
        <3> QED
            BY <2>1, <3>1, OpEdits
    <2>3. Set(p, new)
        BY <1>3 DEF ReadsConfig
    <2>4. op' \in [Runs -> Ops]
        BY <2>2, <2>3, OpSet
    <2> QED
        BY <1>3, <2>4, GotoType DEF ReadsConfig, TypeOK, pve
<1>4. ASSUME NEW p \in Runs, ReadFails(p) PROVE TypeOK'
    <2>1. [op[p] EXCEPT !.result = "failed"] \in Ops
        BY DEF Ops
    <2> QED
        BY <1>4, <2>1, OpSet, GotoType DEF ReadFails, Fails, TypeOK, pve, history
<1>5. ASSUME NEW p \in Runs, Visit(p) PROVE TypeOK'
    <2>1. PICK f \in Visitable(op[p]) :
              /\ Goto(p, "apply", IF f \in RootOnly THEN "ssh" ELSE "digest")
              /\ Set(p, [op[p] EXCEPT !.field = f])
        BY <1>5 DEF Visit
    <2>2. [op[p] EXCEPT !.field = f] \in Ops
        BY DEF Ops, Keys, Visitable
    <2> QED
        BY <1>5, <2>1, <2>2, OpSet, GotoType DEF Visit, TypeOK, pve, history
<1>6. ASSUME NEW p \in Runs, FreshDigest(p) PROVE TypeOK'
    <2>1. [op[p] EXCEPT !.snap = Digest] \in Ops
        BY DEF Ops
    <2> QED
        BY <1>6, <2>1, OpSet, GotoType DEF FreshDigest, TypeOK, pve
<1>7. ASSUME NEW p \in Runs, PutAccepted(p) PROVE TypeOK'
    BY <1>7, OpSet, GotoType, LandsType, WantedFits DEF PutAccepted, TypeOK, Goto, AfterWrite
<1>8. ASSUME NEW p \in Runs, PutConflicts(p) PROVE TypeOK'
    <2>1. [op[p] EXCEPT !.result = "failed"] \in Ops
        BY DEF Ops
    <2>2. ~LastAttempt(op[p]) => Retry(op[p]) \in Ops
        BY DEF Ops, Retry, LastAttempt
    <2> QED
        BY <1>8, <2>1, <2>2, OpSet, GotoType DEF PutConflicts, Fails, TypeOK, pve, history
<1>9. ASSUME NEW p \in Runs, PutRefusedAsRootOnly(p) PROVE TypeOK'
    <2>1. [op[p] EXCEPT !.result = "failed"] \in Ops
        BY DEF Ops
    <2> QED
        BY <1>9, <2>1, OpSet, GotoType DEF PutRefusedAsRootOnly, Fails, TypeOK, pve, history
<1>10. ASSUME NEW p \in Runs, PutUnanswered(p) \/ QmSetUnanswered(p) PROVE TypeOK'
    <2>1. [op[p] EXCEPT !.result = "failed"] \in Ops
        BY DEF Ops
    <2>2. Fits(op[p].field, Wanted(op[p]))
        BY <1>10, WantedFits DEF PutUnanswered, QmSetUnanswered, Fails, Goto
    <2>3. <<>> \in Guards /\ op[p].snap \in Guards
        BY DEF Guards, Ops
    <2> QED
        BY <1>10, <2>1, <2>2, <2>3, OpSet, GotoType, UnansweredType
        DEF PutUnanswered, QmSetUnanswered, Fails, TypeOK
<1>11. ASSUME NEW p \in Runs, QmSet(p) PROVE TypeOK'
    BY <1>11, OpSet, GotoType, LandsType, WantedFits DEF QmSet, TypeOK, Goto
<1>12. ASSUME NEW p \in Runs, Applied(p) PROVE TypeOK'
    <2>1. [op[p] EXCEPT !.result = "changed"] \in Ops
        BY DEF Ops
    <2> QED
        BY <1>12, <2>1, OpSet, GotoType DEF Applied, TypeOK, pve, history
<1>13. ASSUME NEW p \in Runs, PostCheck(p) PROVE TypeOK'
    <2>1. PICK answered \in BOOLEAN :
              Set(p, [op[p] EXCEPT !.checked = answered,
                                   !.notices = IF answered THEN Notices(op[p]) ELSE {}])
        BY <1>13 DEF PostCheck
    <2>2. Notices(op[p]) \subseteq Keys
        BY DEF Notices, Requested, Keys
    <2>3. [op[p] EXCEPT !.checked = answered,
                        !.notices = IF answered THEN Notices(op[p]) ELSE {}] \in Ops
        BY <2>2, OpEdits
    <2> QED
        BY <1>13, <2>1, <2>3, OpSet, GotoType DEF PostCheck, TypeOK, pve, history
<1>14. ASSUME NEW p \in Runs, Finish(p) PROVE TypeOK'
    BY <1>14, OpSet, GotoType DEF Finish, Forget, TypeOK, pve
<1>15. ASSUME NEW p \in Runs, Crash(p) PROVE TypeOK'
    BY <1>15, OpSet DEF Crash, Forget, TypeOK, pve
<1>16. ASSUME LateWrite PROVE TypeOK'
    <2>1. PICK w \in late :
              /\ late' = late \ {w}
              /\ \/ /\ Written(w.key, w.value)
                    /\ SeenOutside(w.key, Runs, Runs \ SameLock(w.by))
                 \/ UNCHANGED <<config, tags, pending, outside, moved>>
        BY <1>16 DEF LateWrite
    <2>2. Fits(w.key, w.value) /\ w.key \in Keys
        BY DEF TypeOK, Writes, Fits, Keys
    <2>3. IsFiniteSet(late') /\ Cardinality(late') <= MaxLate
        <3>1. IsFiniteSet(late) /\ Cardinality(late) \in Nat /\ Cardinality(late) <= MaxLate
            BY FS_CardinalityType DEF TypeOK
        <3>2. IsFiniteSet(late') /\ Cardinality(late') = Cardinality(late) - 1
            BY <2>1, <3>1, FS_RemoveElement
        <3> QED
            BY <3>1, <3>2
    <2> QED
        BY <1>16, <2>1, <2>2, <2>3, WrittenType, SeenType DEF LateWrite, TypeOK
<1>17. ASSUME GuiEdits PROVE TypeOK'
    <2>1. PICK key, value : Fits(key, value) /\ Written(key, value) /\ SeenOutside(key, Runs, Runs)
        BY <1>17 DEF GuiEdits, Fits
    <2>2. key \in Keys
        BY <2>1 DEF Fits, Keys
    <2> QED
        BY <1>17, <2>1, <2>2, WrittenType, SeenType DEF GuiEdits, TypeOK
<1>18. CASE Boot
    BY <1>18 DEF Boot, TypeOK, history
<1>19. CASE UNCHANGED vars
    BY <1>19 DEF vars, TypeOK
<1> QED
    BY <1>1, <1>2, <1>3, <1>4, <1>5, <1>6, <1>7, <1>8, <1>9, <1>10, <1>11, <1>12, <1>13,
       <1>14, <1>15, <1>16, <1>17, <1>18, <1>19 DEF Next, RunStep

-----------------------------------------------------------------------------
(* What a write is to the run that makes it, and to the others             *)

\* The run's own history does not count its own writes as somebody else's.
LEMMA LandsOwn ==
    ASSUME TypeOK, NEW p \in Runs, NEW key, NEW value, Fits(key, value), Lands(p, key, value)
    PROVE  /\ outside'[p] = outside[p]
           /\ wrote'[p] = wrote[p] \cup {key}
           /\ key \in Fields => /\ config'[key] = value /\ tags' = tags
                                /\ \A f \in Fields \ {key} : config'[f] = config[f]
           /\ key = TagKey => tags' = value /\ config' = config
<1>1. p \in SameLock(p)
    BY DEF SameLock
<1>2. outside'[p] = outside[p]
    BY <1>1 DEF Lands, SeenOutside, TypeOK
<1>3. wrote'[p] = wrote[p] \cup {key}
    BY DEF Lands, TypeOK
<1> QED
    BY <1>2, <1>3, EngineAssumption DEF Lands, Written, Fits, TagKey, TypeOK, Configs

\* A run that is under way keeps its own state, and whatever changed in the
\* config is noted in its history.
Undisturbed(q) ==
    /\ pc'[q] = pc[q] /\ op'[q] = op[q] /\ wrote'[q] = wrote[q]
    /\ pc[q] # "idle" =>
          /\ outside[q] \subseteq outside'[q]
          /\ moved[q] => moved'[q]
          /\ \A f \in Fields : config'[f] = config[f] \/ f \in outside'[q]
          /\ tags' = tags \/ TagKey \in outside'[q]
          /\ pending' \subseteq pending \cup outside'[q]
          /\ Digest' = Digest \/ outside'[q] # {}

LEMMA UndisturbedKeeps ==
    ASSUME TypeOK, NEW q \in Runs, RunInv(q), Undisturbed(q)
    PROVE  RunInv(q)'
<1>1. CASE pc[q] = "idle"
    BY <1>1 DEF RunInv, Undisturbed, Control, VisitedHold, Accounted, DigestFresh, Noticed,
                Succeeded, Requested
<1>2. CASE pc[q] # "idle"
    <2>1. Requested(op'[q]) = Requested(op[q]) /\ Requested(op[q]) \subseteq Fields
        BY DEF Undisturbed, Requested
    <2>2. Control(q)'
        BY <1>2, <2>1 DEF RunInv, Undisturbed, Control
    <2>3. VisitedHold(q)'
        BY <1>2, <2>1 DEF RunInv, Undisturbed, VisitedHold, HoldsOf
    <2>4. Accounted(q)' /\ DigestFresh(q)'
        BY <1>2 DEF RunInv, Undisturbed, Accounted, DigestFresh
    <2>5. Noticed(q)'
        BY <1>2, <2>1 DEF RunInv, Undisturbed, Noticed, Succeeded
    <2> QED
        BY <2>2, <2>3, <2>4, <2>5 DEF RunInv
<1> QED
    BY <1>1, <1>2

\* A write that q is told of leaves it undisturbed.
LEMMA WriteNoted ==
    ASSUME TypeOK, NEW key, NEW value, Fits(key, value), Written(key, value),
           NEW sees, NEW beyond, SeenOutside(key, sees, beyond),
           NEW q \in Runs, q \in sees \/ pc[q] = "idle",
           pc'[q] = pc[q], op'[q] = op[q], wrote'[q] = wrote[q]
    PROVE  Undisturbed(q)
<1>1. CASE pc[q] = "idle"
    BY <1>1 DEF Undisturbed
<1>2. CASE pc[q] # "idle"
    <2>1. outside'[q] = outside[q] \cup {key}
        BY <1>2 DEF SeenOutside, TypeOK
    <2>2. moved[q] => moved'[q]
        BY DEF SeenOutside, TypeOK
    <2>3. /\ \A f \in Fields : config'[f] = config[f] \/ f = key
          /\ tags' = tags \/ key = TagKey
          /\ pending' \subseteq pending \cup {key}
        BY DEF Written, TypeOK, Configs
    <2> QED
        BY <1>2, <2>1, <2>2, <2>3 DEF Undisturbed
<1> QED
    BY <1>1, <1>2

\* A write of p is one to every other run: its own lock keeps q idle.
LEMMA LandsNoted ==
    ASSUME TypeOK, Exclusion, NEW p \in Runs, NEW key, NEW value, Fits(key, value),
           Lands(p, key, value), pc[p] # "idle", NEW q \in Runs \ {p},
           pc'[q] = pc[q], op'[q] = op[q]
    PROVE  Undisturbed(q)
<1>1. wrote'[q] = wrote[q]
    BY DEF Lands, TypeOK
<1>2. q \in Runs \ SameLock(p) \/ pc[q] = "idle"
    BY DEF Exclusion, SameLock
<1> QED
    BY <1>1, <1>2, WriteNoted DEF Lands

\* Without a write nothing is disturbed.
LEMMA NothingWritten ==
    ASSUME NEW q \in Runs, UNCHANGED <<config, tags>>, pending' \subseteq pending,
           outside'[q] = outside[q], moved'[q] = moved[q], wrote'[q] = wrote[q],
           pc'[q] = pc[q], op'[q] = op[q]
    PROVE  Undisturbed(q)
BY DEF Undisturbed, Digest

\* A step of p disturbs no other run.
LEMMA OthersUndisturbed ==
    ASSUME TypeOK, Exclusion, NEW p \in Runs, Control(p), NEW q \in Runs \ {p},
           StartFields(p) \/ StartTag(p) \/ RunStep(p) \/ Crash(p)
    PROVE  Undisturbed(q)
<1>1. CASE StartFields(p) \/ StartTag(p)
    BY <1>1, NothingWritten DEF StartFields, StartTag, Started, Goto, Set, pve, history, TypeOK
<1>2. CASE ReadsConfig(p)
    BY <1>2, NothingWritten DEF ReadsConfig, Goto, Set, pve, TypeOK
<1>3. CASE ReadFails(p) \/ Visit(p) \/ Applied(p) \/ PostCheck(p)
    BY <1>3, NothingWritten
    DEF ReadFails, Fails, Visit, Applied, PostCheck, Goto, Set, pve, history, TypeOK
<1>4. CASE FreshDigest(p)
    BY <1>4, NothingWritten DEF FreshDigest, Goto, Set, pve, TypeOK
<1>5. CASE PutAccepted(p) \/ QmSet(p)
    BY <1>5, LandsNoted, WantedFits DEF PutAccepted, QmSet, Goto, Set, TypeOK
<1>6. CASE PutConflicts(p) \/ PutRefusedAsRootOnly(p)
    BY <1>6, NothingWritten
    DEF PutConflicts, PutRefusedAsRootOnly, Fails, Goto, Set, pve, history, TypeOK
<1>7. CASE PutUnanswered(p) \/ QmSetUnanswered(p)
    <2>1. /\ pc[p] \in {"put", "ssh"} /\ pc'[q] = pc[q] /\ op'[q] = op[q]
          /\ Unwritten \/ Lands(p, op[p].field, Wanted(op[p]))
        BY <1>7 DEF PutUnanswered, QmSetUnanswered, Unanswered, Fails, Goto, Set, TypeOK
    <2>2. CASE Unwritten
        BY <2>1, <2>2, NothingWritten DEF Unwritten, history
    <2> QED
        BY <2>1, <2>2, LandsNoted, WantedFits
<1>8. CASE Finish(p) \/ Crash(p)
    BY <1>8, NothingWritten DEF Finish, Crash, Forget, Goto, Set, pve, TypeOK
<1> QED
    BY <1>1, <1>2, <1>3, <1>4, <1>5, <1>6, <1>7, <1>8 DEF RunStep

\* Nor does what happens outside the runs.
LEMMA WorldUndisturbed ==
    ASSUME TypeOK, LateWrite \/ GuiEdits \/ Boot, NEW q \in Runs
    PROVE  Undisturbed(q)
<1>1. CASE LateWrite
    <2>1. PICK w \in late :
              \/ /\ Written(w.key, w.value)
                 /\ SeenOutside(w.key, Runs, Runs \ SameLock(w.by))
              \/ UNCHANGED <<config, tags, pending, outside, moved>>
        BY <1>1 DEF LateWrite
    <2>2. Fits(w.key, w.value)
        BY DEF TypeOK, Writes, Fits
    <2> QED
        BY <1>1, <2>1, <2>2, WriteNoted, NothingWritten DEF LateWrite
<1>2. CASE GuiEdits
    <2>1. PICK key, value : Fits(key, value) /\ Written(key, value) /\ SeenOutside(key, Runs, Runs)
        BY <1>2 DEF GuiEdits, Fits
    <2> QED
        BY <1>2, <2>1, WriteNoted DEF GuiEdits
<1>3. CASE Boot
    BY <1>3, NothingWritten DEF Boot, history
<1> QED
    BY <1>1, <1>2, <1>3

-----------------------------------------------------------------------------
(* A run's own steps                                                       *)

\* Starting, and being done.
LEMMA StartInv ==
    ASSUME TypeOK, NEW p \in Runs, RunInv(p), StartFields(p) \/ StartTag(p)
    PROVE  RunInv(p)'
<1>1. NoOp.applied = {} /\ NoOp.todo = {} /\ NoOp.result = "none" /\ NoOp.field = TagKey
    BY DEF NoOp
<1>2. pc[p] = "idle" /\ pc'[p] = "read" /\ wrote'[p] = wrote[p] /\ wrote[p] = {}
    BY DEF StartFields, StartTag, Started, Goto, TypeOK, history, RunInv, Control
<1>3. CASE StartFields(p)
    <2>1. PICK want \in [Fields -> Held \cup {Keep}] :
              Started(p, [NoOp EXCEPT !.kind = "fields", !.want = want])
        BY <1>3 DEF StartFields
    <2>2. op'[p] = [NoOp EXCEPT !.kind = "fields", !.want = want, !.attempt = 1]
        BY <2>1 DEF Started, Set, TypeOK, NoOp
    <2>3. /\ op'[p].kind = "fields" /\ op'[p].attempt = 1 /\ op'[p].todo = {}
          /\ op'[p].result = "none" /\ op'[p].applied = {}
        BY <2>2 DEF NoOp
    <2> QED
        BY <1>2, <2>3 DEF RunInv, Control, VisitedHold, Accounted, DigestFresh, Noticed, Succeeded
<1>4. CASE StartTag(p)
    <2>1. PICK t \in Tags : Started(p, [NoOp EXCEPT !.kind = "tag", !.tag = t])
        BY <1>4 DEF StartTag
    <2>2. op'[p] = [NoOp EXCEPT !.kind = "tag", !.tag = t, !.attempt = 1]
        BY <2>1 DEF Started, Set, TypeOK, NoOp
    <2>3. /\ op'[p].kind = "tag" /\ op'[p].attempt = 1 /\ op'[p].todo = {} /\ op'[p].tag \in Tags
          /\ op'[p].result = "none" /\ op'[p].applied = {} /\ op'[p].field = TagKey
          /\ op'[p].want = [f \in Fields |-> Keep]
        BY <2>2 DEF NoOp
    <2>4. Requested(op'[p]) = {}
        BY <2>3 DEF Requested
    <2> QED
        BY <1>2, <2>3, <2>4
        DEF RunInv, Control, VisitedHold, Accounted, DigestFresh, Noticed, Succeeded
<1> QED
    BY <1>3, <1>4

LEMMA EndInv ==
    ASSUME TypeOK, NEW p \in Runs, Finish(p) \/ Crash(p)
    PROVE  RunInv(p)'
<1>1. op'[p] = NoOp /\ pc'[p] = "idle" /\ wrote'[p] = {}
    BY DEF Finish, Crash, Forget, Goto, Set, TypeOK
<1>2. /\ NoOp.applied = {} /\ NoOp.todo = {} /\ NoOp.result = "none" /\ NoOp.field = TagKey
      /\ NoOp.kind = "none" /\ NoOp.want = [f \in Fields |-> Keep]
    BY DEF NoOp
<1>3. Requested(NoOp) = {}
    BY <1>2 DEF Requested
<1> QED
    BY <1>1, <1>2, <1>3
    DEF RunInv, Control, VisitedHold, Accounted, DigestFresh, Noticed, Succeeded

\* A run that fails promises nothing, whatever became of its last write.
LEMMA FailInv ==
    ASSUME TypeOK, NEW p \in Runs, RunInv(p), NEW from, from # "idle", Fails(p, from)
    PROVE  RunInv(p)'
<1>1. op[p] \in Ops
    BY DEF TypeOK
<1>2. /\ op'[p] = [op[p] EXCEPT !.result = "failed"]
      /\ pc[p] # "idle" /\ pc'[p] = "done"
    BY DEF Fails, Goto, Set, TypeOK
<1>3. /\ op'[p].result = "failed" /\ op'[p].kind = op[p].kind /\ op'[p].field = op[p].field
      /\ op'[p].tag = op[p].tag /\ op'[p].todo = op[p].todo /\ op'[p].attempt = op[p].attempt
      /\ op'[p].want = op[p].want
    BY <1>1, <1>2 DEF Ops
<1>4. Requested(op'[p]) = Requested(op[p])
    BY <1>3 DEF Requested
<1> QED
    BY <1>2, <1>3, <1>4
    DEF RunInv, Control, VisitedHold, Accounted, DigestFresh, Noticed, Succeeded

\* Read: what does not hold is to be visited.
LEMMA ReadInv ==
    ASSUME TypeOK, NEW p \in Runs, RunInv(p), ReadsConfig(p)
    PROVE  RunInv(p)'
<1> DEFINE unmet == {f \in Requested(op[p]) : config[f] # op[p].want[f]}
           sat == IF op[p].kind = "fields" THEN unmet = {} ELSE op[p].tag \in tags
<1>1. op[p] \in Ops /\ Digest # <<>>
    BY OpTypes DEF TypeOK
<1>2. op'[p] = [op[p] EXCEPT !.snap = Digest, !.todo = unmet, !.field = TagKey,
                             !.result = IF sat THEN "noop" ELSE "none"]
    BY DEF ReadsConfig, Set, TypeOK
<1>3. /\ op'[p].snap = Digest /\ op'[p].todo = unmet /\ op'[p].field = TagKey
      /\ op'[p].result = IF sat THEN "noop" ELSE "none"
      /\ op'[p].kind = op[p].kind /\ op'[p].tag = op[p].tag /\ op'[p].want = op[p].want
      /\ op'[p].attempt = op[p].attempt /\ op'[p].applied = op[p].applied
    <2> HIDE DEF unmet, sat
    <2> QED
        BY <1>1, <1>2 DEF Ops
<1>4. Requested(op'[p]) = Requested(op[p]) /\ Digest' = Digest
    BY <1>3 DEF Requested, ReadsConfig, pve, Digest
<1>5. /\ pc[p] = "read" /\ UNCHANGED <<config, tags>> /\ wrote'[p] = wrote[p]
      /\ pc'[p] = IF sat THEN "check" ELSE IF op[p].kind = "fields" THEN "apply" ELSE "put"
    BY DEF ReadsConfig, Goto, pve, TypeOK
<1>6. \A f \in Requested(op[p]) \ unmet : config[f] = op[p].want[f]
    OBVIOUS
<1>7. sat => /\ \A f \in Requested(op[p]) : config[f] = op[p].want[f]
             /\ op[p].kind = "tag" => op[p].tag \in tags
    <2>1. op[p].kind # "fields" => Requested(op[p]) = {}
        BY DEF RunInv, Control
    <2> QED
        BY <2>1
<1>8. unmet \subseteq Requested(op[p])
    OBVIOUS
<1> HIDE DEF unmet, sat
<1>9. Control(p)'
    BY <1>1, <1>3, <1>4, <1>5, <1>8 DEF RunInv, Control
<1>10. VisitedHold(p)'
    BY <1>3, <1>4, <1>5, <1>6, <1>7 DEF VisitedHold, HoldsOf
<1>11. Accounted(p)' /\ DigestFresh(p)' /\ Noticed(p)'
    BY <1>3, <1>4, <1>5 DEF RunInv, Control, Accounted, DigestFresh, Noticed, Succeeded
<1> QED
    BY <1>9, <1>10, <1>11 DEF RunInv

LEMMA VisitInv ==
    ASSUME TypeOK, NEW p \in Runs, RunInv(p), Visit(p)
    PROVE  RunInv(p)'
<1>1. op[p] \in Ops
    BY DEF TypeOK
<1>2. PICK f \in Visitable(op[p]) :
          /\ Goto(p, "apply", IF f \in RootOnly THEN "ssh" ELSE "digest")
          /\ Set(p, [op[p] EXCEPT !.field = f])
    BY DEF Visit
<1>3. f \in op[p].todo
    BY DEF Visitable
<1>4. /\ op'[p].field = f /\ op'[p].todo = op[p].todo /\ op'[p].kind = op[p].kind
      /\ op'[p].want = op[p].want /\ op'[p].tag = op[p].tag /\ op'[p].attempt = op[p].attempt
      /\ op'[p].result = op[p].result /\ op'[p].applied = op[p].applied
    BY <1>1, <1>2 DEF Ops, Set, TypeOK
<1>5. Requested(op'[p]) = Requested(op[p])
    BY <1>4 DEF Requested
<1>6. pc[p] = "apply" /\ pc'[p] \in {"ssh", "digest"} /\ UNCHANGED <<config, tags, outside, wrote>>
    BY <1>2 DEF Visit, Goto, pve, history, TypeOK
<1> QED
    BY <1>3, <1>4, <1>5, <1>6
    DEF RunInv, Control, VisitedHold, HoldsOf, Accounted, DigestFresh, Noticed, Succeeded

\* A key that is done with holds, whether it was written or was gone already.
LEMMA VisitedFields ==
    ASSUME TypeOK, NEW p \in Runs
    PROVE  /\ Visited(op[p]).todo = op[p].todo \ {op[p].field}
           /\ Visited(op[p]).kind = op[p].kind /\ Visited(op[p]).want = op[p].want
           /\ Visited(op[p]).tag = op[p].tag /\ Visited(op[p]).attempt = op[p].attempt
           /\ Visited(op[p]).field = op[p].field
           /\ Visited(op[p]).result = op[p].result /\ Visited(op[p]).applied = op[p].applied
           /\ Acknowledged(op[p]).todo = op[p].todo \ {op[p].field}
           /\ Acknowledged(op[p]).kind = op[p].kind /\ Acknowledged(op[p]).want = op[p].want
           /\ Acknowledged(op[p]).tag = op[p].tag /\ Acknowledged(op[p]).attempt = op[p].attempt
           /\ Acknowledged(op[p]).field = op[p].field
           /\ Acknowledged(op[p]).result = IF op[p].kind = "tag" THEN "changed" ELSE op[p].result
           /\ Acknowledged(op[p]).applied = op[p].applied \cup {op[p].field}
           /\ Requested(Visited(op[p])) = Requested(op[p])
           /\ Requested(Acknowledged(op[p])) = Requested(op[p])
<1>1. op[p] \in Ops
    BY DEF TypeOK
<1>2. /\ Visited(op[p]) \in Ops
      /\ Visited(op[p]).todo = op[p].todo \ {op[p].field}
      /\ Visited(op[p]).kind = op[p].kind /\ Visited(op[p]).want = op[p].want
      /\ Visited(op[p]).tag = op[p].tag /\ Visited(op[p]).attempt = op[p].attempt
      /\ Visited(op[p]).field = op[p].field
      /\ Visited(op[p]).result = op[p].result /\ Visited(op[p]).applied = op[p].applied
    BY <1>1, OpTypes DEF Visited, Ops
<1>3. /\ Acknowledged(op[p]).todo = op[p].todo \ {op[p].field}
      /\ Acknowledged(op[p]).kind = op[p].kind /\ Acknowledged(op[p]).want = op[p].want
      /\ Acknowledged(op[p]).tag = op[p].tag /\ Acknowledged(op[p]).attempt = op[p].attempt
      /\ Acknowledged(op[p]).field = op[p].field
      /\ Acknowledged(op[p]).result = IF op[p].kind = "tag" THEN "changed" ELSE op[p].result
      /\ Acknowledged(op[p]).applied = op[p].applied \cup {op[p].field}
    BY <1>2 DEF Acknowledged, Ops
<1> QED
    BY <1>2, <1>3 DEF Requested

LEMMA FreshDigestInv ==
    ASSUME TypeOK, NEW p \in Runs, RunInv(p), FreshDigest(p)
    PROVE  RunInv(p)'
<1>1. op[p] \in Ops /\ Digest # <<>>
    BY OpTypes DEF TypeOK
<1>2. /\ pc[p] = "digest" /\ op[p].kind = "fields" /\ op[p].field \in op[p].todo
      /\ UNCHANGED <<config, tags, outside, wrote>> /\ Digest' = Digest
    BY DEF FreshDigest, Goto, pve, RunInv, Control, Digest
<1>3. ASSUME Goto(p, "digest", "apply"), op[p].want[op[p].field] = Absent,
             config[op[p].field] = Absent, Set(p, Visited(op[p]))
      PROVE  RunInv(p)'
    <2>1. op'[p] = Visited(op[p]) /\ pc'[p] = "apply"
        BY <1>3 DEF Set, Goto, TypeOK
    <2> QED
        BY <1>2, <1>3, <2>1, VisitedFields
        DEF RunInv, Control, VisitedHold, HoldsOf, Accounted, DigestFresh, Noticed, Succeeded
<1>4. ASSUME Goto(p, "digest", "put"), Set(p, [op[p] EXCEPT !.snap = Digest])
      PROVE  RunInv(p)'
    <2>1. op'[p] = [op[p] EXCEPT !.snap = Digest] /\ pc'[p] = "put"
        BY <1>4 DEF Set, Goto, TypeOK
    <2>2. /\ op'[p].snap = Digest /\ op'[p].todo = op[p].todo /\ op'[p].field = op[p].field
          /\ op'[p].kind = op[p].kind /\ op'[p].want = op[p].want /\ op'[p].tag = op[p].tag
          /\ op'[p].attempt = op[p].attempt
          /\ op'[p].result = op[p].result /\ op'[p].applied = op[p].applied
        BY <1>1, <2>1 DEF Ops
    <2>3. Requested(op'[p]) = Requested(op[p])
        BY <2>2 DEF Requested
    <2> QED
        BY <1>1, <1>2, <2>1, <2>2, <2>3
        DEF RunInv, Control, VisitedHold, HoldsOf, Accounted, DigestFresh, Noticed, Succeeded
<1> QED
    BY <1>3, <1>4 DEF FreshDigest

\* A write that was answered: its key holds, and is reported.
LEMMA WriteInv ==
    ASSUME TypeOK, NEW p \in Runs, RunInv(p), PutAccepted(p) \/ QmSet(p)
    PROVE  RunInv(p)'
<1>1. op[p] \in Ops
    BY DEF TypeOK
<1>2. /\ op'[p] = Acknowledged(op[p]) /\ pc[p] \in {"put", "ssh"}
      /\ pc'[p] = IF op[p].kind = "fields" THEN "apply" ELSE "check"
      /\ Lands(p, op[p].field, Wanted(op[p]))
    BY DEF PutAccepted, QmSet, Goto, Set, TypeOK, AfterWrite, RunInv, Control
<1>3. Fits(op[p].field, Wanted(op[p]))
    BY <1>2, WantedFits DEF RunInv
<1>4. outside'[p] = outside[p] /\ wrote'[p] = wrote[p] \cup {op[p].field}
    BY <1>2, <1>3, LandsOwn
<1>5. CASE op[p].kind = "fields"
    <2>1. op[p].field \in op[p].todo /\ op[p].todo \subseteq Fields
        BY <1>1, <1>2, <1>5 DEF RunInv, Control, Ops
    <2>2. /\ config'[op[p].field] = op[p].want[op[p].field]
          /\ \A f \in Fields \ {op[p].field} : config'[f] = config[f]
        BY <1>2, <1>3, <1>5, <2>1, LandsOwn DEF Wanted
    <2>3. Requested(op[p]) \subseteq Fields
        BY DEF Requested
    <2>4. VisitedHold(p)'
        BY <1>2, <1>4, <1>5, <2>2, <2>3, VisitedFields DEF RunInv, VisitedHold, HoldsOf
    <2> QED
        BY <1>2, <1>4, <1>5, <2>1, <2>4, VisitedFields
        DEF RunInv, Control, Accounted, DigestFresh, Noticed, Succeeded
<1>6. CASE op[p].kind # "fields"
    <2>1. op[p].kind = "tag" /\ op[p].field = TagKey /\ Requested(op[p]) = {}
        BY <1>1, <1>2, <1>6 DEF RunInv, Control, Ops
    <2>2. op[p].tag \in tags'
        BY <1>2, <1>3, <2>1, LandsOwn DEF Wanted
    <2>3. VisitedHold(p)'
        BY <1>2, <2>1, <2>2, VisitedFields DEF VisitedHold
    <2> QED
        BY <1>2, <1>4, <2>1, <2>3, VisitedFields
        DEF RunInv, Control, Accounted, DigestFresh, Noticed, Succeeded
<1> QED
    BY <1>5, <1>6

LEMMA ConflictInv ==
    ASSUME TypeOK, NEW p \in Runs, RunInv(p), PutConflicts(p)
    PROVE  RunInv(p)'
<1>1. op[p] \in Ops
    BY DEF TypeOK
<1>2. CASE Fails(p, "put")
    BY <1>2, FailInv
<1>3. CASE Goto(p, "put", "read") /\ Set(p, Retry(op[p]))
    <2>1. op'[p] = Retry(op[p]) /\ pc[p] = "put" /\ pc'[p] = "read" /\ UNCHANGED wrote
        BY <1>3 DEF Set, Goto, TypeOK, PutConflicts, history
    <2>2. /\ op'[p].attempt = op[p].attempt + 1 /\ op'[p].todo = op[p].todo
          /\ op'[p].field = op[p].field /\ op'[p].kind = op[p].kind /\ op'[p].tag = op[p].tag
          /\ op'[p].want = op[p].want /\ op'[p].result = op[p].result
          /\ op'[p].applied = op[p].applied
        BY <1>1, <2>1 DEF Retry, Ops
    <2>3. Requested(op'[p]) = Requested(op[p])
        BY <2>2 DEF Requested
    <2>4. op'[p].attempt > 0
        BY <1>1, <2>2 DEF Ops
    <2> QED
        BY <2>1, <2>2, <2>3, <2>4
        DEF RunInv, Control, VisitedHold, Accounted, DigestFresh, Noticed, Succeeded
<1> QED
    BY <1>2, <1>3 DEF PutConflicts

LEMMA RefusedInv ==
    ASSUME TypeOK, NEW p \in Runs, RunInv(p), PutRefusedAsRootOnly(p)
    PROVE  RunInv(p)'
<1>1. CASE Fails(p, "put")
    BY <1>1, FailInv
<1>2. CASE Goto(p, "put", "ssh") /\ UNCHANGED op
    <2>1. op[p].kind = "fields"
        BY EngineAssumption DEF PutRefusedAsRootOnly, RunInv, Control, TagKey
    <2> QED
        BY <1>2, <2>1
        DEF PutRefusedAsRootOnly, pve, history, Goto, TypeOK, RunInv, Control, VisitedHold,
            HoldsOf, Accounted, DigestFresh, Noticed, Succeeded
<1> QED
    BY <1>1, <1>2 DEF PutRefusedAsRootOnly

LEMMA AppliedInv ==
    ASSUME TypeOK, NEW p \in Runs, RunInv(p), Applied(p)
    PROVE  RunInv(p)'
<1>1. op[p] \in Ops
    BY DEF TypeOK
<1>2. /\ op'[p] = [op[p] EXCEPT !.result = "changed"] /\ op[p].todo = {}
      /\ pc[p] = "apply" /\ pc'[p] = "check" /\ UNCHANGED <<config, tags, outside, wrote>>
    BY DEF Applied, Set, Goto, TypeOK, pve, history
<1>3. /\ op'[p].result = "changed" /\ op'[p].kind = op[p].kind /\ op'[p].field = op[p].field
      /\ op'[p].tag = op[p].tag /\ op'[p].todo = op[p].todo /\ op'[p].attempt = op[p].attempt
      /\ op'[p].want = op[p].want /\ op'[p].applied = op[p].applied
    BY <1>1, <1>2 DEF Ops
<1>4. Requested(op'[p]) = Requested(op[p])
    BY <1>3 DEF Requested
<1> QED
    BY <1>2, <1>3, <1>4
    DEF RunInv, Control, VisitedHold, HoldsOf, Accounted, DigestFresh, Noticed, Succeeded

\* The notices name what is pending when they are asked for.
LEMMA PostCheckInv ==
    ASSUME TypeOK, NEW p \in Runs, RunInv(p), PostCheck(p)
    PROVE  RunInv(p)'
<1>1. op[p] \in Ops
    BY DEF TypeOK
<1>2. PICK answered \in BOOLEAN :
          Set(p, [op[p] EXCEPT !.checked = answered,
                               !.notices = IF answered THEN Notices(op[p]) ELSE {}])
    BY DEF PostCheck
<1>3. /\ op'[p].checked = answered
      /\ op'[p].notices = IF answered THEN Notices(op[p]) ELSE {}
      /\ op'[p].result = op[p].result /\ op'[p].kind = op[p].kind /\ op'[p].field = op[p].field
      /\ op'[p].tag = op[p].tag /\ op'[p].todo = op[p].todo /\ op'[p].attempt = op[p].attempt
      /\ op'[p].want = op[p].want /\ op'[p].applied = op[p].applied
    BY <1>1, <1>2 DEF Ops, Set, TypeOK
<1>4. Requested(op'[p]) = Requested(op[p])
    BY <1>3 DEF Requested
<1>5. pc[p] = "check" /\ pc'[p] = "done" /\ UNCHANGED <<config, tags, pending, outside, wrote>>
    BY DEF PostCheck, Goto, TypeOK, pve, history
<1>6. Noticed(p)'
    BY <1>3, <1>4, <1>5 DEF Noticed, Succeeded, Notices
<1> QED
    BY <1>3, <1>4, <1>5, <1>6
    DEF RunInv, Control, VisitedHold, HoldsOf, Accounted, DigestFresh

\* Every step of a run keeps what holds of it.
LEMMA OwnStep ==
    ASSUME TypeOK, NEW p \in Runs, RunInv(p),
           StartFields(p) \/ StartTag(p) \/ RunStep(p) \/ Crash(p)
    PROVE  RunInv(p)'
BY StartInv, EndInv, FailInv, ReadInv, VisitInv, FreshDigestInv, WriteInv, ConflictInv,
   RefusedInv, AppliedInv, PostCheckInv
DEF RunStep, ReadFails, PutUnanswered, QmSetUnanswered

-----------------------------------------------------------------------------
(* The invariant                                                           *)

\* A run starts only when its lock is free.
LEMMA ExclusionStep ==
    ASSUME TypeOK, Exclusion, [Next]_vars
    PROVE  Exclusion'
<1>1. ASSUME NEW p \in Runs, StartFields(p) \/ StartTag(p)
      PROVE  Exclusion'
    BY <1>1 DEF StartFields, StartTag, Started, LockFree, SameLock, Goto, Exclusion, TypeOK
<1>2. ASSUME NEW p \in Runs, RunStep(p) \/ Crash(p)
      PROVE  Exclusion'
    <2>1. /\ \A q \in Runs \ {p} : pc'[q] = pc[q]
          /\ pc[p] # "idle"
        BY <1>2 DEF RunStep, Crash, ReadsConfig, ReadFails, Visit, FreshDigest, PutAccepted,
                    PutConflicts, PutRefusedAsRootOnly, PutUnanswered, QmSet, QmSetUnanswered,
                    Applied, PostCheck, Finish, Fails, Goto, TypeOK
    <2> QED
        BY <2>1 DEF Exclusion
<1>3. CASE LateWrite \/ GuiEdits \/ Boot \/ UNCHANGED vars
    BY <1>3 DEF LateWrite, GuiEdits, Boot, vars, Exclusion
<1> QED
    BY <1>1, <1>2, <1>3 DEF Next

Inductive == TypeOK /\ Exclusion /\ \A p \in Runs : RunInv(p)

LEMMA InductiveInit == Init => Inductive
<1> SUFFICES ASSUME Init PROVE Inductive
    OBVIOUS
<1>1. /\ NoOp.applied = {} /\ NoOp.todo = {} /\ NoOp.result = "none" /\ NoOp.field = TagKey
      /\ NoOp.kind = "none" /\ NoOp.want = [f \in Fields |-> Keep]
    BY DEF NoOp
<1>2. Requested(NoOp) = {}
    BY <1>1 DEF Requested
<1>3. NoOp \in Ops
    BY EngineAssumption DEF NoOp, Ops, Guards, Keys
<1>4. IsFiniteSet({}) /\ Cardinality({}) = 0
    BY FS_EmptySet
<1>5. TypeOK
    BY <1>3, <1>4, EngineAssumption DEF Init, TypeOK
<1>6. Exclusion
    BY DEF Init, Exclusion
<1>7. ASSUME NEW p \in Runs PROVE RunInv(p)
    BY <1>1, <1>2
    DEF Init, RunInv, Control, VisitedHold, Accounted, DigestFresh, Noticed, Succeeded
<1> QED
    BY <1>5, <1>6, <1>7 DEF Inductive

LEMMA InductiveStep == Inductive /\ [Next]_vars => Inductive'
<1> SUFFICES ASSUME Inductive, [Next]_vars PROVE Inductive'
    OBVIOUS
<1> USE DEF Inductive
<1>1. \A p \in Runs : Control(p)
    BY DEF RunInv
<1>2. TypeOK' /\ Exclusion'
    BY <1>1, TypeStep, ExclusionStep
<1>3. ASSUME NEW p \in Runs, StartFields(p) \/ StartTag(p) \/ RunStep(p) \/ Crash(p), NEW q \in Runs
      PROVE  RunInv(q)'
    <2>1. CASE q = p
        BY <1>3, <2>1, OwnStep
    <2>2. CASE q # p
        BY <1>1, <1>3, <2>2, OthersUndisturbed, UndisturbedKeeps
    <2> QED
        BY <2>1, <2>2
<1>4. ASSUME LateWrite \/ GuiEdits \/ Boot, NEW q \in Runs
      PROVE  RunInv(q)'
    BY <1>4, WorldUndisturbed, UndisturbedKeeps
<1>5. ASSUME UNCHANGED vars, NEW q \in Runs
      PROVE  RunInv(q)'
    BY <1>5, NothingWritten, UndisturbedKeeps DEF vars
<1> QED
    BY <1>2, <1>3, <1>4, <1>5 DEF Next

LEMMA InductiveMeans == Inductive => EngineInv
BY DEF Inductive, EngineInv, RunInv, VisitedHold, HoldsOf, Accounted, Noticed, Succeeded,
       SuccessMeansSatisfied, AppliedIsWritten, PendingNoticed

\* idempotent.Run, for any batches, retries, losses and outside edits: a run that
\* reports success leaves what it was asked for, reports exactly what it wrote over
\* all its attempts, and names what the guest has not taken.
THEOREM EngineInvariant == Spec => []EngineInv
<1>1. Spec => []Inductive
    BY InductiveInit, InductiveStep, PTL DEF Spec
<1> QED
    BY <1>1, InductiveMeans, PTL

-----------------------------------------------------------------------------
(* Digests                                                                 *)

\* Only the GUI, another roster or a write given up on makes PVE refuse a digest: a
\* retry of Run is never the answer to the run's own doing.
THEOREM ConflictsExplained ==
    Spec => [][\A p \in Runs : pc[p] = "put" /\ pc'[p] = "read"
                   => moved[p] \/ outside[p] # {}]_vars
<1>1. ASSUME EngineInv, [Next]_vars, NEW p \in Runs, pc[p] = "put", pc'[p] = "read"
      PROVE  moved[p] \/ outside[p] # {}
    <2>1. TypeOK /\ RunInv(p)
        BY <1>1 DEF EngineInv
    <2>2. op[p].snap # Digest
        BY <1>1, <2>1
        DEF Next, RunStep, StartFields, StartTag, Started, Crash, ReadsConfig, ReadFails, Visit,
            FreshDigest, PutAccepted, PutConflicts, PutRefusedAsRootOnly, PutUnanswered, QmSet,
            QmSetUnanswered, Applied, PostCheck, Finish, Fails, Goto, AfterWrite, LateWrite,
            GuiEdits, Boot, vars, TypeOK
    <2> QED
        BY <1>1, <2>1, <2>2 DEF RunInv, DigestFresh
<1>2. EngineInv /\ [Next]_vars =>
          [\A p \in Runs : pc[p] = "put" /\ pc'[p] = "read" => moved[p] \/ outside[p] # {}]_vars
    BY <1>1
<1> QED
    BY <1>2, EngineInvariant, PTL DEF Spec

\* The same with the code's own words, while no write has been given up on.
Exact == \A p \in Runs : pc[p] = "put" => op[p].snap = Digest \/ moved[p]

LEMMA ExactStep ==
    ASSUME EngineInv, late = {}, Exact, [Next]_vars
    PROVE  Exact'
<1>1. TypeOK /\ Exclusion /\ \A p \in Runs : RunInv(p) /\ Control(p)
    BY DEF EngineInv, RunInv
<1> SUFFICES ASSUME NEW p \in Runs, pc'[p] = "put"
             PROVE  (op[p].snap = Digest)' \/ moved'[p]
    BY DEF Exact
<1>2. CASE StartFields(p) \/ StartTag(p) \/ RunStep(p) \/ Crash(p)
    <2>1. ReadsConfig(p) \/ FreshDigest(p)
        BY <1>1, <1>2
        DEF RunStep, StartFields, StartTag, Started, Crash, ReadsConfig, ReadFails, Visit,
            FreshDigest, PutAccepted, PutConflicts, PutRefusedAsRootOnly, PutUnanswered, QmSet,
            QmSetUnanswered, Applied, PostCheck, Finish, Fails, Goto, AfterWrite, TypeOK
    <2>2. op[p] \in Ops
        BY <1>1 DEF TypeOK
    <2>3. op'[p].snap = Digest /\ Digest' = Digest
        <3>1. CASE ReadsConfig(p)
            <4>1. PICK todo, r : op'[p] = [op[p] EXCEPT !.snap = Digest, !.todo = todo,
                                                        !.field = TagKey, !.result = r]
                BY <1>1, <3>1 DEF ReadsConfig, Set, TypeOK
            <4> QED
                BY <2>2, <3>1, <4>1 DEF ReadsConfig, pve, Ops, Digest
        <3>2. CASE FreshDigest(p)
            <4>1. op'[p] = [op[p] EXCEPT !.snap = Digest]
                BY <1>1, <3>2 DEF FreshDigest, Set, Goto, TypeOK
            <4> QED
                BY <2>2, <3>2, <4>1 DEF FreshDigest, pve, Ops, Digest
        <3> QED
            BY <2>1, <3>1, <3>2
    <2> QED
        BY <2>3
<1>3. ASSUME NEW q \in Runs \ {p}, StartFields(q) \/ StartTag(q) \/ RunStep(q) \/ Crash(q)
      PROVE  (op[p].snap = Digest)' \/ moved'[p]
    <2>1. Undisturbed(p) /\ pc[p] = "put" /\ op'[p] = op[p]
        BY <1>1, <1>3, OthersUndisturbed DEF Undisturbed
    <2>2. CASE Digest' = Digest
        BY <2>1, <2>2 DEF Exact, Undisturbed
    <2>3. CASE Digest' # Digest
        <3>1. PICK k, v : Lands(q, k, v)
            BY <1>3, <2>3
            DEF RunStep, StartFields, StartTag, Started, Crash, ReadsConfig, ReadFails, Visit,
                FreshDigest, PutAccepted, PutConflicts, PutRefusedAsRootOnly, PutUnanswered, QmSet,
                QmSetUnanswered, Applied, PostCheck, Finish, Unanswered, Unwritten, pve, Digest
        <3>2. pc[q] # "idle"
            BY <1>3, <2>3
            DEF RunStep, StartFields, StartTag, Started, Crash, ReadsConfig, ReadFails, Visit,
                FreshDigest, PutAccepted, PutConflicts, PutRefusedAsRootOnly, PutUnanswered, QmSet,
                QmSetUnanswered, Applied, PostCheck, Finish, Fails, Goto, pve, Digest
        <3>3. p \notin SameLock(q)
            BY <1>1, <2>1, <3>2 DEF Exclusion, SameLock
        <3> QED
            BY <1>1, <2>1, <3>1, <3>3 DEF Lands, SeenOutside, TypeOK
    <2> QED
        BY <2>2, <2>3
<1>4. CASE GuiEdits
    BY <1>1, <1>4 DEF GuiEdits, SeenOutside, TypeOK
<1>5. CASE LateWrite \/ Boot \/ UNCHANGED vars
    BY <1>5 DEF LateWrite, Boot, vars, history, Exact, Digest
<1> QED
    BY <1>2, <1>3, <1>4, <1>5 DEF Next

\* "A conflict on a freshly re-fetched digest can only mean genuine external
\* interference" holds of any number of runs and rosters as long as no write has been
\* given up on: one that was may land in a later run of the same roster.
THEOREM ConflictsExternal == Spec /\ [](late = {}) => ConflictIsExternal
<1>1. Init => Exact
    BY DEF Init, Exact
<1>2. Exact /\ EngineInv /\ late = {} /\ [Next]_vars => Exact'
    BY ExactStep
<1>3. ASSUME EngineInv, Exact, [Next]_vars, NEW p \in Runs, pc[p] = "put", pc'[p] = "read"
      PROVE  moved[p]
    <2>1. TypeOK
        BY <1>3 DEF EngineInv
    <2>2. op[p].snap # Digest
        BY <1>3, <2>1
        DEF Next, RunStep, StartFields, StartTag, Started, Crash, ReadsConfig, ReadFails, Visit,
            FreshDigest, PutAccepted, PutConflicts, PutRefusedAsRootOnly, PutUnanswered, QmSet,
            QmSetUnanswered, Applied, PostCheck, Finish, Fails, Goto, AfterWrite, LateWrite,
            GuiEdits, Boot, vars, TypeOK
    <2> QED
        BY <1>3, <2>2 DEF Exact
<1>4. EngineInv /\ Exact /\ [Next]_vars =>
          [\A p \in Runs : pc[p] = "put" /\ pc'[p] = "read" => moved[p]]_vars
    BY <1>3
<1> QED
    BY <1>1, <1>2, <1>4, EngineInvariant, PTL DEF Spec, ConflictIsExternal

\* VMTagEnsure never takes a tag off: the list it writes was made from the list it
\* replaces, whoever has been at the tags since it was read.
THEOREM TagsAreKept == Spec => TagsKept
<1>1. ASSUME EngineInv, [Next]_vars, NEW p \in Runs, op[p].kind = "tag", pc[p] = "put",
             pc'[p] # "put", tags' # tags
      PROVE  tags \subseteq tags'
    <2>1. TypeOK /\ Control(p)
        BY <1>1 DEF EngineInv, RunInv
    <2>2. Lands(p, op[p].field, Wanted(op[p])) /\ op[p].snap \in {<<>>, Digest}
        BY <1>1, <2>1
        DEF Next, RunStep, StartFields, StartTag, Started, Crash, ReadsConfig, ReadFails, Visit,
            FreshDigest, PutAccepted, PutConflicts, PutRefusedAsRootOnly, PutUnanswered, QmSet,
            QmSetUnanswered, Applied, PostCheck, Finish, Fails, Goto, AfterWrite, LateWrite,
            GuiEdits, Boot, vars, pve, TypeOK, Unanswered, Unwritten
    <2>3. op[p].snap = Digest /\ op[p].field = TagKey
        BY <1>1, <2>1, <2>2 DEF Control
    <2>4. tags' = Wanted(op[p])
        BY <2>1, <2>2, <2>3, <1>1, WantedFits, LandsOwn
    <2> QED
        BY <1>1, <2>3, <2>4 DEF Wanted, Digest
<1>2. EngineInv /\ [Next]_vars =>
          [\A p \in Runs : op[p].kind = "tag" /\ pc[p] = "put" /\ pc'[p] # "put" /\ tags' # tags
              => tags \subseteq tags']_vars
    BY <1>1
<1> QED
    BY <1>2, EngineInvariant, PTL DEF Spec, TagsKept

=============================================================================
