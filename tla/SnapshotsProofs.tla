--------------------------- MODULE SnapshotsProofs ---------------------------
(***************************************************************************)
(* Theorems about Snapshots: the inductive invariant, what a verified      *)
(* witness means, and the two action properties about the order of         *)
(* snapshots.                                                              *)
(***************************************************************************)
EXTENDS Snapshots, FiniteSetTheorems, TLAPS

\* All that is said of one run.
Mine(p) ==
    /\ Honest(p) /\ Control(p) /\ Tasks(p) /\ Noted(p)
    /\ Planned(p) /\ Known(p) /\ Guest(p)

\* What is proved inductive: the rest of SnapshotInv follows from it.
Inductive == TypeOK /\ Exclusion /\ Ordered /\ \A p \in Runs : Mine(p)

-----------------------------------------------------------------------------
(* What follows from the inductive part                                    *)

\* Running tasks are waited for by a command that holds the lock.
LEMMA OneTask ==
    ASSUME Inductive
    PROVE  OneTaskAtATime
<1> SUFFICES ASSUME NEW p \in Runs, NEW q \in Runs, p # q,
                    task[p].status = "running", task[q].status = "running",
                    result[p] \notin Blind, result[q] \notin Blind
             PROVE  FALSE
    BY DEF OneTaskAtATime
<1>1. pc[p] = "wait" /\ pc[q] = "wait"
    BY DEF Inductive, Mine, Tasks
<1>2. HoldsVM(p) /\ HoldsVM(q)
    BY <1>1 DEF HoldsVM
<1>3. cmd[p].kind = "list"
    BY <1>2 DEF Inductive, Exclusion
<1> QED BY <1>1, <1>3 DEF Inductive, Mine, Control

\* A plan for a stopped guest is right about the snapshot it was made for.
LEMMA NotApplicable ==
    ASSUME Inductive
    PROVE  NotApplicableHonest
<1> SUFFICES ASSUME NEW p \in Runs, result[p] = "not-applicable"
             PROVE  ~restored[p].vmstate \/ (planned[p] # 0 /\ restored[p].seq # planned[p])
    BY DEF NotApplicableHonest
<1> QED BY DEF Inductive, Mine, Planned

LEMMA InductiveEnough == Inductive <=> SnapshotInv
<1>1. ASSUME Inductive PROVE SnapshotInv
    <2>1. HonestReport
        BY <1>1 DEF Inductive, Mine, HonestReport
    <2> QED BY <1>1, <2>1, OneTask, NotApplicable DEF Inductive, Mine, SnapshotInv
<1>2. ASSUME SnapshotInv PROVE Inductive
    BY <1>2 DEF SnapshotInv, HonestReport, Inductive, Mine
<1> QED BY <1>1, <1>2

-----------------------------------------------------------------------------
(* A step of a run                                                         *)

\* A step of p leaves what PVE has, and every other run, alone, and takes the lock
\* only where nobody holds it against it.
Passes(p) ==
    /\ snap' = snap /\ clock' = clock /\ made' = made /\ guest' = guest /\ restored' = restored
    /\ result[p] = "none"
    /\ \A q \in Runs \ {p} :
          /\ pc'[q] = pc[q] /\ cmd'[q] = cmd[q] /\ view'[q] = view[q]
          /\ deleted'[q] = deleted[q] /\ plan'[q] = plan[q] /\ exec'[q] = exec[q]
          /\ result'[q] = result[q] /\ planned'[q] = planned[q] /\ checked'[q] = checked[q]
          /\ witnessed'[q] = witnessed[q] /\ task'[q] = task[q] /\ gone'[q] = gone[q]
    /\ HoldsVM(p)' =>
          /\ cmd'[p] = cmd[p]
          /\ \/ HoldsVM(p)
             \/ \A q \in Runs : HoldsVM(q) => cmd[p].kind = "list" /\ cmd[q].kind = "list"

Acts(p) == TypeOK' /\ Passes(p) /\ Mine(p)'

\* A run that another one passes by keeps all that is said of it.
LEMMA OthersKeep ==
    ASSUME Inductive, NEW p \in Runs, Passes(p), NEW q \in Runs \ {p}
    PROVE  Mine(q)'
<1>1. Mine(q)
    BY DEF Inductive
<1>2. /\ pc'[q] = pc[q] /\ cmd'[q] = cmd[q] /\ view'[q] = view[q]
      /\ deleted'[q] = deleted[q] /\ plan'[q] = plan[q] /\ exec'[q] = exec[q]
      /\ result'[q] = result[q] /\ planned'[q] = planned[q] /\ checked'[q] = checked[q]
      /\ witnessed'[q] = witnessed[q] /\ task'[q] = task[q] /\ gone'[q] = gone[q]
      /\ restored'[q] = restored[q]
    BY DEF Passes
<1>3. snap' = snap /\ made' = made /\ guest' = guest
    BY DEF Passes
<1>4. Honest(q)'
    BY <1>1, <1>2 DEF Mine, Honest, Absent
<1>5. Control(q)'
    BY <1>1, <1>2 DEF Mine, Control
<1>6. Tasks(q)'
    BY <1>1, <1>2 DEF Mine, Tasks
<1>7. Noted(q)'
    BY <1>1, <1>2, <1>3 DEF Mine, Noted, Busy, Listed, There
<1>8. Planned(q)'
    BY <1>1, <1>2, <1>3 DEF Mine, Planned
<1>9. Known(q)'
    BY <1>1, <1>2, <1>3 DEF Mine, Known, At, Name, There
<1>10. ASSUME NEW who \in Runs \cup {Web}, Own(q, who) PROVE Own(q, who)'
    <2>1. CASE who \in {q, Web}
        BY <2>1 DEF Own
    <2>2. CASE who \in Runs \ {p}
        BY <2>2, <1>10 DEF Own, Passes
    <2>3. CASE who = p /\ p # q
        BY <2>3, <1>10, SnapshotAssumption DEF Own, Passes, Blind, Web
    <2> QED BY <2>1, <2>2, <2>3
<1>11. guest.by \in Runs \cup {Web} /\ witnessed[q] \in Runs \cup {Web}
    BY DEF Inductive, TypeOK
<1>12. Guest(q)'
    BY <1>1, <1>2, <1>3, <1>10, <1>11 DEF Mine, Guest
<1> QED BY <1>4, <1>5, <1>6, <1>7, <1>8, <1>9, <1>12 DEF Mine

\* A step of one run keeps it all.
LEMMA ActsKeep ==
    ASSUME Inductive, NEW p \in Runs, Acts(p)
    PROVE  Inductive'
<1>1. \A q \in Runs : Mine(q)'
    BY OthersKeep DEF Acts
<1>2. Ordered'
    BY DEF Acts, Passes, Inductive, Ordered, Chain
<1>3. ASSUME NEW q \in Runs \ {p} PROVE HoldsVM(q)' <=> HoldsVM(q)
    BY <1>3 DEF Acts, Passes, HoldsVM
<1>4. ASSUME NEW q \in Runs \ {p}, HoldsVM(p)', HoldsVM(q)'
      PROVE  cmd'[p].kind = "list" /\ cmd'[q].kind = "list"
    <2>1. HoldsVM(q) /\ cmd'[q] = cmd[q] /\ cmd'[p] = cmd[p]
        BY <1>3, <1>4 DEF Acts, Passes
    <2> QED BY <2>1, <1>4 DEF Acts, Passes, Inductive, Exclusion
<1>5. ASSUME NEW q \in Runs \ {p}, NEW r \in Runs \ {p}, q # r, HoldsVM(q)', HoldsVM(r)'
      PROVE  cmd'[q].kind = "list" /\ cmd'[r].kind = "list"
    <2>1. HoldsVM(q) /\ cmd'[q] = cmd[q] /\ HoldsVM(r) /\ cmd'[r] = cmd[r]
        BY <1>3, <1>5 DEF Acts, Passes
    <2> QED BY <2>1, <1>5 DEF Inductive, Exclusion
<1>6. Exclusion'
    BY <1>4, <1>5 DEF Exclusion
<1> QED BY <1>1, <1>2, <1>6 DEF Inductive, Acts

\* What a run may end with where it is.
MayEnd(p, o) ==
    /\ o \in Results
    /\ task[p].status = "running" => o \in Blind
    /\ o = "created" => task[p].job = "create" /\ task[p].status = "ok"
    /\ o = "deleted" => cmd[p].names \ Absent(p) \subseteq gone[p]
    /\ cmd[p].kind = "rollback" /\ o \in RolledBack => restored[p].seq # 0
    /\ o = "not-applicable" => plan[p] = "stopped"
    /\ o = "verified" => exec[p] = "good" /\ Own(p, witnessed[p])

\* A run comes to its end; a delete that cannot send keeps what it has checked.
Finishes(p, o) ==
    /\ Goto(p, "done")
    /\ result' = [result EXCEPT ![p] = o]
    /\ todo' \in [Runs -> SUBSET Names]
    /\ checked' \in {checked, [checked EXCEPT ![p] = 0]}
    /\ UNCHANGED <<cmd, view, deleted, plan, exec, planned, witnessed>>

LEMMA EndsFinish ==
    ASSUME Inductive, NEW p \in Runs, NEW o, Ends(p, o)
    PROVE  Finishes(p, o)
BY DEF Inductive, TypeOK, Ends, Finishes

\* A run that ends, its last task as it was.
LEMMA FinishActs ==
    ASSUME Inductive, NEW p \in Runs, NEW o, pc[p] \notin {"idle", "done"},
           Finishes(p, o), MayEnd(p, o), UNCHANGED pve
    PROVE  Acts(p)
<1> USE DEF Inductive
<1>1. /\ Mine(p) /\ result[p] = "none"
    BY DEF Mine, Control
<1>2. TypeOK'
    <2>1. /\ pc' \in [Runs -> Labels] /\ result' \in [Runs -> Results]
          /\ todo' \in [Runs -> SUBSET Names] /\ checked' \in [Runs -> 0 .. MaxMade]
        BY SnapshotAssumption DEF TypeOK, Finishes, Goto, MayEnd, Labels
    <2> QED BY <2>1 DEF TypeOK, Finishes, pve
<1>3. /\ pc'[p] = "done" /\ result'[p] = o /\ cmd' = cmd /\ view' = view /\ deleted' = deleted
      /\ plan' = plan /\ exec' = exec /\ planned' = planned /\ witnessed' = witnessed
      /\ checked'[p] \in {0, checked[p]} /\ task' = task /\ gone' = gone /\ restored' = restored
      /\ snap' = snap /\ made' = made /\ guest' = guest /\ clock' = clock
    BY DEF TypeOK, Finishes, Goto, pve
<1>4. Passes(p)
    BY <1>1, <1>3 DEF Passes, Finishes, Goto, TypeOK, HoldsVM
<1>5. Honest(p)'
    BY <1>1, <1>3 DEF Mine, Honest, Absent, MayEnd
<1>6. Control(p)'
    BY <1>1, <1>3 DEF Mine, Control
<1>7. Tasks(p)'
    BY <1>1, <1>3 DEF Mine, Tasks, MayEnd
<1>8. Noted(p)'
    BY <1>3 DEF Noted, Busy
<1>9. Planned(p)'
    BY <1>1, <1>3 DEF Mine, Planned, MayEnd
<1>10. Known(p)'
    BY <1>1, <1>3 DEF Mine, Known, At, TypeOK
<1>11. o = "verified" => Own(p, witnessed[p])'
    <2> SUFFICES ASSUME o = "verified" PROVE Own(p, witnessed[p])'
        OBVIOUS
    <2>1. Own(p, witnessed[p]) /\ result[p] \notin Blind
        BY <1>1 DEF MayEnd, Blind
    <2>2. CASE witnessed[p] \in {p, Web}
        BY <2>2, <1>3 DEF Own
    <2>3. CASE witnessed[p] \in Runs \ {p}
        BY <2>1, <2>3, <1>3, <1>4 DEF Own, Passes
    <2> QED BY <2>2, <2>3 DEF TypeOK
<1>12. Guest(p)'
    BY <1>3, <1>11 DEF Guest, MayEnd
<1> QED BY <1>2, <1>4, <1>5, <1>6, <1>7, <1>8, <1>9, <1>10, <1>12 DEF Acts, Mine

LEMMA EndsActs ==
    ASSUME Inductive, NEW p \in Runs, NEW o, pc[p] \notin {"idle", "done"},
           Ends(p, o), MayEnd(p, o), UNCHANGED pve
    PROVE  Acts(p)
BY EndsFinish, FinishActs

\* Where a run may go with nothing else changed.
MayGo(p, label) ==
    /\ label \in Labels \ {"idle", "done", "wait"}
    /\ label = "read" => cmd[p].kind \in {"list", "delete"}
    /\ label = "check" => cmd[p].kind = "create"
    /\ label \in {"prestate", "delete"} => cmd[p].kind = "delete"
    /\ label \in {"plan", "newest", "outcome", "dispatch"} => cmd[p].kind = "rollback"
    /\ label = "post" => cmd[p].kind = "create"
    /\ label = "verify" => cmd[p].kind \in {"create", "delete"}
    /\ label = "lock" \/ pc[p] # "lock"
          \/ \A q \in Runs : HoldsVM(q) => cmd[p].kind = "list" /\ cmd[q].kind = "list"
    /\ label \in {"lock", "read", "check", "plan", "newest", "prestate", "post"} =>
          pc[p] \in {"lock", "read", "check", "plan", "newest", "prestate"}
    /\ label = "verify" /\ cmd[p].kind = "create" => task[p].job = "create" /\ task[p].status = "ok"
    /\ label \in {"outcome", "dispatch"} =>
          /\ pc[p] \in {"wait", "outcome"}
          /\ task[p].job = "rollback" /\ task[p].status = "ok"
    /\ pc[p] = "wait" => task[p].status # "running"
    /\ label \notin {"delete", "poll", "prestate"}

LEMMA MovesActs ==
    ASSUME Inductive, NEW p \in Runs, NEW label, pc[p] \notin {"idle", "done"},
           Moves(p, label), MayGo(p, label), UNCHANGED pve
    PROVE  Acts(p)
<1> USE DEF Inductive
<1>1. /\ Mine(p) /\ result[p] = "none"
    BY DEF Mine, Control
<1>2. TypeOK'
    BY DEF TypeOK, Moves, Goto, MayGo, pve, locals
<1>3. /\ pc'[p] = label /\ result' = result /\ cmd' = cmd /\ view' = view /\ deleted' = deleted
      /\ plan' = plan /\ exec' = exec /\ planned' = planned /\ witnessed' = witnessed
      /\ checked' = checked /\ task' = task /\ gone' = gone /\ restored' = restored
      /\ snap' = snap /\ made' = made /\ guest' = guest /\ clock' = clock
    BY DEF TypeOK, Moves, Goto, pve, locals
<1>4. Passes(p)
    BY <1>1, <1>3 DEF Passes, Moves, Goto, TypeOK, HoldsVM, MayGo
<1>5. Honest(p)'
    BY <1>1, <1>3 DEF Mine, Honest, Absent
<1>6. Control(p)'
    BY <1>1, <1>3 DEF Mine, Control, MayGo
<1>7. Tasks(p)'
    BY <1>1, <1>3 DEF Mine, Tasks, MayGo
<1>8. Noted(p)'
    BY <1>1, <1>3 DEF Mine, Noted, Busy, Listed, There
<1>9. Planned(p)'
    BY <1>1, <1>3 DEF Mine, Planned
<1>10. Known(p)'
    BY <1>1, <1>3 DEF Mine, Known, At, MayGo
<1>11. Guest(p)'
    BY <1>1, <1>3 DEF Mine, Guest, MayGo, Own
<1> QED BY <1>2, <1>4, <1>5, <1>6, <1>7, <1>8, <1>9, <1>10, <1>11 DEF Acts, Mine

\* The command's name is one of PVE's, or the pseudo-entry.
LEMMA NameType ==
    ASSUME Inductive, NEW p \in Runs, pc[p] \notin {"idle", "done"}, cmd[p].kind # "list"
    PROVE  Name(p) \in Names \cup {Current}
<1>1. cmd[p].names # {} /\ cmd[p].names \subseteq Names \cup {Current}
    BY DEF Inductive, Mine, Control, TypeOK
<1> QED BY <1>1 DEF Name

\* A run sends a task, and waits for it unless the answer is lost.
LEMMA SentActs ==
    ASSUME Inductive, NEW p \in Runs, NEW n \in Names \cup {Current}, pc[p] \in {"post", "delete"},
           task' = [task EXCEPT ![p] = [job |-> cmd[p].kind, name |-> n, status |-> "running"]],
           UNCHANGED <<snap, clock, made, guest, outside, gone, restored>>,
           \/ Goto(p, "wait") /\ todo' \in [Runs -> SUBSET Names]
                /\ UNCHANGED <<cmd, view, deleted, plan, exec, result, planned, checked, witnessed>>
           \/ Finishes(p, "unknown")
    PROVE  Acts(p)
<1> USE DEF Inductive
<1>1. /\ Mine(p) /\ result[p] = "none" /\ cmd[p].kind \in {"create", "delete", "rollback"}
    BY DEF Mine, Control
<1>2. TypeOK'
    <2>1. pc' \in [Runs -> Labels] /\ todo' \in [Runs -> SUBSET Names]
        <3>1. pc' = [pc EXCEPT ![p] = "wait"] \/ pc' = [pc EXCEPT ![p] = "done"]
            BY DEF Finishes, Goto
        <3> QED BY <3>1 DEF TypeOK, Finishes, Labels
    <2>2. checked' \in [Runs -> 0 .. MaxMade]
        <3>1. checked' \in {checked, [checked EXCEPT ![p] = 0]}
            BY DEF Finishes
        <3>2. 0 \in 0 .. MaxMade
            BY SnapshotAssumption
        <3> QED BY <3>1, <3>2 DEF TypeOK
    <2>3. result' \in [Runs -> Results]
        BY DEF TypeOK, Finishes, Results
    <2>4. task' \in [Runs -> [job : Kinds \cup {"none"}, name : Names \cup {Current},
                              status : {"none", "running", "ok", "failed"}]]
        BY <1>1 DEF TypeOK, Kinds
    <2>5. UNCHANGED <<cmd, view, deleted, plan, exec, planned, witnessed>>
        BY DEF Finishes
    <2> QED BY <2>1, <2>2, <2>3, <2>4, <2>5 DEF TypeOK
<1>3. /\ cmd' = cmd /\ view' = view /\ deleted' = deleted
      /\ plan' = plan /\ exec' = exec /\ planned' = planned /\ witnessed' = witnessed
      /\ gone' = gone /\ restored' = restored
      /\ snap' = snap /\ made' = made /\ guest' = guest /\ clock' = clock
      /\ task'[p] = [job |-> cmd[p].kind, name |-> n, status |-> "running"]
      /\ checked'[p] \in {0, checked[p]}
      /\ \/ pc'[p] = "wait" /\ result'[p] = "none" /\ checked'[p] = checked[p]
         \/ pc'[p] = "done" /\ result'[p] = "unknown"
    BY <1>1 DEF TypeOK, Finishes, Goto
<1>4. Passes(p)
    BY <1>1, <1>3 DEF Passes, Finishes, Goto, TypeOK, HoldsVM
<1>5. Honest(p)'
    BY <1>1, <1>3 DEF Mine, Honest, RolledBack
<1>6. Control(p)'
    BY <1>1, <1>3 DEF Mine, Control
<1>7. Tasks(p)'
    BY <1>1, <1>3 DEF Mine, Tasks, Blind
<1>8. Noted(p)'
    BY <1>1, <1>3 DEF Mine, Noted, Busy, Listed, There
<1>9. Planned(p)'
    BY <1>1, <1>3 DEF Mine, Planned
<1>10. Known(p)'
    BY <1>1, <1>3 DEF Mine, Known, At, Control, TypeOK, There
<1>11. Guest(p)'
    BY <1>1, <1>3 DEF Mine, Guest
<1> QED BY <1>2, <1>4, <1>5, <1>6, <1>7, <1>8, <1>9, <1>10, <1>11 DEF Acts, Mine

\* Where a run is not waiting, none of its tasks runs.
LEMMA NotRunning ==
    ASSUME Inductive, NEW p \in Runs, pc[p] \notin {"wait", "done"}
    PROVE  task[p].status # "running"
BY DEF Inductive, Mine, Tasks, Control, Blind

LEMMA StartActs ==
    ASSUME Inductive, NEW p \in Runs, Start(p)
    PROVE  Acts(p)
<1> USE DEF Inductive
<1>1. /\ Mine(p) /\ result[p] = "none" /\ pc[p] = "idle" /\ deleted[p] = {}
    BY DEF Mine, Control, Start
<1>2. PICK k \in Kinds, ns \in SUBSET (Names \cup {Current}), w \in BOOLEAN :
          /\ IF k = "list" THEN ns = {}
             ELSE IF k = "delete" THEN ns # {} /\ Current \notin ns ELSE Cardinality(ns) = 1
          /\ cmd' = [cmd EXCEPT ![p] = [kind |-> k, names |-> ns, witness |-> w]]
          /\ gone' = [gone EXCEPT ![p] = IF k = "delete" THEN Names \ Listed ELSE {}]
    BY DEF Start
<1>3. k # "list" => ns # {}
    BY <1>2, FS_EmptySet
<1>4. k = "delete" => ns \subseteq Names
    BY <1>2
<1>5. TypeOK'
    <2>1. cmd' \in [Runs -> [kind : Kinds \cup {"none"}, names : SUBSET (Names \cup {Current}),
                             witness : BOOLEAN]]
        BY <1>2 DEF TypeOK
    <2>2. gone' \in [Runs -> SUBSET Names]
        BY <1>2 DEF TypeOK
    <2>3. pc' \in [Runs -> Labels]
        BY DEF Start, Goto, TypeOK, Labels
    <2> QED BY <2>1, <2>2, <2>3 DEF Start, TypeOK
<1>6. /\ pc'[p] = "lock" /\ cmd'[p] = [kind |-> k, names |-> ns, witness |-> w]
      /\ gone'[p] = IF k = "delete" THEN Names \ Listed ELSE {}
      /\ result' = result /\ view' = view /\ deleted' = deleted
      /\ plan' = plan /\ exec' = exec /\ planned' = planned /\ witnessed' = witnessed
      /\ checked' = checked /\ task' = task /\ restored' = restored
      /\ snap' = snap /\ made' = made /\ guest' = guest /\ clock' = clock
    BY <1>2 DEF TypeOK, Start, Goto
<1>7. Passes(p)
    BY <1>1, <1>2, <1>6 DEF Passes, Start, Goto, TypeOK, HoldsVM
<1>8. Honest(p)'
    BY <1>1, <1>6 DEF Honest, RolledBack
<1>9. Control(p)'
    BY <1>1, <1>3, <1>4, <1>6 DEF Control, Kinds
<1>10. Tasks(p)'
    BY <1>1, <1>6 DEF Mine, Tasks
<1>11. Noted(p)'
    BY <1>6 DEF Noted, Busy, Listed, There
<1>12. Planned(p)'
    BY <1>1, <1>6 DEF Mine, Planned
<1>13. Known(p)'
    BY <1>1, <1>6 DEF Mine, Known, At
<1>14. Guest(p)'
    BY <1>1, <1>6 DEF Guest
<1> QED BY <1>5, <1>7, <1>8, <1>9, <1>10, <1>11, <1>12, <1>13, <1>14 DEF Acts, Mine

LEMMA LockActs ==
    ASSUME Inductive, NEW p \in Runs, Lock(p)
    PROVE  Acts(p)
<1>1. Mine(p) /\ pc[p] = "lock" /\ UNCHANGED pve
    BY DEF Lock, Inductive
<1>2. CASE Ends(p, "refused")
    <2>1. MayEnd(p, "refused")
        BY <1>1, NotRunning DEF MayEnd, Results, RolledBack
    <2> QED BY <1>1, <1>2, <2>1, EndsActs
<1>3. CASE /\ \A q \in Runs : HoldsVM(q) => cmd[p].kind = "list" /\ cmd[q].kind = "list"
           /\ Moves(p, FirstStep(p))
    <2>1. cmd[p].kind \in Kinds
        BY <1>1 DEF Mine, Control, Inductive, TypeOK
    <2>2. MayGo(p, FirstStep(p))
        BY <1>1, <1>3, <2>1 DEF MayGo, FirstStep, Labels, Kinds
    <2> QED BY <1>1, <1>3, <2>2, MovesActs
<1> QED BY <1>2, <1>3 DEF Lock

LEMMA UnverifiableActs ==
    ASSUME Inductive, NEW p \in Runs, Unverifiable(p)
    PROVE  Acts(p)
<1>1. MayEnd(p, "error")
    BY NotRunning DEF Unverifiable, MayEnd, Results, RolledBack
<1> QED BY <1>1, EndsActs DEF Unverifiable

LEMMA KilledActs ==
    ASSUME Inductive, NEW p \in Runs, Killed(p)
    PROVE  Acts(p)
<1>1. MayEnd(p, "killed")
    BY DEF MayEnd, Results, RolledBack, Blind
<1> QED BY <1>1, EndsActs DEF Killed, Busy

LEMMA ListActs ==
    ASSUME Inductive, NEW p \in Runs, List(p)
    PROVE  Acts(p)
<1>1. MayEnd(p, "listed")
    BY NotRunning DEF List, At, MayEnd, Results, RolledBack
<1> QED BY <1>1, EndsActs DEF List, At

LEMMA CreateCheckActs ==
    ASSUME Inductive, NEW p \in Runs, CreateCheck(p)
    PROVE  Acts(p)
<1>1. pc[p] = "check" /\ cmd[p].kind = "create" /\ UNCHANGED pve
    BY DEF CreateCheck, Inductive, Mine, Control
<1>2. MayEnd(p, "refused")
    BY <1>1, NotRunning DEF MayEnd, Results, RolledBack
<1>3. MayGo(p, "post")
    BY <1>1 DEF MayGo, Labels
<1> QED BY <1>1, <1>2, <1>3, EndsActs, MovesActs DEF CreateCheck

\* A request that PVE refuses, takes, or takes without an answer.
LEMMA SendsActs ==
    ASSUME Inductive, NEW p \in Runs, pc[p] = "post", Sends(p, cmd[p].kind, Name(p)),
           UNCHANGED <<snap, clock, made, guest, outside, gone, restored>>
    PROVE  Acts(p)
<1>1. cmd[p].kind \in {"create", "rollback"}
    BY DEF Inductive, Mine, Control
<1>2. Name(p) \in Names \cup {Current}
    BY <1>1, NameType
<1>3. CASE Ends(p, "error") /\ UNCHANGED task
    <2>1. MayEnd(p, "error")
        BY NotRunning DEF MayEnd, Results, RolledBack
    <2> QED BY <1>3, <2>1, EndsActs DEF pve
<1>4. CASE /\ task' = [task EXCEPT ![p] = [job |-> cmd[p].kind, name |-> Name(p), status |-> "running"]]
           /\ Moves(p, "wait")
    BY <1>2, <1>4, SentActs DEF Moves, locals, Inductive, TypeOK
<1>5. CASE /\ task' = [task EXCEPT ![p] = [job |-> cmd[p].kind, name |-> Name(p), status |-> "running"]]
           /\ Ends(p, "unknown")
    BY <1>2, <1>5, SentActs, EndsFinish
<1> QED BY <1>3, <1>4, <1>5 DEF Sends

LEMMA CreateSendActs ==
    ASSUME Inductive, NEW p \in Runs, CreateSend(p)
    PROVE  Acts(p)
BY SendsActs DEF CreateSend, At

LEMMA RollbackSendActs ==
    ASSUME Inductive, NEW p \in Runs, RollbackSend(p)
    PROVE  Acts(p)
BY SendsActs DEF RollbackSend, At

LEMMA CreateVerifyActs ==
    ASSUME Inductive, NEW p \in Runs, CreateVerify(p)
    PROVE  Acts(p)
<1>1. pc[p] = "verify" /\ cmd[p].kind = "create" /\ UNCHANGED pve
    BY DEF CreateVerify, At
<1>2. MayEnd(p, "created")
    BY <1>1, NotRunning DEF MayEnd, Results, RolledBack, Inductive, Mine, Tasks
<1>3. MayEnd(p, "unproven")
    BY <1>1, NotRunning DEF MayEnd, Results
<1> QED BY <1>1, <1>2, <1>3, EndsActs DEF CreateVerify

\* A delete notes what its task has deleted.
LEMMA DeleteLandedActs ==
    ASSUME Inductive, NEW p \in Runs, pc[p] = "wait", task[p].status = "ok", UNCHANGED pve,
           cmd[p].kind = "delete", deleted' = [deleted EXCEPT ![p] = @ \cup {task[p].name}],
           Goto(p, "delete"),
           UNCHANGED <<cmd, view, todo, plan, exec, result, planned, checked, witnessed>>
    PROVE  Acts(p)
<1> USE DEF Inductive
<1>1. /\ Mine(p) /\ result[p] = "none" /\ task[p].name \in gone[p]
    BY DEF Mine, Control, Tasks
<1>2. TypeOK'
    <2>1. task[p].name \in Names
        BY <1>1 DEF TypeOK
    <2>2. deleted' \in [Runs -> SUBSET Names]
        BY <2>1 DEF TypeOK
    <2>3. pc' \in [Runs -> Labels]
        BY DEF TypeOK, Goto, Labels
    <2> QED BY <2>2, <2>3 DEF TypeOK, pve
<1>3. /\ pc'[p] = "delete" /\ deleted'[p] = deleted[p] \cup {task[p].name}
      /\ result' = result /\ cmd' = cmd /\ view' = view
      /\ plan' = plan /\ exec' = exec /\ planned' = planned /\ witnessed' = witnessed
      /\ checked' = checked /\ task' = task /\ gone' = gone /\ restored' = restored
      /\ snap' = snap /\ made' = made /\ guest' = guest /\ clock' = clock
    BY DEF TypeOK, Goto, pve
<1>4. Passes(p)
    BY <1>1, <1>3 DEF Passes, Goto, TypeOK, HoldsVM
<1>5. Honest(p)'
    BY <1>1, <1>3 DEF Mine, Honest, Absent
<1>6. Control(p)'
    BY <1>1, <1>3 DEF Mine, Control
<1>7. Tasks(p)'
    BY <1>1, <1>3 DEF Mine, Tasks
<1>8. Noted(p)'
    BY <1>1, <1>3 DEF Mine, Noted, Busy, Listed, There
<1>9. Planned(p)'
    BY <1>1, <1>3 DEF Mine, Planned
<1>10. Known(p)'
    BY <1>1, <1>3 DEF Mine, Known, At, There
<1>11. Guest(p)'
    BY <1>1, <1>3 DEF Mine, Guest
<1> QED BY <1>2, <1>4, <1>5, <1>6, <1>7, <1>8, <1>9, <1>10, <1>11 DEF Acts, Mine

LEMMA WaitForTaskActs ==
    ASSUME Inductive, NEW p \in Runs, WaitForTask(p)
    PROVE  Acts(p)
<1>1. Mine(p) /\ pc[p] = "wait" /\ UNCHANGED pve /\ task[p].job = cmd[p].kind
    BY DEF WaitForTask, Inductive, Mine, Tasks
<1>2. CASE task[p].status = "failed" /\ Ends(p, "failed")
    <2>1. MayEnd(p, "failed")
        BY <1>2 DEF MayEnd, Results, RolledBack
    <2> QED BY <1>1, <1>2, <2>1, EndsActs
<1>3. CASE Ends(p, "unknown")
    <2>1. MayEnd(p, "unknown")
        BY DEF MayEnd, Results, RolledBack, Blind
    <2> QED BY <1>1, <1>3, <2>1, EndsActs
<1>4. CASE task[p].status = "ok" /\ cmd[p].kind = "create" /\ Moves(p, "verify")
    <2>1. MayGo(p, "verify")
        BY <1>1, <1>4 DEF MayGo, Labels
    <2> QED BY <1>1, <1>4, <2>1, MovesActs
<1>5. CASE task[p].status = "ok" /\ cmd[p].kind = "rollback" /\ Moves(p, "outcome")
    <2>1. MayGo(p, "outcome")
        BY <1>1, <1>5 DEF MayGo, Labels
    <2> QED BY <1>1, <1>5, <2>1, MovesActs
<1>6. CASE /\ task[p].status = "ok" /\ cmd[p].kind = "delete"
           /\ deleted' = [deleted EXCEPT ![p] = @ \cup {task[p].name}]
           /\ Goto(p, "delete")
           /\ UNCHANGED <<cmd, view, todo, plan, exec, result, planned, checked, witnessed>>
    BY <1>1, <1>6, DeleteLandedActs
<1> QED BY <1>2, <1>3, <1>4, <1>5, <1>6 DEF WaitForTask, Landed

-----------------------------------------------------------------------------
(* delete                                                                  *)

LEMMA DeleteReadActs ==
    ASSUME Inductive, NEW p \in Runs, DeleteRead(p)
    PROVE  Acts(p)
<1> USE DEF Inductive
<1>1. /\ Mine(p) /\ result[p] = "none" /\ pc[p] = "read" /\ cmd[p].kind = "delete"
      /\ cmd[p].names \subseteq Names /\ task[p] = NoTask /\ restored[p] = NothingRestored
    BY DEF Mine, Control, Tasks, DeleteRead, At
<1>2. PICK seen \in {Listed, {}} :
          /\ view' = [view EXCEPT ![p] = [n \in Names |-> IF n \in seen THEN snap[n].time ELSE 0]]
          /\ IF cmd[p].names \cap seen = {}
             THEN Goto(p, "done") /\ result' = [result EXCEPT ![p] = "deleted"]
             ELSE Goto(p, "prestate") /\ UNCHANGED result
    BY DEF DeleteRead
<1>3. seen \subseteq Names /\ \A n \in seen : snap[n].time \in 1 .. MaxClock
    BY DEF Listed, There, TypeOK, Snapshots, NoSnapshot
<1>4. TypeOK'
    <2>1. [n \in Names |-> IF n \in seen THEN snap[n].time ELSE 0] \in [Names -> 0 .. MaxClock]
        BY <1>3, SnapshotAssumption
    <2>2. view' \in [Runs -> [Names -> 0 .. MaxClock]]
        BY <1>2, <2>1 DEF TypeOK
    <2>3. pc' \in [Runs -> Labels] /\ result' \in [Runs -> Results]
        BY <1>2 DEF TypeOK, Goto, Labels, Results
    <2>4. checked' \in [Runs -> 0 .. MaxMade]
        BY DEF TypeOK, DeleteRead
    <2> QED BY <2>2, <2>3, <2>4 DEF DeleteRead, TypeOK, pve
<1>5. /\ view'[p] = [n \in Names |-> IF n \in seen THEN snap[n].time ELSE 0]
      /\ cmd' = cmd /\ deleted' = deleted /\ checked'[p] = made
      /\ plan' = plan /\ exec' = exec /\ planned' = planned /\ witnessed' = witnessed
      /\ task' = task /\ gone' = gone /\ restored' = restored
      /\ snap' = snap /\ made' = made /\ guest' = guest /\ clock' = clock
    BY <1>2 DEF TypeOK, DeleteRead, pve
<1>6. \/ cmd[p].names \cap seen = {} /\ pc'[p] = "done" /\ result'[p] = "deleted"
      \/ cmd[p].names \cap seen # {} /\ seen = Listed /\ pc'[p] = "prestate" /\ result'[p] = "none"
    BY <1>1, <1>2 DEF TypeOK, Goto
<1>7. Passes(p)
    BY <1>1, <1>2, <1>5, <1>6 DEF Passes, DeleteRead, Goto, TypeOK, HoldsVM
<1>8. Honest(p)'
    <2>1. cmd[p].names \cap seen = {} => (cmd[p].names \ Absent(p))' = {}
        BY <1>1, <1>5 DEF Absent
    <2> QED BY <1>1, <1>5, <1>6, <2>1 DEF Mine, Honest
<1>9. Control(p)'
    BY <1>1, <1>5, <1>6 DEF Mine, Control
<1>10. Tasks(p)'
    BY <1>1, <1>5, <1>6 DEF Mine, Tasks, NoTask
<1>11. Noted(p)'
    BY <1>1, <1>5, <1>6 DEF Mine, Noted, Busy, Listed, There
<1>12. Planned(p)'
    BY <1>1, <1>5, <1>6 DEF Mine, Planned
<1>13. Known(p)'
    BY <1>1, <1>5, <1>6 DEF Known, At, TypeOK, Listed, There
<1>14. Guest(p)'
    BY <1>1, <1>5, <1>6 DEF Mine, Guest
<1> QED BY <1>4, <1>7, <1>8, <1>9, <1>10, <1>11, <1>12, <1>13, <1>14 DEF Acts, Mine

LEMMA DeletePrestateActs ==
    ASSUME Inductive, NEW p \in Runs, DeletePrestate(p)
    PROVE  Acts(p)
<1> USE DEF Inductive
<1>1. /\ Mine(p) /\ result[p] = "none" /\ pc[p] = "prestate" /\ cmd[p].kind = "delete"
    BY DEF Mine, Control, DeletePrestate
<1>2. TypeOK'
    <2>1. todo' \in [Runs -> SUBSET Names]
        BY DEF TypeOK, DeletePrestate, Listed
    <2>2. pc' \in [Runs -> Labels]
        BY DEF TypeOK, Goto, Labels, DeletePrestate
    <2> QED BY <2>1, <2>2 DEF TypeOK, pve, DeletePrestate
<1>3. /\ pc'[p] = "delete" /\ result' = result /\ cmd' = cmd /\ view' = view /\ deleted' = deleted
      /\ plan' = plan /\ exec' = exec /\ planned' = planned /\ witnessed' = witnessed
      /\ checked' = checked /\ task' = task /\ gone' = gone /\ restored' = restored
      /\ snap' = snap /\ made' = made /\ guest' = guest /\ clock' = clock
    BY DEF TypeOK, Goto, pve, DeletePrestate
<1>4. Passes(p)
    BY <1>1, <1>3 DEF Passes, Goto, TypeOK, HoldsVM, DeletePrestate
<1>5. Honest(p)'
    BY <1>1, <1>3 DEF Mine, Honest, Absent
<1>6. Control(p)'
    BY <1>1, <1>3 DEF Mine, Control
<1>7. Tasks(p)'
    BY <1>1, <1>3 DEF Mine, Tasks
<1>8. Noted(p)'
    BY <1>1, <1>3 DEF Mine, Noted, Busy, Listed, There
<1>9. Planned(p)'
    BY <1>1, <1>3 DEF Mine, Planned
<1>10. Known(p)'
    BY <1>1, <1>3 DEF Mine, Known, At, There
<1>11. Guest(p)'
    BY <1>1, <1>3 DEF Mine, Guest
<1> QED BY <1>2, <1>4, <1>5, <1>6, <1>7, <1>8, <1>9, <1>10, <1>11 DEF Acts, Mine

LEMMA DeleteSendActs ==
    ASSUME Inductive, NEW p \in Runs, DeleteSend(p)
    PROVE  Acts(p)
<1>1. pc[p] = "delete" /\ cmd[p].kind = "delete"
    BY DEF DeleteSend, Inductive, Mine, Control
<1>2. PICK n \in Names :
          /\ todo' = [todo EXCEPT ![p] = @ \ {n}]
          /\ \/ /\ Goto(p, "done")
                /\ result' = [result EXCEPT ![p] = "error"]
                /\ UNCHANGED task
             \/ /\ task' = [task EXCEPT ![p] = [job |-> "delete", name |-> n, status |-> "running"]]
                /\ \/ Goto(p, "wait") /\ UNCHANGED result
                   \/ Goto(p, "done") /\ result' = [result EXCEPT ![p] = "unknown"]
    BY DEF DeleteSend
<1>3. todo' \in [Runs -> SUBSET Names]
    BY <1>2 DEF Inductive, TypeOK
<1>4. UNCHANGED <<snap, clock, made, guest, outside, gone, restored,
                  cmd, view, deleted, plan, exec, planned, checked, witnessed>>
    BY DEF DeleteSend
<1>5. CASE Goto(p, "done") /\ result' = [result EXCEPT ![p] = "error"] /\ UNCHANGED task
    <2>1. MayEnd(p, "error")
        BY <1>1, NotRunning DEF MayEnd, Results, RolledBack
    <2>2. Finishes(p, "error") /\ UNCHANGED pve
        BY <1>3, <1>4, <1>5 DEF Finishes, pve
    <2> QED BY <1>1, <2>1, <2>2, FinishActs
<1>6. CASE /\ task' = [task EXCEPT ![p] = [job |-> "delete", name |-> n, status |-> "running"]]
           /\ Goto(p, "wait") /\ UNCHANGED result
    BY <1>1, <1>3, <1>4, <1>6, SentActs
<1>7. CASE /\ task' = [task EXCEPT ![p] = [job |-> "delete", name |-> n, status |-> "running"]]
           /\ Goto(p, "done") /\ result' = [result EXCEPT ![p] = "unknown"]
    <2>1. Finishes(p, "unknown")
        BY <1>3, <1>4, <1>7 DEF Finishes
    <2> QED BY <1>1, <1>4, <1>7, <2>1, SentActs
<1> QED BY <1>2, <1>5, <1>6, <1>7

LEMMA DeletesSentActs ==
    ASSUME Inductive, NEW p \in Runs, DeletesSent(p)
    PROVE  Acts(p)
<1>1. MayGo(p, "verify")
    BY DEF DeletesSent, MayGo, Labels, Inductive, Mine, Control
<1> QED BY <1>1, MovesActs DEF DeletesSent

LEMMA DeleteVerifyActs ==
    ASSUME Inductive, NEW p \in Runs, DeleteVerify(p)
    PROVE  Acts(p)
<1>1. pc[p] = "verify" /\ cmd[p].kind = "delete" /\ UNCHANGED pve /\ task[p].status # "running"
    BY NotRunning DEF DeleteVerify, At
<1>2. CASE (cmd[p].names \ Absent(p)) \cap Listed = {} /\ Ends(p, "deleted")
    <2>1. cmd[p].names \subseteq Names /\ Names \ Listed \subseteq gone[p]
        BY <1>1 DEF Inductive, Mine, Control, Noted, Busy
    <2>2. MayEnd(p, "deleted")
        BY <1>1, <1>2, <2>1 DEF MayEnd, Results, RolledBack
    <2> QED BY <1>1, <1>2, <2>2, EndsActs
<1>3. CASE Ends(p, "unproven")
    <2>1. MayEnd(p, "unproven")
        BY <1>1 DEF MayEnd, Results
    <2> QED BY <1>1, <1>3, <2>1, EndsActs
<1> QED BY <1>2, <1>3 DEF DeleteVerify

-----------------------------------------------------------------------------
(* rollback                                                                *)

LEMMA PlanActs ==
    ASSUME Inductive, NEW p \in Runs, Plan(p)
    PROVE  Acts(p)
<1> USE DEF Inductive
<1>1. /\ Mine(p) /\ result[p] = "none" /\ pc[p] = "plan" /\ cmd[p].kind = "rollback"
      /\ restored[p] = NothingRestored /\ UNCHANGED pve
    BY DEF Mine, Control, Tasks, Plan
<1>2. CASE Ends(p, "refused")
    <2>1. MayEnd(p, "refused")
        BY <1>1, NotRunning DEF MayEnd, Results, RolledBack
    <2> QED BY <1>1, <1>2, <2>1, EndsActs
<1>3. CASE /\ There(Name(p))
           /\ plan' = [plan EXCEPT ![p] = IF snap[Name(p)].vmstate THEN "running" ELSE "stopped"]
           /\ planned' = [planned EXCEPT ![p] = snap[Name(p)].seq]
           /\ Goto(p, "newest")
           /\ UNCHANGED <<cmd, view, todo, deleted, exec, result, checked, witnessed>>
    <2>1. PICK n \in Names : n = Name(p) /\ snap[n].seq # 0
        BY <1>3 DEF There
    <2>2. snap[n] \in Snapshots /\ snap[n].seq \in 1 .. MaxMade /\ snap[n].seq <= made
        <3>1. snap[n] \in Snapshots
            BY DEF TypeOK
        <3>2. snap[n].seq \in 1 .. MaxMade
            BY <2>1, <3>1 DEF Snapshots, NoSnapshot
        <3> QED BY <3>1, <3>2 DEF Ordered
    <2>3. TypeOK'
        <3>1. plan' \in [Runs -> {"running", "stopped"}] /\ planned' \in [Runs -> 0 .. MaxMade]
            BY <1>3, <2>1, <2>2 DEF TypeOK
        <3>2. pc' \in [Runs -> Labels]
            BY <1>3 DEF TypeOK, Goto, Labels
        <3> QED BY <1>1, <1>3, <3>1, <3>2 DEF TypeOK, pve
    <2>4. /\ pc'[p] = "newest" /\ result' = result /\ cmd' = cmd /\ view' = view /\ deleted' = deleted
          /\ plan'[p] = (IF snap[n].vmstate THEN "running" ELSE "stopped")
          /\ planned'[p] = snap[n].seq /\ exec' = exec /\ witnessed' = witnessed
          /\ checked' = checked /\ task' = task /\ gone' = gone /\ restored' = restored
          /\ snap' = snap /\ made' = made /\ guest' = guest /\ clock' = clock
        BY <1>1, <1>3, <2>1 DEF TypeOK, Goto, pve
    <2>5. Passes(p)
        BY <1>1, <1>3, <2>4 DEF Passes, Goto, TypeOK, HoldsVM
    <2>6. Honest(p)'
        BY <1>1, <2>4 DEF Mine, Honest, Absent
    <2>7. Control(p)'
        BY <1>1, <2>4 DEF Mine, Control
    <2>8. Tasks(p)'
        BY <1>1, <2>4 DEF Mine, Tasks
    <2>9. Noted(p)'
        BY <1>1, <2>4 DEF Noted
    <2>10. Planned(p)'
        <3>1. \A m \in Names : snap[m].seq = snap[n].seq => m = n
            BY <2>1 DEF Ordered, Chain
        <3> QED BY <1>1, <2>1, <2>2, <2>4, <3>1 DEF Planned, NothingRestored
    <2>11. Known(p)'
        BY <1>1, <2>4 DEF Mine, Known, At
    <2>12. Guest(p)'
        BY <1>1, <2>4 DEF Mine, Guest
    <2> QED BY <2>3, <2>5, <2>6, <2>7, <2>8, <2>9, <2>10, <2>11, <2>12 DEF Acts, Mine
<1> QED BY <1>2, <1>3 DEF Plan

\* A target that is newest by the second, with no tie, is newest in the true order.
LEMMA NewestIsLast ==
    ASSUME Inductive, NEW n \in Names, snap[n].seq # 0, NEW m \in Names, snap[m].seq # 0,
           m # n => snap[m].time < snap[n].time
    PROVE  ~(snap[m].seq > snap[n].seq)
<1>1. snap[n] \in Snapshots /\ snap[m] \in Snapshots
    BY DEF Inductive, TypeOK
<1>2. /\ snap[n].seq \in Nat /\ snap[n].time \in Nat
      /\ snap[m].seq \in Nat /\ snap[m].time \in Nat
    BY <1>1 DEF Snapshots, NoSnapshot
<1> QED BY <1>2 DEF Inductive, Ordered, Chain

LEMMA CheckNewestActs ==
    ASSUME Inductive, NEW p \in Runs, CheckNewest(p)
    PROVE  Acts(p)
<1> USE DEF Inductive
<1>1. /\ Mine(p) /\ result[p] = "none" /\ pc[p] = "newest" /\ cmd[p].kind = "rollback"
      /\ UNCHANGED pve
    BY DEF Mine, Control, CheckNewest
<1>2. CASE Ends(p, "refused")
    <2>1. MayEnd(p, "refused")
        BY <1>1, NotRunning DEF MayEnd, Results, RolledBack
    <2> QED BY <1>1, <1>2, <2>1, EndsActs
<1>3. CASE /\ There(Name(p)) /\ Newest(p)
           /\ checked' = [checked EXCEPT ![p] = made]
           /\ Goto(p, "post")
           /\ UNCHANGED <<cmd, view, todo, deleted, plan, exec, result, planned, witnessed>>
    <2>1. TypeOK'
        <3>1. checked' \in [Runs -> 0 .. MaxMade]
            BY <1>3 DEF TypeOK
        <3>2. pc' \in [Runs -> Labels]
            BY <1>3 DEF TypeOK, Goto, Labels
        <3> QED BY <1>1, <1>3, <3>1, <3>2 DEF TypeOK, pve
    <2>2. /\ pc'[p] = "post" /\ result' = result /\ cmd' = cmd /\ view' = view /\ deleted' = deleted
          /\ plan' = plan /\ planned' = planned /\ exec' = exec /\ witnessed' = witnessed
          /\ checked'[p] = made /\ task' = task /\ gone' = gone /\ restored' = restored
          /\ snap' = snap /\ made' = made /\ guest' = guest /\ clock' = clock
        BY <1>1, <1>3 DEF TypeOK, Goto, pve
    <2>3. Passes(p)
        BY <1>1, <1>3, <2>2 DEF Passes, Goto, TypeOK, HoldsVM
    <2>4. Honest(p)'
        BY <1>1, <2>2 DEF Mine, Honest, Absent
    <2>5. Control(p)'
        BY <1>1, <2>2 DEF Mine, Control
    <2>6. Tasks(p)'
        BY <1>1, <2>2 DEF Mine, Tasks
    <2>7. Noted(p)'
        BY <1>1, <2>2 DEF Noted
    <2>8. Planned(p)'
        BY <1>1, <2>2 DEF Mine, Planned
    <2>9. Known(p)'
        <3>1. \A m \in Names : There(m) => ~(snap[m].seq > snap[Name(p)].seq)
            BY <1>3, NewestIsLast DEF There, Newest, Listed
        <3>2. Name(p)' = Name(p)
            BY <2>2 DEF Name
        <3>3. made \in Nat
            BY SnapshotAssumption DEF TypeOK
        <3> QED BY <1>1, <2>2, <3>1, <3>2, <3>3 DEF Known, At, There
    <2>10. Guest(p)'
        BY <1>1, <2>2 DEF Mine, Guest
    <2> QED BY <2>1, <2>3, <2>4, <2>5, <2>6, <2>7, <2>8, <2>9, <2>10 DEF Acts, Mine
<1> QED BY <1>2, <1>3 DEF CheckNewest

LEMMA RollbackOutcomeActs ==
    ASSUME Inductive, NEW p \in Runs, RollbackOutcome(p)
    PROVE  Acts(p)
<1>1. /\ pc[p] = "outcome" /\ cmd[p].kind = "rollback" /\ UNCHANGED pve
      /\ task[p].job = "rollback" /\ task[p].status = "ok" /\ restored[p].seq # 0
    BY DEF RollbackOutcome, Inductive, Mine, Control, Tasks
<1>2. CASE Ends(p, "skipped")
    <2>1. MayEnd(p, "skipped")
        BY <1>1 DEF MayEnd, Results
    <2> QED BY <1>1, <1>2, <2>1, EndsActs
<1>3. CASE plan[p] = "stopped" /\ Ends(p, "not-applicable")
    <2>1. MayEnd(p, "not-applicable")
        BY <1>1, <1>3 DEF MayEnd, Results
    <2> QED BY <1>1, <1>3, <2>1, EndsActs
<1>4. CASE Moves(p, "dispatch")
    <2>1. MayGo(p, "dispatch")
        BY <1>1 DEF MayGo, Labels
    <2> QED BY <1>1, <1>4, <2>1, MovesActs
<1> QED BY <1>2, <1>3, <1>4 DEF RollbackOutcome

LEMMA DispatchActs ==
    ASSUME Inductive, NEW p \in Runs, Dispatch(p)
    PROVE  Acts(p)
<1> USE DEF Inductive
<1>1. /\ Mine(p) /\ result[p] = "none" /\ pc[p] = "dispatch" /\ cmd[p].kind = "rollback"
      /\ task[p].job = "rollback" /\ task[p].status = "ok"
    BY DEF Mine, Control, Tasks, Dispatch
<1>2. TypeOK'
    <2>1. exec' \in [Runs -> {"none", "started"} \cup Ended]
        BY DEF Dispatch, TypeOK
    <2>2. witnessed' \in [Runs -> Runs \cup {Web}]
        BY DEF Dispatch, TypeOK
    <2>3. pc' \in [Runs -> Labels]
        BY DEF Dispatch, TypeOK, Goto, Labels
    <2> QED BY <2>1, <2>2, <2>3 DEF Dispatch, TypeOK, pve
<1>3. /\ pc'[p] = "poll" /\ result' = result /\ cmd' = cmd /\ view' = view /\ deleted' = deleted
      /\ plan' = plan /\ planned' = planned /\ exec'[p] = "started" /\ witnessed'[p] = guest.by
      /\ checked' = checked /\ task' = task /\ gone' = gone /\ restored' = restored
      /\ snap' = snap /\ made' = made /\ guest' = guest /\ clock' = clock
    BY DEF TypeOK, Goto, pve, Dispatch
<1>4. Passes(p)
    BY <1>1, <1>3 DEF Passes, Goto, TypeOK, HoldsVM, Dispatch
<1>5. Honest(p)'
    BY <1>1, <1>3 DEF Mine, Honest, Absent
<1>6. Control(p)'
    BY <1>1, <1>3 DEF Mine, Control
<1>7. Tasks(p)'
    BY <1>1, <1>3 DEF Mine, Tasks
<1>8. Noted(p)'
    BY <1>1, <1>3 DEF Noted
<1>9. Planned(p)'
    BY <1>1, <1>3 DEF Mine, Planned
<1>10. Known(p)'
    BY <1>1, <1>3 DEF Mine, Known, At
<1>11. Guest(p)'
    BY <1>1, <1>3 DEF Mine, Guest, Own
<1> QED BY <1>2, <1>4, <1>5, <1>6, <1>7, <1>8, <1>9, <1>10, <1>11 DEF Acts, Mine

LEMMA WitnessEndsActs ==
    ASSUME Inductive, NEW p \in Runs, WitnessEnds(p)
    PROVE  Acts(p)
<1>1. /\ pc[p] \in {"dispatch", "poll"} /\ UNCHANGED pve
      /\ task[p].status = "ok" /\ restored[p].seq # 0
    BY DEF WitnessEnds, Inductive, Mine, Tasks
<1>2. MayEnd(p, "unproven") /\ MayEnd(p, "interrupted")
    BY <1>1 DEF MayEnd, Results
<1> QED BY <1>1, <1>2, EndsActs DEF WitnessEnds

LEMMA PollActs ==
    ASSUME Inductive, NEW p \in Runs, Poll(p)
    PROVE  Acts(p)
<1>1. /\ pc[p] = "poll" /\ UNCHANGED pve /\ Own(p, witnessed[p])
      /\ task[p].status = "ok" /\ restored[p].seq # 0
    BY DEF Poll, Inductive, Mine, Tasks, Guest
<1>2. CASE exec[p] = "good" /\ Ends(p, "verified")
    <2>1. MayEnd(p, "verified")
        BY <1>1, <1>2 DEF MayEnd, Results
    <2> QED BY <1>1, <1>2, <2>1, EndsActs
<1>3. CASE Ends(p, "unproven")
    <2>1. MayEnd(p, "unproven")
        BY <1>1 DEF MayEnd, Results
    <2> QED BY <1>1, <1>3, <2>1, EndsActs
<1> QED BY <1>2, <1>3 DEF Poll, Succeeded

LEMMA RunActs ==
    ASSUME Inductive, NEW p \in Runs, Start(p) \/ Step(p) \/ Killed(p)
    PROVE  Acts(p)
BY StartActs, KilledActs, LockActs, UnverifiableActs, WaitForTaskActs, ListActs, CreateCheckActs,
   CreateSendActs, CreateVerifyActs, DeleteReadActs, DeletePrestateActs, DeleteSendActs,
   DeletesSentActs, DeleteVerifyActs, PlanActs, CheckNewestActs, RollbackSendActs,
   RollbackOutcomeActs, DispatchActs, WitnessEndsActs, PollActs DEF Step

-----------------------------------------------------------------------------
(* A step of PVE, the guest or the web UI                                  *)

\* What the runs know stays as it is.
Still ==
    /\ pc' = pc /\ cmd' = cmd /\ view' = view /\ todo' = todo /\ deleted' = deleted /\ plan' = plan
    /\ result' = result /\ planned' = planned /\ checked' = checked /\ witnessed' = witnessed

\* Every name keeps its snapshot, loses it, or gets one later than all before; what
\* is lost is noted.
Turns ==
    /\ snap' \in [Names -> Snapshots] /\ made' \in made .. MaxMade
    /\ \A n \in Names : snap'[n] = snap[n] \/ snap'[n] = NoSnapshot \/ snap'[n].seq > made
    /\ Ordered'
    /\ gone' \in [Runs -> SUBSET Names]
    /\ \A p \in Runs : gone[p] \subseteq gone'[p]
    /\ \A p \in Busy : cmd[p].kind = "delete" => Names \ Listed' \subseteq gone'[p]

LEMMA SnapType ==
    ASSUME Inductive, NEW n \in Names
    PROVE  /\ snap[n].seq \in Nat /\ snap[n].time \in Nat /\ snap[n].vmstate \in BOOLEAN
           /\ snap[n].seq # 0 => snap[n].seq \in 1 .. MaxMade
<1>1. snap[n] \in Snapshots
    BY DEF Inductive, TypeOK
<1>2. CASE snap[n] = NoSnapshot
    BY <1>2 DEF NoSnapshot
<1>3. CASE snap[n] \in [time : 1 .. MaxClock, seq : 1 .. MaxMade, vmstate : BOOLEAN]
    BY <1>3
<1> QED BY <1>1, <1>2, <1>3 DEF Snapshots

LEMMA BecomeNotes ==
    ASSUME Inductive, NEW s \in [Names -> Snapshots], Become(s)
    PROVE  /\ gone' \in [Runs -> SUBSET Names]
           /\ \A p \in Runs : gone[p] \subseteq gone'[p]
           /\ \A p \in Busy : cmd[p].kind = "delete" => Names \ Listed' \subseteq gone'[p]
<1>1. ASSUME NEW p \in Runs
      PROVE  /\ gone'[p] = IF p \in Busy /\ cmd[p].kind = "delete"
                           THEN gone[p] \cup {n \in Names : s[n].seq = 0} ELSE gone[p]
             /\ gone[p] \subseteq Names
    BY DEF Become, Inductive, TypeOK
<1>2. gone' \in [Runs -> SUBSET Names]
    BY <1>1 DEF Become
<1>3. \A n \in Names \ Listed' : s[n].seq = 0
    BY DEF Become, Listed, There
<1> QED BY <1>1, <1>2, <1>3 DEF Busy

LEMMA MakeTurns ==
    ASSUME Inductive, NEW n \in Names \cup {Current}, NEW ram \in BOOLEAN, Make(n, ram), clock' = clock
    PROVE  Turns
<1> DEFINE new == [time |-> clock, seq |-> made + 1, vmstate |-> ram]
           s == [snap EXCEPT ![n] = new]
<1>1. made \in Nat /\ made' = made + 1 /\ made' \in made .. MaxMade /\ clock \in 1 .. MaxClock
    BY SnapshotAssumption DEF Make, Inductive, TypeOK
<1>2. new \in Snapshots
    BY <1>1, SnapshotAssumption DEF Snapshots
<1>3. s \in [Names -> Snapshots]
    BY <1>2 DEF Inductive, TypeOK
<1>4. Become(s) /\ snap' = s
    BY DEF Make, Become
<1>5. \A m \in Names : snap'[m] = IF m = n THEN new ELSE snap[m]
    BY <1>4 DEF Inductive, TypeOK
<1>6. \A m \in Names : snap'[m] = snap[m] \/ snap'[m].seq > made
    BY <1>1, <1>5
<1>7. \A m \in Names : snap'[m].seq <= made' /\ snap'[m].time <= clock'
    BY <1>1, <1>5, SnapType DEF Inductive, Ordered
<1>8. Chain(snap)'
    <2> SUFFICES ASSUME NEW i \in Names, NEW j \in Names, i # j,
                        snap'[i].seq # 0, snap'[j].seq # 0
                 PROVE  /\ snap'[i].seq # snap'[j].seq
                        /\ snap'[i].seq < snap'[j].seq => snap'[i].time <= snap'[j].time
        BY DEF Chain
    <2>1. CASE i = n
        BY <2>1, <1>1, <1>5, SnapType DEF Inductive, Ordered
    <2>2. CASE j = n
        BY <2>2, <1>1, <1>5, SnapType DEF Inductive, Ordered
    <2>3. CASE i # n /\ j # n
        BY <2>3, <1>5 DEF Inductive, Ordered, Chain
    <2> QED BY <2>1, <2>2, <2>3
<1>9. Ordered'
    BY <1>7, <1>8 DEF Ordered
<1> HIDE DEF s
<1> QED BY <1>1, <1>3, <1>4, <1>6, <1>9, BecomeNotes DEF Turns

LEMMA RemoveTurns ==
    ASSUME Inductive, NEW n \in Names \cup {Current}, Remove(n), clock' = clock
    PROVE  Turns
<1> DEFINE s == [snap EXCEPT ![n] = NoSnapshot]
<1>1. made' \in made .. MaxMade /\ made' = made /\ n \in Names
    BY SnapshotAssumption DEF Remove, Inductive, TypeOK, There
<1>2. s \in [Names -> Snapshots]
    BY DEF Inductive, TypeOK, Snapshots
<1>3. Become(s) /\ snap' = s
    BY DEF Remove, Become
<1>4. \A m \in Names : snap'[m] = IF m = n THEN NoSnapshot ELSE snap[m]
    BY <1>3 DEF Inductive, TypeOK
<1>5. \A m \in Names : snap'[m] = snap[m] \/ (snap'[m] = NoSnapshot /\ snap'[m].seq = 0 /\ snap'[m].time = 0)
    BY <1>4 DEF NoSnapshot
<1>6. made \in Nat /\ clock \in Nat
    BY SnapshotAssumption DEF Inductive, TypeOK
<1>7. Ordered'
    <2>1. \A m \in Names : snap'[m].seq <= made' /\ snap'[m].time <= clock'
        BY <1>1, <1>5, <1>6, SnapType DEF Inductive, Ordered
    <2>2. Chain(snap)'
        BY <1>5 DEF Chain, Inductive, Ordered
    <2> QED BY <2>1, <2>2 DEF Ordered
<1> HIDE DEF s
<1> QED BY <1>1, <1>2, <1>3, <1>5, <1>7, BecomeNotes DEF Turns

LEMMA SameTurns ==
    ASSUME Inductive, UNCHANGED <<snap, made, gone>>, clock' \in Nat, clock' >= clock
    PROVE  Turns
<1>1. made' \in made .. MaxMade /\ snap' \in [Names -> Snapshots] /\ gone' \in [Runs -> SUBSET Names]
    BY SnapshotAssumption DEF Inductive, TypeOK
<1>2. \A n \in Names : snap[n].time <= clock'
    BY SnapType, SnapshotAssumption DEF Inductive, Ordered, TypeOK
<1>3. Ordered'
    BY <1>2 DEF Inductive, Ordered, Chain
<1>4. \A p \in Busy : cmd[p].kind = "delete" => Names \ Listed' \subseteq gone'[p]
    BY DEF Inductive, Mine, Noted, Busy, Listed, There
<1> QED BY <1>1, <1>3, <1>4 DEF Turns

\* What a run has seen of the snapshots holds of them still.
LEMMA TurnsKeep ==
    ASSUME Inductive, Still, Turns, NEW p \in Runs
    PROVE  /\ Control(p)' /\ Noted(p)' /\ Known(p)'
           /\ restored'[p] = restored[p] => Planned(p)'
<1>1. Mine(p)
    BY DEF Inductive
<1>2. Control(p)'
    BY <1>1 DEF Mine, Control, Still
<1>3. Noted(p)'
    BY DEF Noted, Still, Turns, Busy
<1>4. made \in Nat /\ made' \in Nat /\ made <= made' /\ planned[p] \in Nat /\ checked[p] \in Nat
    BY SnapshotAssumption DEF Inductive, TypeOK, Turns
<1>5. \A n \in Names : snap'[n].seq \in Nat
    BY DEF Turns, Snapshots, NoSnapshot
<1>6. \A n \in Names : snap'[n].seq # 0 /\ snap'[n].seq <= made => snap'[n] = snap[n]
    BY <1>4, <1>5 DEF Turns, NoSnapshot
<1>7. Known(p)'
    <2>1. checked'[p] <= made' /\ checked'[p] = checked[p] /\ checked[p] <= made
        BY <1>1, <1>4 DEF Mine, Known, Still
    <2>2. ASSUME At(p, "rollback", "post"), NEW m \in Names, NEW n \in Names, n = Name(p),
                 snap'[m].seq # 0, snap'[n].seq # 0, snap'[m].seq > snap'[n].seq
          PROVE  snap'[m].seq > checked[p]
        <3>1. CASE snap'[m].seq > made
            BY <3>1, <2>1, <1>4, <1>5
        <3>2. CASE snap'[m].seq <= made
            <4>1. snap'[m] = snap[m] /\ snap'[n] = snap[n]
                BY <3>2, <2>2, <1>4, <1>5, <1>6
            <4> QED BY <4>1, <2>2, <1>1 DEF Mine, Known, There
        <3> QED BY <3>1, <3>2, <1>4, <1>5
    <2>3. ASSUME cmd[p].kind = "delete", pc[p] \in {"prestate", "delete", "wait"}, NEW n \in Names,
                 snap'[n].seq # 0, snap'[n].seq <= checked[p]
          PROVE  view[p][n] = snap'[n].time
        <3>1. snap'[n] = snap[n]
            BY <2>1, <2>3, <1>4, <1>5, <1>6
        <3> QED BY <3>1, <2>3, <1>1 DEF Mine, Known, There
    <2>4. At(p, "rollback", "post")' = At(p, "rollback", "post") /\ Name(p)' = Name(p)
        BY DEF Still, At, Name
    <2> QED BY <2>1, <2>2, <2>3, <2>4 DEF Known, There, Still
<1>8. ASSUME restored'[p] = restored[p] PROVE Planned(p)'
    <2>1. planned'[p] <= made' /\ planned'[p] = planned[p] /\ planned[p] <= made
        BY <1>1, <1>4 DEF Mine, Planned, Still
    <2>2. ASSUME plan[p] = "stopped", NEW n \in Names, snap'[n].seq = planned[p]
          PROVE  ~snap'[n].vmstate
        BY <1>1, <1>6, <2>1, <2>2 DEF Mine, Planned
    <2> QED BY <1>1, <1>8, <2>1, <2>2 DEF Mine, Planned, Still
<1> QED BY <1>2, <1>3, <1>7, <1>8

\* Whose rollback the guest runs stays, or is of one that may come between.
GuestStays(p) ==
    /\ pc[p] \in {"wait", "outcome", "dispatch"} /\ task[p].job = "rollback" /\ task[p].status = "ok"
    => guest'.by = guest.by \/ Own(p, guest'.by)

\* A run whose own task, witness and rollback the step does not touch.
LEMMA UntouchedKeep ==
    ASSUME Inductive, Still, Turns, NEW p \in Runs,
           task'[p] = task[p], restored'[p] = restored[p], exec'[p] = exec[p], GuestStays(p)
    PROVE  Mine(p)'
<1>1. Mine(p)
    BY DEF Inductive
<1>2. Control(p)' /\ Noted(p)' /\ Known(p)' /\ Planned(p)'
    BY TurnsKeep
<1>3. gone[p] \subseteq gone'[p]
    BY DEF Turns
<1>4. Honest(p)'
    BY <1>1, <1>3 DEF Mine, Honest, Absent, Still
<1>5. Tasks(p)'
    BY <1>1, <1>3 DEF Mine, Tasks, Still
<1>6. Guest(p)'
    BY <1>1 DEF Mine, Guest, GuestStays, Own, Still
<1> QED BY <1>1, <1>2, <1>4, <1>5, <1>6 DEF Mine

\* With the runs and their commands as they were, the lock is as it was.
LEMMA LockStill ==
    ASSUME Inductive, Still
    PROVE  Exclusion'
BY DEF Inductive, Exclusion, HoldsVM, Still

\* Types, where the runs know what they knew.
LEMMA StillType ==
    ASSUME Inductive, Still, Turns,
           clock' \in 1 .. MaxClock, outside' \in 0 .. MaxOutside,
           guest' \in [running : BOOLEAN, by : Runs \cup {Web}],
           task' \in [Runs -> [job : Kinds \cup {"none"}, name : Names \cup {Current},
                               status : {"none", "running", "ok", "failed"}]],
           exec' \in [Runs -> {"none", "started"} \cup Ended],
           restored' \in [Runs -> [seq : 0 .. MaxMade, vmstate : BOOLEAN]]
    PROVE  TypeOK'
<1>1. made' \in 0 .. MaxMade
    BY SnapshotAssumption DEF Inductive, TypeOK, Turns
<1> QED BY <1>1 DEF Inductive, TypeOK, Still, Turns

LEMMA TickKeeps ==
    ASSUME Inductive, Tick
    PROVE  Inductive'
<1>1. /\ Still /\ clock' = clock + 1 /\ clock \in 1 .. MaxClock /\ clock' \in 1 .. MaxClock
      /\ UNCHANGED <<snap, made, guest, task, outside, gone, restored, exec>>
    BY SnapshotAssumption DEF Tick, Still, locals, Inductive, TypeOK
<1>2. Turns
    BY <1>1, SnapshotAssumption, SameTurns
<1>3. \A p \in Runs : Mine(p)'
    BY <1>1, <1>2, UntouchedKeep DEF GuestStays
<1>4. TypeOK'
    BY <1>1, <1>2, StillType DEF Inductive, TypeOK
<1> QED BY <1>1, <1>2, <1>3, <1>4, LockStill DEF Inductive, Turns

LEMMA CommandEndsKeeps ==
    ASSUME Inductive, NEW p \in Runs, CommandEnds(p)
    PROVE  Inductive'
<1>1. PICK how \in Ended : exec' = [exec EXCEPT ![p] = how]
    BY DEF CommandEnds
<1>2. /\ Still /\ exec[p] = "started"
      /\ UNCHANGED <<snap, clock, made, guest, task, outside, gone, restored>>
    BY DEF CommandEnds, Still, pve
<1>3. exec' \in [Runs -> {"none", "started"} \cup Ended] /\ \A q \in Runs \ {p} : exec'[q] = exec[q]
    BY <1>1 DEF Inductive, TypeOK
<1>4. Turns
    BY <1>2, SnapshotAssumption, SameTurns DEF Inductive, TypeOK
<1>5. \A q \in Runs \ {p} : Mine(q)'
    BY <1>2, <1>3, <1>4, UntouchedKeep DEF GuestStays
<1>6. Mine(p)'
    <2>1. Mine(p)
        BY DEF Inductive
    <2>2. Control(p)' /\ Noted(p)' /\ Known(p)' /\ Planned(p)'
        BY <1>2, <1>4, TurnsKeep
    <2>3. Honest(p)' /\ Tasks(p)'
        BY <1>2, <2>1 DEF Mine, Honest, Tasks, Absent, Still
    <2>4. Guest(p)'
        BY <1>2, <2>1 DEF Mine, Guest, Own, Still
    <2> QED BY <2>2, <2>3, <2>4 DEF Mine
<1>7. TypeOK'
    BY <1>2, <1>3, <1>4, StillType DEF Inductive, TypeOK
<1> QED BY <1>2, <1>4, <1>5, <1>6, <1>7, LockStill DEF Inductive, Turns

\* A task that ends is the same task.
LEMMA TaskEnded ==
    ASSUME NEW t \in [job : Kinds \cup {"none"}, name : Names \cup {Current},
                      status : {"none", "running", "ok", "failed"}],
           NEW st \in {"ok", "failed"}
    PROVE  /\ [t EXCEPT !.status = st].job = t.job /\ [t EXCEPT !.status = st].name = t.name
           /\ [t EXCEPT !.status = st].status = st
           /\ [t EXCEPT !.status = st] \in [job : Kinds \cup {"none"}, name : Names \cup {Current},
                                            status : {"none", "running", "ok", "failed"}]
OBVIOUS

LEMMA TaskFailsKeeps ==
    ASSUME Inductive, NEW p \in Runs, TaskFails(p)
    PROVE  Inductive'
<1>1. /\ Still /\ task[p].status = "running" /\ task' = [task EXCEPT ![p].status = "failed"]
      /\ UNCHANGED <<snap, clock, made, guest, outside, gone, restored, exec>>
    BY DEF TaskFails, Still, locals
<1>2. task'[p] = [task[p] EXCEPT !.status = "failed"] /\ \A q \in Runs \ {p} : task'[q] = task[q]
    BY <1>1 DEF Inductive, TypeOK
<1>3. /\ task'[p].job = task[p].job /\ task'[p].name = task[p].name /\ task'[p].status = "failed"
      /\ task'[p] \in [job : Kinds \cup {"none"}, name : Names \cup {Current},
                       status : {"none", "running", "ok", "failed"}]
    BY <1>2, TaskEnded DEF Inductive, TypeOK
<1>4. task' \in [Runs -> [job : Kinds \cup {"none"}, name : Names \cup {Current},
                          status : {"none", "running", "ok", "failed"}]]
    BY <1>1, <1>2, <1>3 DEF Inductive, TypeOK
<1>5. Turns
    BY <1>1, SnapshotAssumption, SameTurns DEF Inductive, TypeOK
<1>6. \A q \in Runs \ {p} : Mine(q)'
    BY <1>1, <1>2, <1>5, UntouchedKeep DEF GuestStays
<1>7. Mine(p)'
    <2>1. Mine(p)
        BY DEF Inductive
    <2>2. Control(p)' /\ Noted(p)' /\ Known(p)' /\ Planned(p)'
        BY <1>1, <1>5, TurnsKeep
    <2>3. Honest(p)'
        BY <1>1, <1>3, <2>1 DEF Mine, Honest, Absent, Still
    <2>4. Tasks(p)'
        BY <1>1, <1>3, <2>1 DEF Mine, Tasks, Still, NoTask
    <2>5. Guest(p)'
        BY <1>1, <1>3, <2>1 DEF Mine, Guest, Own, Still
    <2> QED BY <2>2, <2>3, <2>4, <2>5 DEF Mine
<1>8. TypeOK'
    BY <1>1, <1>4, <1>5, StillType DEF Inductive, TypeOK
<1> QED BY <1>1, <1>5, <1>6, <1>7, <1>8, LockStill DEF Inductive, Turns

LEMMA WebUIKeeps ==
    ASSUME Inductive, WebUI
    PROVE  Inductive'
<1>1. /\ Still /\ UNCHANGED <<clock, task, restored, exec>>
    BY DEF WebUI, Still, locals
<1>2. outside' \in 0 .. MaxOutside
    BY SnapshotAssumption DEF WebUI, Inductive, TypeOK
<1>3. clock' \in Nat /\ clock' >= clock
    BY <1>1, SnapshotAssumption DEF Inductive, TypeOK
<1>4. Turns /\ guest' \in [running : BOOLEAN, by : Runs \cup {Web}]
         /\ (guest'.by = guest.by \/ guest'.by = Web)
    <2>1. CASE \E n \in Names : \E ram \in BOOLEAN : Make(n, ram) /\ UNCHANGED guest
        BY <2>1, <1>1, MakeTurns DEF Inductive, TypeOK
    <2>2. CASE \E n \in Names : Remove(n) /\ UNCHANGED guest
        BY <2>2, <1>1, RemoveTurns DEF Inductive, TypeOK
    <2>3. CASE \E n \in Names : RollTo(n, Web) /\ UNCHANGED <<snap, made, gone>>
        <3>1. PICK n \in Names : guest' = [running |-> snap[n].vmstate, by |-> Web]
            BY <2>3 DEF RollTo
        <3>2. snap[n].vmstate \in BOOLEAN
            BY SnapType
        <3> QED BY <2>3, <3>1, <3>2, <1>3, SameTurns
    <2>4. CASE guest' = [guest EXCEPT !.running = ~@] /\ UNCHANGED <<snap, made, gone>>
        <3>1. guest' \in [running : BOOLEAN, by : Runs \cup {Web}] /\ guest'.by = guest.by
            BY <2>4 DEF Inductive, TypeOK
        <3> QED BY <2>4, <3>1, <1>3, SameTurns
    <2> QED BY <2>1, <2>2, <2>3, <2>4 DEF WebUI
<1>5. \A p \in Runs : Mine(p)'
    BY <1>1, <1>4, UntouchedKeep DEF GuestStays, Own
<1>6. TypeOK'
    BY <1>1, <1>2, <1>4, StillType DEF Inductive, TypeOK
<1> QED BY <1>1, <1>4, <1>5, <1>6, LockStill DEF Inductive, Turns

\* While a run has rolled the guest back and still holds the lock, another's task runs
\* only if its command did not see it end.
LEMMA OthersTaskIsBlind ==
    ASSUME Inductive, NEW p \in Runs, NEW q \in Runs, p # q, task[p].status = "running",
           pc[q] \in {"wait", "outcome", "dispatch"}
    PROVE  result[p] \in Blind
<1>1. cmd[q].kind # "list" /\ HoldsVM(q)
    BY DEF Inductive, Mine, Control, HoldsVM
<1>2. ~HoldsVM(p)
    BY <1>1 DEF Inductive, Exclusion
<1> QED BY <1>2 DEF HoldsVM, Inductive, Mine, Tasks

LEMMA TaskSucceedsKeeps ==
    ASSUME Inductive, NEW p \in Runs, TaskSucceeds(p)
    PROVE  Inductive'
<1>1. /\ Still /\ task[p].status = "running" /\ task' = [task EXCEPT ![p].status = "ok"]
      /\ UNCHANGED <<clock, outside, exec>>
    BY DEF TaskSucceeds, Still, locals
<1>2. task'[p] = [task[p] EXCEPT !.status = "ok"] /\ \A q \in Runs \ {p} : task'[q] = task[q]
    BY <1>1 DEF Inductive, TypeOK
<1>3. /\ task'[p].job = task[p].job /\ task'[p].name = task[p].name /\ task'[p].status = "ok"
      /\ task'[p] \in [job : Kinds \cup {"none"}, name : Names \cup {Current},
                       status : {"none", "running", "ok", "failed"}]
    BY <1>2, TaskEnded DEF Inductive, TypeOK
<1>4. task' \in [Runs -> [job : Kinds \cup {"none"}, name : Names \cup {Current},
                          status : {"none", "running", "ok", "failed"}]]
    BY <1>1, <1>2, <1>3 DEF Inductive, TypeOK
<1>5. task[p].name \in Names \cup {Current}
    BY DEF Inductive, TypeOK
<1>6. CASE task[p].job = "create" /\ (\E ram \in BOOLEAN : Make(task[p].name, ram))
              /\ UNCHANGED <<guest, restored>>
    <2>1. Turns
        BY <1>1, <1>5, <1>6, MakeTurns
    <2>2. \A q \in Runs \ {p} : Mine(q)'
        BY <1>1, <1>2, <1>6, <2>1, UntouchedKeep DEF GuestStays
    <2>3. Mine(p) /\ gone[p] \subseteq gone'[p]
        BY <2>1 DEF Inductive, Turns
    <2>4. Control(p)' /\ Noted(p)' /\ Known(p)' /\ Planned(p)'
        BY <1>1, <1>6, <2>1, TurnsKeep
    <2>5. Honest(p)'
        BY <1>1, <1>3, <1>6, <2>3 DEF Mine, Honest, Absent, Still
    <2>6. Tasks(p)'
        BY <1>1, <1>3, <1>6, <2>3 DEF Mine, Tasks, Still, NoTask
    <2>7. Guest(p)'
        BY <1>1, <1>3, <1>6, <2>3 DEF Mine, Guest, Own, Still
    <2>8. TypeOK'
        BY <1>1, <1>4, <1>6, <2>1, StillType DEF Inductive, TypeOK
    <2> QED BY <1>1, <2>1, <2>2, <2>4, <2>5, <2>6, <2>7, <2>8, LockStill DEF Inductive, Turns, Mine
<1>7. CASE task[p].job = "delete" /\ Remove(task[p].name) /\ UNCHANGED <<guest, restored>>
    <2>1. Turns
        BY <1>1, <1>5, <1>7, RemoveTurns
    <2>2. \A q \in Runs \ {p} : Mine(q)'
        BY <1>1, <1>2, <1>7, <2>1, UntouchedKeep DEF GuestStays
    <2>3. Mine(p) /\ gone[p] \subseteq gone'[p]
        BY <2>1 DEF Inductive, Turns
    <2>4. Control(p)' /\ Noted(p)' /\ Known(p)' /\ Planned(p)'
        BY <1>1, <1>7, <2>1, TurnsKeep
    <2>5. Honest(p)'
        BY <1>1, <1>3, <1>7, <2>3 DEF Mine, Honest, Absent, Still
    <2>6. pc[p] = "wait" => task[p].name \in gone'[p]
        <3>1. task[p].name \in Names /\ snap'[task[p].name] = NoSnapshot
            BY <1>7 DEF Remove, Become, There, Inductive, TypeOK
        <3>2. task[p].name \in Names \ Listed'
            BY <3>1 DEF Listed, There, NoSnapshot
        <3> QED BY <1>7, <2>1, <2>3, <3>2 DEF Turns, Busy, Mine, Tasks
    <2>7. Tasks(p)'
        BY <1>1, <1>3, <1>7, <2>3, <2>6 DEF Mine, Tasks, Still, NoTask
    <2>8. Guest(p)'
        BY <1>1, <1>3, <1>7, <2>3 DEF Mine, Guest, Own, Still
    <2>9. TypeOK'
        BY <1>1, <1>4, <1>7, <2>1, StillType DEF Inductive, TypeOK
    <2> QED BY <1>1, <2>1, <2>2, <2>4, <2>5, <2>7, <2>8, <2>9, LockStill DEF Inductive, Turns, Mine
<1>8. CASE /\ task[p].job = "rollback" /\ RollTo(task[p].name, p)
           /\ restored' = [restored EXCEPT ![p] = [seq |-> snap[task[p].name].seq,
                                                   vmstate |-> snap[task[p].name].vmstate]]
           /\ UNCHANGED <<snap, made, gone>>
    <2>1. PICK n \in Names : n = task[p].name /\ snap[n].seq # 0
        BY <1>8 DEF RollTo, There
    <2>2. snap[n].seq \in 1 .. MaxMade /\ snap[n].vmstate \in BOOLEAN
        BY <2>1, SnapType
    <2>3. guest' = [running |-> snap[n].vmstate, by |-> p]
        BY <1>8, <2>1 DEF RollTo
    <2>4. restored' = [restored EXCEPT ![p] = [seq |-> snap[n].seq, vmstate |-> snap[n].vmstate]]
        BY <1>8, <2>1
    <2>5. /\ restored'[p] = [seq |-> snap[n].seq, vmstate |-> snap[n].vmstate]
          /\ \A q \in Runs \ {p} : restored'[q] = restored[q]
          /\ restored' \in [Runs -> [seq : 0 .. MaxMade, vmstate : BOOLEAN]]
        BY <2>2, <2>4 DEF Inductive, TypeOK
    <2>6. Turns
        BY <1>1, <1>8, SnapshotAssumption, SameTurns DEF Inductive, TypeOK
    <2>7. ASSUME NEW q \in Runs \ {p} PROVE Mine(q)'
        <3>1. GuestStays(q)
            BY <1>1, <2>3, OthersTaskIsBlind DEF GuestStays, Own
        <3> QED BY <1>1, <1>2, <2>5, <2>6, <3>1, UntouchedKeep
    <2>8. Mine(p)
        BY DEF Inductive
    <2>9. Control(p)' /\ Noted(p)' /\ Known(p)'
        BY <1>1, <2>6, TurnsKeep
    <2>10. Planned(p)'
        BY <1>1, <1>8, <2>5, <2>8 DEF Mine, Planned, Still
    <2>11. Honest(p)'
        BY <1>1, <1>3, <1>8, <2>2, <2>5, <2>8 DEF Mine, Honest, Absent, Still
    <2>12. Tasks(p)'
        BY <1>1, <1>3, <1>8, <2>2, <2>5, <2>8 DEF Mine, Tasks, Still, NoTask
    <2>13. Guest(p)'
        BY <1>1, <2>3, <2>8 DEF Mine, Guest, Own, Still
    <2>14. TypeOK'
        <3>1. guest' \in [running : BOOLEAN, by : Runs \cup {Web}]
            BY <2>2, <2>3
        <3> QED BY <1>1, <1>4, <2>5, <2>6, <3>1, StillType DEF Inductive, TypeOK
    <2> QED BY <1>1, <2>6, <2>7, <2>9, <2>10, <2>11, <2>12, <2>13, <2>14, LockStill
            DEF Inductive, Turns, Mine
<1> QED BY <1>6, <1>7, <1>8 DEF TaskSucceeds

-----------------------------------------------------------------------------
(* The theorems                                                            *)

LEMMA InitInductive == Init => Inductive
<1> SUFFICES ASSUME Init PROVE Inductive
    OBVIOUS
<1>1. /\ Cardinality(Names) \in Nat /\ 1 \in 1 .. MaxClock /\ 0 \in 0 .. MaxClock
      /\ Cardinality(Names) \in 0 .. MaxMade /\ 0 \in 0 .. MaxOutside /\ 0 \in 0 .. MaxMade
    BY SnapshotAssumption, FS_CardinalityType
<1>2. TypeOK
    <2>1. snap \in [Names -> Snapshots]
        BY SnapshotAssumption DEF Init
    <2>2. task \in [Runs -> [job : Kinds \cup {"none"}, name : Names \cup {Current},
                             status : {"none", "running", "ok", "failed"}]]
        BY DEF Init, NoTask
    <2>3. cmd \in [Runs -> [kind : Kinds \cup {"none"}, names : SUBSET (Names \cup {Current}),
                            witness : BOOLEAN]]
        BY DEF Init
    <2>4. restored \in [Runs -> [seq : 0 .. MaxMade, vmstate : BOOLEAN]]
        BY <1>1 DEF Init, NothingRestored
    <2>5. view \in [Runs -> [Names -> 0 .. MaxClock]]
        BY <1>1 DEF Init
    <2>6. pc \in [Runs -> Labels] /\ result \in [Runs -> Results]
        BY DEF Init, Labels, Results
    <2> QED BY <1>1, <2>1, <2>2, <2>3, <2>4, <2>5, <2>6 DEF Init, TypeOK
<1>3. Exclusion
    BY DEF Init, Exclusion, HoldsVM
<1>4. Ordered
    BY SnapshotAssumption DEF Init, Ordered
<1>5. ASSUME NEW p \in Runs PROVE Mine(p)
    <2>1. /\ pc[p] = "idle" /\ result[p] = "none" /\ task[p] = NoTask /\ restored[p] = NothingRestored
          /\ deleted[p] = {} /\ cmd[p].kind = "none" /\ plan[p] = "running"
          /\ planned[p] = 0 /\ checked[p] = 0 /\ made \in Nat
        BY <1>1 DEF Init
    <2> QED BY <2>1 DEF Mine, Honest, Control, Tasks, Noted, Planned, Known, Guest, Busy, At,
                        NoTask, RolledBack
<1> QED BY <1>2, <1>3, <1>4, <1>5 DEF Inductive

LEMMA NextInductive ==
    ASSUME Inductive, [Next]_vars
    PROVE  Inductive'
<1>1. CASE \E p \in Runs : Start(p) \/ Step(p) \/ Killed(p)
    BY <1>1, RunActs, ActsKeep
<1>2. CASE \E p \in Runs : TaskSucceeds(p) \/ TaskFails(p) \/ CommandEnds(p)
    BY <1>2, TaskSucceedsKeeps, TaskFailsKeeps, CommandEndsKeeps
<1>3. CASE Tick \/ WebUI
    BY <1>3, TickKeeps, WebUIKeeps
<1>4. CASE UNCHANGED vars
    <2>1. Still /\ UNCHANGED <<clock, snap, made, guest, task, outside, gone, restored, exec>>
        BY <1>4 DEF vars, pve, locals, Still
    <2>2. Turns
        BY <2>1, SnapshotAssumption, SameTurns DEF Inductive, TypeOK
    <2>3. \A p \in Runs : Mine(p)'
        BY <2>1, <2>2, UntouchedKeep DEF GuestStays
    <2>4. TypeOK'
        BY <2>1, <2>2, StillType DEF Inductive, TypeOK
    <2> QED BY <2>1, <2>2, <2>3, <2>4, LockStill DEF Inductive, Turns
<1> QED BY <1>1, <1>2, <1>3, <1>4 DEF Next

LEMMA AlwaysInductive == Spec => []Inductive
BY InitInductive, NextInductive, PTL DEF Spec

\* What every snapshot command reports is true, and never two tasks run at once but
\* behind one that ended without having seen its own end.
THEOREM SnapshotInvariant == Spec => []SnapshotInv
BY AlwaysInductive, InductiveEnough, PTL

\* A verified witness ran to a good end, in a guest no other command that saw its
\* task end has rolled back.
THEOREM WitnessIsOwn == Spec => []WitnessesOwnRollback
<1>1. Inductive => WitnessesOwnRollback
    BY DEF Inductive, Mine, Guest, Own, WitnessesOwnRollback
<1> QED BY <1>1, AlwaysInductive, PTL

\* A task comes to run only where its own command sends it.
LEMMA SentBySender ==
    ASSUME Inductive, [Next]_vars, NEW p \in Runs,
           task'[p] # task[p], task'[p].status = "running"
    PROVE  CreateSend(p) \/ DeleteSend(p) \/ RollbackSend(p)
<1>1. CASE \E q \in Runs : Start(q) \/ Step(q) \/ Killed(q)
    <2>1. PICK q \in Runs : Start(q) \/ Step(q) \/ Killed(q)
        BY <1>1
    <2>2. q = p
        BY <2>1, RunActs DEF Acts, Passes
    <2>3. ~UNCHANGED pve /\ ~Start(p)
        BY DEF pve, Start
    <2>4. Step(p)
        BY <2>1, <2>2, <2>3 DEF Killed
    <2> QED BY <2>3, <2>4
            DEF Step, Lock, Unverifiable, WaitForTask, List, CreateCheck, CreateVerify, DeleteRead,
                DeletePrestate, DeletesSent, DeleteVerify, Plan, CheckNewest, RollbackOutcome,
                Dispatch, WitnessEnds, Poll
<1>2. CASE \E q \in Runs : TaskSucceeds(q) \/ TaskFails(q)
    <2>1. PICK q \in Runs, st \in {"ok", "failed"} : task' = [task EXCEPT ![q].status = st]
        BY <1>2 DEF TaskSucceeds, TaskFails
    <2>2. p = q /\ task'[p] = [task[p] EXCEPT !.status = st]
        BY <2>1 DEF Inductive, TypeOK
    <2> QED BY <2>2, TaskEnded DEF Inductive, TypeOK
<1>3. CASE (\E q \in Runs : CommandEnds(q)) \/ Tick \/ WebUI \/ UNCHANGED vars
    BY <1>3 DEF CommandEnds, Tick, WebUI, vars, pve
<1> QED BY <1>1, <1>2, <1>3 DEF Next

\* A rollback goes past no snapshot that was there at its check, whatever the seconds say.
THEOREM NeverGoesPastKnown == Spec => NeverPastKnown
<1>1. ASSUME Inductive, [Next]_vars, NEW p \in Runs, NEW m \in Names,
             task'[p].job = "rollback", task'[p] # task[p], task'[p].status = "running",
             There(m), snap[m].seq > snap[task'[p].name].seq
      PROVE  snap[m].seq > checked[p]
    <2>1. CreateSend(p) \/ DeleteSend(p) \/ RollbackSend(p)
        BY <1>1, SentBySender
    <2>2. ~CreateSend(p)
        BY <1>1 DEF CreateSend, Sends, Inductive, TypeOK
    <2>3. ~DeleteSend(p)
        BY <1>1 DEF DeleteSend, Inductive, TypeOK
    <2>4. At(p, "rollback", "post") /\ There(Name(p)) /\ task'[p].name = Name(p)
        BY <1>1, <2>1, <2>2, <2>3 DEF RollbackSend, Sends, Inductive, TypeOK
    <2> QED BY <1>1, <2>4 DEF Inductive, Mine, Known
<1>2. ASSUME Inductive, [Next]_vars
      PROVE  [\A p \in Runs, m \in Names :
                 /\ task'[p].job = "rollback" /\ task'[p] # task[p] /\ task'[p].status = "running"
                 /\ There(m) /\ snap[m].seq > snap[task'[p].name].seq
                 => snap[m].seq > checked[p]]_vars
    BY <1>1, <1>2
<1> QED BY <1>2, AlwaysInductive, PTL DEF Spec, NeverPastKnown

\* Of the snapshots a delete read about, the newest goes first, but for one of the same second.
THEOREM DeletesNewestFirst == Spec => NewestFirst
<1>1. ASSUME Inductive, [Next]_vars, NEW p \in Runs, NEW m \in Names,
             task'[p].job = "delete", task'[p] # task[p], task'[p].status = "running",
             m \in todo'[p], There(m), snap[m].seq > snap[task'[p].name].seq
      PROVE  snap[m].time = snap[task'[p].name].time \/ checked[p] < snap[m].seq
    <2>1. CreateSend(p) \/ DeleteSend(p) \/ RollbackSend(p)
        BY <1>1, SentBySender
    <2>2. ~CreateSend(p) /\ ~RollbackSend(p)
        BY <1>1 DEF CreateSend, RollbackSend, Sends, Inductive, TypeOK
    <2>3. PICK n \in Names :
              /\ NextToGo(p, n) /\ There(n) /\ todo' = [todo EXCEPT ![p] = @ \ {n}]
              /\ task' = [task EXCEPT ![p] = [job |-> "delete", name |-> n, status |-> "running"]]
        BY <1>1, <2>1, <2>2 DEF DeleteSend
    <2>4. task'[p].name = n /\ m \in todo[p]
        BY <1>1, <2>3 DEF Inductive, TypeOK
    <2>5. view[p][m] <= view[p][n]
        BY <2>3, <2>4 DEF NextToGo
    <2>6. /\ snap[m].seq \in Nat /\ snap[m].time \in Nat /\ snap[n].seq \in Nat
          /\ snap[n].time \in Nat /\ checked[p] \in Nat
        BY SnapType, <1>1, SnapshotAssumption DEF Inductive, TypeOK
    <2>7. snap[n].time <= snap[m].time
        BY <1>1, <2>3, <2>4, <2>6 DEF Inductive, Ordered, Chain, There
    <2>8. pc[p] = "delete" /\ cmd[p].kind = "delete"
        BY <1>1, <2>1, <2>2 DEF DeleteSend, Inductive, Mine, Control
    <2>9. ASSUME snap[m].seq <= checked[p] PROVE snap[m].time = snap[n].time
        <3>1. snap[n].seq <= checked[p]
            BY <1>1, <2>4, <2>6, <2>9
        <3>2. view[p][m] = snap[m].time /\ view[p][n] = snap[n].time
            BY <1>1, <2>3, <2>8, <2>9, <3>1 DEF Inductive, Mine, Known
        <3> QED BY <2>5, <2>6, <2>7, <3>2
    <2> QED BY <2>4, <2>6, <2>9
<1>2. ASSUME Inductive, [Next]_vars
      PROVE  [\A p \in Runs, m \in Names :
                 LET n == task'[p].name IN
                 /\ task'[p].job = "delete" /\ task'[p] # task[p] /\ task'[p].status = "running"
                 /\ m \in todo'[p] /\ There(m) /\ snap[m].seq > snap[n].seq
                 => snap[m].time = snap[n].time \/ checked[p] < snap[m].seq]_vars
    BY <1>1, <1>2
<1> QED BY <1>2, AlwaysInductive, PTL DEF Spec, NewestFirst
=============================================================================
