-------------------------- MODULE VMLifecycleProofs --------------------------
(***************************************************************************)
(* LifecycleInv is inductive, for any number of commands, VMIDs and tags.  *)
(* What ties runs to one another (Watched, Locks, Makers, Claims) follows  *)
(* from what a run's step and a step of PVE may change; what a run knows   *)
(* (Control, Evidence, HonestReport) is shown action by action.            *)
(***************************************************************************)
EXTENDS VMLifecycle, TLAPS

-----------------------------------------------------------------------------
(* Types                                                                   *)

\* The labels and the results the steps name.
LEMMA LabelNames ==
    /\ "done" \in Labels /\ "tag" \in Labels /\ "check" \in Labels /\ "pin" \in Labels
    /\ "lock" \in Labels /\ "visible" \in Labels /\ "read" \in Labels /\ "apply" \in Labels
    /\ "send" \in Labels /\ "gate" \in Labels /\ "wait" \in Labels /\ "remove" \in Labels
    /\ "reverify" \in Labels /\ "recheck" \in Labels /\ "reread" \in Labels
BY DEF Labels, UnderVMLock

LEMMA ResultNames ==
    /\ "locked" \in Results /\ "error" \in Results /\ "lost" \in Results /\ "unknown" \in Results
    /\ "failed" \in Results /\ "refused" \in Results /\ "created" \in Results
    /\ "unlisted" \in Results /\ "destroyed" \in Results /\ "contested" \in Results
    /\ "unproven" \in Results /\ "shut" \in Results /\ "killed" \in Results
BY DEF Results

\* A step that moves, ends, or sends a request keeps the types.
LEMMA MovesType ==
    ASSUME TypeOK, NEW p \in Runs, NEW l \in Labels, Moves(p, l), UNCHANGED pve
    PROVE  TypeOK'
BY DEF TypeOK, Moves, Goto, pve

LEMMA EndsType ==
    ASSUME TypeOK, NEW p \in Runs, NEW r \in Results, Ends(p, r), UNCHANGED pve
    PROVE  TypeOK'
BY LabelNames, LifecycleAssumption DEF TypeOK, Ends, Goto, pve

LEMMA SendsType ==
    ASSUME TypeOK, NEW p \in Runs, NEW j \in Jobs, Sends(p, j),
           UNCHANGED <<vm, listed, outside, seen>>
    PROVE  TypeOK'
<1>1. CASE Ends(p, "error") /\ UNCHANGED tasks
    BY <1>1, EndsType, ResultNames DEF pve
<1>2. ASSUME tasks' = [tasks EXCEPT ![p][j] = "running"], Goto(p, "wait"),
             job' = [job EXCEPT ![p] = j], UNCHANGED <<cmd, transient, result>>
      PROVE  TypeOK'
    BY <1>2, LabelNames DEF TypeOK, Goto
<1>3. ASSUME tasks' = [tasks EXCEPT ![p][j] = "running"], Ends(p, "lost")
      PROVE  TypeOK'
    BY <1>3, LabelNames, ResultNames, LifecycleAssumption DEF TypeOK, Ends, Goto
<1> QED
    BY <1>1, <1>2, <1>3 DEF Sends

\* So does a change of a VM.
LEMMA BecomesType ==
    ASSUME TypeOK, NEW v, NEW new \in Guests, Becomes(v, new)
    PROVE  vm' \in [VMIDs -> Guests] /\ seen' \in [Runs -> SUBSET States]
BY DEF TypeOK, Becomes, Guests

\* Every step keeps the types.
LEMMA TypeStep == TypeOK /\ [Next]_vars => TypeOK'
<1> SUFFICES ASSUME TypeOK, [Next]_vars PROVE TypeOK'
    OBVIOUS
<1> USE LabelNames, ResultNames
<1>1. ASSUME NEW p \in Runs, Start(p) PROVE TypeOK'
    <2>1. FirstStep("create", None) \in Labels
        BY DEF FirstStep
    <2>2. PICK k \in Kinds, v \in VMIDs, t \in Tags \cup {None} :
              /\ cmd' = [cmd EXCEPT ![p] = [kind |-> k, vmid |-> v, tag |-> t]]
              /\ seen' = [seen EXCEPT ![p] = {vm[v].state}]
              /\ Goto(p, FirstStep(k, t))
        BY <1>1 DEF Start
    <2>3. FirstStep(k, t) \in Labels
        BY DEF FirstStep
    <2>4. cmd' \in [Runs -> Commands]
        BY <2>2 DEF TypeOK, Commands
    <2>5. seen' \in [Runs -> SUBSET States]
        BY <2>2 DEF TypeOK, Guests
    <2> QED
        BY <1>1, <2>2, <2>3, <2>4, <2>5 DEF TypeOK, Start, Goto
<1>2. ASSUME NEW p \in Runs, LockTag(p) \/ LockVM(p) PROVE TypeOK'
    BY <1>2, MovesType, EndsType DEF LockTag, LockVM
<1>3. ASSUME NEW p \in Runs, PollRunning(p) PROVE TypeOK'
    BY <1>3, LifecycleAssumption DEF TypeOK, PollRunning, pve
<1>4. ASSUME NEW p \in Runs, PollStopped(p) PROVE TypeOK'
    <2>1. CASE Task(p) = "failed" /\ Ends(p, "failed")
        BY <1>4, <2>1, EndsType DEF PollStopped
    <2>2. CASE /\ Goto(p, After(job[p]))
               /\ transient' = [transient EXCEPT ![p] = 0]
               /\ UNCHANGED <<cmd, job, result>>
        BY <1>4, <2>2, LifecycleAssumption DEF TypeOK, PollStopped, Goto, After, pve
    <2> QED
        BY <1>4, <2>1, <2>2 DEF PollStopped
<1>5. ASSUME NEW p \in Runs, PollTransient(p) PROVE TypeOK'
    <2>1. CASE Unobserved(p)
        BY <1>5, <2>1, EndsType DEF PollTransient, Unobserved
    <2>2. CASE /\ transient[p] < MaxTransient
               /\ transient' = [transient EXCEPT ![p] = @ + 1]
               /\ UNCHANGED <<pc, cmd, job, result>>
        BY <1>5, <2>2, LifecycleAssumption DEF TypeOK, PollTransient, pve
    <2> QED
        BY <1>5, <2>1, <2>2 DEF PollTransient
<1>6. ASSUME NEW p \in Runs, WaitGivenUp(p) PROVE TypeOK'
    BY <1>6, EndsType DEF WaitGivenUp, Unobserved
<1>7. ASSUME NEW p \in Runs, CheckTag(p) \/ PinVMID(p) \/ CreateRead(p) PROVE TypeOK'
    BY <1>7, MovesType, EndsType DEF CheckTag, PinVMID, CreateRead
<1>8. ASSUME NEW p \in Runs, CreateSend(p) \/ DestroySend(p) \/ ShutdownSend(p) PROVE TypeOK'
    BY <1>8, SendsType DEF CreateSend, DestroySend, ShutdownSend, Jobs
<1>9. ASSUME NEW p \in Runs, CreateReRead(p) \/ TagVisible(p) \/ TagWaitEnds(p) PROVE TypeOK'
    BY <1>9, MovesType, EndsType DEF CreateReRead, TagVisible, TagWaitEnds
<1>10. ASSUME NEW p \in Runs, DestroyRead(p) \/ Reverify(p) \/ Recheck(p) PROVE TypeOK'
    BY <1>10, MovesType, EndsType DEF DestroyRead, Reverify, Recheck
<1>11. ASSUME NEW p \in Runs, StatusGate(p) PROVE TypeOK'
    BY <1>11, MovesType, EndsType, SendsType DEF StatusGate, pve, Jobs
<1>12. ASSUME NEW p \in Runs, ShutdownRead(p) \/ ShutdownApply(p) \/ ShutdownReRead(p) PROVE TypeOK'
    BY <1>12, MovesType, EndsType DEF ShutdownRead, ShutdownApply, ShutdownReRead
<1>13. ASSUME NEW p \in Runs, Killed(p) PROVE TypeOK'
    BY <1>13, EndsType DEF Killed
<1>14. ASSUME NEW p \in Runs, NEW j \in Jobs, TaskSucceeds(p, j) PROVE TypeOK'
    BY <1>14, BecomesType DEF TypeOK, TaskSucceeds, runs
<1>15. ASSUME NEW p \in Runs, NEW j \in Jobs, TaskFails(p, j) PROVE TypeOK'
    BY <1>15 DEF TypeOK, TaskFails, runs
<1>16. ASSUME Listing PROVE TypeOK'
    BY <1>16 DEF TypeOK, Listing, runs, Guests
<1>17. ASSUME WebUI PROVE TypeOK'
    BY <1>17, BecomesType, LifecycleAssumption DEF TypeOK, WebUI, runs
<1>18. CASE UNCHANGED vars
    BY <1>18 DEF TypeOK, vars
<1> QED
    BY <1>1, <1>2, <1>3, <1>4, <1>5, <1>6, <1>7, <1>8, <1>9, <1>10, <1>11, <1>12, <1>13,
       <1>14, <1>15, <1>16, <1>17, <1>18 DEF Next, Step

-----------------------------------------------------------------------------
(* Steps of a run                                                          *)

\* A step of p changes nothing of any other run, no VM and no list.
Frame(p) ==
    /\ UNCHANGED <<vm, listed, cmd, outside, seen>>
    /\ \A r \in Runs \ {p} :
          pc'[r] = pc[r] /\ job'[r] = job[r] /\ result'[r] = result[r] /\ tasks'[r] = tasks[r]

\* Where a step takes p, and what it has checked when it takes a lock or passes
\* the tag check.
Path(p) ==
    /\ pc[p] \notin {"idle", "done"}
    /\ \/ pc'[p] = "done"
       \/ /\ pc[p] = "tag" /\ pc'[p] = "check"
          /\ \A q \in Runs : ~(HoldsTag(q) /\ cmd[q].tag = cmd[p].tag)
       \/ pc[p] = "check" /\ pc'[p] = "pin" /\ \A v \in VMIDs : listed[v] # cmd[p].tag
       \/ pc[p] = "pin" /\ pc'[p] = "lock"
       \/ /\ pc[p] = "lock" /\ pc'[p] = "read"
          /\ \A q \in Runs : ~(HoldsVM(q) /\ VMID(q) = VMID(p))
       \/ pc[p] \in UnderVMLock /\ pc'[p] \in UnderVMLock \cup {"visible"}

\* What becomes of p's tasks, and of its wait for them.
Waits(p) ==
    \/ /\ pc[p] = "wait" /\ tasks'[p] = tasks[p]
       /\ \/ pc'[p] = "wait" /\ job'[p] = job[p] /\ result'[p] = result[p]
          \/ result'[p] \in Blind
          \/ tasks[p][job[p]] # "running"
    \/ pc[p] # "wait" /\ tasks'[p] = tasks[p]
    \/ /\ pc[p] # "wait"
       /\ \E j \in Jobs : /\ tasks'[p] = [tasks[p] EXCEPT ![j] = "running"]
                          /\ (pc'[p] = "wait" /\ job'[p] = j) \/ result'[p] \in Blind

\* Which steps report a VM as created.
Reports(p) ==
    \/ result'[p] \notin {"created", "unlisted"}
    \/ result'[p] = result[p]
    \/ cmd[p].tag = None
    \/ pc[p] = "visible" /\ (result'[p] = "created" => listed[VMID(p)] = cmd[p].tag)

\* A step that moves, ends, or sends a request is such a step.
LEMMA MovesFrame ==
    ASSUME TypeOK, NEW p \in Runs, NEW l, Moves(p, l), UNCHANGED pve
    PROVE  /\ Frame(p) /\ Reports(p)
           /\ pc'[p] = l
           /\ pc[p] # "wait" => Waits(p)
BY DEF TypeOK, Moves, Goto, pve, Frame, Reports, Waits

LEMMA EndsFrame ==
    ASSUME TypeOK, NEW p \in Runs, NEW r, Ends(p, r), UNCHANGED pve
    PROVE  /\ Frame(p)
           /\ pc'[p] = "done" /\ result'[p] = r
           /\ r \notin {"created", "unlisted"} => Reports(p)
           /\ pc[p] # "wait" \/ r \in Blind => Waits(p)
BY DEF TypeOK, Ends, Goto, pve, Frame, Reports, Waits

LEMMA SendsFrame ==
    ASSUME TypeOK, NEW p \in Runs, NEW j \in Jobs, Sends(p, j), pc[p] # "wait",
           UNCHANGED <<vm, listed, outside, seen>>
    PROVE  Frame(p) /\ Reports(p) /\ Waits(p) /\ pc'[p] \in {"done", "wait"}
<1>1. CASE Ends(p, "error") /\ UNCHANGED tasks
    BY <1>1, EndsFrame DEF pve
<1>2. ASSUME tasks' = [tasks EXCEPT ![p][j] = "running"], Goto(p, "wait"),
             job' = [job EXCEPT ![p] = j], UNCHANGED <<cmd, transient, result>>
      PROVE  Frame(p) /\ Reports(p) /\ Waits(p) /\ pc'[p] \in {"done", "wait"}
    BY <1>2 DEF TypeOK, Goto, Frame, Reports, Waits
<1>3. ASSUME tasks' = [tasks EXCEPT ![p][j] = "running"], Ends(p, "lost")
      PROVE  Frame(p) /\ Reports(p) /\ Waits(p) /\ pc'[p] \in {"done", "wait"}
    BY <1>3 DEF TypeOK, Ends, Goto, Frame, Reports, Waits, Blind
<1> QED
    BY <1>1, <1>2, <1>3 DEF Sends

\* Every step of a run, and a kill.
LEMMA RunStep ==
    ASSUME TypeOK, NEW p \in Runs, Step(p) \/ Killed(p)
    PROVE  Frame(p) /\ Path(p) /\ Waits(p) /\ Reports(p)
<1> USE MovesFrame, EndsFrame DEF UnderVMLock, Blind
<1>1. CASE LockTag(p) \/ LockVM(p)
    BY <1>1 DEF LockTag, LockVM, Path
<1>2. CASE PollRunning(p)
    BY <1>2 DEF PollRunning, TypeOK, pve, Frame, Path, Waits, Reports
<1>3. CASE PollStopped(p)
    BY <1>3 DEF PollStopped, Ends, Goto, After, Task, TypeOK, pve, Frame, Path, Waits, Reports
<1>4. CASE PollTransient(p)
    <2>1. CASE Unobserved(p)
        BY <1>4, <2>1 DEF PollTransient, Unobserved, Path
    <2>2. CASE UNCHANGED <<pc, cmd, job, result>>
        BY <1>4, <2>2 DEF PollTransient, TypeOK, pve, Frame, Path, Waits, Reports
    <2> QED
        BY <1>4, <2>1, <2>2 DEF PollTransient
<1>5. CASE WaitGivenUp(p)
    BY <1>5 DEF WaitGivenUp, Unobserved, Path
<1>6. CASE CheckTag(p) \/ PinVMID(p) \/ CreateRead(p)
    BY <1>6 DEF CheckTag, PinVMID, CreateRead, At, Path
<1>7. CASE CreateSend(p) \/ DestroySend(p) \/ ShutdownSend(p)
    BY <1>7, SendsFrame DEF CreateSend, DestroySend, ShutdownSend, At, Path, Jobs
<1>8. CASE CreateReRead(p)
    <2>1. CASE cmd[p].tag = None
        BY <1>8, <2>1 DEF CreateReRead, At, Path, Reports
    <2>2. CASE cmd[p].tag # None
        BY <1>8, <2>2 DEF CreateReRead, At, Path
    <2> QED
        BY <2>1, <2>2
<1>9. CASE TagVisible(p) \/ TagWaitEnds(p)
    <2>1. CASE TagVisible(p)
        <3>1. listed[VMID(p)] = cmd[p].tag
            BY <2>1 DEF TagVisible
        <3> QED
            BY <2>1, <3>1 DEF TagVisible, Path, Reports
    <2>2. CASE TagWaitEnds(p)
        BY <2>2 DEF TagWaitEnds, Path, Reports
    <2> QED
        BY <1>9, <2>1, <2>2
<1>10. CASE DestroyRead(p) \/ Reverify(p) \/ Recheck(p)
    BY <1>10 DEF DestroyRead, Reverify, Recheck, At, Path
<1>11. CASE StatusGate(p)
    BY <1>11, SendsFrame DEF StatusGate, pve, Jobs, Path
<1>12. CASE ShutdownRead(p) \/ ShutdownApply(p) \/ ShutdownReRead(p)
    BY <1>12 DEF ShutdownRead, ShutdownApply, ShutdownReRead, At, Path
<1>13. CASE Killed(p)
    BY <1>13 DEF Killed, Busy, Path
<1> QED
    BY <1>1, <1>2, <1>3, <1>4, <1>5, <1>6, <1>7, <1>8, <1>9, <1>10, <1>11, <1>12, <1>13 DEF Step

\* A task that runs is watched: a step that starts one waits for it, and a step
\* that stops waiting has seen it end or says that it does not know.
LEMMA WatchedStep ==
    ASSUME LifecycleInv, NEW p \in Runs, Step(p) \/ Killed(p)
    PROVE  Watched'
<1>1. Frame(p) /\ Path(p) /\ Waits(p)
    BY RunStep DEF LifecycleInv
<1>2. ASSUME NEW j \in Jobs, tasks'[p][j] = "running"
      PROVE  (pc'[p] = "wait" /\ job'[p] = j) \/ result'[p] \in Blind
    <2>1. result[p] = "none"
        BY <1>1 DEF Path, LifecycleInv, Control
    <2>2. tasks[p][j] = "running" => pc[p] = "wait" /\ job[p] = j
        BY <2>1 DEF LifecycleInv, Watched, Blind
    <2>3. tasks[p] \in [Jobs -> {"none", "running", "ok", "failed"}]
        BY DEF LifecycleInv, TypeOK
    <2> QED
        BY <1>1, <1>2, <2>2, <2>3 DEF Waits
<1>3. ASSUME NEW r \in Runs \ {p}, NEW j \in Jobs, tasks'[r][j] = "running"
      PROVE  (pc'[r] = "wait" /\ job'[r] = j) \/ result'[r] \in Blind
    BY <1>1, <1>3 DEF Frame, LifecycleInv, Watched
<1> QED
    BY <1>2, <1>3 DEF Watched

\* A lock is taken only when no other run holds it.
LEMMA LocksStep ==
    ASSUME LifecycleInv, NEW p \in Runs, Step(p) \/ Killed(p)
    PROVE  Locks'
<1>1. Frame(p) /\ Path(p)
    BY RunStep DEF LifecycleInv
<1>2. \A r \in Runs : cmd'[r] = cmd[r]
    BY <1>1 DEF Frame
<1>3. ASSUME NEW q \in Runs \ {p}, HoldsVM(p)', HoldsVM(q)', VMID(p) = VMID(q)
      PROVE  FALSE
    <2>1. HoldsVM(q)
        BY <1>1, <1>3 DEF Frame, HoldsVM
    <2>2. ~HoldsVM(p)
        BY <1>3, <2>1 DEF LifecycleInv, Locks
    <2> QED
        BY <1>1, <1>3, <2>1, <2>2 DEF Path, HoldsVM, UnderVMLock
<1>4. ASSUME NEW q \in Runs \ {p}, HoldsTag(p)', HoldsTag(q)', cmd[p].tag = cmd[q].tag
      PROVE  FALSE
    <2>1. HoldsTag(q)
        BY <1>1, <1>2, <1>4 DEF Frame, HoldsTag
    <2>2. ~HoldsTag(p)
        BY <1>4, <2>1 DEF LifecycleInv, Locks
    <2> QED
        BY <1>1, <1>2, <1>4, <2>1, <2>2 DEF Path, HoldsTag, UnderVMLock
<1>5. ASSUME NEW q \in Runs \ {p}, NEW r \in Runs \ {p}, q # r
      PROVE  /\ ~(HoldsVM(q)' /\ HoldsVM(r)' /\ VMID(q)' = VMID(r)')
             /\ ~(HoldsTag(q)' /\ HoldsTag(r)' /\ cmd'[q].tag = cmd'[r].tag)
    BY <1>1, <1>2, <1>5 DEF Frame, HoldsVM, HoldsTag, VMID, LifecycleInv, Locks
<1> QED
    BY <1>2, <1>3, <1>4, <1>5 DEF Locks, VMID

\* A run makes no VM itself.
LEMMA MakersStep ==
    ASSUME LifecycleInv, NEW p \in Runs, Step(p) \/ Killed(p)
    PROVE  Makers'
<1>1. Frame(p) /\ Path(p)
    BY RunStep DEF LifecycleInv
<1>2. pc[p] # "idle" /\ pc'[p] # "idle"
    BY <1>1 DEF Path, UnderVMLock
<1> QED
    BY <1>1, <1>2 DEF Frame, VMID, LifecycleInv, Makers

\* A create that claims its tag has its VM listed under the tag's lock: no other
\* create is past the check, and none gets past it.
LEMMA ClaimsStep ==
    ASSUME LifecycleInv, NEW p \in Runs, Step(p) \/ Killed(p)
    PROVE  Claims'
<1>1. Frame(p) /\ Path(p) /\ Reports(p)
    BY RunStep DEF LifecycleInv
<1>2. UNCHANGED <<vm, listed, cmd>> /\ \A r \in Runs \ {p} : pc'[r] = pc[r] /\ result'[r] = result[r]
    BY <1>1 DEF Frame
<1>3. \A r \in Runs \ {p} : (Claimed(r)' <=> Claimed(r)) /\ (PastCheck(r)' <=> PastCheck(r))
    BY <1>2 DEF Claimed, PastCheck, HoldsTag, VMID
<1>4. result[p] = "none" /\ ~Claimed(p)
    BY <1>1 DEF Path, LifecycleInv, Control, Claimed
<1>5. ASSUME Claimed(p)'
      PROVE  PastCheck(p) /\ listed[VMID(p)] = cmd[p].tag
    <2>1. result'[p] = "created" /\ cmd[p].tag # None
        BY <1>2, <1>5 DEF Claimed
    <2>2. pc[p] = "visible" /\ listed[VMID(p)] = cmd[p].tag
        BY <1>1, <1>4, <2>1 DEF Reports
    <2>3. cmd[p].kind = "create"
        BY <2>2 DEF LifecycleInv, Control
    <2> QED
        BY <2>1, <2>2, <2>3 DEF PastCheck, HoldsTag
<1>6. ASSUME PastCheck(p)'
      PROVE  PastCheck(p) \/ \A v \in VMIDs : listed[v] # cmd[p].tag
    BY <1>1, <1>2, <1>6 DEF Path, PastCheck, HoldsTag, UnderVMLock
<1>7. ASSUME NEW q \in Runs \ {p}, Claimed(q), cmd[q].tag = cmd[p].tag
      PROVE  ~Claimed(p)' /\ ~PastCheck(p)'
    <2>1. listed[VMID(q)] = cmd[q].tag /\ ~PastCheck(p)
        BY <1>7 DEF LifecycleInv, Claims
    <2>2. VMID(q) \in VMIDs
        BY <1>7 DEF Claimed, LifecycleInv, Control, VMID
    <2> QED
        BY <1>5, <1>6, <1>7, <2>1, <2>2
<1>8. ASSUME NEW q \in Runs \ {p}, Claimed(p)', cmd[q].tag = cmd[p].tag
      PROVE  ~PastCheck(q)
    BY <1>5, <1>8 DEF PastCheck, LifecycleInv, Locks
<1>9. ASSUME Claimed(p)'
      PROVE  /\ listed'[VMID(p)'] = cmd'[p].tag
             /\ \A q \in Runs \ {p} : cmd'[q].tag = cmd'[p].tag => ~Claimed(q)' /\ ~PastCheck(q)'
    BY <1>2, <1>3, <1>5, <1>7, <1>8, <1>9 DEF VMID
<1>10. ASSUME NEW r \in Runs \ {p}, Claimed(r)'
      PROVE  /\ listed'[VMID(r)'] = cmd'[r].tag
             /\ \A q \in Runs \ {r} : cmd'[q].tag = cmd'[r].tag => ~Claimed(q)' /\ ~PastCheck(q)'
    BY <1>2, <1>3, <1>7, <1>10 DEF VMID, LifecycleInv, Claims
<1> QED
    BY <1>9, <1>10 DEF Claims

-----------------------------------------------------------------------------
(* PVE, and a command that begins                                          *)

\* What PVE and the web UI do.
PVEStep ==
    \/ \E p \in Runs, j \in Jobs : TaskSucceeds(p, j) \/ TaskFails(p, j)
    \/ Listing \/ WebUI

\* PVE and the web UI start no task for a run, and make no VM in a run's name
\* except by the run's own create task.
LEMMA PVEFrame ==
    ASSUME TypeOK, PVEStep
    PROVE  /\ UNCHANGED runs
           /\ \A r \in Runs, j \in Jobs : tasks'[r][j] = "running" => tasks[r][j] = "running"
           /\ \A v \in VMIDs : listed'[v] \in {listed[v], vm[v].tag}
           /\ \A v \in VMIDs, r \in Runs : vm'[v].by = r =>
                 \/ vm[v].by = r /\ vm'[v].tag = vm[v].tag
                 \/ v = VMID(r) /\ vm'[v].tag = cmd[r].tag /\ tasks[r]["create"] = "running"
<1> DEFINE Made(v) == \A r \in Runs : vm'[v].by = r =>
              \/ vm[v].by = r /\ vm'[v].tag = vm[v].tag
              \/ v = VMID(r) /\ vm'[v].tag = cmd[r].tag /\ tasks[r]["create"] = "running"
<1>1. ASSUME NEW p \in Runs, NEW j \in Jobs, TaskSucceeds(p, j)
      PROVE  /\ UNCHANGED <<runs, listed>>
             /\ \A r \in Runs, k \in Jobs : tasks'[r][k] = "running" => tasks[r][k] = "running"
             /\ \A v \in VMIDs : Made(v)
    <2>1. UNCHANGED <<runs, listed>>
        BY <1>1 DEF TaskSucceeds
    <2>2. \A r \in Runs, k \in Jobs : tasks'[r][k] = "running" => tasks[r][k] = "running"
        BY <1>1 DEF TaskSucceeds, TypeOK
    <2>3. PICK new \in Guests : Done(p, j, new) /\ Becomes(VMID(p), new)
        BY <1>1 DEF TaskSucceeds
    <2>4. \/ new.by = vm[VMID(p)].by /\ new.tag = vm[VMID(p)].tag
          \/ new.by \notin Runs
          \/ new.by = p /\ new.tag = cmd[p].tag /\ tasks[p]["create"] = "running"
        <3>1. CASE j = "create"
            BY <1>1, <2>3, <3>1 DEF Done, TaskSucceeds
        <3>2. CASE j # "create"
            BY <2>3, <3>2, LifecycleAssumption DEF Done, Halted, Nothing, Web, Guests
        <3> QED
            BY <3>1, <3>2
    <2>5. \A v \in VMIDs : vm'[v] = IF v = VMID(p) THEN new ELSE vm[v]
        BY <2>3 DEF Becomes, TypeOK
    <2>6. \A v \in VMIDs : Made(v)
        BY <2>4, <2>5
    <2> QED
        BY <2>1, <2>2, <2>6
<1>2. ASSUME NEW p \in Runs, NEW j \in Jobs, TaskFails(p, j)
      PROVE  /\ UNCHANGED <<runs, listed>>
             /\ \A r \in Runs, k \in Jobs : tasks'[r][k] = "running" => tasks[r][k] = "running"
             /\ \A v \in VMIDs : Made(v)
    BY <1>2 DEF TaskFails, TypeOK
<1>3. CASE Listing
    BY <1>3 DEF Listing
<1>4. CASE WebUI
    <2>1. PICK v \in VMIDs, new \in Guests : ByHand(v, new) /\ Becomes(v, new)
        BY <1>4 DEF WebUI
    <2>2. new.by \notin Runs \/ (new.by = vm[v].by /\ new.tag = vm[v].tag)
        BY <2>1, LifecycleAssumption DEF ByHand, Nothing, Web
    <2>3. \A u \in VMIDs : vm'[u] = IF u = v THEN new ELSE vm[u]
        BY <2>1 DEF Becomes, TypeOK
    <2>4. \A u \in VMIDs : Made(u)
        BY <2>2, <2>3
    <2> QED
        BY <1>4, <2>4 DEF WebUI
<1> QED
    BY <1>1, <1>2, <1>3, <1>4 DEF PVEStep

\* PVE's steps keep what ties the runs to one another.
LEMMA PVEKeeps ==
    ASSUME LifecycleInv, PVEStep
    PROVE  Watched' /\ Locks' /\ Makers' /\ Claims'
<1>1. UNCHANGED <<pc, cmd, job, result>>
    BY PVEFrame DEF LifecycleInv, runs
<1>2. Watched'
    BY <1>1, PVEFrame DEF LifecycleInv, Watched
<1>3. Locks'
    BY <1>1 DEF LifecycleInv, Locks, HoldsVM, HoldsTag, VMID
<1>4. \A r \in Runs : tasks[r]["create"] = "running" => pc[r] # "idle" /\ result[r] # "created"
    <2> TAKE r \in Runs
    <2> HAVE tasks[r]["create"] = "running"
    <2>1. (pc[r] = "wait" /\ job[r] = "create") \/ result[r] \in Blind
        BY DEF LifecycleInv, Watched, Jobs
    <2> QED
        BY <2>1 DEF LifecycleInv, Control, Blind
<1>5. Makers'
    <2> SUFFICES ASSUME NEW v \in VMIDs, NEW r \in Runs, vm'[v].by = r
                 PROVE  pc[r] # "idle" /\ v = VMID(r) /\ vm'[v].tag = cmd[r].tag
        BY <1>1 DEF Makers, VMID
    <2> QED
        BY <1>4, PVEFrame DEF LifecycleInv, Makers
<1>6. Claims'
    <2>1. \A r \in Runs : result[r] = "created" => VMID(r) \in VMIDs
        BY DEF LifecycleInv, Control, VMID
    <2>2. \A r \in Runs : VMID(r)' = VMID(r) /\ PastCheck(r)' = PastCheck(r)
        BY <1>1 DEF VMID, PastCheck, HoldsTag
    <2>3. \A r \in Runs : Claimed(r)' => Claimed(r)
        BY <1>1, <1>4, <2>1, <2>2, PVEFrame DEF LifecycleInv, Claimed
    <2>4. \A r \in Runs : Claimed(r) => listed'[VMID(r)] = cmd[r].tag
        <3> TAKE r \in Runs
        <3> HAVE Claimed(r)
        <3>1. VMID(r) \in VMIDs /\ vm[VMID(r)].by = r
            BY <2>1 DEF Claimed
        <3>2. listed[VMID(r)] = cmd[r].tag
            BY DEF LifecycleInv, Claims
        <3>3. vm[VMID(r)].tag = cmd[r].tag
            BY <3>1 DEF LifecycleInv, Makers
        <3> QED
            BY <3>1, <3>2, <3>3, PVEFrame DEF LifecycleInv
    <2> QED
        BY <1>1, <2>2, <2>3, <2>4 DEF LifecycleInv, Claims
<1> QED
    BY <1>2, <1>3, <1>5, <1>6

\* A command that begins holds no lock, has started no task and claims nothing.
LEMMA StartKeeps ==
    ASSUME LifecycleInv, NEW p \in Runs, Start(p)
    PROVE  Watched' /\ Locks' /\ Makers' /\ Claims'
<1>1. PICK k \in Kinds, v \in VMIDs, t \in Tags \cup {None} :
          /\ cmd' = [cmd EXCEPT ![p] = [kind |-> k, vmid |-> v, tag |-> t]]
          /\ Goto(p, FirstStep(k, t))
    BY DEF Start
<1>2. pc[p] = "idle" /\ UNCHANGED <<vm, listed, tasks, job, result>>
    BY DEF Start
<1>3. \A r \in Runs \ {p} : pc'[r] = pc[r] /\ cmd'[r] = cmd[r]
    BY <1>1 DEF Goto, LifecycleInv, TypeOK
<1>4. pc'[p] = FirstStep(k, t) /\ cmd'[p] = [kind |-> k, vmid |-> v, tag |-> t]
    BY <1>1 DEF Goto, LifecycleInv, TypeOK
<1>5. result[p] = "none" /\ \A j \in Jobs : tasks[p][j] = "none"
    BY <1>2 DEF LifecycleInv, Control
<1>6. ~HoldsVM(p)' /\ ~HoldsTag(p)'
    BY <1>4 DEF FirstStep, HoldsVM, HoldsTag, UnderVMLock
<1>7. \A r \in Runs \ {p} : /\ VMID(r)' = VMID(r)
                            /\ HoldsVM(r)' = HoldsVM(r) /\ HoldsTag(r)' = HoldsTag(r)
                            /\ Claimed(r)' = Claimed(r) /\ PastCheck(r)' = PastCheck(r)
    BY <1>2, <1>3 DEF VMID, HoldsVM, HoldsTag, Claimed, PastCheck
<1>8. Watched'
    BY <1>2, <1>3, <1>5 DEF LifecycleInv, Watched
<1>9. Locks'
    BY <1>3, <1>6, <1>7 DEF LifecycleInv, Locks
<1>10. Makers'
    <2>1. \A u \in VMIDs : vm[u].by # p
        BY <1>2 DEF LifecycleInv, Makers
    <2> QED
        BY <1>2, <1>3, <1>7, <2>1 DEF LifecycleInv, Makers
<1>11. Claims'
    <2>1. ~Claimed(p)' /\ ~PastCheck(p)'
        BY <1>2, <1>5, <1>6 DEF Claimed, PastCheck
    <2> QED
        BY <1>2, <1>3, <1>7, <2>1 DEF LifecycleInv, Claims
<1> QED
    BY <1>8, <1>9, <1>10, <1>11

-----------------------------------------------------------------------------
(* What a run knows                                                        *)

\* A command's steps follow its kind.
LEMMA ControlStep == LifecycleInv /\ [Next]_vars => Control'
<1> SUFFICES ASSUME LifecycleInv, [Next]_vars PROVE Control'
    OBVIOUS
<1> USE LifecycleAssumption DEF Moves, Goto, Ends, Sends, At, pve, runs, LifecycleInv,
       TypeOK, Guests, Commands, Control, JobsOf, Jobs, Kinds
<1>1. ASSUME NEW p \in Runs, Start(p) PROVE Control'
    BY <1>1 DEF Start, FirstStep
<1>2. ASSUME NEW p \in Runs, LockTag(p) PROVE Control'
    BY <1>2 DEF LockTag
<1>3. ASSUME NEW p \in Runs, LockVM(p) PROVE Control'
    BY <1>3 DEF LockVM
<1>4. ASSUME NEW p \in Runs, PollRunning(p) PROVE Control'
    BY <1>4 DEF PollRunning
<1>5. ASSUME NEW p \in Runs, PollStopped(p) PROVE Control'
    <2>1. CASE Task(p) = "failed" /\ Ends(p, "failed")
        BY <1>5, <2>1 DEF PollStopped
    <2>2. CASE Goto(p, After(job[p])) /\ UNCHANGED <<cmd, job, result>>
        <3>1. job[p] \in JobsOf(cmd[p].kind)
            BY <1>5 DEF PollStopped
        <3>2. CASE cmd[p].kind = "destroy"
            BY <1>5, <2>2, <3>1, <3>2 DEF PollStopped, After
        <3>3. CASE cmd[p].kind \in {"create", "shutdown"}
            BY <1>5, <2>2, <3>1, <3>3 DEF PollStopped, After
        <3>4. cmd[p].kind # "none"
            BY <3>1
        <3> QED
            BY <3>2, <3>3, <3>4
    <2> QED
        BY <1>5, <2>1, <2>2 DEF PollStopped
<1>6. ASSUME NEW p \in Runs, PollTransient(p) PROVE Control'
    BY <1>6 DEF PollTransient, Unobserved
<1>7. ASSUME NEW p \in Runs, WaitGivenUp(p) PROVE Control'
    BY <1>7 DEF WaitGivenUp, Unobserved
<1>8. ASSUME NEW p \in Runs, CheckTag(p) PROVE Control'
    BY <1>8 DEF CheckTag
<1>9. ASSUME NEW p \in Runs, PinVMID(p) PROVE Control'
    BY <1>9 DEF PinVMID
<1>10. ASSUME NEW p \in Runs, CreateRead(p) PROVE Control'
    BY <1>10 DEF CreateRead
<1>11. ASSUME NEW p \in Runs, CreateSend(p) PROVE Control'
    BY <1>11 DEF CreateSend
<1>12. ASSUME NEW p \in Runs, CreateReRead(p) PROVE Control'
    BY <1>12 DEF CreateReRead
<1>13. ASSUME NEW p \in Runs, TagVisible(p) PROVE Control'
    BY <1>13 DEF TagVisible
<1>14. ASSUME NEW p \in Runs, TagWaitEnds(p) PROVE Control'
    BY <1>14 DEF TagWaitEnds
<1>15. ASSUME NEW p \in Runs, DestroyRead(p) PROVE Control'
    BY <1>15 DEF DestroyRead
<1>16. ASSUME NEW p \in Runs, StatusGate(p) PROVE Control'
    BY <1>16 DEF StatusGate
<1>17. ASSUME NEW p \in Runs, DestroySend(p) PROVE Control'
    BY <1>17 DEF DestroySend
<1>18. ASSUME NEW p \in Runs, Reverify(p) PROVE Control'
    BY <1>18 DEF Reverify
<1>19. ASSUME NEW p \in Runs, Recheck(p) PROVE Control'
    BY <1>19 DEF Recheck
<1>20. ASSUME NEW p \in Runs, ShutdownRead(p) PROVE Control'
    BY <1>20 DEF ShutdownRead
<1>21. ASSUME NEW p \in Runs, ShutdownApply(p) PROVE Control'
    BY <1>21 DEF ShutdownApply
<1>22. ASSUME NEW p \in Runs, ShutdownSend(p) PROVE Control'
    BY <1>22 DEF ShutdownSend
<1>23. ASSUME NEW p \in Runs, ShutdownReRead(p) PROVE Control'
    BY <1>23 DEF ShutdownReRead
<1>24. ASSUME NEW p \in Runs, Killed(p) PROVE Control'
    BY <1>24 DEF Killed, Busy
<1>25. ASSUME NEW p \in Runs, NEW j \in Jobs, TaskSucceeds(p, j) PROVE Control'
    BY <1>25 DEF TaskSucceeds, Done, Halted, Becomes, Busy, Nothing
<1>26. ASSUME NEW p \in Runs, NEW j \in Jobs, TaskFails(p, j) PROVE Control'
    BY <1>26 DEF TaskFails
<1>27. ASSUME Listing PROVE Control'
    BY <1>27 DEF Listing
<1>28. ASSUME WebUI PROVE Control'
    BY <1>28 DEF WebUI, ByHand, Becomes, Busy, Nothing
<1>29. CASE UNCHANGED vars
    BY <1>29 DEF vars
<1> HIDE DEF Moves, Goto, Ends, Sends, At, pve, runs, LifecycleInv, TypeOK, Guests,
       Commands, Control, JobsOf, Jobs, Kinds
<1> QED
    BY <1>1, <1>2, <1>3, <1>4, <1>5, <1>6, <1>7, <1>8, <1>9, <1>10, <1>11,
       <1>12, <1>13, <1>14, <1>15, <1>16, <1>17, <1>18, <1>19, <1>20, <1>21, <1>22,
       <1>23, <1>24, <1>25, <1>26, <1>27, <1>28, <1>29 DEF Next, Step

\* A run has seen what its next step relies on.
LEMMA EvidenceStep == LifecycleInv /\ [Next]_vars => Evidence'
<1> SUFFICES ASSUME LifecycleInv, [Next]_vars PROVE Evidence'
    OBVIOUS
<1> USE LifecycleAssumption DEF Moves, Goto, Ends, Sends, At, pve, runs, LifecycleInv,
       TypeOK, Guests, Commands, Control, Evidence, JobsOf, Jobs, Kinds, Busy, Exists,
       State, VMID, States
<1>1. ASSUME NEW p \in Runs, Start(p) PROVE Evidence'
    BY <1>1 DEF Start, FirstStep
<1>2. ASSUME NEW p \in Runs, LockTag(p) PROVE Evidence'
    BY <1>2 DEF LockTag
<1>3. ASSUME NEW p \in Runs, LockVM(p) PROVE Evidence'
    BY <1>3 DEF LockVM
<1>4. ASSUME NEW p \in Runs, PollRunning(p) PROVE Evidence'
    BY <1>4 DEF PollRunning
<1>5. ASSUME NEW p \in Runs, PollStopped(p) PROVE Evidence'
    BY <1>5 DEF PollStopped, After, Task
<1>6. ASSUME NEW p \in Runs, PollTransient(p) PROVE Evidence'
    BY <1>6 DEF PollTransient, Unobserved
<1>7. ASSUME NEW p \in Runs, WaitGivenUp(p) PROVE Evidence'
    BY <1>7 DEF WaitGivenUp, Unobserved
<1>8. ASSUME NEW p \in Runs, CheckTag(p) PROVE Evidence'
    BY <1>8 DEF CheckTag
<1>9. ASSUME NEW p \in Runs, PinVMID(p) PROVE Evidence'
    BY <1>9 DEF PinVMID
<1>10. ASSUME NEW p \in Runs, CreateRead(p) PROVE Evidence'
    BY <1>10 DEF CreateRead
<1>11. ASSUME NEW p \in Runs, CreateSend(p) PROVE Evidence'
    BY <1>11 DEF CreateSend
<1>12. ASSUME NEW p \in Runs, CreateReRead(p) PROVE Evidence'
    BY <1>12 DEF CreateReRead
<1>13. ASSUME NEW p \in Runs, TagVisible(p) PROVE Evidence'
    BY <1>13 DEF TagVisible
<1>14. ASSUME NEW p \in Runs, TagWaitEnds(p) PROVE Evidence'
    BY <1>14 DEF TagWaitEnds
<1>15. ASSUME NEW p \in Runs, DestroyRead(p) PROVE Evidence'
    BY <1>15 DEF DestroyRead
<1>16. ASSUME NEW p \in Runs, StatusGate(p) PROVE Evidence'
    BY <1>16 DEF StatusGate
<1>17. ASSUME NEW p \in Runs, DestroySend(p) PROVE Evidence'
    BY <1>17 DEF DestroySend
<1>18. ASSUME NEW p \in Runs, Reverify(p) PROVE Evidence'
    BY <1>18 DEF Reverify
<1>19. ASSUME NEW p \in Runs, Recheck(p) PROVE Evidence'
    BY <1>19 DEF Recheck
<1>20. ASSUME NEW p \in Runs, ShutdownRead(p) PROVE Evidence'
    BY <1>20 DEF ShutdownRead
<1>21. ASSUME NEW p \in Runs, ShutdownApply(p) PROVE Evidence'
    BY <1>21 DEF ShutdownApply
<1>22. ASSUME NEW p \in Runs, ShutdownSend(p) PROVE Evidence'
    BY <1>22 DEF ShutdownSend
<1>23. ASSUME NEW p \in Runs, ShutdownReRead(p) PROVE Evidence'
    BY <1>23 DEF ShutdownReRead
<1>24. ASSUME NEW p \in Runs, Killed(p) PROVE Evidence'
    BY <1>24 DEF Killed, Busy
<1>25. ASSUME NEW p \in Runs, NEW j \in Jobs, TaskSucceeds(p, j) PROVE Evidence'
    BY <1>25 DEF TaskSucceeds, Done, Halted, Becomes, Busy, Nothing
<1>26. ASSUME NEW p \in Runs, NEW j \in Jobs, TaskFails(p, j) PROVE Evidence'
    BY <1>26 DEF TaskFails
<1>27. ASSUME Listing PROVE Evidence'
    BY <1>27 DEF Listing
<1>28. ASSUME WebUI PROVE Evidence'
    BY <1>28 DEF WebUI, ByHand, Becomes, Busy, Nothing
<1>29. CASE UNCHANGED vars
    BY <1>29 DEF vars
<1> HIDE DEF Moves, Goto, Ends, Sends, At, pve, runs, LifecycleInv, TypeOK, Guests,
       Commands, Control, Evidence, JobsOf, Jobs, Kinds, Busy, Exists, State, VMID,
       States
<1> QED
    BY <1>1, <1>2, <1>3, <1>4, <1>5, <1>6, <1>7, <1>8, <1>9, <1>10, <1>11,
       <1>12, <1>13, <1>14, <1>15, <1>16, <1>17, <1>18, <1>19, <1>20, <1>21, <1>22,
       <1>23, <1>24, <1>25, <1>26, <1>27, <1>28, <1>29 DEF Next, Step

\* A report says what the run has seen.
LEMMA HonestStep == LifecycleInv /\ [Next]_vars => HonestReport'
<1> SUFFICES ASSUME LifecycleInv, [Next]_vars PROVE HonestReport'
    OBVIOUS
<1> USE LifecycleAssumption DEF Moves, Goto, Ends, Sends, At, pve, runs, LifecycleInv,
       TypeOK, Guests, Commands, Control, Evidence, HonestReport, Jobs, JobsOf, Busy,
       Exists, State, VMID
<1>1. ASSUME NEW p \in Runs, Start(p) PROVE HonestReport'
    <2>1. pc[p] = "idle" /\ UNCHANGED <<tasks, job, result>>
        BY <1>1 DEF Start
    <2>2. result[p] = "none"
        BY <2>1
    <2>3. \A q \in Runs \ {p} : seen'[q] = seen[q]
        BY <1>1 DEF Start
    <2> QED
        BY <2>1, <2>2, <2>3
<1>2. ASSUME NEW p \in Runs, LockTag(p) PROVE HonestReport'
    BY <1>2 DEF LockTag
<1>3. ASSUME NEW p \in Runs, LockVM(p) PROVE HonestReport'
    BY <1>3 DEF LockVM
<1>4. ASSUME NEW p \in Runs, PollRunning(p) PROVE HonestReport'
    BY <1>4 DEF PollRunning
<1>5. ASSUME NEW p \in Runs, PollStopped(p) PROVE HonestReport'
    BY <1>5 DEF PollStopped, After, Task
<1>6. ASSUME NEW p \in Runs, PollTransient(p) PROVE HonestReport'
    BY <1>6 DEF PollTransient, Unobserved
<1>7. ASSUME NEW p \in Runs, WaitGivenUp(p) PROVE HonestReport'
    BY <1>7 DEF WaitGivenUp, Unobserved
<1>8. ASSUME NEW p \in Runs, CheckTag(p) PROVE HonestReport'
    BY <1>8 DEF CheckTag
<1>9. ASSUME NEW p \in Runs, PinVMID(p) PROVE HonestReport'
    BY <1>9 DEF PinVMID
<1>10. ASSUME NEW p \in Runs, CreateRead(p) PROVE HonestReport'
    BY <1>10 DEF CreateRead
<1>11. ASSUME NEW p \in Runs, CreateSend(p) PROVE HonestReport'
    <2>1. CASE Ends(p, "error") /\ UNCHANGED tasks
        BY <1>11, <2>1 DEF CreateSend
    <2>2. CASE /\ tasks' = [tasks EXCEPT ![p]["create"] = "running"]
               /\ Goto(p, "wait") /\ job' = [job EXCEPT ![p] = "create"]
               /\ UNCHANGED <<cmd, transient, result>>
        BY <1>11, <2>2 DEF CreateSend
    <2>3. CASE tasks' = [tasks EXCEPT ![p]["create"] = "running"] /\ Ends(p, "lost")
        BY <1>11, <2>3 DEF CreateSend
    <2> QED
        BY <1>11, <2>1, <2>2, <2>3 DEF CreateSend
<1>12. ASSUME NEW p \in Runs, CreateReRead(p) PROVE HonestReport'
    BY <1>12 DEF CreateReRead
<1>13. ASSUME NEW p \in Runs, TagVisible(p) PROVE HonestReport'
    BY <1>13 DEF TagVisible
<1>14. ASSUME NEW p \in Runs, TagWaitEnds(p) PROVE HonestReport'
    BY <1>14 DEF TagWaitEnds
<1>15. ASSUME NEW p \in Runs, DestroyRead(p) PROVE HonestReport'
    BY <1>15 DEF DestroyRead
<1>16. ASSUME NEW p \in Runs, StatusGate(p) PROVE HonestReport'
    <2>1. CASE Ends(p, "error") /\ UNCHANGED tasks
        BY <1>16, <2>1 DEF StatusGate
    <2>2. CASE /\ tasks' = [tasks EXCEPT ![p]["stop"] = "running"]
               /\ Goto(p, "wait") /\ job' = [job EXCEPT ![p] = "stop"]
               /\ UNCHANGED <<cmd, transient, result>>
        BY <1>16, <2>2 DEF StatusGate
    <2>3. CASE tasks' = [tasks EXCEPT ![p]["stop"] = "running"] /\ Ends(p, "lost")
        BY <1>16, <2>3 DEF StatusGate
    <2>4. CASE Moves(p, "remove") /\ UNCHANGED tasks
        BY <1>16, <2>4 DEF StatusGate
    <2> QED
        BY <1>16, <2>1, <2>2, <2>3, <2>4 DEF StatusGate
<1>17. ASSUME NEW p \in Runs, DestroySend(p) PROVE HonestReport'
    BY <1>17 DEF DestroySend
<1>18. ASSUME NEW p \in Runs, Reverify(p) PROVE HonestReport'
    BY <1>18 DEF Reverify
<1>19. ASSUME NEW p \in Runs, Recheck(p) PROVE HonestReport'
    BY <1>19 DEF Recheck
<1>20. ASSUME NEW p \in Runs, ShutdownRead(p) PROVE HonestReport'
    <2>1. CASE State(p) = "stopped" /\ Ends(p, "shut")
        BY <1>20, <2>1 DEF ShutdownRead
    <2>2. CASE Moves(p, "apply") \/ Ends(p, "error")
        BY <1>20, <2>2 DEF ShutdownRead
    <2> QED
        BY <1>20, <2>1, <2>2 DEF ShutdownRead
<1>21. ASSUME NEW p \in Runs, ShutdownApply(p) PROVE HonestReport'
    BY <1>21 DEF ShutdownApply
<1>22. ASSUME NEW p \in Runs, ShutdownSend(p) PROVE HonestReport'
    BY <1>22 DEF ShutdownSend
<1>23. ASSUME NEW p \in Runs, ShutdownReRead(p) PROVE HonestReport'
    BY <1>23 DEF ShutdownReRead
<1>24. ASSUME NEW p \in Runs, Killed(p) PROVE HonestReport'
    BY <1>24 DEF Killed, Busy
<1>25. ASSUME NEW p \in Runs, NEW j \in Jobs, TaskSucceeds(p, j) PROVE HonestReport'
    BY <1>25 DEF TaskSucceeds, Done, Halted, Becomes, Busy, Nothing
<1>26. ASSUME NEW p \in Runs, NEW j \in Jobs, TaskFails(p, j) PROVE HonestReport'
    BY <1>26 DEF TaskFails
<1>27. ASSUME Listing PROVE HonestReport'
    BY <1>27 DEF Listing
<1>28. ASSUME WebUI PROVE HonestReport'
    BY <1>28 DEF WebUI, ByHand, Becomes, Busy, Nothing
<1>29. CASE UNCHANGED vars
    BY <1>29 DEF vars
<1> HIDE DEF Moves, Goto, Ends, Sends, At, pve, runs, LifecycleInv, TypeOK, Guests,
       Commands, Control, Evidence, HonestReport, Jobs, JobsOf, Busy, Exists, State,
       VMID
<1> QED
    BY <1>1, <1>2, <1>3, <1>4, <1>5, <1>6, <1>7, <1>8, <1>9, <1>10, <1>11,
       <1>12, <1>13, <1>14, <1>15, <1>16, <1>17, <1>18, <1>19, <1>20, <1>21, <1>22,
       <1>23, <1>24, <1>25, <1>26, <1>27, <1>28, <1>29 DEF Next, Step

-----------------------------------------------------------------------------
(* The invariant, and what follows from it                                 *)

\* A count of failed polls belongs to the wait a run is in, and stays within its bound:
\* only a failed poll counts, and whatever leaves a wait sets the count back.
LEMMA OwnPollsStep == LifecycleInv /\ [Next]_vars => OwnPolls'
<1> SUFFICES ASSUME LifecycleInv, [Next]_vars PROVE OwnPolls'
    OBVIOUS
<1>1. /\ transient \in [Runs -> Nat] /\ pc \in [Runs -> Labels] /\ MaxTransient \in Nat
      /\ \A p \in Runs : transient[p] <= MaxTransient /\ (transient[p] > 0 => pc[p] = "wait")
    BY LifecycleAssumption DEF LifecycleInv, TypeOK, OwnPolls
<1>2. ASSUME NEW p \in Runs, NEW l, Moves(p, l), pc[p] # "wait" PROVE OwnPolls'
    BY <1>1, <1>2 DEF Moves, Goto, OwnPolls
<1>3. ASSUME NEW p \in Runs, NEW o, Ends(p, o) PROVE OwnPolls'
    BY <1>1, <1>3 DEF Ends, Goto, OwnPolls
<1>4. ASSUME NEW p \in Runs, NEW j, Sends(p, j), pc[p] # "wait" PROVE OwnPolls'
    BY <1>1, <1>3, <1>4 DEF Sends, Goto, OwnPolls
<1>5. ASSUME NEW p \in Runs, Start(p) PROVE OwnPolls'
    BY <1>1, <1>5 DEF Start, Goto, OwnPolls
<1>6. ASSUME NEW p \in Runs, PollRunning(p) PROVE OwnPolls'
    BY <1>1, <1>6 DEF PollRunning, OwnPolls
<1>7. ASSUME NEW p \in Runs, PollStopped(p) PROVE OwnPolls'
    BY <1>1, <1>3, <1>7 DEF PollStopped, Goto, OwnPolls
<1>8. ASSUME NEW p \in Runs, PollTransient(p) PROVE OwnPolls'
    BY <1>1, <1>3, <1>8 DEF PollTransient, Unobserved, OwnPolls
<1>9. ASSUME NEW p \in Runs, WaitGivenUp(p) \/ Killed(p) PROVE OwnPolls'
    BY <1>3, <1>9 DEF WaitGivenUp, Unobserved, Killed
<1>10. ASSUME NEW p \in Runs,
              \/ LockTag(p) \/ LockVM(p) \/ CheckTag(p) \/ PinVMID(p)
              \/ CreateRead(p) \/ CreateReRead(p) \/ TagVisible(p) \/ TagWaitEnds(p)
              \/ DestroyRead(p) \/ Reverify(p) \/ Recheck(p)
              \/ ShutdownRead(p) \/ ShutdownApply(p) \/ ShutdownReRead(p)
       PROVE  OwnPolls'
    BY <1>2, <1>3, <1>10
       DEF LockTag, LockVM, CheckTag, PinVMID, CreateRead, CreateReRead, TagVisible, TagWaitEnds,
           DestroyRead, Reverify, Recheck, ShutdownRead, ShutdownApply, ShutdownReRead, At
<1>11. ASSUME NEW p \in Runs,
              CreateSend(p) \/ DestroySend(p) \/ ShutdownSend(p) \/ StatusGate(p)
       PROVE  OwnPolls'
    BY <1>2, <1>3, <1>4, <1>11 DEF CreateSend, DestroySend, ShutdownSend, StatusGate, At
<1>12. CASE UNCHANGED <<pc, transient>>
    BY <1>1, <1>12 DEF OwnPolls
<1>13. PVEStep \/ UNCHANGED vars => UNCHANGED <<pc, transient>>
    BY DEF PVEStep, TaskSucceeds, TaskFails, Listing, WebUI, runs, vars
<1> QED
    BY <1>5, <1>6, <1>7, <1>8, <1>9, <1>10, <1>11, <1>12, <1>13 DEF Next, Step, PVEStep

\* It holds at first: no command has begun.
LEMMA LifecycleInit == Init => LifecycleInv
<1> SUFFICES ASSUME Init PROVE LifecycleInv
    OBVIOUS
<1> USE LifecycleAssumption
<1>1. /\ pc = [p \in Runs |-> "idle"] /\ result = [p \in Runs |-> "none"]
      /\ cmd = [p \in Runs |-> NoCommand] /\ tasks = [p \in Runs |-> [j \in Jobs |-> "none"]]
    BY DEF Init
<1>2. \A v \in VMIDs : vm[v] \in Guests /\ vm[v].by = Web
    BY DEF Init, Guests, States, Web
<1>3. TypeOK
    <2>1. vm \in [VMIDs -> Guests]
        BY <1>2 DEF Init
    <2>2. listed \in [VMIDs -> Tags \cup {None}]
        BY <1>2 DEF Init, Guests
    <2>3. pc \in [Runs -> Labels]
        BY <1>1 DEF Labels
    <2>4. cmd \in [Runs -> Commands]
        BY <1>1 DEF Commands, NoCommand
    <2>5. job \in [Runs -> Jobs] /\ result \in [Runs -> Results]
        BY DEF Init, Jobs, Results
    <2> QED
        BY <1>1, <2>1, <2>2, <2>3, <2>4, <2>5 DEF Init, TypeOK
<1>4. Control
    BY <1>1 DEF Control
<1>5. Evidence
    BY <1>1 DEF Evidence, Busy
<1>6. Watched /\ OwnPolls
    BY <1>1 DEF Init, Watched, OwnPolls
<1>7. Locks
    BY <1>1 DEF Locks, HoldsVM, HoldsTag, UnderVMLock
<1>8. Makers
    BY <1>2 DEF Makers, Web
<1>9. Claims
    BY <1>1 DEF Claims, Claimed
<1>10. HonestReport
    BY <1>1 DEF HonestReport
<1> QED
    BY <1>3, <1>4, <1>5, <1>6, <1>7, <1>8, <1>9, <1>10 DEF LifecycleInv

\* Every step keeps it.
LEMMA LifecycleStep == LifecycleInv /\ [Next]_vars => LifecycleInv'
<1> SUFFICES ASSUME LifecycleInv, [Next]_vars PROVE LifecycleInv'
    OBVIOUS
<1>1. TypeOK' /\ Control' /\ Evidence' /\ OwnPolls' /\ HonestReport'
    BY TypeStep, ControlStep, EvidenceStep, OwnPollsStep, HonestStep DEF LifecycleInv
<1>2. Watched' /\ Locks' /\ Makers' /\ Claims'
    <2>1. ASSUME NEW p \in Runs, Start(p) PROVE Watched' /\ Locks' /\ Makers' /\ Claims'
        BY <2>1, StartKeeps
    <2>2. ASSUME NEW p \in Runs, Step(p) \/ Killed(p)
          PROVE  Watched' /\ Locks' /\ Makers' /\ Claims'
        BY <2>2, WatchedStep, LocksStep, MakersStep, ClaimsStep
    <2>3. CASE PVEStep
        BY <2>3, PVEKeeps
    <2>4. CASE UNCHANGED vars
        BY <2>4 DEF vars, LifecycleInv, Watched, Locks, HoldsVM, HoldsTag, Makers, Claims,
                    Claimed, PastCheck, VMID
    <2> QED
        BY <2>1, <2>2, <2>3, <2>4 DEF Next, PVEStep
<1> QED
    BY <1>1, <1>2 DEF LifecycleInv

\* Whatever commands run, in whatever order, and whatever PVE and the web UI do
\* meanwhile: what a run has seen, and what it holds, justifies the step it is at.
THEOREM LifecycleInvariant == Spec => []LifecycleInv
<1> QED
    BY LifecycleInit, LifecycleStep, PTL DEF Spec

\* `vm create`, VMDestroy and VMShutdown report only what happened.
THEOREM HonestReports == Spec => []HonestReport
<1>1. LifecycleInv => HonestReport
    BY DEF LifecycleInv
<1> QED
    BY <1>1, LifecycleInvariant, PTL

\* --unique-tag: after a create that reported its VM listed, no other succeeds with
\* the tag while the VM is there.
THEOREM UniqueTags == Spec => UniqueTagKept
<1> DEFINE A == \A p, q \in Runs :
              p # q /\ Claimed(q) /\ cmd[p].tag = cmd[q].tag /\ result[p] = "none"
                  => result'[p] \notin {"created", "unlisted"}
<1>1. LifecycleInv /\ [Next]_vars => [A]_vars
    <2> SUFFICES ASSUME LifecycleInv, Next, NEW p \in Runs, NEW q \in Runs, p # q, Claimed(q),
                        cmd[p].tag = cmd[q].tag, result[p] = "none",
                        result'[p] \in {"created", "unlisted"}
                 PROVE  FALSE
        OBVIOUS
    <2>1. PICK r \in Runs : Step(r) \/ Killed(r)
        <3>1. ASSUME NEW r \in Runs, Start(r) PROVE FALSE
            BY <3>1 DEF Start
        <3>2. ASSUME PVEStep PROVE FALSE
            BY <3>2, PVEFrame DEF LifecycleInv, runs
        <3> QED
            BY <3>1, <3>2 DEF Next, PVEStep
    <2>2. r = p
        BY <2>1, RunStep DEF LifecycleInv, Frame
    <2>3. pc[p] = "visible" /\ cmd[p].tag # None
        BY <2>1, <2>2, RunStep DEF LifecycleInv, Reports, Claimed
    <2>4. PastCheck(p)
        BY <2>3 DEF PastCheck, HoldsTag, LifecycleInv, Control
    <2> QED
        BY <2>4 DEF LifecycleInv, Claims
<1> QED
    BY <1>1, LifecycleInvariant, PTL DEF Spec, UniqueTagKept

\* Tasks of two kinds or of two runs overlap on a VM only behind a run that said
\* it did not see its task end.
THEOREM OverlapsUnobserved == Spec => []OverlapUnobserved
<1>1. LifecycleInv => OverlapUnobserved
    <2> SUFFICES ASSUME LifecycleInv, NEW p \in Runs, NEW q \in Runs,
                        NEW j \in Jobs, NEW k \in Jobs, <<p, j>> # <<q, k>>, tasks[p][j] = "running", tasks[q][k] = "running",
                        VMID(p) = VMID(q),
                        result[p] \notin Blind, result[q] \notin Blind
                 PROVE  FALSE
        BY DEF OverlapUnobserved
    <2>1. pc[p] = "wait" /\ job[p] = j /\ pc[q] = "wait" /\ job[q] = k
        BY DEF LifecycleInv, Watched
    <2> QED
        BY <2>1 DEF LifecycleInv, Locks, HoldsVM, UnderVMLock
<1> QED
    BY <1>1, LifecycleInvariant, PTL

\* A destroy is sent only for a VM the run has known to be stopped.
THEOREM DestroysStopped == Spec => DestroysOnlyStopped
<1> DEFINE A == \A p \in Runs :
              tasks[p]["destroy"] = "none" /\ tasks'[p]["destroy"] = "running" => "stopped" \in seen[p]
<1>1. LifecycleInv /\ [Next]_vars => [A]_vars
    <2> SUFFICES ASSUME LifecycleInv, Next, NEW p \in Runs,
                        tasks[p]["destroy"] = "none", tasks'[p]["destroy"] = "running"
                 PROVE  "stopped" \in seen[p]
        OBVIOUS
    <2>1. tasks[p] \in [Jobs -> {"none", "running", "ok", "failed"}]
        BY DEF LifecycleInv, TypeOK
    <2>2. PICK q \in Runs : Step(q) \/ Killed(q)
        <3>1. ASSUME NEW q \in Runs, Start(q) PROVE FALSE
            BY <3>1 DEF Start
        <3>2. ASSUME PVEStep PROVE FALSE
            BY <3>2, PVEFrame DEF LifecycleInv, Jobs
        <3> QED
            BY <3>1, <3>2 DEF Next, PVEStep
    <2>3. q = p
        BY <2>2, RunStep DEF LifecycleInv, Frame
    <2>4. pc[p] = "remove"
        <3>1. tasks' # tasks
            OBVIOUS
        <3>2. ASSUME NEW j \in Jobs, Sends(p, j) PROVE j = "destroy"
            BY <2>1, <3>2 DEF Sends, LifecycleInv, TypeOK, Jobs
        <3> QED
            BY <2>2, <2>3, <3>1, <3>2 DEF Step, LockTag, LockVM, PollRunning, PollStopped, PollTransient,
               WaitGivenUp, CheckTag, PinVMID, CreateRead, CreateSend, CreateReRead, TagVisible,
               TagWaitEnds, DestroyRead, StatusGate, DestroySend, Reverify, Recheck, ShutdownRead,
               ShutdownApply, ShutdownSend, ShutdownReRead, Killed, pve, Jobs
    <2> QED
        BY <2>4 DEF LifecycleInv, Evidence
<1> QED
    BY <1>1, LifecycleInvariant, PTL DEF Spec, DestroysOnlyStopped
=============================================================================
