----------------------------- MODULE VMLifecycle -----------------------------
(***************************************************************************)
(* The VM lifecycle operations of internal/idempotent and the commands     *)
(* above them: `vm create`, with and without --unique-tag, VMDestroy and   *)
(* VMShutdown, each a Run of the engine under the VM's lock, and           *)
(* WaitForTask, which follows the PVE task an operation starts.  A task    *)
(* outlives the run that started it: a run that gives up waiting, or is    *)
(* killed, releases its lock while PVE is still at work.  Root's guest     *)
(* list lags behind PVE's own state.                                       *)
(***************************************************************************)
EXTENDS Naturals

CONSTANTS Runs,          \* pveforge commands on one roster target
          VMIDs,
          Tags,          \* tags a create may claim and a destroy recheck
          None,          \* no tag, no VM
          Initial,       \* what a VMID may be at first: <<state, tag>>
          MaxTransient,  \* maxConsecutiveTransientPolls
          MaxOutside     \* bound on what the web UI does

States == {"absent", "stopped", "running", "paused"}

ASSUME LifecycleAssumption ==
    /\ None \notin Tags \cup VMIDs
    /\ Initial \subseteq States \X (Tags \cup {None})
    /\ \A i \in Initial : i[1] = "absent" => i[2] = None
    /\ "web" \notin Runs
    /\ MaxTransient \in Nat
    /\ MaxOutside \in Nat

VARIABLES vm,      \* PVE: each VMID's state, tag and maker
          listed,  \* PVE: the tag each VMID has in the cluster's resource list
          tasks,   \* PVE: the tasks each run has started
          pc,      \* where each run is
          cmd,     \* its command: the kind, the VMID and the tag
          job, transient,  \* the task it waits for; its failed polls in a row
          result,  \* what it reports
          outside, \* how often the web UI has acted
          seen     \* history: the states a run's VM has been in since it began

vars == <<vm, listed, tasks, pc, cmd, job, transient, result, outside, seen>>
runs == <<pc, cmd, job, transient, result>>
pve == <<vm, listed, tasks, outside, seen>>

Kinds == {"create", "destroy", "shutdown"}
Jobs == {"create", "stop", "destroy", "shutdown"}
Web == "web"

Guests == [state : States, tag : Tags \cup {None}, by : Runs \cup {Web}]
Nothing == [state |-> "absent", tag |-> None, by |-> Web]

NoCommand == [kind |-> "none", vmid |-> None, tag |-> None]

Init ==
    /\ vm \in [VMIDs -> {[state |-> i[1], tag |-> i[2], by |-> Web] : i \in Initial}]
    /\ listed = [v \in VMIDs |-> vm[v].tag]
    /\ tasks = [p \in Runs |-> [j \in Jobs |-> "none"]]
    /\ pc = [p \in Runs |-> "idle"]
    /\ cmd = [p \in Runs |-> NoCommand]
    /\ job = [p \in Runs |-> "create"]
    /\ transient = [p \in Runs |-> 0]
    /\ result = [p \in Runs |-> "none"]
    /\ outside = 0
    /\ seen = [p \in Runs |-> {}]

VMID(p) == cmd[p].vmid
State(p) == vm[VMID(p)].state
Exists(p) == State(p) # "absent"

Busy == {p \in Runs : pc[p] \notin {"idle", "done"}}

\* The runs on a VM see each state it passes through.
Becomes(v, new) ==
    /\ vm' = [vm EXCEPT ![v] = new]
    /\ seen' = [p \in Runs |-> IF p \in Busy /\ VMID(p) = v
                               THEN seen[p] \cup {new.state} ELSE seen[p]]

-----------------------------------------------------------------------------
(* PVE and the web UI                                                      *)

Halted(guest) == [guest EXCEPT !.state = "stopped"]

\* A job that succeeds leaves its VM like this.  A destroy may report success for
\* a VM whose config still answers.
Done(p, j, new) ==
    \/ j = "create"   /\ ~Exists(p) /\ new = [state |-> "stopped", tag |-> cmd[p].tag, by |-> p]
    \/ j = "stop"     /\ Exists(p) /\ new = Halted(vm[VMID(p)])
    \/ j = "shutdown" /\ State(p) \in {"running", "stopped"} /\ new = Halted(vm[VMID(p)])
    \/ j = "destroy"  /\ State(p) = "stopped" /\ new \in {Nothing, vm[VMID(p)]}

TaskSucceeds(p, j) ==
    /\ tasks[p][j] = "running"
    /\ \E new \in Guests : Done(p, j, new) /\ Becomes(VMID(p), new)
    /\ tasks' = [tasks EXCEPT ![p][j] = "ok"]
    /\ UNCHANGED <<listed, runs, outside>>

TaskFails(p, j) ==
    /\ tasks[p][j] = "running"
    /\ tasks' = [tasks EXCEPT ![p][j] = "failed"]
    /\ UNCHANGED <<vm, listed, runs, outside, seen>>

\* The resource list catches up with PVE's own state, guest by guest.
Listing ==
    /\ \E v \in VMIDs : listed' = [listed EXCEPT ![v] = vm[v].tag]
    /\ UNCHANGED <<vm, tasks, runs, outside, seen>>

\* Anything the locks do not cover: the web UI creates, removes, starts, stops or
\* pauses a VM.
ByHand(v, new) ==
    \/ vm[v].state = "absent" /\ new.state = "stopped" /\ new.by = Web
    \/ vm[v].state = "stopped" /\ new = Nothing
    \/ /\ "absent" \notin {vm[v].state, new.state}
       /\ new # vm[v]
       /\ new.tag = vm[v].tag /\ new.by = vm[v].by

WebUI ==
    /\ outside < MaxOutside
    /\ outside' = outside + 1
    /\ \E v \in VMIDs, new \in Guests : ByHand(v, new) /\ Becomes(v, new)
    /\ UNCHANGED <<listed, tasks, runs>>

-----------------------------------------------------------------------------
(* Steps of a run                                                          *)

At(p, kind, label) == pc[p] = label /\ cmd[p].kind = kind
Goto(p, label) == pc' = [pc EXCEPT ![p] = label]
Moves(p, label) == Goto(p, label) /\ UNCHANGED <<cmd, job, transient, result>>
Ends(p, outcome) ==
    /\ Goto(p, "done")
    /\ result' = [result EXCEPT ![p] = outcome]
    /\ transient' = [transient EXCEPT ![p] = 0]
    /\ UNCHANGED <<cmd, job>>

\* The VM's lock is held by idempotent.Run, until it returns.
UnderVMLock == {"read", "apply", "send", "gate", "wait", "remove", "reverify", "recheck", "reread"}
HoldsVM(p) == pc[p] \in UnderVMLock

\* Fault: the tag's lock is released with the VM's.
HoldsTagBriefly(p) ==
    cmd[p].kind = "create" /\ cmd[p].tag # None /\ pc[p] \in {"check", "pin", "lock"} \cup UnderVMLock

\* The tag's lock is taken first and kept until the new VM is listed.
HoldsTag(p) ==
    cmd[p].kind = "create" /\ cmd[p].tag # None
        /\ pc[p] \in {"check", "pin", "lock", "visible"} \cup UnderVMLock

FirstStep(kind, tag) ==
    IF kind # "create" THEN "lock" ELSE IF tag = None THEN "pin" ELSE "tag"

\* A command begins.  A create claims its tag only with --unique-tag.
Start(p) ==
    /\ pc[p] = "idle"
    /\ \E k \in Kinds, v \in VMIDs, t \in Tags \cup {None} :
          /\ k = "shutdown" => t = None
          /\ cmd' = [cmd EXCEPT ![p] = [kind |-> k, vmid |-> v, tag |-> t]]
          /\ seen' = [seen EXCEPT ![p] = {vm[v].state}]
          /\ Goto(p, FirstStep(k, t))
    /\ UNCHANGED <<vm, listed, tasks, outside, job, transient, result>>

\* lock.Mutation, for the tag and then for the VM; either wait may run out.
LockTag(p) ==
    /\ pc[p] = "tag"
    /\ \/ /\ \A q \in Runs : ~(HoldsTag(q) /\ cmd[q].tag = cmd[p].tag)
          /\ Moves(p, "check")
       \/ Ends(p, "locked")
    /\ UNCHANGED pve

LockVM(p) ==
    /\ pc[p] = "lock"
    /\ \/ /\ \A q \in Runs : ~(HoldsVM(q) /\ VMID(q) = VMID(p))
          /\ Moves(p, "read")
       \/ Ends(p, "locked")
    /\ UNCHANGED pve

\* A request to PVE is refused, accepted, or accepted and its answer lost: an
\* error like any other, which IsTaskOutcomeUnknown does not match.
Sends(p, j) ==
    \/ Ends(p, "error") /\ UNCHANGED tasks
    \/ /\ j = "create" <=> ~Exists(p)
       /\ tasks' = [tasks EXCEPT ![p][j] = "running"]
       /\ \/ /\ Goto(p, "wait")
             /\ job' = [job EXCEPT ![p] = j]
             /\ UNCHANGED <<cmd, transient, result>>
          \/ Ends(p, "lost")

-----------------------------------------------------------------------------
(* WaitForTask                                                             *)

Task(p) == tasks[p][job[p]]

\* Where the operation goes on once its task is seen to have succeeded.
After(j) ==
    IF j = "stop" THEN "remove" ELSE IF j = "destroy" THEN "reverify" ELSE "reread"

\* Fault: a stop that was not seen to end does not keep the destroy back.
UnobservedSwallowed(p) ==
    IF job[p] = "stop" THEN Moves(p, "remove") ELSE Ends(p, "unknown")

\* The outcome was never observed: taskOutcomeUnknownError.
Unobserved(p) == Ends(p, "unknown")

PollRunning(p) ==
    /\ pc[p] = "wait"
    /\ Task(p) = "running"
    /\ transient[p] > 0
    /\ transient' = [transient EXCEPT ![p] = 0]
    /\ UNCHANGED <<pc, cmd, job, result, pve>>

PollStopped(p) ==
    /\ pc[p] = "wait"
    /\ \/ /\ Task(p) = "ok"
          /\ Goto(p, After(job[p]))
          /\ transient' = [transient EXCEPT ![p] = 0]
          /\ UNCHANGED <<cmd, job, result>>
       \/ Task(p) = "failed" /\ Ends(p, "failed")
    /\ UNCHANGED pve

\* Fault: one transient poll too many.
PollTransientTooLong(p) ==
    /\ pc[p] = "wait"
    /\ \/ /\ transient[p] <= MaxTransient
          /\ transient' = [transient EXCEPT ![p] = @ + 1]
          /\ UNCHANGED <<pc, cmd, job, result>>
       \/ transient[p] > MaxTransient /\ Unobserved(p)
    /\ UNCHANGED pve

\* isTransientPollError: polled past, but only so often in a row.
PollTransient(p) ==
    /\ pc[p] = "wait"
    /\ \/ /\ transient[p] < MaxTransient
          /\ transient' = [transient EXCEPT ![p] = @ + 1]
          /\ UNCHANGED <<pc, cmd, job, result>>
       \/ transient[p] >= MaxTransient /\ Unobserved(p)
    /\ UNCHANGED pve

\* The deadline, a cancelled context, or an answer outside PVE's contract.
WaitGivenUp(p) ==
    /\ pc[p] = "wait"
    /\ Unobserved(p)
    /\ UNCHANGED pve

-----------------------------------------------------------------------------
(* vm create                                                               *)

\* checkTagUnique: only a list that was read and holds no such tag lets it on.
CheckTag(p) ==
    /\ pc[p] = "check"
    /\ \/ (\A v \in VMIDs : listed[v] # cmd[p].tag) /\ Moves(p, "pin")
       \/ Ends(p, "refused")
    /\ UNCHANGED pve

\* NextVMID's pin path.
PinVMID(p) ==
    /\ pc[p] = "pin"
    /\ \/ ~Exists(p) /\ Moves(p, "lock")
       \/ Ends(p, "refused")
    /\ UNCHANGED pve

\* VMCreate.Read takes any error for "absent"; a VM that is there makes the Run a
\* no-op, which the command reports as a collision.
CreateRead(p) ==
    /\ At(p, "create", "read")
    /\ \/ Exists(p) /\ Ends(p, "refused")
       \/ Moves(p, "send")
    /\ UNCHANGED pve

CreateSend(p) ==
    /\ At(p, "create", "send")
    /\ Sends(p, "create")
    /\ UNCHANGED <<vm, listed, outside, seen>>

\* ReRead and PostApply only warn.  With --unique-tag the tag's lock stays held.
CreateReRead(p) ==
    /\ At(p, "create", "reread")
    /\ IF cmd[p].tag = None THEN Ends(p, "created") ELSE Moves(p, "visible")
    /\ UNCHANGED pve

\* waitTagVisible: the one guest listed with the tag is this create's VM.
TagVisible(p) ==
    /\ pc[p] = "visible"
    /\ {v \in VMIDs : listed[v] = cmd[p].tag} = {VMID(p)}
    /\ Ends(p, "created")
    /\ UNCHANGED pve

\* The bound elapses, with a warning, or a signal interrupts it, with an error
\* that says the VM was created.
TagWaitEnds(p) ==
    /\ pc[p] = "visible"
    /\ Ends(p, "unlisted")
    /\ UNCHANGED pve

-----------------------------------------------------------------------------
(* VMDestroy                                                               *)

\* Fault: a read that fails is taken for "already gone".
DestroyReadFolded(p) ==
    /\ At(p, "destroy", "read")
    /\ \/ Exists(p) /\ Moves(p, "gate")
       \/ Ends(p, "destroyed")
    /\ UNCHANGED pve

\* fetchVMConfig: only PVE's own "does not exist" is "already gone".
DestroyRead(p) ==
    /\ At(p, "destroy", "read")
    /\ \/ Exists(p) /\ Moves(p, "gate")
       \/ ~Exists(p) /\ Ends(p, "destroyed")
       \/ Ends(p, "error")
    /\ UNCHANGED pve

\* Fault: a status that could not be read is taken for "stopped".
StatusGateOpen(p) ==
    /\ pc[p] = "gate"
    /\ \/ Moves(p, "remove") /\ UNCHANGED tasks
       \/ State(p) \in {"running", "paused"} /\ Sends(p, "stop")
    /\ UNCHANGED <<vm, listed, outside, seen>>

\* StatusGatedStop: skip the stop only on a status read as "stopped".  The read
\* and the stop request are one step: a change between them only makes the stop a
\* task that fails.
StatusGate(p) ==
    /\ pc[p] = "gate"
    /\ \/ State(p) = "stopped" /\ Moves(p, "remove") /\ UNCHANGED tasks
       \/ State(p) \in {"running", "paused"} /\ Sends(p, "stop")
       \/ Ends(p, "error") /\ UNCHANGED tasks
    /\ UNCHANGED <<vm, listed, outside, seen>>

DestroySend(p) ==
    /\ pc[p] = "remove"
    /\ Sends(p, "destroy")
    /\ UNCHANGED <<vm, listed, outside, seen>>

Reverify(p) ==
    /\ pc[p] = "reverify"
    /\ \/ ~Exists(p) /\ Moves(p, "recheck")
       \/ Ends(p, "unproven")
    /\ UNCHANGED pve

\* The tag recheck warns: another VM is listed with it, or the list was not read.
Recheck(p) ==
    /\ pc[p] = "recheck"
    /\ LET claimed == \E v \in VMIDs \ {VMID(p)} : listed[v] = cmd[p].tag IN
       \/ (cmd[p].tag = None \/ ~claimed) /\ Ends(p, "destroyed")
       \/ cmd[p].tag # None /\ Ends(p, "contested")
    /\ UNCHANGED pve

-----------------------------------------------------------------------------
(* VMShutdown                                                              *)

ShutdownRead(p) ==
    /\ At(p, "shutdown", "read")
    /\ \/ State(p) = "stopped" /\ Ends(p, "shut")
       \/ State(p) \in {"running", "paused"} /\ Moves(p, "apply")
       \/ Ends(p, "error")
    /\ UNCHANGED pve

\* Apply reads again, and refuses any state but running and stopped.
ShutdownApply(p) ==
    /\ pc[p] = "apply"
    /\ \/ State(p) \in {"running", "stopped"} /\ Moves(p, "send")
       \/ State(p) = "paused" /\ Ends(p, "refused")
       \/ Ends(p, "error")
    /\ UNCHANGED pve

ShutdownSend(p) ==
    /\ At(p, "shutdown", "send")
    /\ Sends(p, "shutdown")
    /\ UNCHANGED <<vm, listed, outside, seen>>

ShutdownReRead(p) ==
    /\ At(p, "shutdown", "reread")
    /\ Ends(p, "shut")
    /\ UNCHANGED pve

-----------------------------------------------------------------------------

\* A kill releases the locks, and leaves the tasks to PVE.
Killed(p) ==
    /\ p \in Busy
    /\ Ends(p, "killed")
    /\ UNCHANGED pve

Step(p) ==
    \/ LockTag(p) \/ LockVM(p)
    \/ PollRunning(p) \/ PollStopped(p) \/ PollTransient(p) \/ WaitGivenUp(p)
    \/ CheckTag(p) \/ PinVMID(p) \/ CreateRead(p) \/ CreateSend(p) \/ CreateReRead(p)
    \/ TagVisible(p) \/ TagWaitEnds(p)
    \/ DestroyRead(p) \/ StatusGate(p) \/ DestroySend(p) \/ Reverify(p) \/ Recheck(p)
    \/ ShutdownRead(p) \/ ShutdownApply(p) \/ ShutdownSend(p) \/ ShutdownReRead(p)

Next ==
    \/ \E p \in Runs : Start(p) \/ Step(p) \/ Killed(p)
    \/ \E p \in Runs, j \in Jobs : TaskSucceeds(p, j) \/ TaskFails(p, j)
    \/ Listing \/ WebUI

Spec == Init /\ [][Next]_vars

-----------------------------------------------------------------------------
(* Properties                                                              *)

Labels == {"idle", "tag", "check", "pin", "lock", "visible", "done"} \cup UnderVMLock
Commands == [kind : Kinds \cup {"none"}, vmid : VMIDs \cup {None}, tag : Tags \cup {None}]
Results == {"none", "locked", "error", "lost", "unknown", "failed", "refused", "created", "unlisted",
            "destroyed", "contested", "unproven", "shut", "killed"}

\* What a run reports that ended with a task it has not seen end.
Blind == {"unknown", "lost", "killed"}

\* Every variable has its type.
TypeOK ==
    /\ vm \in [VMIDs -> Guests]
    /\ listed \in [VMIDs -> Tags \cup {None}]
    /\ tasks \in [Runs -> [Jobs -> {"none", "running", "ok", "failed"}]]
    /\ pc \in [Runs -> Labels]
    /\ cmd \in [Runs -> Commands]
    /\ job \in [Runs -> Jobs]
    /\ transient \in [Runs -> Nat]
    /\ result \in [Runs -> Results]
    /\ outside \in 0 .. MaxOutside
    /\ seen \in [Runs -> SUBSET States]

\* What a command reports is what happened: `vm create` reports "created" only for
\* a VM its own task made, a destroy reports success only if its VM was really
\* gone at some moment of the run, a shutdown only if the VM really was stopped,
\* and a failed task is reported only when PVE's task failed.  VMDestroy.Read and
\* VMShutdown.Read say so of a failed read, vm create's backstop of a no-op.
HonestReport ==
    \A p \in Runs :
        /\ result[p] \in {"created", "unlisted"} => tasks[p]["create"] = "ok"
        /\ result[p] \in {"destroyed", "contested"} => "absent" \in seen[p]
        /\ result[p] = "shut" => "stopped" \in seen[p]
        /\ result[p] = "failed" => tasks[p][job[p]] = "failed"

\* PVE works on two tasks for one VM only when the run that started one of them
\* ended without having seen its outcome: no run starts a task while another task
\* it, or a run that reported an outcome, has started still runs (VMDestroy's
\* comment on the lock and the task's lifetime).
OverlapUnobserved ==
    \A p, q \in Runs, j, k \in Jobs :
        /\ <<p, j>> # <<q, k>>
        /\ tasks[p][j] = "running" /\ tasks[q][k] = "running"
        /\ VMID(p) = VMID(q)
        => \E r \in {p, q} : result[r] \in Blind

\* A destroy is sent only for a VM that really was stopped at some moment of the
\* run: StatusGatedStop never takes an unread status for "stopped".
DestroysOnlyStopped ==
    [][\A p \in Runs :
          tasks[p]["destroy"] = "none" /\ tasks'[p]["destroy"] = "running"
              => "stopped" \in seen[p]]_vars

\* A create that succeeded without a warning, and whose VM is still there.
Claimed(p) ==
    result[p] = "created" /\ cmd[p].tag # None /\ vm[VMID(p)].by = p

\* Once a create with --unique-tag has reported its VM without a warning, no other
\* create with the tag succeeds, with a warning or without, while that VM is there
\* (vm create's help: two such creates never both succeed, but for one that warned
\* or was interrupted before its VM was listed).
UniqueTagKept ==
    [][\A p, q \in Runs :
          p # q /\ Claimed(q) /\ cmd[p].tag = cmd[q].tag /\ result[p] = "none"
              => result'[p] \notin {"created", "unlisted"}]_vars

-----------------------------------------------------------------------------
(* The inductive invariant                                                 *)

JobsOf(kind) == IF kind = "destroy" THEN {"stop", "destroy"} ELSE {kind}

\* Which command a step belongs to.
Control ==
    \A p \in Runs :
        /\ pc[p] = "idle" => \A j \in Jobs : tasks[p][j] = "none"
        /\ pc[p] # "idle" => cmd[p].vmid \in VMIDs
        /\ pc[p] # "done" => result[p] = "none"
        /\ pc[p] \in {"tag", "check", "pin", "visible"} => cmd[p].kind = "create"
        /\ pc[p] \in {"gate", "remove", "reverify", "recheck"} => cmd[p].kind = "destroy"
        /\ pc[p] = "apply" => cmd[p].kind = "shutdown"
        /\ pc[p] \in {"send", "reread"} => cmd[p].kind \in {"create", "shutdown"}
        /\ pc[p] = "wait" => job[p] \in JobsOf(cmd[p].kind)

\* What a run has behind it when it gets to a step.
Evidence ==
    \A p \in Runs :
        /\ p \in Busy => State(p) \in seen[p]
        /\ p \in Busy /\ "ok" \in {tasks[p]["stop"], tasks[p]["shutdown"]} => "stopped" \in seen[p]
        /\ pc[p] = "remove" => "stopped" \in seen[p]
        /\ pc[p] = "recheck" => "absent" \in seen[p]
        /\ pc[p] = "reread" => tasks[p][cmd[p].kind] = "ok"
        /\ pc[p] = "visible" => tasks[p]["create"] = "ok"

\* The failed polls in a row are those of the wait a run is in, none left over from
\* an earlier one, and no wait polls past more of them than it may.
OwnPolls ==
    \A p \in Runs :
        /\ transient[p] <= MaxTransient
        /\ transient[p] > 0 => pc[p] = "wait"

\* A task that runs is waited for, or its run ended without seeing it end.
Watched ==
    \A p \in Runs, j \in Jobs :
        tasks[p][j] = "running" =>
            (pc[p] = "wait" /\ job[p] = j) \/ result[p] \in Blind

\* One run holds a lock.
Locks ==
    \A p, q \in Runs :
        p # q => /\ ~(HoldsVM(p) /\ HoldsVM(q) /\ VMID(p) = VMID(q))
                 /\ ~(HoldsTag(p) /\ HoldsTag(q) /\ cmd[p].tag = cmd[q].tag)

PastCheck(p) == HoldsTag(p) /\ pc[p] # "check"

Makers ==
    \A v \in VMIDs, p \in Runs :
        vm[v].by = p => pc[p] # "idle" /\ v = VMID(p) /\ vm[v].tag = cmd[p].tag

\* Its VM is listed, so no other create gets past the check.
Claims ==
    \A p \in Runs :
        Claimed(p) =>
            /\ listed[VMID(p)] = cmd[p].tag
            /\ \A q \in Runs \ {p} :
                  cmd[q].tag = cmd[p].tag => ~Claimed(q) /\ ~PastCheck(q)

\* Every run, task, lock and claim is as the commands leave it: what a run has
\* seen, and what it holds, justifies the step it is at.
LifecycleInv ==
    TypeOK /\ Control /\ Evidence /\ OwnPolls /\ Watched /\ Locks /\ Makers /\ Claims /\ HonestReport
=============================================================================
