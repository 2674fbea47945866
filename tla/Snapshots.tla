------------------------------ MODULE Snapshots ------------------------------
(***************************************************************************)
(* `vm snapshot list | create | delete | rollback` on one VM, over the     *)
(* snapshot primitives of internal/pve and the in-guest rollback witness.  *)
(* A command holds the VM's lock from its first read to its last, but the  *)
(* lock holds off pveforge only: the web UI may change the snapshots at    *)
(* any step, and a PVE task outlives the command that gave up on it.       *)
(***************************************************************************)
EXTENDS Naturals, FiniteSets

CONSTANTS Runs,        \* pveforge commands on one VM
          Names,       \* names a snapshot may have
          Current,     \* PVE's pseudo-entry for the running state
          Initial,     \* the snapshots the VM may have at first
          MaxClock,    \* bound on the seconds that pass
          MaxMade,     \* bound on the snapshots ever made
          MaxOutside   \* bound on what the web UI does

VARIABLES snap,    \* PVE: each name's snapshot: its snaptime, its true order, its RAM state
          clock,   \* PVE: the second it is
          made,    \* PVE: how many snapshots there have ever been
          guest,   \* PVE: does the guest run, and whose rollback it runs since
          task,    \* PVE: the task a run started last
          outside, \* how often the web UI has acted
          pc, cmd, \* where each run is; its command
          view,    \* the snaptimes `delete` read under the lock, 0 for no snapshot
          todo, deleted,  \* what a delete still has to send; what it has deleted
          plan,    \* what a rollback decided about its witness
          exec,    \* the witness command a run started in the guest
          result,  \* what the run reports
          gone,    \* history: names that were absent at some moment of the run
          planned, \* history: the target the plan was made for
          checked, \* history: `made` at delete's read, or at the newest check
          restored, \* history: what the run's rollback restored
          witnessed \* history: whose rollback the guest ran when the witness began

pve == <<snap, clock, made, guest, task, outside, gone, restored>>
locals == <<cmd, view, todo, deleted, plan, exec, result, planned, checked, witnessed>>
vars == <<pve, locals, pc>>

Web == "web"
Kinds == {"list", "create", "delete", "rollback"}

NoSnapshot == [time |-> 0, seq |-> 0, vmstate |-> FALSE]
Snapshots == {NoSnapshot} \cup [time : 1 .. MaxClock, seq : 1 .. MaxMade, vmstate : BOOLEAN]

\* Snapshots are made one after the other: a later one never has an earlier time.
Chain(s) ==
    \A m, n \in Names :
        m # n /\ s[m].seq # 0 /\ s[n].seq # 0 =>
            s[m].seq # s[n].seq /\ (s[m].seq < s[n].seq => s[m].time <= s[n].time)

ASSUME SnapshotAssumption ==
    /\ Current \notin Names
    /\ IsFiniteSet(Names)
    /\ "web" \notin Runs
    /\ MaxClock \in Nat \ {0}
    /\ MaxMade \in Nat /\ MaxMade >= Cardinality(Names)
    /\ MaxOutside \in Nat
    /\ Initial \subseteq [Names -> Snapshots]
    /\ \A s \in Initial : Chain(s) /\ \A n \in Names : s[n].time <= 1 /\ s[n].seq <= Cardinality(Names)

NoTask == [job |-> "none", name |-> Current, status |-> "none"]
NothingRestored == [seq |-> 0, vmstate |-> FALSE]

There(n) == n \in Names /\ snap[n].seq # 0
Listed == {n \in Names : There(n)}

Init ==
    /\ made = Cardinality(Names)
    /\ clock = 1
    /\ snap \in Initial
    /\ guest = [running |-> TRUE, by |-> Web]
    /\ task = [p \in Runs |-> NoTask]
    /\ outside = 0
    /\ pc = [p \in Runs |-> "idle"]
    /\ cmd = [p \in Runs |-> [kind |-> "none", names |-> {}, witness |-> FALSE]]
    /\ view = [p \in Runs |-> [n \in Names |-> 0]]
    /\ todo = [p \in Runs |-> {}]
    /\ deleted = [p \in Runs |-> {}]
    /\ plan = [p \in Runs |-> "running"]
    /\ exec = [p \in Runs |-> "none"]
    /\ result = [p \in Runs |-> "none"]
    /\ gone = [p \in Runs |-> {}]
    /\ planned = [p \in Runs |-> 0]
    /\ checked = [p \in Runs |-> 0]
    /\ restored = [p \in Runs |-> NothingRestored]
    /\ witnessed = [p \in Runs |-> Web]

Busy == {p \in Runs : pc[p] \notin {"idle", "done"}}

-----------------------------------------------------------------------------
(* PVE, the guest and the web UI                                           *)

\* The snapshots become s; every run under way sees which names are absent.
Become(s) ==
    /\ snap' = s
    /\ gone' = [p \in Runs |->
                   IF p \in Busy /\ cmd[p].kind = "delete" THEN gone[p] \cup {n \in Names : s[n].seq = 0} ELSE gone[p]]

Make(n, ram) ==
    /\ ~There(n) /\ made < MaxMade
    /\ made' = made + 1
    /\ Become([snap EXCEPT ![n] = [time |-> clock, seq |-> made + 1, vmstate |-> ram]])

Remove(n) == There(n) /\ Become([snap EXCEPT ![n] = NoSnapshot]) /\ UNCHANGED made

\* A guest runs after a rollback only to a snapshot with RAM state.
RollTo(n, who) ==
    /\ There(n)
    /\ guest' = [running |-> snap[n].vmstate, by |-> who]

\* A task does what it reports, but that a create may lose the RAM state.
TaskSucceeds(p) ==
    /\ task[p].status = "running"
    /\ task' = [task EXCEPT ![p].status = "ok"]
    /\ \/ /\ task[p].job = "create"
          /\ \E ram \in BOOLEAN : Make(task[p].name, ram)
          /\ UNCHANGED <<guest, restored>>
       \/ /\ task[p].job = "delete"
          /\ Remove(task[p].name)
          /\ UNCHANGED <<guest, restored>>
       \/ /\ task[p].job = "rollback"
          /\ RollTo(task[p].name, p)
          /\ restored' = [restored EXCEPT ![p] = [seq |-> snap[task[p].name].seq,
                                                  vmstate |-> snap[task[p].name].vmstate]]
          /\ UNCHANGED <<snap, made, gone>>
    /\ UNCHANGED <<clock, outside, locals, pc>>

TaskFails(p) ==
    /\ task[p].status = "running"
    /\ task' = [task EXCEPT ![p].status = "failed"]
    /\ UNCHANGED <<snap, clock, made, guest, outside, gone, restored, locals, pc>>

\* The witness command ends in the guest: with its marker, without it or with an
\* exit code, or killed and with none.
Ended == {"good", "bad", "signalled"}

CommandEnds(p) ==
    /\ exec[p] = "started"
    /\ \E how \in Ended : exec' = [exec EXCEPT ![p] = how]
    /\ UNCHANGED <<pve, pc, cmd, view, todo, deleted, plan, result, planned, checked, witnessed>>

Tick ==
    /\ clock < MaxClock
    /\ clock' = clock + 1
    /\ UNCHANGED <<snap, made, guest, task, outside, gone, restored, locals, pc>>

WebUI ==
    /\ outside < MaxOutside
    /\ outside' = outside + 1
    /\ \/ \E n \in Names :
             \/ \E ram \in BOOLEAN : Make(n, ram) /\ UNCHANGED guest
             \/ Remove(n) /\ UNCHANGED guest
             \/ RollTo(n, Web) /\ UNCHANGED <<snap, made, gone>>
       \/ guest' = [guest EXCEPT !.running = ~@] /\ UNCHANGED <<snap, made, gone>>
    /\ UNCHANGED <<clock, task, restored, locals, pc>>

-----------------------------------------------------------------------------
(* Steps of a command                                                      *)

At(p, kind, label) == pc[p] = label /\ cmd[p].kind = kind
Goto(p, label) == pc' = [pc EXCEPT ![p] = label]
Moves(p, label) == Goto(p, label) /\ UNCHANGED locals
Ends(p, outcome) ==
    /\ Goto(p, "done")
    /\ result' = [result EXCEPT ![p] = outcome]
    /\ todo' = [todo EXCEPT ![p] = {}]
    /\ checked' = [checked EXCEPT ![p] = 0]
    /\ UNCHANGED <<cmd, view, deleted, plan, exec, planned, witnessed>>

Name(p) == CHOOSE n \in cmd[p].names : TRUE

\* The command's own refusals come first: delete names no pseudo-entry.
Start(p) ==
    /\ pc[p] = "idle"
    /\ \E k \in Kinds, ns \in SUBSET (Names \cup {Current}), w \in BOOLEAN :
          /\ IF k = "list" THEN ns = {}
             ELSE IF k = "delete" THEN ns # {} /\ Current \notin ns ELSE Cardinality(ns) = 1
          /\ w => k = "rollback"
          /\ cmd' = [cmd EXCEPT ![p] = [kind |-> k, names |-> ns, witness |-> w]]
          /\ gone' = [gone EXCEPT ![p] = IF k = "delete" THEN Names \ Listed ELSE {}]
    /\ Goto(p, "lock")
    /\ UNCHANGED <<snap, clock, made, guest, task, outside, restored,
                   view, todo, deleted, plan, exec, result, planned, checked, witnessed>>

\* Fault: the lock is released with the rollback, before the witness.
HoldsUntilRollback(p) == pc[p] \notin {"idle", "done", "lock", "dispatch", "poll"}

\* Fault: the lock is held for the command's reads only.
HoldsUntilSent(p) == pc[p] \in {"read", "check", "plan", "newest", "prestate", "post"}

\* defer unlock(): the VM's lock is held until the command returns.
HoldsVM(p) == pc[p] \notin {"idle", "done", "lock"}

FirstStep(p) ==
    IF cmd[p].kind = "create" THEN "check"
    ELSE IF cmd[p].kind = "rollback" /\ cmd[p].witness THEN "plan"
    ELSE IF cmd[p].kind = "rollback" THEN "newest" ELSE "read"

\* lock.Mutation, or lock.Read for list, which shares; the wait may run out.
Lock(p) ==
    /\ pc[p] = "lock"
    /\ \/ /\ \A q \in Runs : HoldsVM(q) => cmd[p].kind = "list" /\ cmd[q].kind = "list"
          /\ Moves(p, FirstStep(p))
       \/ Ends(p, "refused")
    /\ UNCHANGED pve

\* A read that failed, or whose answer lacks the "current" entry.
Unverifiable(p) ==
    /\ pc[p] \in {"read", "check", "plan", "newest", "prestate"}
    /\ Ends(p, "error")
    /\ UNCHANGED pve

\* RawRequest and decodeUPIDScalar: PVE refuses, or accepts and its answer is lost.
Sends(p, job, n) ==
    \/ Ends(p, "error") /\ UNCHANGED task
    \/ /\ job # "create" => There(n)
       /\ task' = [task EXCEPT ![p] = [job |-> job, name |-> n, status |-> "running"]]
       /\ Moves(p, "wait") \/ Ends(p, "unknown")

\* Where a command goes on once its task is seen to have succeeded.
Landed(p) ==
    \/ cmd[p].kind = "create" /\ Moves(p, "verify")
    \/ /\ cmd[p].kind = "delete"
       /\ deleted' = [deleted EXCEPT ![p] = @ \cup {task[p].name}]
       /\ Goto(p, "delete")
       /\ UNCHANGED <<cmd, view, todo, plan, exec, result, planned, checked, witnessed>>
    \/ cmd[p].kind = "rollback" /\ Moves(p, "outcome")

\* Fault: a task whose outcome was never seen counts as done.
LandsUnseen(p) ==
    /\ pc[p] = "wait"
    /\ Landed(p) \/ (task[p].status = "failed" /\ Ends(p, "failed"))
    /\ UNCHANGED pve

\* WaitForTask: only a task seen to stop with OK lets the command go on.
WaitForTask(p) ==
    /\ pc[p] = "wait"
    /\ \/ task[p].status = "ok" /\ Landed(p)
       \/ task[p].status = "failed" /\ Ends(p, "failed")
       \/ Ends(p, "unknown")
    /\ UNCHANGED pve

-----------------------------------------------------------------------------
(* list and create                                                         *)

List(p) ==
    /\ At(p, "list", "read")
    /\ Ends(p, "listed")
    /\ UNCHANGED pve

\* The reserved names are refused before anything is read.
CreateCheck(p) ==
    /\ pc[p] = "check"
    /\ IF Name(p) = Current \/ There(Name(p)) THEN Ends(p, "refused") ELSE Moves(p, "post")
    /\ UNCHANGED pve

CreateSend(p) ==
    /\ At(p, "create", "post")
    /\ Sends(p, "create", Name(p))
    /\ UNCHANGED <<snap, clock, made, guest, outside, gone, restored>>

\* Both: the snapshot is listed, and it has its RAM state.
CreateVerify(p) ==
    /\ At(p, "create", "verify")
    /\ \/ There(Name(p)) /\ snap[Name(p)].vmstate /\ Ends(p, "created")
       \/ Ends(p, "unproven")
    /\ UNCHANGED pve

-----------------------------------------------------------------------------
(* delete                                                                  *)

Absent(p) == {n \in cmd[p].names : view[p][n] = 0}

\* The command's own read takes any list for the VM's, one without "current" too.
DeleteRead(p) ==
    /\ At(p, "delete", "read")
    /\ \E seen \in {Listed, {}} :
          /\ view' = [view EXCEPT ![p] = [n \in Names |-> IF n \in seen THEN snap[n].time ELSE 0]]
          /\ IF cmd[p].names \cap seen = {}
             THEN Goto(p, "done") /\ result' = [result EXCEPT ![p] = "deleted"]
             ELSE Goto(p, "prestate") /\ UNCHANGED result
    /\ checked' = [checked EXCEPT ![p] = made]
    /\ UNCHANGED <<pve, cmd, todo, deleted, plan, exec, planned, witnessed>>

\* CascadeDeleteSnapshots skips what its own pre-state read no longer holds.
DeletePrestate(p) ==
    /\ pc[p] = "prestate"
    /\ todo' = [todo EXCEPT ![p] = (cmd[p].names \ Absent(p)) \cap Listed]
    /\ Goto(p, "delete")
    /\ UNCHANGED <<pve, cmd, view, deleted, plan, exec, result, planned, checked, witnessed>>

\* Fault: in the order they were given.
AnyNext(p, n) == n \in todo[p]

\* Newest first, by the snaptimes read under the lock.
NextToGo(p, n) == n \in todo[p] /\ \A m \in todo[p] : view[p][m] <= view[p][n]

\* One delete is sent, and waited for, before the next; the first failure stops it.
DeleteSend(p) ==
    /\ pc[p] = "delete"
    /\ \E n \in Names :
          /\ NextToGo(p, n)
          /\ todo' = [todo EXCEPT ![p] = @ \ {n}]
          /\ \/ /\ Goto(p, "done")
                /\ result' = [result EXCEPT ![p] = "error"]
                /\ UNCHANGED task
             \/ /\ There(n)
                /\ task' = [task EXCEPT ![p] = [job |-> "delete", name |-> n, status |-> "running"]]
                /\ \/ Goto(p, "wait") /\ UNCHANGED result
                   \/ Goto(p, "done") /\ result' = [result EXCEPT ![p] = "unknown"]
    /\ UNCHANGED <<snap, clock, made, guest, outside, gone, restored,
                   cmd, view, deleted, plan, exec, planned, checked, witnessed>>

DeletesSent(p) ==
    /\ pc[p] = "delete" /\ todo[p] = {}
    /\ Moves(p, "verify")
    /\ UNCHANGED pve

\* None of the names may be there, whatever the tasks said.
DeleteVerify(p) ==
    /\ At(p, "delete", "verify")
    /\ \/ (cmd[p].names \ Absent(p)) \cap Listed = {} /\ Ends(p, "deleted")
       \/ Ends(p, "unproven")
    /\ UNCHANGED pve

-----------------------------------------------------------------------------
(* rollback                                                                *)

\* Fault: a target that is not listed has no RAM state.
PlanFolded(p) ==
    /\ pc[p] = "plan"
    /\ Name(p) # Current
    /\ plan' = [plan EXCEPT ![p] = IF snap[Name(p)].vmstate THEN "running" ELSE "stopped"]
    /\ planned' = [planned EXCEPT ![p] = snap[Name(p)].seq]
    /\ Goto(p, "newest")
    /\ UNCHANGED <<pve, cmd, view, todo, deleted, exec, result, checked, witnessed>>

\* targetSnapshotWitnessPlan, before the rollback; a target not listed ends it here.
Plan(p) ==
    /\ pc[p] = "plan"
    /\ \/ Ends(p, "refused")
       \/ /\ There(Name(p))
          /\ plan' = [plan EXCEPT ![p] = IF snap[Name(p)].vmstate THEN "running" ELSE "stopped"]
          /\ planned' = [planned EXCEPT ![p] = snap[Name(p)].seq]
          /\ Goto(p, "newest")
          /\ UNCHANGED <<cmd, view, todo, deleted, exec, result, checked, witnessed>>
    /\ UNCHANGED pve

\* Fault: a snapshot of the same second is not newer.
NewestIgnoringTies(p) ==
    \A m \in Listed \ {Name(p)} : snap[m].time <= snap[Name(p)].time

\* NewerSnapshots: none is newer, and none is of the same second.
Newest(p) ==
    \A m \in Listed \ {Name(p)} : snap[m].time < snap[Name(p)].time

CheckNewest(p) ==
    /\ pc[p] = "newest"
    /\ IF There(Name(p)) /\ Newest(p)
       THEN /\ checked' = [checked EXCEPT ![p] = made]
            /\ Goto(p, "post")
            /\ UNCHANGED <<cmd, view, todo, deleted, plan, exec, result, planned, witnessed>>
       ELSE Ends(p, "refused")
    /\ UNCHANGED pve

RollbackSend(p) ==
    /\ At(p, "rollback", "post")
    /\ Sends(p, "rollback", Name(p))
    /\ UNCHANGED <<snap, clock, made, guest, outside, gone, restored>>

RollbackOutcome(p) ==
    /\ pc[p] = "outcome"
    /\ \/ ~cmd[p].witness /\ Ends(p, "skipped")
       \/ cmd[p].witness /\ plan[p] = "stopped" /\ Ends(p, "not-applicable")
       \/ cmd[p].witness /\ plan[p] = "running" /\ Moves(p, "dispatch")
    /\ UNCHANGED pve

\* AgentExec.  A 5xx is retried until the deadline, though the agent may have run
\* the command; any other error ends the witness.
Dispatch(p) ==
    /\ pc[p] = "dispatch"
    /\ guest.running
    /\ exec' = [exec EXCEPT ![p] = "started"]
    /\ witnessed' = [witnessed EXCEPT ![p] = guest.by]
    /\ Goto(p, "poll")
    /\ UNCHANGED <<pve, cmd, view, todo, deleted, plan, result, planned, checked>>

\* The deadline, an error that is not retried, or the caller's context, which is
\* told apart first.
WitnessEnds(p) ==
    /\ pc[p] \in {"dispatch", "poll"}
    /\ Ends(p, "unproven") \/ Ends(p, "interrupted")
    /\ UNCHANGED pve

\* AgentExecStatus.Succeeded, and the marker.
Succeeded(how) == how = "good"

\* WaitForAgentExec polls past errors, until the command has exited.
Poll(p) ==
    /\ pc[p] = "poll"
    /\ exec[p] \in Ended
    /\ Ends(p, IF Succeeded(exec[p]) THEN "verified" ELSE "unproven")
    /\ UNCHANGED pve

-----------------------------------------------------------------------------

\* A kill releases the lock, and leaves the task to PVE.
Killed(p) ==
    /\ p \in Busy
    /\ Ends(p, "killed")
    /\ UNCHANGED pve

Step(p) ==
    \/ Lock(p) \/ Unverifiable(p) \/ WaitForTask(p)
    \/ List(p) \/ CreateCheck(p) \/ CreateSend(p) \/ CreateVerify(p)
    \/ DeleteRead(p) \/ DeletePrestate(p) \/ DeleteSend(p) \/ DeletesSent(p) \/ DeleteVerify(p)
    \/ Plan(p) \/ CheckNewest(p) \/ RollbackSend(p) \/ RollbackOutcome(p)
    \/ Dispatch(p) \/ WitnessEnds(p) \/ Poll(p)

Next ==
    \/ \E p \in Runs : Start(p) \/ Step(p) \/ Killed(p)
    \/ \E p \in Runs : TaskSucceeds(p) \/ TaskFails(p) \/ CommandEnds(p)
    \/ Tick \/ WebUI

Spec == Init /\ [][Next]_vars

-----------------------------------------------------------------------------
(* Properties                                                              *)

Labels == {"idle", "lock", "read", "check", "plan", "newest", "prestate", "post", "wait",
           "verify", "delete", "outcome", "dispatch", "poll", "done"}
Results == {"none", "error", "failed", "unknown", "refused", "listed", "created",
            "unproven", "deleted", "skipped", "not-applicable", "verified", "interrupted", "killed"}

\* Every variable has its type.
TypeOK ==
    /\ snap \in [Names -> Snapshots]
    /\ clock \in 1 .. MaxClock /\ made \in 0 .. MaxMade /\ outside \in 0 .. MaxOutside
    /\ guest \in [running : BOOLEAN, by : Runs \cup {Web}]
    /\ task \in [Runs -> [job : Kinds \cup {"none"}, name : Names \cup {Current},
                          status : {"none", "running", "ok", "failed"}]]
    /\ pc \in [Runs -> Labels]
    /\ cmd \in [Runs -> [kind : Kinds \cup {"none"}, names : SUBSET (Names \cup {Current}),
                         witness : BOOLEAN]]
    /\ view \in [Runs -> [Names -> 0 .. MaxClock]]
    /\ todo \in [Runs -> SUBSET Names] /\ deleted \in [Runs -> SUBSET Names]
    /\ gone \in [Runs -> SUBSET Names]
    /\ plan \in [Runs -> {"running", "stopped"}]
    /\ exec \in [Runs -> {"none", "started"} \cup Ended]
    /\ result \in [Runs -> Results]
    /\ planned \in [Runs -> 0 .. MaxMade] /\ checked \in [Runs -> 0 .. MaxMade]
    /\ restored \in [Runs -> [seq : 0 .. MaxMade, vmstate : BOOLEAN]]
    /\ witnessed \in [Runs -> Runs \cup {Web}]

\* What a run reports that ended with a task it has not seen end.
Blind == {"unknown", "killed"}

\* What a rollback reports once PVE has rolled the VM back.
RolledBack == {"skipped", "not-applicable", "verified", "unproven", "interrupted"}

\* A rollback never goes past a snapshot it could have known of: one made after
\* the target, by the true order and not by the second, was made since the check
\* (Rollback's newest-only policy; NewerSnapshots refuses a tie).
NeverPastKnown ==
    [][\A p \in Runs, m \in Names :
          /\ task'[p].job = "rollback" /\ task'[p] # task[p] /\ task'[p].status = "running"
          /\ There(m) /\ snap[m].seq > snap[task'[p].name].seq
          => snap[m].seq > checked[p]]_vars

\* What the run p reports has happened.
Honest(p) ==
    /\ result[p] = "created" => task[p].job = "create" /\ task[p].status = "ok"
    /\ result[p] = "deleted" => cmd[p].names \ Absent(p) \subseteq gone[p]
    /\ deleted[p] \subseteq gone[p]
    /\ cmd[p].kind = "rollback" /\ result[p] \in RolledBack => restored[p].seq # 0

\* What a command reports has happened: "created" only with the snapshot's own
\* task done; "deleted" only for names that really were gone during the command,
\* but for those its own read left out, and the same for each name a delete that
\* stops half way lists as deleted so far; a rollback reported as completed, proven or not, only after PVE
\* restored the target (CascadeDeleteSnapshots' goal state, witnessFailure).
HonestReport == \A p \in Runs : Honest(p)

\* A witness that verified ran to a good end in a guest that no other pveforge
\* command has rolled back since: only the web UI, or a command that ended without
\* having seen its task end, can come between (RollbackWitness: the caller holds the
\* VM's lock across both).
WitnessesOwnRollback ==
    \A p \in Runs :
        result[p] = "verified" =>
            /\ exec[p] = "good"
            /\ witnessed[p] \in {p, Web} \/ result[witnessed[p]] \in Blind

\* "not-applicable" is reported only for a rollback to a snapshot without RAM state,
\* unless a target the plan has read was replaced since: one that was not listed then,
\* and is made before the rollback, is never taken for a stopped guest's
\* (witnessTargetNotFound).
NotApplicableHonest ==
    \A p \in Runs :
        result[p] = "not-applicable" =>
            ~restored[p].vmstate \/ (planned[p] # 0 /\ restored[p].seq # planned[p])

\* A delete is sent only while no newer snapshot of the same request is left, but for
\* one of the same second or one made since the list was read: `vm snapshot delete`
\* deletes leaf first.
NewestFirst ==
    [][\A p \in Runs, m \in Names :
          LET n == task'[p].name IN
          /\ task'[p].job = "delete" /\ task'[p] # task[p] /\ task'[p].status = "running"
          /\ m \in todo'[p] /\ There(m) /\ snap[m].seq > snap[n].seq
          => snap[m].time = snap[n].time \/ checked[p] < snap[m].seq]_vars

\* Two snapshot tasks run on the VM at once only if a command that started one of
\* them ended without having seen it end.
OneTaskAtATime ==
    \A p, q \in Runs :
        p # q /\ task[p].status = "running" /\ task[q].status = "running"
            => result[p] \in Blind \/ result[q] \in Blind

-----------------------------------------------------------------------------
(* What the properties rest on, step by step                               *)

\* What a run is about where it is.
Control(p) ==
    /\ pc[p] = "read" => cmd[p].kind \in {"list", "delete"}
    /\ pc[p] = "check" => cmd[p].kind = "create"
    /\ pc[p] \in {"prestate", "delete"} => cmd[p].kind = "delete"
    /\ pc[p] \in {"plan", "newest", "outcome", "dispatch", "poll"} => cmd[p].kind = "rollback"
    /\ pc[p] = "post" => cmd[p].kind \in {"create", "rollback"}
    /\ pc[p] = "wait" => cmd[p].kind \in {"create", "delete", "rollback"}
    /\ pc[p] = "verify" => cmd[p].kind \in {"create", "delete"}
    /\ pc[p] \notin {"idle", "done"} =>
          cmd[p].kind # "none" /\ (cmd[p].kind # "list" => cmd[p].names # {})
    /\ cmd[p].kind = "delete" => cmd[p].names \subseteq Names
    /\ pc[p] # "done" => result[p] = "none"
    /\ pc[p] = "idle" => deleted[p] = {}

\* A task that runs is waited for, or its command did not see it end; a command goes
\* on only behind a task that has done its work.
Tasks(p) ==
    /\ task[p].status = "running" => pc[p] = "wait" \/ result[p] \in Blind
    /\ pc[p] \in {"idle", "lock", "read", "check", "plan", "newest", "prestate", "post"} =>
          task[p] = NoTask /\ restored[p] = NothingRestored
    /\ pc[p] = "wait" => task[p].job = cmd[p].kind
    /\ pc[p] = "wait" /\ task[p].job = "delete" /\ task[p].status = "ok" => task[p].name \in gone[p]
    /\ pc[p] = "verify" /\ cmd[p].kind = "create" => task[p].job = "create" /\ task[p].status = "ok"
    /\ pc[p] \in {"outcome", "dispatch", "poll"} => task[p].job = "rollback" /\ task[p].status = "ok"
    /\ task[p].job = "rollback" /\ task[p].status = "ok" => restored[p].seq # 0

\* A name that is absent while a delete runs is noted as gone.
Noted(p) == p \in Busy /\ cmd[p].kind = "delete" => Names \ Listed \subseteq gone[p]

\* The order PVE gives snapshots is one, their seconds agree with it, and neither is
\* ahead of PVE's own counts.
Ordered == Chain(snap) /\ \A n \in Names : snap[n].seq <= made /\ snap[n].time <= clock

\* A snapshot a rollback has planned for without RAM state has none, wherever it is found.
Planned(p) ==
    /\ planned[p] <= made
    /\ plan[p] = "stopped" =>
          /\ planned[p] # 0
          /\ \A n \in Names : snap[n].seq = planned[p] => ~snap[n].vmstate
          /\ restored[p].seq = planned[p] => ~restored[p].vmstate
    /\ result[p] = "not-applicable" => plan[p] = "stopped"

\* What a check has found still holds of every snapshot there was at the check: a
\* rollback's target is the newest of them, a delete has read their seconds.
Known(p) ==
    /\ checked[p] <= made
    /\ At(p, "rollback", "post") =>
          \A m \in Names : There(m) /\ There(Name(p)) /\ snap[m].seq > snap[Name(p)].seq
                              => snap[m].seq > checked[p]
    /\ cmd[p].kind = "delete" /\ pc[p] \in {"prestate", "delete", "wait"} =>
          \A n \in Names : There(n) /\ snap[n].seq <= checked[p] => view[p][n] = snap[n].time

\* Who rolls the guest back is the run itself, the web UI, or a command that did not
\* see its task end.
Own(p, who) == who \in {p, Web} \/ result[who] \in Blind

\* From a run's rollback to the end of its witness the guest is its own.
Guest(p) ==
    /\ pc[p] \in {"wait", "outcome", "dispatch"} /\ task[p].job = "rollback" /\ task[p].status = "ok"
          => Own(p, guest.by)
    /\ pc[p] = "poll" \/ result[p] = "verified" => Own(p, witnessed[p])
    /\ result[p] = "verified" => exec[p] = "good"

\* The VM's lock is a lock; lists share it.
Exclusion ==
    \A p, q \in Runs :
        p # q /\ HoldsVM(p) /\ HoldsVM(q) => cmd[p].kind = "list" /\ cmd[q].kind = "list"

\* What a snapshot command says and holds, together: reports that are true, no
\* running guest taken for a stopped one, and one task at a time on the VM; with what
\* is true at every step before, which makes it inductive.
SnapshotInv ==
    /\ TypeOK /\ HonestReport /\ NotApplicableHonest /\ OneTaskAtATime
    /\ Exclusion /\ Ordered
    /\ \A p \in Runs : Control(p) /\ Tasks(p) /\ Noted(p) /\ Planned(p) /\ Known(p) /\ Guest(p)
=============================================================================
