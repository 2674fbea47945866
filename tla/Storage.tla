------------------------------- MODULE Storage -------------------------------
(***************************************************************************)
(* `storage alloc | free-orphans | orphans | create | set-content` on one  *)
(* storage.                                                                *)
(* A command locks the storage under its own target's name, while VMs      *)
(* change under the locks of the VMs, or in the web UI: free-orphans       *)
(* decides what nobody holds from a list of the VMs, the storage's         *)
(* content and every VM's sections, read one after the other; and the      *)
(* storage's definition belongs to the whole cluster, so two targets'      *)
(* locks do not keep their commands apart.                                 *)
(***************************************************************************)
EXTENDS Naturals, FiniteSets

CONSTANTS Runs, Targets,
          VMs, Nodes, Home,      \* Home: the node the commands talk to
          Volids, States,        \* volumes, and those that hold RAM state
          Named(_),              \* the VM a volume is named for
          Types,                 \* content types
          Options,               \* what else a definition says
          None,
          Clusters,              \* the VMs, volumes and definition there may be at first
          Definitions,           \* the definitions others may give the storage
          Requests,              \* the definitions a create may ask for
          MaxConflictRetries,    \* maxConflictRetries
          MaxOutside             \* bound on what others do

Defs == [options : Options, content : SUBSET Types]
Guests == [node : Nodes \cup {None}, live : SUBSET Volids, snap : SUBSET Volids]

ASSUME StorageAssumption ==
    /\ Home \in Nodes
    /\ States \subseteq Volids
    /\ \A v \in Volids : Named(v) \in VMs
    /\ None \notin Nodes \cup Defs \cup Volids \cup VMs
    /\ Clusters \subseteq [vm : [VMs -> Guests], where : [Volids -> Nodes \cup {None}], shared : BOOLEAN,
                    def : Defs \cup {None}]
    /\ Definitions \subseteq Defs \cup {None}
    /\ Requests \subseteq Defs
    /\ MaxConflictRetries \in Nat \ {0}
    /\ MaxOutside \in Nat

VARIABLES vm,        \* PVE: each VM's node and the volumes its sections name
          where,     \* PVE: the node that has a volume
          shared,    \* PVE: every node has the storage's volumes
          quorate,   \* PVE: Home's view of the cluster is up to date
          def,       \* PVE: the storage's definition
          task,      \* PVE: the volume a run's last delete is at, and how it stands
          outside,   \* how often others have acted
          pc, cmd,   \* where each run is; its command
          listed,    \* the VMs root's list gave it, with their nodes
          todo,      \* the VMs whose sections it has yet to read
          reading,   \* the VM of which it has read the configuration, not the snapshots
          orphans,   \* the volumes no section it has read names
          applied,   \* the volumes it has seen freed
          pre,       \* the definition it read
          attempt,   \* Run's attempts
          result,    \* what it reports
          loose,     \* history: volumes no VM held at some moment since its first
                     \* list, or that one of the accepted races concerns
          gone,      \* history: volumes that were absent at some moment
          met        \* history: what it wants was so at some moment

pve == <<vm, where, shared, quorate, def, task, outside, gone, met>>
volumes == <<listed, todo, reading, orphans, applied, loose>>
locals == <<cmd, volumes, pre, attempt, result>>
vars == <<pve, locals, pc>>

Kinds == {"alloc", "free", "report", "create", "set"}
NoTask == [volid |-> None, status |-> "none"]

Init ==
    /\ \E c \in Clusters : vm = c.vm /\ where = c.where /\ shared = c.shared /\ def = c.def
    /\ quorate = TRUE
    /\ task = [p \in Runs |-> NoTask]
    /\ outside = 0
    /\ pc = [p \in Runs |-> "idle"]
    /\ cmd = [p \in Runs |-> [kind |-> "none", target |-> None, arg |-> None]]
    /\ listed = [p \in Runs |-> [m \in VMs |-> None]]
    /\ todo = [p \in Runs |-> {}]
    /\ reading = [p \in Runs |-> None]
    /\ orphans = [p \in Runs |-> {}]
    /\ applied = [p \in Runs |-> {}]
    /\ pre = [p \in Runs |-> None]
    /\ attempt = [p \in Runs |-> 1]
    /\ result = [p \in Runs |-> "none"]
    /\ loose = [p \in Runs |-> {}]
    /\ gone = [p \in Runs |-> {}]
    /\ met = [p \in Runs |-> FALSE]

Busy == {p \in Runs : pc[p] \notin {"idle", "done"}}

-----------------------------------------------------------------------------
(* PVE and the others                                                      *)

Holds(g) == IF g.node = None THEN {} ELSE g.live \cup g.snap

\* A section's name stands for a volume only where the VM's node has it.
Has(g, w, m) == {v \in Holds(g[m]) : w[v] # None /\ (shared \/ w[v] = g[m].node)}
Held(g, w) == UNION {Has(g, w, m) : m \in VMs}
Missing(w) == {v \in Volids : w[v] = None}

\* A node sees its own volumes, and a shared storage's wherever they are.
Content(w) == {v \in Volids : IF shared THEN w[v] # None ELSE w[v] = Home}

Goal(c, w, d) ==
    \/ c.kind = "alloc" /\ c.arg \in Content(w)
    \/ c.kind = "create" /\ d = c.arg
    \/ c.kind = "set" /\ d # None /\ c.arg \in d.content

\* While free-orphans or the report works out what nobody holds.
Determining ==
    {p \in Runs : \/ cmd[p].kind = "free" /\ pc[p] \in {"quorum", "lock", "read", "claims"}
                  \/ cmd[p].kind = "report" /\ pc[p] \in {"guests", "claims"}}

\* PVE's state changes; what the runs could have seen is noted.
Become(g, w, d) ==
    /\ vm' = g /\ where' = w /\ def' = d
    /\ gone' = [p \in Runs |->
           IF p \in Busy /\ cmd[p].kind = "free" THEN gone[p] \cup Missing(w) ELSE gone[p]]
    /\ met' = [p \in Runs |-> met[p] \/ (p \in Busy /\ Goal(cmd[p], w, d))]

\* What the VMs no longer hold, or a race concerns, is noted for every determination.
Loosen(g, w, Race(_)) ==
    loose' = [p \in Runs |->
        loose[p] \cup Race(p) \cup (IF p \in Determining THEN Volids \ Held(g, w) ELSE {})]
NoRace(p) == {}

There(m) == vm[m].node # None
Near(m, v) == where[v] # None /\ (shared \/ where[v] = vm[m].node)

\* A VM is made: its disk is allocated first, and its configuration written later.
AllocateForVM(v) ==
    /\ where[v] = None /\ v \notin States
    /\ Become(vm, [where EXCEPT ![v] = Home], def)
    /\ UNCHANGED loose

Changes(g, w, Race(_)) == Become(g, w, def) /\ Loosen(g, w, Race)

Register(m, v) ==
    /\ ~There(m) /\ where[v] # None /\ v \notin Held(vm, where)
    /\ Changes([vm EXCEPT ![m] = [node |-> where[v], live |-> {v}, snap |-> {}]], where, NoRace)

Attach(m, v) ==
    /\ There(m) /\ Near(m, v) /\ v \notin Held(vm, where)
    /\ Changes([vm EXCEPT ![m].live = @ \cup {v}], where, NoRace)

Detach(m, v) ==
    /\ There(m) /\ v \in vm[m].live
    /\ Changes([vm EXCEPT ![m].live = @ \ {v}], where, NoRace)

\* The RAM state of a snapshot is a volume that only its section names.
TakeSnapshot(m, v) ==
    /\ There(m) /\ vm[m].snap = {} /\ v \in States /\ where[v] = None
    /\ Changes([vm EXCEPT ![m].snap = vm[m].live \cup {v}],
               [where EXCEPT ![v] = vm[m].node], NoRace)

\* The disks only a snapshot named become the configuration's unused ones: a run
\* between its two reads of the VM sees them in neither.
DropSnapshot(m) ==
    LET Race(p) == IF reading[p] = m THEN vm[m].snap ELSE {} IN
    /\ There(m) /\ vm[m].snap # {}
    /\ Changes([vm EXCEPT ![m] = [node |-> vm[m].node, live |-> vm[m].live \cup (vm[m].snap \ States),
                              snap |-> {}]],
               [v \in Volids |-> IF v \in vm[m].snap \cap States /\ Near(m, v) THEN None ELSE where[v]],
               Race)

\* A VM goes, and may leave volumes behind.
DestroyVM(m, left) ==
    /\ There(m) /\ left \subseteq Has(vm, where, m)
    /\ Changes([vm EXCEPT ![m] = [node |-> None, live |-> {}, snap |-> {}]],
               [v \in Volids |-> IF v \in Has(vm, where, m) \ left THEN None ELSE where[v]], NoRace)

\* A VM takes its volumes along from a storage that is not shared: one that comes to
\* Home after the list was read is the case the command warns of.
Migrate(m, n) ==
    LET Race(p) == IF p \in Determining /\ ~shared THEN Holds(vm[m]) ELSE {} IN
    /\ There(m) /\ n # vm[m].node
    /\ Changes([vm EXCEPT ![m].node = n],
               [v \in Volids |-> IF v \in Has(vm, where, m) /\ ~shared THEN n ELSE where[v]], Race)

\* A node that regains quorum after it served its list, the other case warned of.
Quorum ==
    LET Race(p) == IF pc[p] = "quorum" /\ ~quorate THEN Volids ELSE {} IN
    /\ quorate' = ~quorate
    /\ Loosen(vm, where, Race)
    /\ UNCHANGED <<vm, where, def, gone, met>>

EditDefinition(d) ==
    /\ d # def
    /\ Become(vm, where, d)
    /\ UNCHANGED loose

Others ==
    /\ outside < MaxOutside
    /\ outside' = outside + 1
    /\ \/ Quorum
       \/ /\ \/ \E v \in Volids : AllocateForVM(v)
             \/ \E m \in VMs, v \in Volids :
                   Register(m, v) \/ Attach(m, v) \/ Detach(m, v) \/ TakeSnapshot(m, v)
             \/ \E m \in VMs : DropSnapshot(m)
             \/ \E m \in VMs : \E left \in SUBSET Has(vm, where, m) : DestroyVM(m, left)
             \/ \E m \in VMs, n \in Nodes : Migrate(m, n)
             \/ \E d \in Definitions : EditDefinition(d)
          /\ UNCHANGED quorate
    /\ UNCHANGED <<shared, task, pc, cmd, listed, todo, reading, orphans, applied, pre, attempt, result>>

\* The worker of a delete.
FreeLands(p, ok) ==
    /\ task[p].status = "running"
    /\ task' = [task EXCEPT ![p].status = IF ok THEN "ok" ELSE "failed"]
    /\ IF ok THEN Changes(vm, [where EXCEPT ![task[p].volid] = None], NoRace)
       ELSE UNCHANGED <<vm, where, def, gone, met, loose>>
    /\ UNCHANGED <<shared, quorate, outside, pc, cmd, listed, todo, reading, orphans, applied,
                   pre, attempt, result>>

-----------------------------------------------------------------------------
(* Steps of a run                                                          *)

Is(p, kind, label) == pc[p] = label /\ cmd[p].kind = kind
Goto(p, label) == pc' = [pc EXCEPT ![p] = label]
Moves(p, label) == Goto(p, label) /\ UNCHANGED locals

\* A run that is done has forgotten what it read.
Ends(p, outcome) ==
    /\ Goto(p, "done")
    /\ result' = [result EXCEPT ![p] = outcome]
    /\ listed' = [listed EXCEPT ![p] = [m \in VMs |-> None]]
    /\ todo' = [todo EXCEPT ![p] = {}]
    /\ reading' = [reading EXCEPT ![p] = None]
    /\ orphans' = [orphans EXCEPT ![p] = {}]
    /\ loose' = [loose EXCEPT ![p] = {}]
    /\ pre' = [pre EXCEPT ![p] = None]
    /\ attempt' = [attempt EXCEPT ![p] = 1]
    /\ cmd' = [cmd EXCEPT ![p].arg = None]
    /\ UNCHANGED applied

\* Every read may fail, and none that fails is taken for an empty one.
Refuses(p) ==
    /\ pc[p] \in {"list", "quorum", "lock", "read", "guests", "claims", "apply", "put", "verify"}
    /\ Ends(p, "error")
    /\ UNCHANGED pve

Arguments(kind) ==
    CASE kind = "alloc"  -> Volids \ States
      [] kind = "free"   -> VMs
      [] kind = "report" -> {None}
      [] kind = "create" -> Requests
      [] kind = "set"    -> Types

Start(p) ==
    /\ pc[p] = "idle"
    /\ \E k \in Kinds, t \in Targets : \E a \in Arguments(k) :
          cmd' = [cmd EXCEPT ![p] = [kind |-> k, target |-> t, arg |-> a]]
    /\ Goto(p, IF cmd'[p].kind = "free" THEN "list" ELSE "lock")
    /\ met' = [met EXCEPT ![p] = Goal(cmd'[p], where, def)]
    /\ UNCHANGED <<vm, where, shared, quorate, def, task, outside, gone,
                   volumes, pre, attempt, result>>

\* Fault: the lock is released with the request, before its task ends.
HoldsUntilSent(p) == pc[p] \in {"read", "guests", "claims", "apply", "put", "verify"}

\* Run's lock, by the target's name: another target's command is not held off.  The
\* report shares its own.
HoldsStorage(p) == pc[p] \in {"read", "guests", "claims", "apply", "put", "verify", "wait"}

Lock(p) ==
    /\ pc[p] = "lock"
    /\ \A q \in Runs : HoldsStorage(q) =>
          cmd[q].target # cmd[p].target \/ (cmd[p].kind = "report" /\ cmd[q].kind = "report")
    /\ Moves(p, "read")
    /\ UNCHANGED pve

-----------------------------------------------------------------------------
(* free-orphans and orphans                                                *)

\* NodeVMIDs, once the peer has proved to be the node itself.
NodeVMIDs == {m \in VMs : vm[m].node = Home}

\* ClusterQemuPairs: every VM of the cluster, with its node.
ClusterPairs == {m \in VMs : There(m)}

\* The list a determination starts from.
Takes(p, ms) == listed' = [listed EXCEPT ![p] = [m \in VMs |-> IF m \in ms THEN vm[m].node ELSE None]]

\* Root's list, of the node or for a shared storage of the cluster.  A node without
\* quorum may leave VMs out.
List(p) ==
    /\ pc[p] = "list"
    /\ \E short \in SUBSET VMs :
          /\ quorate => short = {}
          /\ Takes(p, (IF shared THEN ClusterPairs ELSE NodeVMIDs) \ short)
    /\ loose' = [loose EXCEPT ![p] = Volids \ Held(vm, where)]
    /\ gone' = [gone EXCEPT ![p] = Missing(where)]
    /\ Goto(p, "quorum")
    /\ UNCHANGED <<vm, where, shared, quorate, def, task, outside, met,
                   cmd, todo, reading, orphans, applied, pre, attempt, result>>

\* ClusterStatusQuorate, after the list was read.
CheckQuorum(p) ==
    /\ pc[p] = "quorum"
    /\ quorate
    /\ Moves(p, "lock")
    /\ UNCHANGED pve

\* The content comes before the claims: a volume that is made meanwhile is not in it.
Scan(p) ==
    /\ Is(p, "free", "read")
    /\ orphans' = [orphans EXCEPT ![p] = {v \in Content(where) : Named(v) = cmd[p].arg}]
    /\ todo' = [todo EXCEPT ![p] = {m \in VMs : listed[p][m] # None}]
    /\ Goto(p, "claims")
    /\ UNCHANGED <<pve, cmd, listed, reading, applied, loose, pre, attempt, result>>

\* OrphanVolumes, for the report: it refuses a shared storage, and lists the VMs only
\* after the content.
ReportScan(p) ==
    /\ Is(p, "report", "read")
    /\ ~shared
    /\ orphans' = [orphans EXCEPT ![p] = Content(where)]
    /\ loose' = [loose EXCEPT ![p] = Volids \ Held(vm, where)]
    /\ Goto(p, "guests")
    /\ UNCHANGED <<vm, where, shared, quorate, def, task, outside, gone, met,
                   cmd, listed, todo, reading, applied, pre, attempt, result>>

\* GetVMs: the VMs the token may see, and no word of those it may not.
ReportGuests(p) ==
    /\ pc[p] = "guests"
    /\ \E hidden \in SUBSET NodeVMIDs :
          /\ Takes(p, NodeVMIDs \ hidden)
          /\ todo' = [todo EXCEPT ![p] = NodeVMIDs \ hidden]
          /\ loose' = [loose EXCEPT ![p] = @ \cup UNION {Has(vm, where, m) : m \in hidden}]
    /\ Goto(p, "claims")
    /\ UNCHANGED <<vm, where, shared, quorate, def, task, outside, gone, met,
                   cmd, reading, orphans, applied, pre, attempt, result>>

\* configVolids of the pending and of the running configuration, on the listed node.
ReadConfig(p, m) ==
    /\ pc[p] = "claims" /\ reading[p] = None
    /\ m \in todo[p] /\ vm[m].node = listed[p][m]
    /\ orphans' = [orphans EXCEPT ![p] = @ \ vm[m].live]
    /\ todo' = [todo EXCEPT ![p] = @ \ {m}]
    /\ reading' = [reading EXCEPT ![p] = m]
    /\ UNCHANGED <<pve, pc, cmd, listed, applied, loose, pre, attempt, result>>

\* Fault: only the configuration is read.
ReadNoSections(p) ==
    /\ pc[p] = "claims" /\ reading[p] # None
    /\ reading' = [reading EXCEPT ![p] = None]
    /\ UNCHANGED <<pve, pc, cmd, listed, todo, orphans, applied, loose, pre, attempt, result>>

\* Every snapshot's section, RAM state included.
ReadSections(p) ==
    /\ pc[p] = "claims" /\ reading[p] # None
    /\ vm[reading[p]].node = listed[p][reading[p]]
    /\ orphans' = [orphans EXCEPT ![p] = @ \ vm[reading[p]].snap]
    /\ reading' = [reading EXCEPT ![p] = None]
    /\ UNCHANGED <<pve, pc, cmd, listed, todo, applied, loose, pre, attempt, result>>

Decide(p) ==
    /\ pc[p] = "claims" /\ reading[p] = None /\ todo[p] = {}
    /\ IF orphans[p] = {} /\ cmd[p].kind = "free" THEN Ends(p, "unchanged") ELSE Moves(p, "apply")
    /\ UNCHANGED pve

Report(p) ==
    /\ Is(p, "report", "apply")
    /\ Ends(p, "reported")
    /\ UNCHANGED pve

\* freeOne: a refused delete stops the command; of one whose answer is lost the
\* outcome is unknown.
Free(p) ==
    /\ Is(p, "free", "apply")
    /\ \E v \in orphans[p] :
          /\ where[v] # None
          /\ task' = [task EXCEPT ![p] = [volid |-> v, status |-> "running"]]
          /\ Moves(p, "wait") \/ Ends(p, "unknown")
    /\ UNCHANGED <<vm, where, shared, quorate, def, outside, gone, met>>

\* Fault: the volume is reported before its task has ended.
AppliesUnseen(p) ==
    /\ pc[p] = "wait"
    /\ applied' = [applied EXCEPT ![p] = @ \cup {task[p].volid}]
    /\ orphans' = [orphans EXCEPT ![p] = @ \ {task[p].volid}]
    /\ Goto(p, "apply")
    /\ UNCHANGED <<pve, cmd, listed, todo, reading, loose, pre, attempt, result>>

\* WaitForTask; a volume counts as freed once its task was seen to succeed.
WaitForTask(p) ==
    /\ pc[p] = "wait"
    /\ \/ /\ task[p].status = "ok"
          /\ applied' = [applied EXCEPT ![p] = @ \cup {task[p].volid}]
          /\ orphans' = [orphans EXCEPT ![p] = @ \ {task[p].volid}]
          /\ Goto(p, "apply")
          /\ UNCHANGED <<cmd, listed, todo, reading, loose, pre, attempt, result>>
       \/ task[p].status = "failed" /\ Ends(p, "error")
       \/ Ends(p, "unknown")
    /\ UNCHANGED pve

Freed(p) ==
    /\ Is(p, "free", "apply") /\ orphans[p] = {}
    /\ Ends(p, "freed")
    /\ UNCHANGED pve

-----------------------------------------------------------------------------
(* alloc, create and set-content; --force goes on where nothing is left to do *)

AllocRead(p) ==
    /\ Is(p, "alloc", "read")
    /\ (cmd[p].arg \in Content(where) /\ Ends(p, "unchanged")) \/ Moves(p, "apply")
    /\ UNCHANGED pve

\* The POST is synchronous, and refuses a name that exists.
AllocPost(p) ==
    /\ Is(p, "alloc", "apply")
    /\ where[cmd[p].arg] = None
    /\ Become(vm, [where EXCEPT ![cmd[p].arg] = Home], def)
    /\ Moves(p, "verify") \/ Ends(p, "unknown")
    /\ UNCHANGED <<shared, quorate, task, outside>>

AllocVerify(p) ==
    /\ Is(p, "alloc", "verify")
    /\ cmd[p].arg \in Content(where)
    /\ Ends(p, "allocated")
    /\ UNCHANGED pve

\* Only the answer that there is no such storage counts as absent.
ReadDefinition(p, label) ==
    /\ pre' = [pre EXCEPT ![p] = def]
    /\ Goto(p, label)
    /\ UNCHANGED <<cmd, volumes, attempt, result>>

CreateRead(p) ==
    /\ Is(p, "create", "read")
    /\ (def = cmd[p].arg /\ Ends(p, "unchanged")) \/ ReadDefinition(p, "apply")
    /\ UNCHANGED pve

\* A definition that differs is refused, and PVE refuses a name that exists.
CreatePost(p) ==
    /\ Is(p, "create", "apply")
    /\ pre[p] \in {None, cmd[p].arg}
    /\ def = None
    /\ Become(vm, where, cmd[p].arg)
    /\ Ends(p, "created") \/ Ends(p, "unknown")
    /\ UNCHANGED <<shared, quorate, task, outside>>

SetRead(p) ==
    /\ Is(p, "set", "read")
    /\ def # None
    /\ (cmd[p].arg \in def.content /\ Ends(p, "unchanged")) \/ Moves(p, "apply")
    /\ UNCHANGED pve

\* The definition is read again, right before the write.
SetReread(p) ==
    /\ Is(p, "set", "apply")
    /\ def # None
    /\ ReadDefinition(p, "put")
    /\ UNCHANGED pve

Written(p) == [def EXCEPT !.content = pre[p].content \cup {cmd[p].arg}]

\* Fault: the write names no digest.
PutUnguarded(p) ==
    /\ pc[p] = "put" /\ def # None
    /\ Become(vm, where, Written(p))
    /\ Moves(p, "verify") \/ Ends(p, "unknown")
    /\ UNCHANGED <<shared, quorate, task, outside>>

\* PUT with the digest: the list replaces the content, if nothing has changed since.
\* One whose answer is lost takes effect at once or not at all.
Put(p) ==
    /\ pc[p] = "put" /\ def = pre[p]
    /\ Become(vm, where, Written(p))
    /\ Moves(p, "verify") \/ Ends(p, "unknown")
    /\ UNCHANGED <<shared, quorate, task, outside>>

LastAttempt(p) == attempt[p] >= MaxConflictRetries

\* Run starts over after a conflict, under the same lock.
PutConflict(p) ==
    /\ pc[p] = "put" /\ def # pre[p]
    /\ IF LastAttempt(p) THEN Ends(p, "conflict")
       ELSE /\ attempt' = [attempt EXCEPT ![p] = @ + 1]
            /\ Goto(p, "read")
            /\ UNCHANGED <<cmd, volumes, pre, result>>
    /\ UNCHANGED pve

\* diffGuard: nothing but the content has changed, and the type is there.
DiffGuard(p) ==
    /\ Is(p, "set", "verify")
    /\ def # None /\ def.options = pre[p].options /\ cmd[p].arg \in def.content
    /\ Ends(p, "added")
    /\ UNCHANGED pve

-----------------------------------------------------------------------------

\* A run that is killed leaves what it has started, and reports nothing.
Killed(p) ==
    /\ p \in Busy
    /\ Ends(p, "unknown")
    /\ UNCHANGED pve

Step(p) ==
    \/ Lock(p) \/ List(p) \/ CheckQuorum(p) \/ Scan(p) \/ ReportScan(p) \/ ReportGuests(p) \/ Report(p)
    \/ ReadSections(p) \/ Decide(p)
    \/ \E m \in VMs : ReadConfig(p, m)
    \/ Free(p) \/ WaitForTask(p) \/ Freed(p)
    \/ AllocRead(p) \/ AllocPost(p) \/ AllocVerify(p)
    \/ CreateRead(p) \/ CreatePost(p)
    \/ SetRead(p) \/ SetReread(p) \/ Put(p) \/ PutConflict(p) \/ DiffGuard(p)

Next ==
    \/ \E p \in Runs : Start(p) \/ Step(p) \/ Refuses(p) \/ Killed(p)
    \/ \E p \in Runs, ok \in BOOLEAN : FreeLands(p, ok)
    \/ Others

Spec == Init /\ [][Next]_vars

-----------------------------------------------------------------------------
(* Properties                                                              *)

Results == {"none", "error", "unchanged", "freed", "unknown", "allocated", "created",
            "conflict", "added", "reported"}

\* Every variable has its type.
TypeOK ==
    /\ vm \in [VMs -> Guests] /\ where \in [Volids -> Nodes \cup {None}]
    /\ shared \in BOOLEAN /\ quorate \in BOOLEAN
    /\ def \in Defs \cup {None}
    /\ task \in [Runs -> [volid : Volids \cup {None}, status : {"none", "running", "ok", "failed"}]]
    /\ outside \in 0 .. MaxOutside
    /\ pc \in [Runs -> {"idle", "list", "quorum", "lock", "read", "guests", "claims", "apply", "put",
                        "verify", "wait", "done"}]
    /\ cmd \in [Runs -> [kind : Kinds \cup {"none"}, target : Targets \cup {None},
                         arg : Volids \cup VMs \cup Defs \cup Types \cup {None}]]
    /\ listed \in [Runs -> [VMs -> Nodes \cup {None}]]
    /\ todo \in [Runs -> SUBSET VMs] /\ reading \in [Runs -> VMs \cup {None}]
    /\ orphans \in [Runs -> SUBSET Volids] /\ applied \in [Runs -> SUBSET Volids]
    /\ pre \in [Runs -> Defs \cup {None}]
    /\ attempt \in [Runs -> 1 .. MaxConflictRetries]
    /\ result \in [Runs -> Results]
    /\ loose \in [Runs -> SUBSET Volids]
    /\ gone \in [Runs -> SUBSET Volids] /\ met \in [Runs -> BOOLEAN]

\* free-orphans deletes, and orphans reports, only volumes that no VM's configuration
\* or snapshot on a node that has them held at some moment between its first list and the last section read,
\* but for a VM which migrates, a node that has just regained quorum (the command warns
\* of both), a snapshot deleted between two reads of its VM, and in the report a VM the
\* token may not see.
NeverFreesHeld ==
    \A p \in Runs :
        cmd[p].kind \in {"free", "report"} /\ pc[p] \in {"apply", "wait"} => orphans[p] \subseteq loose[p]

\* What a command reports has been so: a volume it lists as freed was gone, and the
\* volume, the definition or the content type it reports was there.
HonestReport ==
    \A p \in Runs :
        /\ applied[p] \subseteq gone[p]
        /\ cmd[p].kind # "free" /\ result[p] \in {"unchanged", "allocated", "created", "added"} => met[p]

\* While a command works on the storage, no delete of another one of the same target
\* is still under way, unless that one ended without having seen it end: an
\* allocation is not undone by a free that came before it.
NoTaskUnderneath ==
    \A p, q \in Runs :
        /\ p # q /\ cmd[p].target = cmd[q].target
        /\ HoldsStorage(q) /\ task[p].status = "running"
        => result[p] = "unknown"

\* A write of set-content drops no content type and no option that somebody else has
\* set meanwhile, on another target of the cluster or in the web UI: what the storage
\* lists when the write lands is kept.
ContentKept ==
    [][\A p \in Runs :
          pc[p] = "put" /\ def' # def /\ outside' = outside /\ def # None /\ pc'[p] # "put"
          => def'.options = def.options /\ def.content \subseteq def'.content]_vars

-----------------------------------------------------------------------------
(* What the properties rest on, step by step                               *)

\* What a run is about where it is.
Control(p) ==
    /\ pc[p] \in {"list", "quorum", "wait"} => cmd[p].kind = "free"
    /\ pc[p] = "guests" => cmd[p].kind = "report"
    /\ pc[p] = "claims" => cmd[p].kind \in {"free", "report"}
    /\ pc[p] \in {"guests", "claims"} /\ cmd[p].kind = "report" => ~shared
    /\ pc[p] = "put" => cmd[p].kind = "set" /\ pre[p] # None
    /\ pc[p] = "verify" => cmd[p].kind \in {"alloc", "set"}
    /\ pc[p] \notin {"idle", "done"} => cmd[p].kind # "none" /\ cmd[p].arg \in Arguments(cmd[p].kind)
    /\ pc[p] # "done" => result[p] = "none"

\* A delete that is under way is waited for, or its run did not see it end; one
\* that was seen to succeed took its volume away.
Deletes(p) ==
    /\ task[p].status # "none" => task[p].volid \in Volids
    /\ task[p].status = "running" => pc[p] = "wait" \/ result[p] = "unknown"
    /\ pc[p] = "wait" => task[p].status # "none"
    /\ pc[p] = "wait" /\ task[p].status = "ok" => task[p].volid \in gone[p]
    /\ pc[p] \in {"idle", "list"} => applied[p] = {}

\* What a run wants is noted as soon as it is so.
Noted(p) == p \in Busy /\ Goal(cmd[p], where, def) => met[p]

\* A volume that a VM has held all along belongs to a VM the determination still
\* comes to: one that root's list names, unless the node that gave it had no quorum,
\* one on the node itself, and then one whose configuration, or whose snapshots, are
\* yet to be read.
Kept(p) ==
    /\ p \in Determining => Volids \ Held(vm, where) \subseteq loose[p]
    /\ cmd[p].kind = "free" /\ (pc[p] \in {"lock", "read"} \/ (pc[p] = "quorum" /\ quorate)) =>
          \A m \in VMs : Has(vm, where, m) \subseteq loose[p] \/ listed[p][m] # None
                            \/ (~shared /\ vm[m].node # Home)
    /\ pc[p] = "guests" =>
          \A m \in VMs : Has(vm, where, m) \cap orphans[p] \subseteq loose[p] \/ vm[m].node = Home
    /\ pc[p] = "claims" =>
          \A m \in VMs : \A v \in (Has(vm, where, m) \cap orphans[p]) \ loose[p] :
              m \in todo[p] \/ (m = reading[p] /\ v \in vm[m].snap)

\* The storage's lock of one target is a lock; reports share it.
Exclusion ==
    \A p, q \in Runs :
        p # q /\ HoldsStorage(p) /\ HoldsStorage(q) /\ cmd[p].target = cmd[q].target
        => cmd[p].kind = "report" /\ cmd[q].kind = "report"

\* What a storage command says and holds, together: reports that are true, and no
\* delete of the same target under way underneath it; with what is true at every step
\* before, which makes it inductive.
StorageInv ==
    /\ TypeOK /\ HonestReport /\ NoTaskUnderneath
    /\ Exclusion
    /\ \A p \in Runs : Control(p) /\ Deletes(p) /\ Noted(p) /\ Kept(p)
=============================================================================
