------------------------------- MODULE Network -------------------------------
(***************************************************************************)
(* `network bridge create | destroy` and `network set`: NetworkBridge-     *)
(* Ensure and NetworkFieldsEnsure, each a Run under the node's network     *)
(* lock.  PVE stages network changes for the whole node, and one commit    *)
(* applies whatever is staged, by a task that reloads the kernel's         *)
(* interfaces.  Between its stage and its commit an operation checks that  *)
(* it would commit nothing it did not ask for; when it gives up, its       *)
(* revert discards everything that is staged.  The web UI stages, applies  *)
(* and reverts without the lock.                                           *)
(***************************************************************************)
EXTENDS Naturals

CONSTANTS Runs,
          Ifaces, Mgmt,   \* the node's interfaces; its management bridge
          Values,         \* what a field such as the MTU may be set to
          None,           \* no stanza, nobody
          Initial,        \* the configurations the node may have at first
          MaxWeb          \* bound on what the web UI does

Stanzas == [type : {"bridge", "other"}, auto : BOOLEAN, field : Values]

ASSUME NetworkAssumption ==
    /\ Mgmt \in Ifaces
    /\ None \notin Runs \cup Stanzas
    /\ "web" \notin Runs \cup {None}
    /\ Initial \subseteq [Ifaces -> Stanzas \cup {None}]
    /\ \A c \in Initial : c[Mgmt] # None
    /\ MaxWeb \in Nat

VARIABLES live, staged, \* PVE: each interface's stanza, applied and pending
          owner,        \* PVE: who staged an interface's pending change
          kernel,       \* the interfaces the node's kernel has
          task,         \* PVE: the commit task each run has started
          web,          \* how often the web UI has acted
          pc, cmd,      \* where each run is; its command
          pre,          \* the stanzas it read before it staged
          preLink,      \* whether the kernel had the management bridge then
          failing,      \* what it will report once its revert is done
          result,       \* what it reports
          strange,      \* history: interfaces others staged or reverted since its guard
          touched,      \* history: others changed what it staged
          applied       \* history: its interface was as wanted at some moment

pve == <<live, staged, owner, kernel, task, web, touched, strange, applied>>
locals == <<cmd, pre, preLink, failing, result>>
vars == <<pve, locals, pc>>

Web == "web"
Kinds == {"create", "destroy", "set"}
Nothing == [i \in Ifaces |-> None]
NoCommand == [kind |-> "none", iface |-> Mgmt, auto |-> FALSE, field |-> None]

\* ifreload brings up what starts by itself, and takes down the rest.
Reloaded(c) == {i \in Ifaces : c[i] # None /\ c[i].auto}

Init ==
    /\ live \in Initial
    /\ staged = live
    /\ owner = [i \in Ifaces |-> None]
    /\ kernel = Reloaded(live)
    /\ task = [p \in Runs |-> "none"]
    /\ web = 0
    /\ pc = [p \in Runs |-> "idle"]
    /\ cmd = [p \in Runs |-> NoCommand]
    /\ pre = [p \in Runs |-> Nothing]
    /\ preLink = [p \in Runs |-> TRUE]
    /\ failing = [p \in Runs |-> "none"]
    /\ result = [p \in Runs |-> "none"]
    /\ strange = [p \in Runs |-> {}]
    /\ touched = [p \in Runs |-> FALSE]
    /\ applied = [p \in Runs |-> FALSE]

Iface(p) == cmd[p].iface

\* effectiveWanted and fieldsEqual: the stanza is what the command asks for.
Matches(p, stanza) ==
    \/ cmd[p].kind = "destroy" /\ stanza = None
    \/ /\ cmd[p].kind = "create" /\ stanza # None
       /\ stanza = [type |-> "bridge", auto |-> cmd[p].auto, field |-> cmd[p].field]
    \/ cmd[p].kind = "set" /\ stanza # None /\ stanza.field = cmd[p].field

Busy == {p \in Runs : pc[p] \notin {"idle", "done"}}

\* Who works on a pending change of its own: others' changes to it are noted.
Staging(p) == pc[p] \in {"guard", "revert", "commit", "wait", "verify"}
Guarded == {p \in Runs : pc[p] \in {"commit", "wait"} \/ task[p] = "running"}

Note(who, changed) ==
    /\ touched' = [p \in Runs |-> touched[p] \/ (p # who /\ Staging(p) /\ Iface(p) \in changed)]
    /\ strange' = [p \in Runs |-> IF p # who /\ p \in Guarded THEN strange[p] \cup changed ELSE strange[p]]

-----------------------------------------------------------------------------
(* PVE and the web UI                                                      *)

StageAs(who, i, stanza) ==
    /\ staged' = [staged EXCEPT ![i] = stanza]
    /\ owner' = [owner EXCEPT ![i] = who]
    /\ Note(who, {i})

Discard(who) ==
    /\ staged' = live
    /\ owner' = [i \in Ifaces |-> None]
    /\ Note(who, {i \in Ifaces : staged[i] # live[i]})

\* Everything staged becomes the configuration; a reload that fails leaves the
\* kernel behind it.
Consume(ok) ==
    /\ live' = staged
    /\ owner' = [i \in Ifaces |-> None]
    /\ kernel' = IF ok THEN Reloaded(staged) ELSE kernel
    /\ applied' = [p \in Runs |-> applied[p] \/ (p \in Busy /\ Matches(p, staged[Iface(p)]))]
    /\ UNCHANGED staged

CommitLands(p, ok) ==
    /\ task[p] = "running"
    /\ task' = [task EXCEPT ![p] = IF ok THEN "ok" ELSE "failed"]
    /\ Consume(ok)
    /\ UNCHANGED <<web, touched, strange, locals, pc>>

\* The web UI stages a change, reverts what is staged, or applies it.
WebUI ==
    /\ web < MaxWeb
    /\ web' = web + 1
    /\ \/ /\ \E i \in Ifaces, s \in {None} \cup {t \in Stanzas : t.type = "bridge"} :
                s # staged[i] /\ (i = Mgmt => s # None) /\ StageAs(Web, i, s)
          /\ UNCHANGED <<live, kernel, applied>>
       \/ staged # live /\ Discard(Web) /\ UNCHANGED <<live, kernel, applied>>
       \/ staged # live /\ Consume(TRUE) /\ Note(Web, {i \in Ifaces : staged[i] # live[i]})
    /\ UNCHANGED <<task, locals, pc>>

-----------------------------------------------------------------------------
(* Steps of a run                                                          *)

Goto(p, label) == pc' = [pc EXCEPT ![p] = label]
Moves(p, label) == Goto(p, label) /\ UNCHANGED locals

\* What a run has read is kept only while its commit is under way.
Ends(p, outcome) ==
    /\ Goto(p, "done")
    /\ result' = [result EXCEPT ![p] = outcome]
    /\ failing' = [failing EXCEPT ![p] = "none"]
    /\ pre' = IF task[p] = "running" THEN pre ELSE [pre EXCEPT ![p] = Nothing]
    /\ preLink' = [preLink EXCEPT ![p] = TRUE]
    /\ cmd' = IF task[p] = "running" THEN cmd ELSE [cmd EXCEPT ![p] = NoCommand]

\* Validate: a destroy has no fields.  Nothing keeps the management bridge from being
\* the one to create or destroy.
Start(p) ==
    /\ pc[p] = "idle"
    /\ \E k \in Kinds, i \in Ifaces, a \in BOOLEAN, v \in Values :
          /\ k # "create" => ~a
          /\ k = "destroy" => v = CHOOSE x \in Values : TRUE
          /\ cmd' = [cmd EXCEPT ![p] = [kind |-> k, iface |-> i, auto |-> a, field |-> v]]
    /\ Goto(p, "lock")
    /\ UNCHANGED <<pve, pre, preLink, failing, result>>

\* Fault: the lock is released before the change is committed.
HoldsUntilStaged(p) == pc[p] \in {"read", "pre", "stage"}

\* NetworkLockKey: one lock for the node, from the first read to the last check.
HoldsNode(p) == pc[p] \notin {"idle", "lock", "done"}

Lock(p) ==
    /\ pc[p] = "lock"
    /\ \/ (\A q \in Runs : ~HoldsNode(q)) /\ Moves(p, "read")
       \/ Ends(p, "refused")
    /\ UNCHANGED pve

\* The kernel's own word for an interface: `ip link show`.
LinkExists(i) == i \in kernel

\* PVE answers with what is staged, and for an interface the kernel still has.
Visible(i) == staged[i] # None \/ LinkExists(i)

\* A destroy wants it gone; a create compares every field it would send.
BridgeSatisfied(p) ==
    IF cmd[p].kind = "destroy" THEN ~Visible(Iface(p))
    ELSE staged[Iface(p)] # None /\ Matches(p, staged[Iface(p)])

\* `set` compares the fields it was given.
FieldsSatisfied(p) == staged[Iface(p)] # None /\ Matches(p, staged[Iface(p)])

Satisfied(p) == IF cmd[p].kind = "set" THEN FieldsSatisfied(p) ELSE BridgeSatisfied(p)

\* `set` has nothing to set on an interface that is missing.
Read(p) ==
    /\ pc[p] = "read"
    /\ \/ Satisfied(p) /\ Ends(p, "unchanged")
       \/ /\ ~Satisfied(p)
          /\ cmd[p].kind = "set" => Visible(Iface(p))
          /\ Moves(p, "pre")
       \/ Ends(p, "refused")
    /\ UNCHANGED pve

\* The snapshot before the stage: the management bridge's stanza, or for `set` every
\* other interface's.  An interface of another type is not created again.
Snapshot(p) ==
    /\ pc[p] = "pre"
    /\ \/ /\ cmd[p].kind # "set" => staged[Mgmt] # None
          /\ cmd[p].kind = "create" /\ staged[Iface(p)] # None
                => staged[Iface(p)].type = "bridge"
          /\ cmd[p].kind = "set" => staged[Iface(p)] # None
          /\ pre' = [pre EXCEPT ![p] = staged]
          /\ preLink' = [preLink EXCEPT ![p] = LinkExists(Mgmt)]
          /\ Goto(p, "stage")
          /\ UNCHANGED <<cmd, failing, result>>
       \/ Ends(p, "refused")
    /\ UNCHANGED pve

Wanted(p) ==
    IF cmd[p].kind = "destroy" THEN None
    ELSE IF cmd[p].kind = "create"
         THEN [type |-> "bridge", auto |-> cmd[p].auto, field |-> cmd[p].field]
         ELSE [staged[Iface(p)] EXCEPT !.field = cmd[p].field]

\* POST, PUT or DELETE.  A stage that fails is not reverted, though its answer may
\* only have been lost.
Stage(p) ==
    /\ pc[p] = "stage"
    /\ \/ /\ cmd[p].kind = "set" => staged[Iface(p)] # None
          /\ StageAs(p, Iface(p), Wanted(p))
          /\ Moves(p, "guard") \/ Ends(p, "unstaged")
       \/ Ends(p, "unstaged") /\ UNCHANGED <<staged, owner, touched, strange>>
    /\ UNCHANGED <<live, kernel, task, web, applied>>

\* Gives up for a reason, after the revert.
GivesUp(p, why) ==
    /\ Goto(p, "revert")
    /\ failing' = [failing EXCEPT ![p] = why]
    /\ UNCHANGED <<cmd, pre, preLink, result>>

\* Fault: what others have staged meanwhile is not compared.
NothingCompared(p) == TRUE

\* changedOtherInterfaces: for `set` every other interface is still as read.
OthersUnchanged(p) == \A i \in Ifaces \ {Iface(p)} : staged[i] = pre[p][i]

\* canonicalHash: for a bridge, the management bridge's stanza is.
MgmtUnchanged(p) == staged[Mgmt] = pre[p][Mgmt]

\* guardSelfCheck: nothing of the change is live before the commit.
NotYetLive(p) ==
    /\ cmd[p].kind = "create" => ~LinkExists(Iface(p))
    /\ cmd[p].kind = "destroy" => LinkExists(Iface(p))

\* The guard's reads are one step.  Of a link only its existence is kept, not
\* whether it is up.
Guard(p) ==
    /\ pc[p] = "guard"
    /\ \/ /\ NotYetLive(p)
          /\ IF cmd[p].kind = "set" THEN OthersUnchanged(p) ELSE MgmtUnchanged(p)
          /\ Moves(p, "commit")
       \/ GivesUp(p, "aborted")
    /\ UNCHANGED pve

\* Fault: a commit whose outcome is unknown is not reverted.
CommitUnreverted(p) ==
    /\ pc[p] = "commit"
    /\ \/ task' = [task EXCEPT ![p] = "running"] /\ (Moves(p, "wait") \/ Ends(p, "uncertain"))
       \/ Ends(p, "uncertain") /\ UNCHANGED task
    /\ UNCHANGED <<live, staged, owner, kernel, web, touched, strange, applied>>

\* The commit is accepted, or refused, or its answer is lost: then the worker may be
\* running, and the revert comes before it or after it.
Commit(p) ==
    /\ pc[p] = "commit"
    /\ \/ /\ task' = [task EXCEPT ![p] = "running"]
          /\ Moves(p, "wait") \/ GivesUp(p, "uncertain")
       \/ GivesUp(p, "uncertain") /\ UNCHANGED task
    /\ UNCHANGED <<live, staged, owner, kernel, web, touched, strange, applied>>

\* revertStagedAfter: a request of its own, not cut off with the caller's context.
Revert(p) ==
    /\ pc[p] = "revert"
    /\ \/ Discard(p) /\ Ends(p, failing[p])
       \/ Discard(p) /\ Ends(p, "left")
       \/ Ends(p, "left") /\ UNCHANGED <<staged, owner, touched, strange>>
    /\ UNCHANGED <<live, kernel, task, web, applied>>

\* Fault: a commit nobody saw end is taken for done.
WaitsForNothing(p) ==
    /\ pc[p] = "wait"
    /\ Moves(p, "verify")
    /\ UNCHANGED pve

\* WaitForTask, and no revert: what is staged by now belongs to somebody else.
WaitForTask(p) ==
    /\ pc[p] = "wait"
    /\ \/ task[p] = "ok" /\ Moves(p, "verify")
       \/ task[p] = "failed" /\ Ends(p, "failed")
       \/ Ends(p, "unseen")
    /\ UNCHANGED pve

\* The kernel has the management bridge as before, and the bridge or not.
BridgeVerified(p) ==
    /\ LinkExists(Mgmt) = preLink[p]
    /\ LinkExists(Iface(p)) = (cmd[p].kind = "create" /\ cmd[p].auto)

\* `set` looks only whether its interface is there.
FieldsVerified(p) == LinkExists(Iface(p))

Verify(p) ==
    /\ pc[p] = "verify"
    /\ \/ /\ IF cmd[p].kind = "set" THEN FieldsVerified(p) ELSE BridgeVerified(p)
          /\ Ends(p, "changed")
       \/ Ends(p, "mismatch")
    /\ UNCHANGED pve

\* A kill leaves what is staged, and the worker.
Killed(p) ==
    /\ p \in Busy
    /\ Ends(p, "killed")
    /\ UNCHANGED pve

Step(p) ==
    \/ Lock(p) \/ Read(p) \/ Snapshot(p) \/ Stage(p) \/ Guard(p) \/ Commit(p) \/ Revert(p)
    \/ WaitForTask(p) \/ Verify(p)

Next ==
    \/ \E p \in Runs : Start(p) \/ Step(p) \/ Killed(p)
    \/ \E p \in Runs, ok \in BOOLEAN : CommitLands(p, ok)
    \/ WebUI

Spec == Init /\ [][Next]_vars

-----------------------------------------------------------------------------
(* Properties                                                              *)

Configs == [Ifaces -> Stanzas \cup {None}]

Results == {"none", "refused", "unchanged", "unstaged", "aborted", "uncertain", "left",
            "failed", "unseen", "mismatch", "changed", "killed"}

\* Every variable has its type.
TypeOK ==
    /\ live \in Configs /\ staged \in Configs
    /\ owner \in [Ifaces -> Runs \cup {Web, None}]
    /\ kernel \subseteq Ifaces
    /\ task \in [Runs -> {"none", "running", "ok", "failed"}]
    /\ web \in 0 .. MaxWeb
    /\ pc \in [Runs -> {"idle", "lock", "read", "pre", "stage", "guard", "commit", "revert",
                        "wait", "verify", "done"}]
    /\ cmd \in [Runs -> [kind : Kinds \cup {"none"}, iface : Ifaces, auto : BOOLEAN,
                         field : Values \cup {None}]]
    /\ pre \in [Runs -> Configs] /\ preLink \in [Runs -> BOOLEAN]
    /\ failing \in [Runs -> {"none", "aborted", "uncertain"}]
    /\ result \in [Runs -> Results]
    /\ strange \in [Runs -> SUBSET Ifaces]
    /\ touched \in [Runs -> BOOLEAN] /\ applied \in [Runs -> BOOLEAN]

\* A change that a run has staged and is done with is left pending only behind a
\* report that says so, or a stage whose answer never came: the stage failed, the
\* revert failed, the run was killed, or its commit was not seen to end
\* (revertStagedAfter: a staged change is never left for whatever applies next).
NothingLeftBehind ==
    \A p \in Runs, i \in Ifaces :
        owner[i] = p /\ pc[p] = "done" => result[p] \in {"unstaged", "left", "killed", "unseen"}

\* The commit of a run changes the management bridge, or for `set` any other
\* interface, from what the run had read before it staged only where somebody
\* changed it after the guard had looked: a `bridge destroy` of the management
\* bridge itself is not committed either.
SweepsNothingUnseen ==
    [][\A p \in Runs, i \in Ifaces :
          /\ task[p] = "running" /\ task'[p] # "running"
          /\ IF cmd[p].kind = "set" THEN i # Iface(p) ELSE i = Mgmt
          => staged[i] \in {pre[p][i], live[i]} \/ i \in strange[p]]_vars

\* One run's commit takes another's staged change along only if one of them ended
\* without knowing: the committer did not see its own commit end, or the other left
\* its change pending.
SweepsBlindly ==
    [][\A p, q \in Runs, i \in Ifaces :
          /\ task[p] = "running" /\ task'[p] # "running"
          /\ owner[i] = q /\ p # q
          => \/ result[p] \in {"unseen", "uncertain", "left", "killed"}
             \/ result[q] \in {"unstaged", "left", "killed", "unseen"}]_vars

\* A run reports a change only if the interface was configured as asked at some
\* moment, unless somebody else changed or reverted it while it was staged: the
\* kernel checks alone would not tell.
ReportsRealChange ==
    \A p \in Runs : result[p] = "changed" => applied[p] \/ touched[p]

\* Where a run is, against its commit's task: none before the commit, seen to have
\* succeeded by the checks after it, and still running at the end only behind a report
\* of not having seen it end.
Control(p) ==
    /\ pc[p] \in {"idle", "lock", "read", "pre", "stage", "guard", "commit"} => task[p] = "none"
    /\ pc[p] = "wait" => task[p] # "none"
    /\ pc[p] = "verify" => task[p] = "ok"
    /\ task[p] = "running" =>
          \/ pc[p] = "wait"
          \/ pc[p] = "revert" /\ failing[p] = "uncertain"
          \/ pc[p] = "done" /\ result[p] \in {"unseen", "uncertain", "left", "killed"}
    /\ pc[p] \notin {"idle", "done"} => cmd[p].kind \in Kinds /\ cmd[p].field \in Values
    /\ pc[p] # "done" => result[p] = "none"

\* A pending change belongs to a run between its stage and the end of its commit.
Owned(p) ==
    \A i \in Ifaces : owner[i] = p =>
        /\ task[p] \in {"none", "running"}
        /\ pc[p] \in {"guard", "commit", "revert", "wait", "done"}

\* What a run has staged is what it was asked for until it is committed, and what has
\* been committed was: unless somebody else interfered.
AsAsked(p) ==
    /\ pc[p] \in {"guard", "commit"} \/ (pc[p] = "wait" /\ task[p] = "running")
          => touched[p] \/ Matches(p, staged[Iface(p)])
    /\ pc[p] \in {"wait", "verify"} /\ task[p] = "ok" => touched[p] \/ applied[p]

\* What the commit of p must not change: the management bridge, or for `set` any other
\* interface.
Foreign(p) == IF cmd[p].kind = "set" THEN Ifaces \ {Iface(p)} ELSE {Mgmt}

\* From the guard to the end of the commit that is as p had read it.
ForeignSeen(p) ==
    p \in Guarded => \A i \in Foreign(p) :
        staged[i] \in {pre[p][i], live[i]} \/ i \in strange[p]

\* The node's lock has one holder.
Alone == \A p, q \in Runs : HoldsNode(p) /\ HoldsNode(q) => p = q

\* What a network command leaves and says, and where it stands between, together:
\* nothing staged is left behind in silence, and a reported change was real.
NetworkInv ==
    /\ TypeOK /\ NothingLeftBehind /\ ReportsRealChange /\ Alone
    /\ \A p \in Runs : Control(p) /\ Owned(p) /\ AsAsked(p) /\ ForeignSeen(p)
=============================================================================
