--------------------------- MODULE MutationEngine ---------------------------
(***************************************************************************)
(* internal/idempotent: Run's read-compare-mutate cycle over one VM's      *)
(* config, with its two config operations, VMFieldsEnsure (vm set) and     *)
(* VMTagEnsure.  Runs of one roster are serialised by lock.Mutation; runs  *)
(* of other rosters and the PVE GUI are not.  A REST write carries the     *)
(* digest of the config it was decided on, and PVE refuses it when the     *)
(* config has changed; a root-only field is written by `qm set` over SSH,  *)
(* with no such guard.  Any write may lose its answer, and one that was    *)
(* given up on may land later.  No command passes force.                   *)
(***************************************************************************)
EXTENDS Naturals, FiniteSets

CONSTANTS Runs,      \* pveforge processes that mutate this VM
          RosterOf,  \* the roster, and so the lock file, each works with
          Fields,    \* config keys
          RootOnly,  \* sshexec.RootOnlyFields
          Refused,   \* keys PVE refuses over REST although not in RootOnly
          Values,    \* what a key may hold
          Tags,      \* tags a VMTagEnsure may ask for
          Absent,    \* the key is not in the config
          Keep,      \* the batch does not name the key
          MaxConflictRetries,
          MaxLate    \* bound on the abandoned writes still in flight

ASSUME EngineAssumption ==
    /\ RootOnly \subseteq Fields
    /\ Refused \subseteq Fields \ RootOnly
    /\ Absent \notin Values
    /\ Keep \notin Values \cup {Absent}
    /\ "tags" \notin Fields     \* the tags key is kept apart
    /\ MaxConflictRetries \in Nat \ {0}
    /\ MaxLate \in Nat

VARIABLES config,   \* the VM's config
          tags,     \* its tags key
          pending,  \* keys whose value the running guest has not taken yet
          late,     \* writes given up on that may still land
          pc, op,   \* where each run is, and its Op and Result
          outside,  \* history: keys that others, or an abandoned write, have
                    \* written since a run's latest Read
          moved,    \* history: whether anything beyond its lock was written
                    \* since its latest digest
          wrote     \* history: keys a run's own writes have landed on

vars == <<config, tags, pending, late, pc, op, outside, moved, wrote>>
pve == <<config, tags, pending, late>>
history == <<outside, moved, wrote>>

Held == Values \cup {Absent}
Configs == [Fields -> Held]
TagKey == "tags"

\* PVE's digest is a hash of the config's content.
Digest == <<config, tags>>

NoOp ==
    [kind |-> "none", want |-> [f \in Fields |-> Keep], tag |-> TagKey, attempt |-> 0,
     snap |-> <<>>, todo |-> {}, field |-> TagKey, applied |-> {},
     notices |-> {}, checked |-> FALSE, result |-> "none"]

Init ==
    /\ config \in Configs
    /\ tags = {}
    /\ pending = {}
    /\ late = {}
    /\ pc = [p \in Runs |-> "idle"]
    /\ op = [p \in Runs |-> NoOp]
    /\ outside = [p \in Runs |-> {}]
    /\ moved = [p \in Runs |-> FALSE]
    /\ wrote = [p \in Runs |-> {}]

-----------------------------------------------------------------------------
(* Writes                                                                  *)

Goto(p, from, to) == pc[p] = from /\ pc' = [pc EXCEPT ![p] = to]
Set(p, new) == op' = [op EXCEPT ![p] = new]

\* The write reaches the config; the guest may or may not take it at once.
Written(key, value) ==
    /\ \/ key = TagKey /\ tags' = value /\ UNCHANGED config
       \/ key # TagKey /\ config' = [config EXCEPT ![key] = value] /\ UNCHANGED tags
    /\ \/ pending' = pending \cup {key}
       \/ pending' = pending \ {key}

\* A write that the runs in "sees" did not make, from beyond their own lock for
\* those in "beyond".
SeenOutside(key, sees, beyond) ==
    LET busy == {p \in Runs : pc[p] # "idle"} IN
    /\ outside' = [p \in Runs |-> IF p \in sees \cap busy THEN outside[p] \cup {key} ELSE outside[p]]
    /\ moved' = [p \in Runs |-> moved[p] \/ p \in beyond \cap busy]

SameLock(p) == {q \in Runs : RosterOf[q] = RosterOf[p]}

Lands(p, key, value) ==
    /\ Written(key, value)
    /\ SeenOutside(key, Runs \ SameLock(p), Runs \ SameLock(p))
    /\ wrote' = [wrote EXCEPT ![p] = @ \cup {key}]

Unwritten == UNCHANGED <<config, tags, pending, history>>

\* A write without an answer: done, not done, or still to come.  guard is
\* the digest it carries, or none.
Unanswered(p, key, value, guard) ==
    \/ (guard = <<>> \/ guard = Digest) /\ Lands(p, key, value) /\ UNCHANGED late
    \/ Unwritten /\ UNCHANGED late
    \/ /\ Unwritten
       /\ Cardinality(late) < MaxLate
       /\ late' = late \cup {[key |-> key, value |-> value, guard |-> guard, by |-> p]}

LateWrite ==
    \E w \in late :
        /\ late' = late \ {w}
        /\ \/ /\ w.guard \in {<<>>, Digest}
              /\ Written(w.key, w.value)
              /\ SeenOutside(w.key, Runs, Runs \ SameLock(w.by))
           \/ UNCHANGED <<config, tags, pending, outside, moved>>
        /\ UNCHANGED <<pc, op, wrote>>

\* The GUI, or another tool, changes a key or the tags.
GuiEdits ==
    /\ \/ \E f \in Fields, v \in Held : config[f] # v /\ Written(f, v) /\ SeenOutside(f, Runs, Runs)
       \/ \E ts \in SUBSET Tags : tags # ts /\ Written(TagKey, ts) /\ SeenOutside(TagKey, Runs, Runs)
    /\ UNCHANGED <<late, pc, op, wrote>>

\* A cold boot: the guest takes what was pending.
Boot ==
    /\ pending # {}
    /\ pending' = {}
    /\ UNCHANGED <<config, tags, late, pc, op, history>>

-----------------------------------------------------------------------------
(* Run: the lock, Read and Satisfied                                       *)

Started(p, new) ==
    /\ Goto(p, "idle", "read")
    /\ Set(p, [new EXCEPT !.attempt = 1])
    /\ UNCHANGED <<pve, history>>

\* Fault: the lock is not taken.
LockFreeIgnored(p) == TRUE

\* lock.Mutation admits one run per roster.
LockFree(p) == \A q \in SameLock(p) : pc[q] = "idle"

\* vm set: a batch of keys to set and keys to delete (want = Absent).
StartFields(p) ==
    /\ LockFree(p)
    /\ \E want \in [Fields -> Held \cup {Keep}] :
          /\ \E f \in Fields : want[f] # Keep
          /\ Started(p, [NoOp EXCEPT !.kind = "fields", !.want = want])

StartTag(p) ==
    /\ LockFree(p)
    /\ \E t \in Tags : Started(p, [NoOp EXCEPT !.kind = "tag", !.tag = t])

Requested(o) == {f \in Fields : o.want[f] # Keep}

\* Read and Satisfied.  Apply will visit the keys that did not match.
ReadsConfig(p) ==
    LET o == op[p]
        unmet == {f \in Requested(o) : config[f] # o.want[f]}
        satisfied == IF o.kind = "fields" THEN unmet = {} ELSE o.tag \in tags
    IN
    /\ Goto(p, "read", IF satisfied THEN "check" ELSE IF o.kind = "fields" THEN "apply" ELSE "put")
    /\ Set(p, [o EXCEPT !.snap = Digest, !.todo = unmet, !.field = TagKey,
                        !.result = IF satisfied THEN "noop" ELSE "none"])
    /\ outside' = [outside EXCEPT ![p] = {}]
    /\ moved' = [moved EXCEPT ![p] = FALSE]
    /\ UNCHANGED <<pve, wrote>>

Fails(p, from) ==
    /\ Goto(p, from, "done")
    /\ Set(p, [op[p] EXCEPT !.result = "failed"])

\* Read, or the digest's re-read before a write, gets no answer.
ReadFails(p) ==
    /\ Fails(p, "read") \/ Fails(p, "digest")
    /\ UNCHANGED <<pve, history>>

-----------------------------------------------------------------------------
(* Apply                                                                   *)

\* Keys are visited in the batch's order, sets before deletes.
Visitable(o) ==
    LET sets == {f \in o.todo : o.want[f] # Absent}
    IN  IF sets # {} THEN sets ELSE o.todo

\* The next key: root-only ones go over SSH at once.
Visit(p) ==
    /\ \E f \in Visitable(op[p]) :
          /\ Goto(p, "apply", IF f \in RootOnly THEN "ssh" ELSE "digest")
          /\ Set(p, [op[p] EXCEPT !.field = f])
    /\ UNCHANGED <<pve, history>>

\* Done with op.field, whether it was written or not.
Visited(o) == [o EXCEPT !.todo = @ \ {o.field}, !.snap = <<>>]

\* readConfig: the digest is fetched anew before every REST write, and a key
\* to delete that is gone by now is left alone.
FreshDigest(p) ==
    LET o == op[p]
        gone == o.want[o.field] = Absent /\ config[o.field] = Absent
    IN
    /\ \/ Goto(p, "digest", "apply") /\ gone /\ Set(p, Visited(o))
       \/ Goto(p, "digest", "put") /\ ~gone /\ Set(p, [o EXCEPT !.snap = Digest])
    /\ moved' = [moved EXCEPT ![p] = FALSE]
    /\ UNCHANGED <<pve, outside, wrote>>

\* VMTagEnsure writes the tags Read saw and its own, guarded by Read's digest.
Wanted(o) == IF o.kind = "fields" THEN o.want[o.field] ELSE o.snap[2] \cup {o.tag}

\* Where a run goes after a write that was answered.
AfterWrite(o) == IF o.kind = "fields" THEN "apply" ELSE "check"

Acknowledged(o) ==
    [Visited(o) EXCEPT !.applied = @ \cup {o.field},
                     !.result = IF o.kind = "tag" THEN "changed" ELSE @]

\* Fault: the digest is not sent.
PutAcceptedUnguarded(p) ==
    LET o == op[p] IN
    /\ Goto(p, "put", AfterWrite(o))
    /\ o.field \notin Refused
    /\ Lands(p, o.field, Wanted(o))
    /\ Set(p, Acknowledged(o))
    /\ UNCHANGED late

\* putVMConfig with the digest, accepted.
PutAccepted(p) ==
    LET o == op[p] IN
    /\ Goto(p, "put", AfterWrite(o))
    /\ o.snap = Digest
    /\ o.field \notin Refused
    /\ Lands(p, o.field, Wanted(o))
    /\ Set(p, Acknowledged(o))
    /\ UNCHANGED late

\* Fault: what was applied before the conflict is forgotten.
RetryForgetsApplied(o) == [o EXCEPT !.attempt = @ + 1, !.applied = {}]

\* Fault: conflicts are not counted.
RetryUncounted(o) == o

\* The next attempt starts over from Read; Applied accumulates.
Retry(o) == [o EXCEPT !.attempt = @ + 1]

LastAttempt(o) == o.attempt = MaxConflictRetries

\* IsDigestConflictError: the whole cycle again, or the end.
PutConflicts(p) ==
    /\ op[p].snap # Digest
    /\ \/ Fails(p, "put") /\ LastAttempt(op[p])
       \/ Goto(p, "put", "read") /\ ~LastAttempt(op[p]) /\ Set(p, Retry(op[p]))
    /\ UNCHANGED <<pve, history>>

\* IsRootOnlyWriteError: straight to SSH.  The refusal itself may get lost.
PutRefusedAsRootOnly(p) ==
    /\ op[p].field \in Refused
    /\ \/ Goto(p, "put", "ssh") /\ UNCHANGED op
       \/ Fails(p, "put")
    /\ UNCHANGED <<pve, history>>

\* Fault: a write without an answer counts as made.
PutUnansweredTrusted(p) ==
    /\ Goto(p, "put", AfterWrite(op[p]))
    /\ Unanswered(p, op[p].field, Wanted(op[p]), op[p].snap)
    /\ Set(p, Acknowledged(op[p]))

\* Any other error, with or without the write having happened.
PutUnanswered(p) ==
    /\ Fails(p, "put")
    /\ op[p].field \notin Refused
    /\ Unanswered(p, op[p].field, Wanted(op[p]), op[p].snap)

\* `qm set`, with no guard.
QmSet(p) ==
    /\ Goto(p, "ssh", "apply")
    /\ Lands(p, op[p].field, Wanted(op[p]))
    /\ Set(p, Acknowledged(op[p]))
    /\ UNCHANGED late

QmSetUnanswered(p) ==
    /\ Fails(p, "ssh")
    /\ Unanswered(p, op[p].field, Wanted(op[p]), <<>>)

\* Every key has been visited.
Applied(p) ==
    /\ op[p].todo = {}
    /\ Goto(p, "apply", "check")
    /\ Set(p, [op[p] EXCEPT !.result = "changed"])
    /\ UNCHANGED <<pve, history>>

-----------------------------------------------------------------------------
(* After the cycle                                                         *)

\* Fault: only this run's own writes are looked up.
NoticesOwnOnly(o) == o.applied \cap pending

\* PostApply after a write, PostNoop on a no-op: the requested keys that the
\* guest has not taken, whoever wrote them.  An Apply that found nothing left
\* to write asks nothing.
Notices(o) ==
    IF o.result = "changed" /\ o.applied = {} THEN {} ELSE Requested(o) \cap pending

\* The re-read and the post-check are advisory; each may fail.
PostCheck(p) ==
    /\ Goto(p, "check", "done")
    /\ \E answered \in BOOLEAN :
          Set(p, [op[p] EXCEPT !.checked = answered,
                               !.notices = IF answered THEN Notices(op[p]) ELSE {}])
    /\ UNCHANGED <<pve, history>>

Forget(p) ==
    /\ outside' = [outside EXCEPT ![p] = {}]
    /\ moved' = [moved EXCEPT ![p] = FALSE]
    /\ wrote' = [wrote EXCEPT ![p] = {}]

\* The command prints its lines and the lock is released.
Finish(p) ==
    /\ Goto(p, "done", "idle")
    /\ Set(p, NoOp)
    /\ Forget(p)
    /\ UNCHANGED pve

\* The process dies; the kernel drops its lock.
Crash(p) ==
    /\ pc[p] \notin {"idle", "done"}
    /\ pc' = [pc EXCEPT ![p] = "idle"]
    /\ Set(p, NoOp)
    /\ Forget(p)
    /\ UNCHANGED pve

RunStep(p) ==
    \/ ReadsConfig(p) \/ ReadFails(p)
    \/ Visit(p) \/ FreshDigest(p)
    \/ PutAccepted(p) \/ PutConflicts(p) \/ PutRefusedAsRootOnly(p) \/ PutUnanswered(p)
    \/ QmSet(p) \/ QmSetUnanswered(p)
    \/ Applied(p) \/ PostCheck(p) \/ Finish(p)

Next ==
    \/ \E p \in Runs : StartFields(p) \/ StartTag(p) \/ RunStep(p) \/ Crash(p)
    \/ LateWrite \/ GuiEdits \/ Boot

Spec == Init /\ [][Next]_vars

\* A run that is not killed goes on: every request and every SSH command has
\* a timeout.  Nothing is assumed of the GUI, which may edit for ever.
FairSpec == Spec /\ \A p \in Runs : WF_vars(RunStep(p))

-----------------------------------------------------------------------------
(* Properties                                                              *)

Succeeded(p) == pc[p] = "done" /\ op[p].result \in {"changed", "noop"}

\* A run that reports success leaves every key it was asked for as asked,
\* except a key that somebody outside its lock, or a write an earlier run gave
\* up on, has changed since the run last read the config: conflict retries, skipped keys and the SSH fallback lose
\* nothing, and no other run of the roster gets in between.
SuccessMeansSatisfied ==
    \A p \in Runs : Succeeded(p) =>
        /\ \A f \in Requested(op[p]) : config[f] = op[p].want[f] \/ f \in outside[p]
        /\ op[p].kind = "tag" => op[p].tag \in tags \/ TagKey \in outside[p]

\* "Those writes happened, so they must still be reported": a successful run
\* reports exactly the keys its writes landed on, over all of its attempts,
\* a no-op after a conflict included.
AppliedIsWritten == \A p \in Runs : Succeeded(p) => op[p].applied = wrote[p]

Noticed(p) ==
    Succeeded(p) /\ op[p].checked /\ (op[p].result = "noop" \/ op[p].applied # {})
        => Requested(op[p]) \cap pending \subseteq op[p].notices \cup outside[p]

\* A requested key that is still pending, and that nobody else has written
\* since, is named in a notice, whether the run wrote it or found it set:
\* when nothing needed changing, or when the run wrote something.
PendingNoticed == \A p \in Runs : Noticed(p)

\* A tag that is on the VM is never taken off by a run that adds one: the
\* list is written back only over the list it was made from.
TagsKept ==
    [][\A p \in Runs : op[p].kind = "tag" /\ pc[p] = "put" /\ pc'[p] # "put" /\ tags' # tags
          => tags \subseteq tags']_vars

\* "A conflict on a freshly re-fetched digest can only mean genuine external
\* interference": PVE refuses a digest only if somebody outside the run's
\* lock has written since it was read.
ConflictIsExternal ==
    [][\A p \in Runs : pc[p] = "put" /\ pc'[p] = "read" => moved[p]]_vars

Keys == Fields \cup {TagKey}
Guards == {<<>>} \cup (Configs \X SUBSET Tags)

Writes ==
    [key : Fields, value : Held, guard : Guards, by : Runs]
    \cup [key : {TagKey}, value : SUBSET Tags, guard : Guards, by : Runs]

Ops ==
    [kind : {"none", "fields", "tag"}, want : [Fields -> Held \cup {Keep}],
     tag : Tags \cup {TagKey}, attempt : 0..MaxConflictRetries, snap : Guards,
     todo : SUBSET Fields, field : Keys, applied : SUBSET Keys, notices : SUBSET Keys,
     checked : BOOLEAN, result : {"none", "noop", "changed", "failed"}]

\* Types; a run makes at most MaxConflictRetries attempts.
TypeOK ==
    /\ config \in Configs
    /\ tags \subseteq Tags
    /\ pending \subseteq Keys
    /\ late \subseteq Writes
    /\ IsFiniteSet(late) /\ Cardinality(late) <= MaxLate
    /\ pc \in [Runs -> {"idle", "read", "apply", "digest", "put", "ssh", "check", "done"}]
    /\ op \in [Runs -> Ops]
    /\ outside \in [Runs -> SUBSET Keys]
    /\ moved \in [Runs -> BOOLEAN]
    /\ wrote \in [Runs -> SUBSET Keys]

\* A run ends, whatever the GUI does to the config meanwhile.
RunEnds == \A p \in Runs : pc[p] # "idle" ~> pc[p] = "idle"

-----------------------------------------------------------------------------
(* What the properties rest on, step by step                                *)

\* lock.Mutation: no two runs of one roster are under way.
Exclusion ==
    \A p, q \in Runs : p # q /\ RosterOf[p] = RosterOf[q] /\ pc[p] # "idle" => pc[q] = "idle"

\* What a run is about where it is: Apply's steps belong to a batch and to a key
\* of it that is not visited yet, and a PUT carries a digest.
Control(p) ==
    /\ pc[p] = "idle" => wrote[p] = {} /\ op[p].result = "none"
    /\ pc[p] # "idle" => op[p].kind # "none" /\ op[p].attempt > 0
    /\ op[p].kind # "fields" => Requested(op[p]) = {} /\ op[p].field = TagKey
    /\ op[p].kind = "tag" => op[p].tag \in Tags
    /\ op[p].todo \subseteq Requested(op[p])
    /\ pc[p] \in {"apply", "digest", "ssh"} => op[p].kind = "fields"
    /\ pc[p] \in {"digest", "put", "ssh"} /\ op[p].kind = "fields" => op[p].field \in op[p].todo
    /\ pc[p] = "put" => op[p].snap # <<>>
    /\ pc[p] = "check" => op[p].result \in {"changed", "noop"}
    /\ pc[p] \in {"read", "apply", "digest", "put", "ssh"} => op[p].result = "none"

HoldsOf(p, f) == config[f] = op[p].want[f] \/ f \in outside[p]

\* The keys of the batch that Apply has behind it hold, and all do after it.
VisitedHold(p) ==
    /\ pc[p] \in {"apply", "digest", "put", "ssh"} =>
          \A f \in Requested(op[p]) \ op[p].todo : HoldsOf(p, f)
    /\ pc[p] \in {"check", "done"} /\ op[p].result # "failed" =>
          /\ \A f \in Requested(op[p]) : HoldsOf(p, f)
          /\ op[p].kind = "tag" => op[p].tag \in tags \/ TagKey \in outside[p]

\* The report keeps up with the writes, until one has no answer.
Accounted(p) == op[p].result # "failed" => op[p].applied = wrote[p]

\* The digest a PUT carries is the config's, or the config has been changed by
\* somebody beyond the lock or by a write that was given up on.
DigestFresh(p) == pc[p] = "put" => op[p].snap = Digest \/ moved[p] \/ outside[p] # {}

RunInv(p) == Control(p) /\ VisitedHold(p) /\ Accounted(p) /\ DigestFresh(p) /\ Noticed(p)

\* What a run's success means, together: the batch holds, the report names what
\* was written, over all attempts, and what the guest has not taken yet; with
\* what is true at every step before, which makes it inductive.
EngineInv ==
    /\ TypeOK /\ Exclusion /\ \A p \in Runs : RunInv(p)
    /\ SuccessMeansSatisfied /\ AppliedIsWritten /\ PendingNoticed
=============================================================================
