--------------------------- MODULE TokenRotation ---------------------------
(***************************************************************************)
(* internal/bootstrap's token phase: how a bootstrap run (rotation.go) and *)
(* a token import (Import) move one PVE API token, named owner!tokenid,    *)
(* between PVE and the rosters that hold its secret.  Runs on one roster   *)
(* are serialised by the per-target bootstrap lock; two rosters share      *)
(* nothing but PVE.  pveum writes travel over SSH: one may be refused, its *)
(* answer may be lost, and a killed one may still land later.  A run may   *)
(* be killed between any two steps.  Secrets are numbered in the order PVE *)
(* issued them; 0 is no token.                                             *)
(***************************************************************************)
EXTENDS Naturals, FiniteSets

CONSTANTS Holders,   \* rosters, each with its own lock
          Attempts,  \* postMintAttempts
          MaxMints,  \* bound on the secrets PVE issues
          MaxRuns,   \* bound on the bootstrap runs of one roster
          MaxLate    \* bound on the writes still in flight without a caller

ASSUME RotationAssumption ==
    /\ Attempts \in Nat \ {0}
    /\ MaxMints \in Nat \ {0}
    /\ MaxRuns \in Nat
    /\ MaxLate \in Nat

VARIABLES pve,       \* the secret PVE now accepts for the token, or 0
          issued,    \* how many secrets PVE has issued
          late,      \* pveum writes that may still land
          hold,      \* the secret in each roster's [targets.token], or 0
          other,     \* the roster holds a token of another id instead
          pc,        \* where each roster's run is
          run,       \* its run's number
          locals,    \* the run's own variables (runner, Result)
          origin,    \* history: which run each secret was issued to
          judged,    \* history: the held secret a verdict last condemned
          rejected,  \* history: secrets whose latest verdict in a roster's
                     \* mint or import checks was against them
          told,      \* history: secrets an operator knows to be in doubt
          crossed    \* history: a write was cut off by a signal or a lost
                     \* connection and not yet run, or one still in flight met
                     \* its roster's next run, or a run a person's own remove

vars == <<pve, issued, late, hold, other, pc, run, locals, origin, judged, rejected, told, crossed>>
history == <<origin, judged, rejected, told, crossed>>

Secrets == 1..MaxMints
Errors == {"none", "plain", "timeout"}

Phases == {"idle", "preflight", "classify", "remove", "rereadRemove", "clear", "add",
           "rereadAdd", "grant", "postMint", "persist", "removeFresh", "readFresh", "done"}

Outcomes == {"none", "minted", "replaced", "reused", "imported", "already_held", "discarded",
             "revoked_not_replaced"}

NoLocals ==
    [importing |-> FALSE, present |-> FALSE, err |-> "none", secret |-> 0, was |-> 0,
     saw |-> FALSE, attempt |-> 0, removed |-> FALSE, outcome |-> "none",
     leftover |-> "none", prior |-> "none", roster |-> "none", orphan |-> FALSE]

Init ==
    /\ issued = 1
    /\ pve \in {0, 1}
    /\ late = {}
    /\ hold \in [Holders -> {0, 1}]
    /\ other \in [Holders -> BOOLEAN]
    /\ \A r \in Holders : other[r] => hold[r] = 0
    /\ pc = [r \in Holders |-> "idle"]
    /\ run = [r \in Holders |-> 0]
    /\ locals = [r \in Holders |-> NoLocals]
    /\ origin = {}
    /\ judged = [r \in Holders |-> 0]
    /\ rejected = [r \in Holders |-> {}]
    /\ told = IF pve = 0 THEN {1} ELSE {}
    /\ crossed = FALSE

-----------------------------------------------------------------------------
(* PVE and the way to it                                                   *)

Goto(r, from, to) == pc[r] = from /\ pc' = [pc EXCEPT ![r] = to]
Set(r, new) == locals' = [locals EXCEPT ![r] = new]
Fresh(r) == {o.secret : o \in {x \in origin : x.by = r /\ x.run = run[r]}}

\* What the write does once it runs on the node.
Land(cmd, r, n) ==
    \/ /\ cmd = "remove"
       /\ pve # 0
       /\ pve' = 0
       /\ UNCHANGED <<issued, origin>>
    \/ /\ cmd = "add"
       /\ pve = 0
       /\ issued < MaxMints
       /\ issued' = issued + 1
       /\ pve' = issued + 1
       /\ origin' = origin \cup {[secret |-> issued + 1, by |-> r, run |-> n]}

NoEffect == UNCHANGED <<pve, issued, origin>>

\* SSHSession.Run of one pveum write: exit 0, a non-zero exit, or an error
\* that leaves the write done, not done, or still to land.
Pveum(r, cmd, result) ==
    \/ result = "ok" /\ Land(cmd, r, run[r]) /\ UNCHANGED <<late, crossed>>
    \/ result = "exit" /\ NoEffect /\ UNCHANGED <<late, crossed>>
    \/ /\ result \in {"plain", "timeout"}
       /\ \/ (Land(cmd, r, run[r]) \/ NoEffect) /\ UNCHANGED <<late, crossed>>
          \/ /\ NoEffect
             /\ Cardinality(late) < MaxLate
             /\ crossed' = (crossed \/ result = "plain")
             /\ late' = late \cup {[cmd |-> cmd, by |-> r, run |-> run[r]]}

\* A write that was given up on runs after all, or dies on the node.
LateWrite ==
    \E c \in late :
        /\ late' = late \ {c}
        /\ Land(c.cmd, c.by, c.run) \/ NoEffect
        /\ UNCHANGED <<hold, other, pc, run, locals, judged, rejected, told, crossed>>

\* Somebody removes the token with pveum, knowing what it does.
OperatorRemoves ==
    /\ pve # 0
    /\ pve' = 0
    /\ crossed' = (crossed \/ late # {} \/ \E r \in Holders : pc[r] # "idle")
    /\ told' = told \cup {pve}
    /\ UNCHANGED <<issued, late, hold, other, pc, run, locals, origin, judged, rejected>>

\* tokenPresent as readToken reports it: a read may also fail.
ReadsToken(seen) == seen = "unreadable" \/ seen = (IF pve = 0 THEN "absent" ELSE "present")

\* ValidateTokenGrants: PVE accepts only the live secret, but may refuse even
\* that one (a disabled owner, a proxy, lag after a mint).
Answers(s) ==
    {"notAuthorized", "plain"} \cup (IF s = pve THEN {"ok", "tooWide", "wrongScope"} ELSE {})

-----------------------------------------------------------------------------
(* A run up to its decision                                                *)

\* The run has its lock, its session and its pins.
Start(r) ==
    /\ Goto(r, "idle", "preflight")
    /\ run[r] < MaxRuns
    /\ crossed' = (crossed \/ \E c \in late : c.by = r)
    /\ run' = [run EXCEPT ![r] = @ + 1]
    /\ Set(r, [NoLocals EXCEPT !.was = hold[r]])
    /\ UNCHANGED <<pve, issued, late, hold, other, origin, judged, rejected, told>>

\* The run ends with an error and no result.
RefuseFrom(r, phase) ==
    /\ Goto(r, phase, "done")
    /\ UNCHANGED <<pve, issued, late, hold, other, run, locals, history>>

PreflightFails(r) == RefuseFrom(r, "preflight")

Preflight(r) ==
    /\ Goto(r, "preflight", "classify")
    /\ Set(r, [locals[r] EXCEPT !.present = (pve # 0)])
    /\ UNCHANGED <<pve, issued, late, hold, other, run, history>>

\* ErrTokenNotHeld.
NotHeld(r) == hold[r] = 0 /\ locals[r].present /\ RefuseFrom(r, "classify")

\* A first mint, or a mint under a changed --token-id.
ToMint(r) ==
    /\ Goto(r, "classify", "add")
    /\ hold[r] = 0
    /\ ~locals[r].present
    /\ UNCHANGED <<pve, issued, late, hold, other, run, locals, history>>

\* The held secret will not decrypt: ErrTokenUndecryptable while PVE lists
\* the token, else it is known dead.
Undecryptable(r) ==
    /\ hold[r] # 0
    /\ Goto(r, "classify", IF locals[r].present THEN "done" ELSE "clear")
    /\ UNCHANGED <<pve, issued, late, hold, other, run, locals, history>>

Reused(r) ==
    /\ Goto(r, "classify", "done")
    /\ hold[r] # 0
    /\ "ok" \in Answers(hold[r])
    /\ Set(r, [locals[r] EXCEPT !.outcome = "reused"])
    /\ UNCHANGED <<pve, issued, late, hold, other, run, history>>

\* The held token could not be checked, or PVE rejected the secret of a
\* token it lists (ErrTokenSecretRejected): neither is a verdict.
NoVerdict(r) ==
    /\ hold[r] # 0
    /\ \/ "plain" \in Answers(hold[r])
       \/ locals[r].present /\ "notAuthorized" \in Answers(hold[r])
    /\ RefuseFrom(r, "classify")

\* Fault: a rejected secret is taken for a verdict about the token.
CondemnRejected(r) ==
    /\ hold[r] # 0
    /\ \E v \in Answers(hold[r]) \ {"ok", "plain"} :
          judged' = IF v = "notAuthorized" THEN judged ELSE [judged EXCEPT ![r] = hold[r]]
    /\ Goto(r, "classify", IF locals[r].present THEN "remove" ELSE "clear")
    /\ UNCHANGED <<pve, issued, late, hold, other, run, locals, origin, rejected, told, crossed>>

\* A verdict about the held token, or a rejected secret of a token PVE no
\* longer lists: it is replaced.
Condemn(r) ==
    /\ hold[r] # 0
    /\ \/ /\ Answers(hold[r]) \cap {"tooWide", "wrongScope"} # {}
          /\ judged' = [judged EXCEPT ![r] = hold[r]]
       \/ ~locals[r].present /\ "notAuthorized" \in Answers(hold[r]) /\ UNCHANGED judged
    /\ Goto(r, "classify", IF locals[r].present THEN "remove" ELSE "clear")
    /\ UNCHANGED <<pve, issued, late, hold, other, run, locals, origin, rejected, told, crossed>>

-----------------------------------------------------------------------------
(* Ends of a run                                                           *)

\* runner.fail: what the run claims of the token.
Failed(l) == [l EXCEPT !.outcome = IF l.removed THEN "revoked_not_replaced" ELSE "discarded"]

FailWith(r, from, new) ==
    /\ Goto(r, from, "done")
    /\ Set(r, Failed(new))

Removed(l) == [l EXCEPT !.removed = TRUE, !.prior = "revoked"]

-----------------------------------------------------------------------------
(* Removing the held token                                                 *)

RemoveHeld(r, result) ==
    /\ Pveum(r, "remove", result)
    /\ \/ result = "ok" /\ Goto(r, "remove", "clear") /\ Set(r, Removed(locals[r]))
       \/ result = "exit" /\ Goto(r, "remove", "done") /\ UNCHANGED locals
       \/ /\ result \in {"plain", "timeout"}
          /\ Goto(r, "remove", "rereadRemove")
          /\ Set(r, [locals[r] EXCEPT !.err = result])
    /\ UNCHANGED <<hold, other, run, judged, rejected, told>>

\* priorUnknown: the roster is cleared whether or not the token died.
PriorUnknown(r, cleared) ==
    /\ hold' = IF cleared THEN [hold EXCEPT ![r] = 0] ELSE hold
    /\ FailWith(r, "rereadRemove",
          [locals[r] EXCEPT !.removed = TRUE, !.prior = "unknown",
                            !.roster = IF cleared THEN "cleared" ELSE "stale"])

\* Fault: a token still listed after a timed-out remove counts as kept.
RereadRemoveTrustsPresent(r) ==
    /\ \E seen \in {"absent", "present", "unreadable"} :
        /\ ReadsToken(seen)
        /\ \/ /\ seen = "absent"
              /\ Goto(r, "rereadRemove", "clear")
              /\ Set(r, Removed(locals[r]))
              /\ UNCHANGED hold
           \/ /\ seen = "present"
              /\ Goto(r, "rereadRemove", "done")
              /\ UNCHANGED <<hold, locals>>
           \/ /\ seen = "unreadable"
              /\ \E cleared \in BOOLEAN : PriorUnknown(r, cleared)
    /\ UNCHANGED <<pve, issued, late, other, run, history>>

\* Fault: an ambiguous remove counts as done.
RereadRemoveAssumesDone(r) ==
    /\ Goto(r, "rereadRemove", "clear")
    /\ Set(r, Removed(locals[r]))
    /\ UNCHANGED <<pve, issued, late, hold, other, run, history>>

\* After an ambiguous remove the list decides, except that "present" after a
\* timeout decides nothing.
RereadRemove(r) ==
    /\ \E seen \in {"absent", "present", "unreadable"} :
        /\ ReadsToken(seen)
        /\ \/ /\ seen = "absent"
              /\ Goto(r, "rereadRemove", "clear")
              /\ Set(r, Removed(locals[r]))
              /\ UNCHANGED hold
           \/ /\ seen = "present" /\ locals[r].err = "plain"
              /\ Goto(r, "rereadRemove", "done")
              /\ UNCHANGED <<hold, locals>>
           \/ /\ seen = "unreadable" \/ (seen = "present" /\ locals[r].err = "timeout")
              /\ \E cleared \in BOOLEAN : PriorUnknown(r, cleared)
    /\ UNCHANGED <<pve, issued, late, other, run, history>>

\* Fault: the roster still names the removed token when the add goes out.
ClearPostponed(r) ==
    /\ Goto(r, "clear", "add")
    /\ Set(r, [locals[r] EXCEPT !.roster = "cleared"])
    /\ UNCHANGED <<pve, issued, late, hold, other, run, history>>

\* roster.ClearTokenAuth, before the add.
Clear(r) ==
    /\ Goto(r, "clear", "add")
    /\ hold' = [hold EXCEPT ![r] = 0]
    /\ Set(r, [locals[r] EXCEPT !.roster = "cleared"])
    /\ UNCHANGED <<pve, issued, late, other, run, history>>

ClearFails(r) ==
    /\ FailWith(r, "clear", [locals[r] EXCEPT !.roster = "stale"])
    /\ UNCHANGED <<pve, issued, late, hold, other, run, history>>

-----------------------------------------------------------------------------
(* mintAndPersist                                                          *)

\* Exit 0 may still yield no secret: parseTokenSecret fails.
Add(r, result, parsed) ==
    /\ Pveum(r, "add", result)
    /\ \/ /\ result = "ok" /\ parsed
          /\ Goto(r, "add", "grant")
          /\ Set(r, [locals[r] EXCEPT !.secret = pve'])
       \/ /\ result = "ok" /\ ~parsed
          /\ Goto(r, "add", "removeFresh")
          /\ UNCHANGED locals
       \/ result = "exit" /\ FailWith(r, "add", locals[r])
       \/ /\ result \in {"plain", "timeout"}
          /\ Goto(r, "add", "rereadAdd")
          /\ Set(r, [locals[r] EXCEPT !.err = result])
    /\ UNCHANGED <<hold, other, run, judged, rejected, told>>

\* Fault: a token absent after a timed-out add counts as never created.
RereadAddTrustsAbsent(r) ==
    /\ \E seen \in {"absent", "present", "unreadable"} :
        /\ ReadsToken(seen)
        /\ \/ seen = "present" /\ Goto(r, "rereadAdd", "removeFresh") /\ UNCHANGED locals
           \/ /\ seen = "unreadable"
              /\ FailWith(r, "rereadAdd", [locals[r] EXCEPT !.leftover = "may_exist"])
           \/ seen = "absent" /\ FailWith(r, "rereadAdd", locals[r])
    /\ UNCHANGED <<pve, issued, late, hold, other, run, history>>

\* After an ambiguous add the list decides, except that "absent" after a
\* timeout decides nothing.  A token that is there is taken for the run's own.
RereadAdd(r) ==
    /\ \E seen \in {"absent", "present", "unreadable"} :
        /\ ReadsToken(seen)
        /\ \/ seen = "present" /\ Goto(r, "rereadAdd", "removeFresh") /\ UNCHANGED locals
           \/ /\ seen = "unreadable" \/ (seen = "absent" /\ locals[r].err = "timeout")
              /\ FailWith(r, "rereadAdd", [locals[r] EXCEPT !.leftover = "may_exist"])
           \/ /\ seen = "absent" /\ locals[r].err = "plain"
              /\ FailWith(r, "rereadAdd", locals[r])
    /\ UNCHANGED <<pve, issued, late, hold, other, run, history>>

\* grantAll: every ACL, or the token is dropped.
GrantAll(r) ==
    /\ \/ Goto(r, "grant", "postMint") /\ Set(r, [locals[r] EXCEPT !.attempt = 1])
       \/ Goto(r, "grant", "removeFresh") /\ UNCHANGED locals
    /\ UNCHANGED <<pve, issued, late, hold, other, run, history>>

\* A token that failed its check: the run drops it, an import forgets it.
Drop(r) == IF locals[r].importing THEN "done" ELSE "removeFresh"

LastAttempt(r) == locals[r].attempt = Attempts

\* Fault: the next attempt does not know of the verdict.
RetryForgets(r) == Set(r, [locals[r] EXCEPT !.attempt = @ + 1])

\* Fault: attempts are not counted.
RetryUncounted(r) == Set(r, [locals[r] EXCEPT !.saw = TRUE])

\* Another attempt after postMintRetryDelay, remembering the verdict.
Retry(r) == Set(r, [locals[r] EXCEPT !.saw = TRUE, !.attempt = @ + 1])

\* One attempt of validatePostMint.  A verdict that may be lag is retried; a
\* plain error ends the check only when no verdict came before it, and then
\* a mint is kept unverified and an import is not made.
PostMint(r, v) ==
    /\ v \in Answers(locals[r].secret)
    /\ \/ v = "ok" /\ Goto(r, "postMint", "persist") /\ UNCHANGED locals
       \/ v = "tooWide" /\ Goto(r, "postMint", Drop(r)) /\ UNCHANGED locals
       \/ /\ v = "plain" /\ ~locals[r].saw
          /\ Goto(r, "postMint", IF locals[r].importing THEN "done" ELSE "persist")
          /\ UNCHANGED locals
       \/ /\ v \in {"notAuthorized", "wrongScope"} \/ (v = "plain" /\ locals[r].saw)
          /\ \/ LastAttempt(r) /\ Goto(r, "postMint", Drop(r)) /\ UNCHANGED locals
             \/ /\ ~LastAttempt(r)
                /\ Goto(r, "postMint", "postMint")
                /\ Retry(r)
    /\ rejected' = [rejected EXCEPT ![r] =
                       IF v = "ok" THEN @ \ {locals[r].secret}
                       ELSE IF v = "plain" THEN @
                       ELSE @ \cup {locals[r].secret}]
    /\ UNCHANGED <<pve, issued, late, hold, other, run, origin, judged, told, crossed>>

\* A signal during the wait between two attempts: the verdict stands.
PostMintCancelled(r) ==
    /\ Goto(r, "postMint", Drop(r))
    /\ locals[r].attempt > 1
    /\ UNCHANGED <<pve, issued, late, hold, other, run, locals, history>>

\* roster.WriteTokenAuth.
Persist(r) ==
    /\ Goto(r, "persist", "done")
    /\ hold' = [hold EXCEPT ![r] = locals[r].secret]
    /\ other' = [other EXCEPT ![r] = FALSE]
    /\ Set(r, [locals[r] EXCEPT
                 !.orphan = other[r],
                 !.outcome = IF locals[r].importing
                             THEN IF locals[r].secret = hold[r] THEN "already_held" ELSE "imported"
                             ELSE IF locals[r].was # 0 THEN "replaced" ELSE "minted"])
    /\ UNCHANGED <<pve, issued, late, run, history>>

PersistFails(r) ==
    /\ Goto(r, "persist", Drop(r))
    /\ UNCHANGED <<pve, issued, late, hold, other, run, locals, history>>

-----------------------------------------------------------------------------
(* removeFresh: dropping the token the run created                         *)

RemoveFresh(r, result) ==
    /\ Pveum(r, "remove", result)
    /\ \/ result = "ok" /\ FailWith(r, "removeFresh", locals[r])
       \/ /\ result # "ok"
          /\ Goto(r, "removeFresh", "readFresh")
          /\ Set(r, [locals[r] EXCEPT !.err = IF result = "exit" THEN "none" ELSE result])
    /\ UNCHANGED <<hold, other, run, judged, rejected, told>>

\* Not proven gone: it is reported as left behind, as sure as the read was.
ReadFresh(r) ==
    /\ \E seen \in {"absent", "present", "unreadable"} :
        /\ ReadsToken(seen)
        /\ FailWith(r, "readFresh",
              [locals[r] EXCEPT
                 !.leftover = IF seen = "absent" THEN "none"
                              ELSE IF seen = "unreadable" \/ locals[r].err = "timeout"
                                   THEN "may_exist" ELSE "exists"])
    /\ UNCHANGED <<pve, issued, late, hold, other, run, history>>

-----------------------------------------------------------------------------
(* Import, the end of a run, and crashes                                   *)

\* The secrets somebody can import: the one minted by hand, and those read
\* back from a roster.
Importable == {1} \cup ({hold[q] : q \in Holders} \ {0})

\* Import: a secret minted elsewhere, checked like a fresh one and written.
\* A held token that will not decrypt, or another one without --replace, is
\* refused before this.
Import(r, s, replace) ==
    /\ Goto(r, "idle", "postMint")
    /\ replace \/ (hold[r] \in {0, s} /\ ~other[r])
    /\ Set(r, [NoLocals EXCEPT !.importing = TRUE, !.secret = s, !.was = hold[r], !.attempt = 1])
    /\ UNCHANGED <<pve, issued, late, hold, other, run, history>>

\* What the report puts in doubt: the previous token, or the fresh one.
InDoubt(r) ==
    (IF locals[r].prior # "none" \/ locals[r].roster = "stale" THEN {locals[r].was} ELSE {})
    \cup (IF locals[r].leftover # "none" THEN Fresh(r) ELSE {})

\* The report is printed and the lock released.
Finish(r) ==
    /\ Goto(r, "done", "idle")
    /\ told' = told \cup InDoubt(r)
    /\ Set(r, NoLocals)
    /\ UNCHANGED <<pve, issued, late, hold, other, run, origin, judged, rejected, crossed>>

\* The process is killed: no report.  What its roster holds is in doubt only
\* where a remove of it is under way or done, and the roster not yet cleared.
Crash(r) ==
    /\ pc[r] \notin {"idle", "done"}
    /\ pc' = [pc EXCEPT ![r] = "idle"]
    /\ told' = told \cup (IF pc[r] \in {"rereadRemove", "clear"} THEN {hold[r]} ELSE {})
    /\ Set(r, NoLocals)
    /\ UNCHANGED <<pve, issued, late, hold, other, run, origin, judged, rejected, crossed>>

Results == {"ok", "exit", "plain", "timeout"}

\* The steps a run takes by itself.
RunStep(r) ==
    \/ PreflightFails(r) \/ Preflight(r)
    \/ NotHeld(r) \/ ToMint(r) \/ Undecryptable(r) \/ Reused(r) \/ NoVerdict(r) \/ Condemn(r)
    \/ \E result \in Results : pc[r] = "remove" /\ RemoveHeld(r, result)
    \/ RereadRemove(r) \/ Clear(r) \/ ClearFails(r)
    \/ \E result \in Results, parsed \in BOOLEAN : pc[r] = "add" /\ Add(r, result, parsed)
    \/ RereadAdd(r) \/ GrantAll(r)
    \/ \E v \in {"ok", "tooWide", "wrongScope", "notAuthorized", "plain"} : PostMint(r, v)
    \/ PostMintCancelled(r) \/ Persist(r) \/ PersistFails(r)
    \/ \E result \in Results : pc[r] = "removeFresh" /\ RemoveFresh(r, result)
    \/ ReadFresh(r) \/ Finish(r)

Next ==
    \/ \E r \in Holders :
          \/ Start(r)
          \/ \E s \in Importable, replace \in BOOLEAN : Import(r, s, replace)
          \/ RunStep(r)
          \/ Crash(r)
    \/ LateWrite
    \/ OperatorRemoves

Spec == Init /\ [][Next]_vars

\* A run that is not killed goes on: every SSH command, API call and roster
\* write has a bound of its own.
FairSpec == Spec /\ \A r \in Holders : WF_vars(RunStep(r))

-----------------------------------------------------------------------------
(* Properties                                                              *)

Locals ==
    [importing : BOOLEAN, present : BOOLEAN, err : Errors, secret : 0..MaxMints,
     was : 0..MaxMints, saw : BOOLEAN, attempt : 0..Attempts, removed : BOOLEAN,
     outcome : Outcomes, leftover : {"none", "exists", "may_exist"},
     prior : {"none", "revoked", "unknown"}, roster : {"none", "cleared", "stale"},
     orphan : BOOLEAN]

\* Types; a run makes at most Attempts checks of a fresh secret.
TypeOK ==
    /\ pve \in 0..MaxMints
    /\ issued \in 1..MaxMints
    /\ late \in SUBSET [cmd : {"add", "remove"}, by : Holders, run : 1..MaxRuns]
    /\ hold \in [Holders -> 0..MaxMints]
    /\ other \in [Holders -> BOOLEAN]
    /\ pc \in [Holders -> Phases]
    /\ run \in [Holders -> 0..MaxRuns]
    /\ locals \in [Holders -> Locals]
    /\ origin \in SUBSET [secret : Secrets, by : Holders, run : 1..MaxRuns]
    /\ judged \in [Holders -> 0..MaxMints]
    /\ rejected \in [Holders -> SUBSET Secrets]
    /\ told \in SUBSET (0..MaxMints)
    /\ crossed \in BOOLEAN

PendingAdd(r) == [cmd |-> "add", by |-> r, run |-> run[r]] \in late

\* "LeftoverToken is the id of a token this run created but could not prove
\* removed": whenever a run ends, a token it created that is live on PVE, or
\* may still appear there, is in its roster or in its report.  (A run trusts
\* what it reads after an error other than a timeout, and that no earlier
\* write is still under way: hence ~crossed, here and below.)
LeftoverReported ==
    ~crossed => \A r \in Holders :
        pc[r] = "done" /\ ~locals[r].importing
            /\ (pve \in Fresh(r) \/ PendingAdd(r)) /\ hold[r] \notin Fresh(r)
        => locals[r].leftover # "none"

\* A roster points at a secret that PVE no longer accepts only if a report or
\* a person's own remove said so, or a run was killed between the remove of
\* that secret and the clear of the roster: no run ends, none is killed at any
\* other step, and no write that was abandoned lands, leaving a dead credential
\* in a roster unannounced (the clear comes before the add for that reason).
NoSilentDangling ==
    ~crossed => \A r \in Holders :
        pc[r] \in {"idle", "done"} /\ hold[r] \notin {0, pve}
        => hold[r] \in told \cup (IF pc[r] = "done" THEN InDoubt(r) ELSE {})

\* "Only a verdict may lead to removing a token this roster holds", and one
\* it does not hold "is never removed: it may be in use by another roster":
\* a run, or a write it left behind, kills a token that some roster holds
\* only after PVE accepted that very secret and found its grants wrong.
HeldTokensSafe ==
    [][(~crossed /\ pve # 0 /\ pve' = 0 /\ (pc' # pc \/ late' # late)
            /\ \E r \in Holders : hold[r] = pve)
         => \E r \in Holders : judged[r] = pve]_vars

\* "A secret PVE rejected once is never persisted because a later attempt
\* merely failed to connect."
RejectedNotPersisted ==
    [][\A r \in Holders :
          hold'[r] \notin {0, hold[r]} => hold'[r] \notin rejected[r]]_vars

\* What the run of r reports of the previous token is so.
Honest(r) ==
    pc[r] = "done" /\ ~locals[r].importing /\ locals[r].was # 0
        /\ locals[r].outcome \notin {"none", "reused"} /\ locals[r].prior # "unknown"
    => locals[r].was # pve

\* The outcome tells the truth about the previous token: when a run reports
\* it replaced, revoked, or merely gone, PVE accepts that secret no more,
\* unless the report itself says the remove's outcome is unknown.
HonestOutcome == \A r \in Holders : Honest(r)

\* Every run that is not killed comes to its report and releases the lock.
RunEnds == \A r \in Holders : (pc[r] # "idle") ~> (pc[r] = "idle")

-----------------------------------------------------------------------------
(* What the properties rest on, step by step                               *)

\* The run works on a token it has minted, or mints one.
Minting(r) ==
    \/ pc[r] \in {"add", "rereadAdd", "grant", "removeFresh", "readFresh"}
    \/ pc[r] \in {"postMint", "persist"} /\ ~locals[r].importing

\* What a run has found, and has left in its roster, where it is.
Control(r) ==
    /\ pc[r] \in Phases \ {"idle", "postMint", "persist", "done"} => ~locals[r].importing
    /\ pc[r] \notin {"idle", "done"} /\ ~locals[r].importing => run[r] # 0
    /\ pc[r] \in {"preflight", "classify", "remove", "rereadRemove", "clear"} =>
          locals[r].was = hold[r] /\ locals[r].outcome = "none"
    /\ pc[r] \in {"remove", "rereadRemove", "clear"} => hold[r] # 0
    /\ Minting(r) => hold[r] = 0
    /\ pc[r] \in {"grant", "postMint", "persist"} => locals[r].secret # 0
    /\ pc[r] = "postMint" => locals[r].attempt # 0
    /\ pc[r] \in {"rereadRemove", "rereadAdd"} => locals[r].err # "none"
    /\ locals[r].importing => pc[r] \in {"postMint", "persist", "done"}
    /\ locals[r].importing \/ pc[r] \in {"preflight", "classify"} =>
          locals[r].prior = "none" /\ locals[r].roster = "none" /\ locals[r].leftover = "none"
    /\ pc[r] = "idle" => locals[r] = NoLocals

\* No secret is known that PVE has not issued.
Issued(r) ==
    /\ pve <= issued /\ hold[r] <= issued
    /\ locals[r].was <= issued /\ locals[r].secret <= issued
    /\ \A s \in rejected[r] : s <= issued

\* Once a run replaces the token it found held, PVE accepts that one no more.
Replaced(r) ==
    Minting(r) \/ pc[r] = "clear" \/ (pc[r] = "classify" /\ ~locals[r].present)
    => locals[r].was = 0 \/ locals[r].was # pve

\* A secret about to be stored has no verdict against it, nor one just minted
\* until the first verdict.
Unrejected(r) ==
    /\ pc[r] \in {"grant", "postMint"} /\ ~locals[r].importing /\ ~locals[r].saw
          => locals[r].secret \notin rejected[r]
    /\ pc[r] = "persist" => locals[r].secret \notin rejected[r]

\* Every secret PVE has issued since, and every write that was given up on, is of
\* a run there has been.
Traced ==
    /\ \A o \in origin : o.secret > 1 /\ o.secret <= issued /\ o.run <= run[o.by]
    /\ \A c \in late : c.run <= run[c.by]

Pending(r, cmd) == [cmd |-> cmd, by |-> r, run |-> run[r]]

\* The writes a lone roster's runs may have left in flight: none unless a request
\* has timed out.
Flight(r) ==
    /\ late \subseteq {Pending(r, "add"), Pending(r, "remove")}
    /\ Pending(r, "add") \in late => pve = 0
    /\ Pending(r, "remove") \in late => pve # 0
    /\ late # {} => \/ pc[r] \in {"idle", "done"} \/ locals[r].importing
                    \/ pc[r] \in {"rereadRemove", "rereadAdd", "readFresh"} /\ locals[r].err = "timeout"
    /\ pc[r] \in {"rereadRemove", "readFresh"} => Pending(r, "add") \notin late
    /\ pc[r] = "rereadAdd" => Pending(r, "remove") \notin late

\* Which secret PVE accepts, as a lone roster's run knows it.
Accepted(r) ==
    /\ pc[r] \in {"preflight", "classify", "remove", "rereadRemove", "clear", "add"} => Fresh(r) = {}
    /\ pc[r] = "classify" => (locals[r].present <=> pve # 0)
    /\ pc[r] = "remove" => pve = hold[r]
    /\ pc[r] = "rereadRemove" => pve \in {0, hold[r]}
    /\ pc[r] \in {"remove", "rereadRemove"} => judged[r] = hold[r]
    /\ pc[r] \in {"clear", "add"} => pve = 0
    /\ pc[r] \in {"rereadAdd", "readFresh"} => pve \in {0} \cup Fresh(r)
    /\ pc[r] = "removeFresh" => pve \in Fresh(r)
    /\ Minting(r) /\ pc[r] \in {"grant", "postMint", "persist"} =>
          pve = locals[r].secret /\ pve \in Fresh(r)

\* What is said of the secret s, or will be when the run reports.
Known(r, s) == s \in told \cup InDoubt(r)

\* A remove in flight between runs is of a secret that was condemned and is known of,
\* or that nobody has; a dead secret in the roster, or about to be stored, is known of.
Announced(r) ==
    /\ (pc[r] \in {"idle", "done"} \/ locals[r].importing) /\ Pending(r, "remove") \in late =>
          \/ judged[r] = pve /\ Known(r, pve)
          \/ pve \notin {1, hold[r]} /\ (locals[r].importing => locals[r].secret # pve)
    /\ pc[r] \in {"idle", "preflight", "classify", "done"} \/ locals[r].importing =>
          hold[r] \in {0, pve} \/ Known(r, hold[r])
    /\ pc[r] = "persist" /\ locals[r].importing =>
          locals[r].secret = pve \/ Known(r, locals[r].secret)

\* What a bootstrap run leaves and says, together: outcomes that are true,
\* leftovers that are named, and no roster with a dead secret unannounced; with what
\* is true at every step before, for every roster and, where no write has crossed
\* another, for a token that one roster holds.
RotationInv ==
    /\ TypeOK /\ HonestOutcome /\ LeftoverReported /\ NoSilentDangling
    /\ Traced
    /\ \A r \in Holders : Control(r) /\ Issued(r) /\ Replaced(r) /\ Unrejected(r)
    /\ ~crossed => \A r \in Holders : Flight(r) /\ Accepted(r) /\ Announced(r)
=============================================================================
