----------------------------- MODULE ObjectLock -----------------------------
(***************************************************************************)
(* internal/lock: the per-object lock of one ObjectKey, built from two OS  *)
(* advisory file locks.  "queue" is <key>.queue.lock, the turnstile, only  *)
(* ever taken exclusively; "excl" and "shared" are the kernel's view of    *)
(* <key>.resource.lock.  Mutation holds the turnstile while it waits for   *)
(* the resource; Read only passes through it.  Every blocked acquisition   *)
(* is a poll loop (flock.TryLockContext) with one deadline over both of    *)
(* its phases, and the kernel drops a dead process's locks.                *)
(***************************************************************************)
EXTENDS Naturals

CONSTANTS Procs,     \* pveforge processes using this key
          NoProc,    \* "nobody"
          WaitBound  \* failed polls that fit in the lock-wait bound (WithWait)

ASSUME LockAssumption == NoProc \notin Procs /\ WaitBound \in Nat

VARIABLES phase,   \* where each process is in Mutation or Read
          kind,    \* which of the two it called
          budget,  \* failed polls left before the one shared deadline
          waited,  \* history: failed polls of this call, up to one too many
          queue,   \* holder of the turnstile, or NoProc
          excl,    \* exclusive holder of the resource lock, or NoProc
          shared   \* shared holders of the resource lock

lockVars == <<phase, kind, budget, waited, queue, excl, shared>>

CallKinds == {"mutation", "read"}
LockPhases == {"idle", "wantQueue", "dropQueue", "wantResource", "held", "failed"}

LockInit ==
    /\ phase = [p \in Procs |-> "idle"]
    /\ kind = [p \in Procs |-> "read"]
    /\ budget = [p \in Procs |-> 0]
    /\ waited = [p \in Procs |-> 0]
    /\ queue = NoProc
    /\ excl = NoProc
    /\ shared = {}

At(p, k, ph) == kind[p] = k /\ phase[p] = ph
GotoPhase(p, ph) == phase' = [phase EXCEPT ![p] = ph]

\* lock.Mutation or lock.Read is called: the deadline starts here, once.
Begin(p, k) ==
    /\ phase[p] = "idle"
    /\ GotoPhase(p, "wantQueue")
    /\ kind' = [kind EXCEPT ![p] = k]
    /\ budget' = [budget EXCEPT ![p] = WaitBound]
    /\ waited' = [waited EXCEPT ![p] = 0]
    /\ UNCHANGED <<queue, excl, shared>>

\* Fault: a read goes for the resource without passing the turnstile.
TakeQueueReadSkips(p) ==
    /\ phase[p] = "wantQueue"
    /\ kind[p] = "mutation" => queue = NoProc
    /\ queue' = IF kind[p] = "mutation" THEN p ELSE queue
    /\ GotoPhase(p, "wantResource")
    /\ UNCHANGED <<kind, budget, waited, excl, shared>>

\* Fault: the wait for the resource has a deadline of its own.
TakeQueueRestartsBound(p) ==
    /\ phase[p] = "wantQueue"
    /\ queue = NoProc
    /\ queue' = p
    /\ budget' = [budget EXCEPT ![p] = WaitBound]
    /\ GotoPhase(p, IF kind[p] = "mutation" THEN "wantResource" ELSE "dropQueue")
    /\ UNCHANGED <<kind, waited, excl, shared>>

\* A poll that finds the turnstile free takes it.
TakeQueue(p) ==
    /\ phase[p] = "wantQueue"
    /\ queue = NoProc
    /\ queue' = p
    /\ GotoPhase(p, IF kind[p] = "mutation" THEN "wantResource" ELSE "dropQueue")
    /\ UNCHANGED <<kind, budget, waited, excl, shared>>

\* serviceQueue.Unlock: a read before it waits for the resource, a mutation
\* once it has it.
DropQueue(p) ==
    /\ phase[p] = "dropQueue"
    /\ queue' = NoProc
    /\ GotoPhase(p, IF kind[p] = "mutation" THEN "held" ELSE "wantResource")
    /\ UNCHANGED <<kind, budget, waited, excl, shared>>

\* serviceQueue.Unlock failed: Mutation lets go of the resource, or fails in
\* that too, and returns an error, Read just returns it; what could not be
\* unlocked stays with the process until it exits.
DropQueueFails(p) ==
    /\ phase[p] = "dropQueue"
    /\ GotoPhase(p, "failed")
    /\ excl' \in {excl, IF excl = p THEN NoProc ELSE excl}
    /\ UNCHANGED <<kind, budget, waited, queue, shared>>

\* Fault: reads in progress do not block a mutation.
TakeExclusiveAmongReads(p) ==
    /\ At(p, "mutation", "wantResource")
    /\ excl = NoProc
    /\ excl' = p
    /\ GotoPhase(p, "dropQueue")
    /\ UNCHANGED <<kind, budget, waited, queue, shared>>

\* flock(LOCK_EX) on the resource: nobody holds it in any mode.
TakeExclusive(p) ==
    /\ At(p, "mutation", "wantResource")
    /\ excl = NoProc
    /\ shared = {}
    /\ excl' = p
    /\ GotoPhase(p, "dropQueue")
    /\ UNCHANGED <<kind, budget, waited, queue, shared>>

\* Fault: a mutation in progress does not block a read.
TakeSharedBesideMutation(p) ==
    /\ At(p, "read", "wantResource")
    /\ shared' = shared \cup {p}
    /\ GotoPhase(p, "held")
    /\ UNCHANGED <<kind, budget, waited, queue, excl>>

\* flock(LOCK_SH) on the resource: nobody holds it exclusively.
TakeShared(p) ==
    /\ At(p, "read", "wantResource")
    /\ excl = NoProc
    /\ shared' = shared \cup {p}
    /\ GotoPhase(p, "held")
    /\ UNCHANGED <<kind, budget, waited, queue, excl>>

Blocked(p) ==
    \/ phase[p] = "wantQueue" /\ queue # NoProc
    \/ At(p, "read", "wantResource") /\ excl # NoProc
    \/ At(p, "mutation", "wantResource") /\ (excl # NoProc \/ shared # {})

PollCounted(p) ==
    waited' = [waited EXCEPT ![p] = IF @ > WaitBound THEN @ ELSE @ + 1]

\* Fault: every poll starts a deadline of its own.
PollFailsRestartsBound(p) ==
    /\ Blocked(p)
    /\ budget[p] > 0
    /\ budget' = [budget EXCEPT ![p] = WaitBound]
    /\ PollCounted(p)
    /\ UNCHANGED <<phase, kind, queue, excl, shared>>

\* A poll that fails before the deadline waits for the next one.
PollFails(p) ==
    /\ Blocked(p)
    /\ budget[p] > 0
    /\ budget' = [budget EXCEPT ![p] = @ - 1]
    /\ PollCounted(p)
    /\ UNCHANGED <<phase, kind, queue, excl, shared>>

\* Fault: a mutation that gives up waiting for the resource keeps the
\* turnstile.
GiveUpKeepsQueue(p) ==
    /\ phase[p] \in {"wantQueue", "wantResource"}
    /\ GotoPhase(p, "idle")
    /\ UNCHANGED <<kind, budget, waited, queue, excl, shared>>

\* The caller stops waiting: a mutation in its second phase gives the
\* turnstile back before it returns the error.  That unlock's own error is
\* ignored: the turnstile then stays with the process until it exits.
GiveUp(p) ==
    /\ phase[p] \in {"wantQueue", "wantResource"}
    /\ \/ queue' = (IF queue = p THEN NoProc ELSE queue) /\ GotoPhase(p, "idle")
       \/ queue = p /\ UNCHANGED queue /\ GotoPhase(p, "failed")
    /\ UNCHANGED <<kind, budget, waited, excl, shared>>

\* ErrLockWaitTimeout: the bound ran out.
TimeOut(p) == Blocked(p) /\ budget[p] = 0 /\ GiveUp(p)

\* ErrLockWaitInterrupted, or the caller's own deadline or cancel.
Interrupt(p) == GiveUp(p)

\* The unlock that Mutation or Read returned.  One that fails changes
\* nothing: the lock goes with the process.
Unlock(p) ==
    /\ phase[p] = "held"
    /\ excl' = IF excl = p THEN NoProc ELSE excl
    /\ shared' = shared \ {p}
    /\ GotoPhase(p, "idle")
    /\ UNCHANGED <<kind, budget, waited, queue>>

\* The process exits or dies, wherever it is: the kernel closes its
\* descriptors and releases every lock on them.
Exit(p) ==
    /\ phase[p] # "idle"
    /\ queue' = IF queue = p THEN NoProc ELSE queue
    /\ excl' = IF excl = p THEN NoProc ELSE excl
    /\ shared' = shared \ {p}
    /\ GotoPhase(p, "idle")
    /\ UNCHANGED <<kind, budget, waited>>

\* The steps a caller's own poll loop takes, in the order the code takes them.
Advance(p) ==
    \/ TakeQueue(p) \/ DropQueue(p) \/ TakeExclusive(p) \/ TakeShared(p)

LockStep(p) ==
    \/ \E k \in CallKinds : Begin(p, k)
    \/ Advance(p)
    \/ DropQueueFails(p)
    \/ PollFails(p)
    \/ TimeOut(p)
    \/ Interrupt(p)
    \/ Unlock(p)
    \/ Exit(p)

LockNext == \E p \in Procs : LockStep(p)

LockSpec == LockInit /\ [][LockNext]_lockVars

\* A poll loop keeps polling: the goroutine that called Mutation or Read is
\* never stopped short of an answer.  Nothing is assumed of lock holders.
PollFairness ==
    \A p \in Procs : WF_lockVars(Advance(p) \/ PollFails(p) \/ TimeOut(p))

BoundedSpec == LockSpec /\ PollFairness

-----------------------------------------------------------------------------
(* Properties                                                              *)

\* Every variable has its type.
LockTypeOK ==
    /\ phase \in [Procs -> LockPhases]
    /\ kind \in [Procs -> CallKinds]
    /\ budget \in [Procs -> 0..WaitBound]
    /\ waited \in [Procs -> 0..(WaitBound + 1)]
    /\ queue \in Procs \cup {NoProc}
    /\ excl \in Procs \cup {NoProc}
    /\ shared \in SUBSET Procs

Holding(p) == phase[p] = "held"

\* A mutation is alone with the object, whatever timed out, was interrupted
\* or died before it: nobody else is between Mutation's or Read's return and
\* its unlock.
Exclusion ==
    \A p, q \in Procs :
        At(p, "mutation", "held") /\ Holding(q) => p = q

\* The process that holds each file lock is exactly where the code holds it,
\* so no give-up, failed unlock or crash leaves a lock behind that nobody
\* will release.
NoStrayLocks ==
    /\ queue # NoProc =>
          \/ phase[queue] \in {"dropQueue", "failed"}
          \/ At(queue, "mutation", "wantResource")
    /\ excl # NoProc =>
          kind[excl] = "mutation" /\ phase[excl] \in {"dropQueue", "held", "failed"}
    /\ \A p \in shared : At(p, "read", "held")

\* The inductive invariant: besides the above, every process past a step
\* still holds what that step took.
LocksHeld ==
    /\ \A p \in Procs :
          At(p, "mutation", "wantResource") \/ phase[p] = "dropQueue" => queue = p
    /\ \A p \in Procs :
          kind[p] = "mutation" /\ phase[p] \in {"dropQueue", "held"} => excl = p
    /\ \A p \in Procs : At(p, "read", "held") => p \in shared
    /\ excl # NoProc => shared = {}

\* Both phases of one call share one deadline: the failed polls behind it and
\* those before it together never exceed what it was given at the start.
OneDeadline == \A p \in Procs : waited[p] + budget[p] <= WaitBound

\* File locks and callers agree: whoever holds a file lock is at the step that
\* holds it, and whoever is at such a step holds it still, whatever timed out,
\* failed to unlock or died; and no call waits longer than it was told to.
LockInv == LockTypeOK /\ NoStrayLocks /\ LocksHeld /\ OneDeadline

PastTurnstile == {p \in Procs : kind[p] = "read" /\ phase[p] \in {"wantResource", "held"}}

\* Writer priority: while one mutation waits at the turnstile, no read joins
\* those already past it, so only they can still be ahead of the mutation.
WriterPriority ==
    [][\A w \in Procs :
          (At(w, "mutation", "wantResource") /\ At(w, "mutation", "wantResource")')
             => PastTurnstile' \subseteq PastTurnstile]_lockVars

\* The wait is bounded: every call of Mutation or Read stops waiting, even
\* behind a holder that never unlocks.
WaitEnds ==
    \A p \in Procs :
        (phase[p] \in {"wantQueue", "wantResource"}) ~> (phase[p] \in {"held", "failed", "idle"})

-----------------------------------------------------------------------------
(* Refinement: the gate is closed while a mutation is on the turnstile.    *)

RW == INSTANCE ReadersWriters WITH
        gate     <- IF queue # NoProc /\ kind[queue] = "mutation" THEN queue ELSE NoProc,
        admitted <- {p \in Procs : kind[p] = "read" /\ phase[p] \in {"dropQueue", "wantResource"}},
        readers  <- shared,
        writer   <- excl

\* The two-file protocol implements the gated readers-writers lock.
ImplementsReadersWriters == RW!RWSpec
=============================================================================
