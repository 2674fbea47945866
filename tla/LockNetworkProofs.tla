------------------------- MODULE LockNetworkProofs --------------------------
(***************************************************************************)
(* Theorems about ObjectLock, for any set of processes and any wait bound, *)
(* and about Network, whose commands take such a lock on the node: for any *)
(* interfaces, values and number of runs, and whatever the web UI does.    *)
(***************************************************************************)
EXTENDS ObjectLock, Network, TLAPS

-----------------------------------------------------------------------------
(***************************************************************************)
(* The object lock                                                         *)
(***************************************************************************)

\* Nobody has called Mutation or Read yet.
LEMMA InitLockInv == LockInit => LockInv
  BY LockAssumption
     DEF LockInit, LockInv, LockTypeOK, NoStrayLocks, LocksHeld, OneDeadline, At, LockPhases, CallKinds

\* Every step of Mutation and Read, and every exit, preserves the invariant.
LEMMA StepLockInv == LockInv /\ [LockNext]_lockVars => LockInv'
<1> SUFFICES ASSUME LockInv, [LockNext]_lockVars PROVE LockInv'
  OBVIOUS
<1> USE LockAssumption
    DEF LockInv, LockTypeOK, NoStrayLocks, LocksHeld, OneDeadline, At, GotoPhase, LockPhases, CallKinds
<1>1. ASSUME NEW p \in Procs, NEW k \in CallKinds, Begin(p, k) PROVE LockInv'
  BY <1>1 DEF Begin
<1>2. ASSUME NEW p \in Procs, TakeQueue(p) PROVE LockInv'
  BY <1>2 DEF TakeQueue
<1>3. ASSUME NEW p \in Procs, DropQueue(p) PROVE LockInv'
  BY <1>3 DEF DropQueue
<1>4. ASSUME NEW p \in Procs, DropQueueFails(p) PROVE LockInv'
  BY <1>4 DEF DropQueueFails
<1>5. ASSUME NEW p \in Procs, TakeExclusive(p) PROVE LockInv'
  BY <1>5 DEF TakeExclusive
<1>6. ASSUME NEW p \in Procs, TakeShared(p) PROVE LockInv'
  BY <1>6 DEF TakeShared
<1>7. ASSUME NEW p \in Procs, PollFails(p) PROVE LockInv'
  BY <1>7 DEF PollFails, PollCounted
<1>8. ASSUME NEW p \in Procs, GiveUp(p) PROVE LockInv'
  BY <1>8 DEF GiveUp
<1>9. ASSUME NEW p \in Procs, Unlock(p) PROVE LockInv'
  BY <1>9 DEF Unlock
<1>10. ASSUME NEW p \in Procs, Exit(p) PROVE LockInv'
  BY <1>10 DEF Exit
<1>11. CASE UNCHANGED lockVars
  BY <1>11 DEF lockVars
<1> QED
  BY <1>1, <1>2, <1>3, <1>4, <1>5, <1>6, <1>7, <1>8, <1>9, <1>10, <1>11
     DEF LockNext, LockStep, Advance, TimeOut, Interrupt

\* The two file locks are held exactly where the code of Mutation and Read
\* holds them.
THEOREM LockInvariant == LockSpec => []LockInv
<1>1. LockInit => LockInv
  BY InitLockInv
<1>2. LockInv /\ [LockNext]_lockVars => LockInv'
  BY StepLockInv
<1> QED
  BY <1>1, <1>2, PTL DEF LockSpec

\* A mutation is alone with its object, for any number of processes.
THEOREM MutualExclusion == LockSpec => []Exclusion
<1>1. LockInv => Exclusion
  BY LockAssumption DEF LockInv, LockTypeOK, LocksHeld, Exclusion, Holding, At, CallKinds
<1> QED
  BY <1>1, LockInvariant, PTL

\* No step lets a read join those past the turnstile while a mutation waits
\* on it: a mutation is only ever behind the reads it found there.
THEOREM WriterPriorityHolds == LockSpec => WriterPriority
<1> DEFINE NoneJoins ==
       \A w \in Procs :
          (At(w, "mutation", "wantResource") /\ At(w, "mutation", "wantResource")')
             => PastTurnstile' \subseteq PastTurnstile
<1>1. LockInv /\ [LockNext]_lockVars => [NoneJoins]_lockVars
  <2> SUFFICES ASSUME LockInv, LockNext, NEW w \in Procs,
                      At(w, "mutation", "wantResource"), At(w, "mutation", "wantResource")'
               PROVE  PastTurnstile' \subseteq PastTurnstile
    OBVIOUS
  <2>1. queue = w
    BY DEF LockInv, LocksHeld
  <2>2. PICK p \in Procs : LockStep(p)
    BY DEF LockNext
  <2>3. \A q \in Procs : q # p => phase'[q] = phase[q] /\ kind'[q] = kind[q]
    BY <2>2 DEF LockStep, Advance, TimeOut, Interrupt, Begin, TakeQueue, DropQueue, DropQueueFails,
                TakeExclusive, TakeShared, PollFails, GiveUp, Unlock, Exit, GotoPhase,
                LockInv, LockTypeOK
  <2>4. p \in PastTurnstile' => p \in PastTurnstile
    BY <2>1, <2>2, LockAssumption
       DEF LockStep, Advance, TimeOut, Interrupt, Begin, TakeQueue, DropQueue, DropQueueFails,
           TakeExclusive, TakeShared, PollFails, GiveUp, Unlock, Exit, GotoPhase, At,
           LockInv, LockTypeOK, LocksHeld, PastTurnstile, CallKinds, LockPhases
  <2> QED
    BY <2>3, <2>4 DEF PastTurnstile
<1> QED
  BY <1>1, LockInvariant, PTL DEF LockSpec, WriterPriority

\* The two-file protocol implements the gated readers-writers lock.
THEOREM Refinement == LockSpec => ImplementsReadersWriters
<1>1. LockInit => RW!RWInit
  BY DEF LockInit, RW!RWInit
<1>2. LockInv /\ [LockNext]_lockVars => [RW!RWNext]_(RW!rwVars)
  <2> SUFFICES ASSUME LockInv, [LockNext]_lockVars PROVE [RW!RWNext]_(RW!rwVars)
    OBVIOUS
  <2> USE LockAssumption
      DEF LockInv, LockTypeOK, NoStrayLocks, LocksHeld, At, GotoPhase, LockPhases, CallKinds
  <2>1. ASSUME NEW p \in Procs, NEW k \in CallKinds, Begin(p, k) PROVE UNCHANGED RW!rwVars
    BY <2>1 DEF Begin, RW!rwVars
  <2>2. ASSUME NEW p \in Procs, TakeQueue(p) PROVE RW!CloseGate(p) \/ RW!Admit(p)
    BY <2>2 DEF TakeQueue, RW!CloseGate, RW!Admit
  <2>3. ASSUME NEW p \in Procs, DropQueue(p) PROVE RW!OpenGate \/ UNCHANGED RW!rwVars
    BY <2>3 DEF DropQueue, RW!OpenGate, RW!rwVars
  <2>4. ASSUME NEW p \in Procs, DropQueueFails(p) PROVE RW!StopWriting \/ RW!Withdraw(p) \/ UNCHANGED RW!rwVars
    BY <2>4 DEF DropQueueFails, RW!StopWriting, RW!Withdraw, RW!rwVars
  <2>5. ASSUME NEW p \in Procs, TakeExclusive(p) PROVE RW!StartWriting(p)
    BY <2>5 DEF TakeExclusive, RW!StartWriting
  <2>6. ASSUME NEW p \in Procs, TakeShared(p) PROVE RW!StartReading(p)
    BY <2>6 DEF TakeShared, RW!StartReading
  <2>7. ASSUME NEW p \in Procs, PollFails(p) PROVE UNCHANGED RW!rwVars
    BY <2>7 DEF PollFails, RW!rwVars
  <2>8. ASSUME NEW p \in Procs, GiveUp(p)
        PROVE  RW!OpenGate \/ RW!Withdraw(p) \/ UNCHANGED RW!rwVars
    BY <2>8 DEF GiveUp, RW!OpenGate, RW!Withdraw, RW!rwVars
  <2>9. ASSUME NEW p \in Procs, Unlock(p) PROVE RW!StopWriting \/ RW!StopReading(p)
    BY <2>9 DEF Unlock, RW!StopWriting, RW!StopReading
  <2>10. ASSUME NEW p \in Procs, Exit(p)
         PROVE  \/ RW!OpenGate \/ RW!StopWriting
                \/ RW!Withdraw(p) \/ RW!StopReading(p) \/ UNCHANGED RW!rwVars
    BY <2>10 DEF Exit, RW!OpenGate, RW!StopWriting, RW!Withdraw, RW!StopReading, RW!rwVars
  <2>11. CASE UNCHANGED lockVars
    BY <2>11 DEF lockVars, RW!rwVars
  <2> QED
    BY <2>1, <2>2, <2>3, <2>4, <2>5, <2>6, <2>7, <2>8, <2>9, <2>10, <2>11
       DEF LockNext, LockStep, Advance, TimeOut, Interrupt, RW!RWNext
<1> QED
  BY <1>1, <1>2, LockInvariant, PTL DEF LockSpec, ImplementsReadersWriters, RW!RWSpec

-----------------------------------------------------------------------------
(***************************************************************************)
(* Network commands                                                        *)
(***************************************************************************)

\* Nothing has been asked for and no run has started.
LEMMA InitNetwork == Init => NetworkInv
<1> SUFFICES ASSUME Init PROVE NetworkInv
  OBVIOUS
<1>1. live \in Configs /\ staged \in Configs
  BY NetworkAssumption DEF Init, Configs
<1>2. Nothing \in Configs
  BY DEF Nothing, Configs
<1>3. NoCommand \in [kind : Kinds \cup {"none"}, iface : Ifaces, auto : BOOLEAN,
                     field : Values \cup {None}]
  BY NetworkAssumption DEF NoCommand
<1>4. TypeOK
  BY <1>1, <1>2, <1>3, NetworkAssumption DEF Init, TypeOK, Reloaded, Results
<1>5. Alone
  BY <1>4 DEF Init, Alone, HoldsNode
<1>6. NothingLeftBehind /\ ReportsRealChange
  BY NetworkAssumption DEF Init, NothingLeftBehind, ReportsRealChange
<1>7. ASSUME NEW p \in Runs PROVE Control(p) /\ Owned(p) /\ AsAsked(p) /\ ForeignSeen(p)
  BY NetworkAssumption DEF Init, Control, Owned, AsAsked, ForeignSeen, Guarded
<1> QED
  BY <1>4, <1>5, <1>6, <1>7 DEF NetworkInv

-----------------------------------------------------------------------------
(* Types                                                                   *)

Labels == {"idle", "lock", "read", "pre", "stage", "guard", "commit", "revert",
           "wait", "verify", "done"}
Requests == [kind : Kinds \cup {"none"}, iface : Ifaces, auto : BOOLEAN, field : Values \cup {None}]

\* The types of the runs' variables, and of the node's.
LocalsTyped ==
    /\ pc \in [Runs -> Labels] /\ cmd \in [Runs -> Requests]
    /\ pre \in [Runs -> Configs] /\ preLink \in [Runs -> BOOLEAN]
    /\ failing \in [Runs -> {"none", "aborted", "uncertain"}]
    /\ result \in [Runs -> Results]
PveTyped ==
    /\ live \in Configs /\ staged \in Configs
    /\ owner \in [Ifaces -> Runs \cup {Web, None}]
    /\ kernel \subseteq Ifaces
    /\ task \in [Runs -> {"none", "running", "ok", "failed"}]
    /\ web \in 0 .. MaxWeb
    /\ strange \in [Runs -> SUBSET Ifaces]
    /\ touched \in [Runs -> BOOLEAN] /\ applied \in [Runs -> BOOLEAN]

LEMMA TypeParts == TypeOK <=> LocalsTyped /\ PveTyped
  BY DEF TypeOK, LocalsTyped, PveTyped, Labels, Requests

\* What a step of p leaves of every other run.
Leaves(p) ==
    \A q \in Runs \ {p} : /\ pc'[q] = pc[q] /\ cmd'[q] = cmd[q] /\ pre'[q] = pre[q]
                          /\ failing'[q] = failing[q] /\ result'[q] = result[q]

\* The end of a run, a step on, and a failure that goes to the revert: what each
\* leaves of the run's variables.
LEMMA EndsFacts ==
  ASSUME LocalsTyped, NEW p \in Runs, NEW o \in Results, Ends(p, o)
  PROVE  /\ LocalsTyped' /\ Leaves(p) /\ pc'[p] = "done" /\ result'[p] = o
         /\ task[p] = "running" => cmd'[p] = cmd[p] /\ pre'[p] = pre[p]
<1>1. Nothing \in Configs
  BY DEF Nothing, Configs
<1>2. NoCommand \in Requests
  BY NetworkAssumption DEF NoCommand, Requests
<1>3. pre' \in [Runs -> Configs]
  BY <1>1 DEF Ends, LocalsTyped
<1>4. cmd' \in [Runs -> Requests]
  BY <1>2 DEF Ends, LocalsTyped
<1>5. pc' \in [Runs -> Labels] /\ result' \in [Runs -> Results] /\ preLink' \in [Runs -> BOOLEAN]
      /\ failing' \in [Runs -> {"none", "aborted", "uncertain"}]
  BY DEF Ends, Goto, LocalsTyped, Labels
<1>6. LocalsTyped'
  BY <1>3, <1>4, <1>5 DEF LocalsTyped
<1>7. Leaves(p)
  BY DEF Ends, Goto, Leaves, LocalsTyped
<1> QED
  BY <1>6, <1>7 DEF Ends, Goto, LocalsTyped

LEMMA MovesFacts ==
  ASSUME LocalsTyped, NEW p \in Runs, NEW l \in Labels, Moves(p, l)
  PROVE  /\ LocalsTyped' /\ Leaves(p) /\ pc'[p] = l
         /\ UNCHANGED <<cmd, pre, failing, result>>
  BY DEF Moves, Goto, Leaves, LocalsTyped, locals

LEMMA GivesUpFacts ==
  ASSUME LocalsTyped, NEW p \in Runs, NEW w \in {"aborted", "uncertain"}, GivesUp(p, w)
  PROVE  /\ LocalsTyped' /\ Leaves(p) /\ pc'[p] = "revert" /\ failing'[p] = w
         /\ UNCHANGED <<cmd, pre, result>>
<1>1. pc' \in [Runs -> Labels] /\ failing' \in [Runs -> {"none", "aborted", "uncertain"}]
  BY DEF GivesUp, Goto, LocalsTyped, Labels
<1> QED
  BY <1>1 DEF GivesUp, Goto, LocalsTyped, Leaves

-----------------------------------------------------------------------------
(* What a step of somebody else leaves of a run                            *)

\* What a run that has ended says of what it leaves.
Told(p) ==
    /\ \A i \in Ifaces : owner[i] = p /\ pc[p] = "done"
          => result[p] \in {"unstaged", "left", "killed", "unseen"}
    /\ result[p] = "changed" => applied[p] \/ touched[p]

\* A run's part of the invariant.
RunInv(p) == Control(p) /\ Owned(p) /\ AsAsked(p) /\ ForeignSeen(p) /\ Told(p)

\* The invariant is one statement about each run, and the node's lock.
LEMMA InvParts == NetworkInv <=> LocalsTyped /\ PveTyped /\ Alone /\ \A p \in Runs : RunInv(p)
  BY TypeParts DEF NetworkInv, RunInv, Told, NothingLeftBehind, ReportsRealChange

\* A step leaves a run and its task alone.
SameRun(q) == /\ pc'[q] = pc[q] /\ cmd'[q] = cmd[q] /\ pre'[q] = pre[q] /\ task'[q] = task[q]
              /\ failing'[q] = failing[q] /\ result'[q] = result[q]

\* A run's part is kept by a step that leaves the node's network alone,
LEMMA SameQuiet ==
  ASSUME LocalsTyped, PveTyped, NEW q \in Runs, RunInv(q), SameRun(q),
         UNCHANGED <<live, staged, owner, touched, strange, applied>>
  PROVE  RunInv(q)'
<1>1. Iface(q)' = Iface(q) /\ (q \in Guarded' <=> q \in Guarded) /\ Foreign(q)' = Foreign(q)
  BY DEF SameRun, Iface, Guarded, Foreign
<1>2. Matches(q, staged[Iface(q)])' <=> Matches(q, staged[Iface(q)])
  BY <1>1 DEF SameRun, Matches
<1>3. (Control(q) /\ Owned(q) /\ Told(q))'
  BY DEF SameRun, RunInv, Control, Owned, Told
<1>4. AsAsked(q)'
  BY <1>2 DEF SameRun, RunInv, AsAsked
<1>5. ForeignSeen(q)'
  BY <1>1 DEF SameRun, RunInv, ForeignSeen
<1> QED
  BY <1>3, <1>4, <1>5 DEF RunInv

\* by somebody else's staging of an interface,
LEMMA SameStaged ==
  ASSUME LocalsTyped, PveTyped, NEW q \in Runs, RunInv(q), SameRun(q),
         NEW who \in Runs \cup {Web}, who # q, NEW i \in Ifaces, NEW s \in Stanzas \cup {None},
         StageAs(who, i, s), UNCHANGED <<live, applied>>
  PROVE  RunInv(q)'
<1>1. Iface(q)' = Iface(q) /\ (q \in Guarded' <=> q \in Guarded) /\ Foreign(q)' = Foreign(q)
  BY DEF SameRun, Iface, Guarded, Foreign
<1>2. touched'[q] = (touched[q] \/ (Staging(q) /\ Iface(q) = i))
  BY DEF StageAs, Note, PveTyped
<1>3. strange'[q] = IF q \in Guarded THEN strange[q] \cup {i} ELSE strange[q]
  BY DEF StageAs, Note, PveTyped
<1>4. \A j \in Ifaces : j # i => staged'[j] = staged[j]
  BY DEF StageAs, PveTyped, Configs
<1>5. \A j \in Ifaces : owner'[j] = q => owner[j] = q
  BY DEF StageAs, PveTyped
<1>6. (Control(q) /\ Owned(q) /\ Told(q))'
  BY <1>2, <1>5 DEF SameRun, RunInv, Control, Owned, Told
<1>7. AsAsked(q)'
  <2>1. CASE Iface(q) = i
    BY <2>1, <1>2 DEF SameRun, RunInv, AsAsked, Staging
  <2>2. CASE Iface(q) # i
    <3>1. Iface(q) \in Ifaces
      BY DEF Iface, LocalsTyped, Requests
    <3>2. Matches(q, staged[Iface(q)])' <=> Matches(q, staged[Iface(q)])
      BY <1>1, <1>4, <2>2, <3>1 DEF SameRun, Matches
    <3> QED
      BY <1>2, <2>2, <3>2 DEF SameRun, RunInv, AsAsked
  <2> QED
    BY <2>1, <2>2
<1>8. ForeignSeen(q)'
  <2> SUFFICES ASSUME q \in Guarded, NEW j \in Foreign(q)
               PROVE staged'[j] \in {pre'[q][j], live'[j]} \/ j \in strange'[q]
    BY <1>1 DEF ForeignSeen
  <2>1. j \in Ifaces
    BY NetworkAssumption DEF Foreign
  <2> QED
    BY <2>1, <1>3, <1>4 DEF SameRun, RunInv, ForeignSeen
<1> QED
  BY <1>6, <1>7, <1>8 DEF RunInv

\* by somebody else's revert of all that is staged,
LEMMA SameDiscarded ==
  ASSUME LocalsTyped, PveTyped, NEW q \in Runs, RunInv(q), SameRun(q),
         NEW who \in Runs \cup {Web}, who # q, Discard(who), UNCHANGED <<live, applied>>
  PROVE  RunInv(q)'
<1>0. Iface(q) \in Ifaces
  BY DEF Iface, LocalsTyped, Requests
<1>1. Iface(q)' = Iface(q) /\ (q \in Guarded' <=> q \in Guarded) /\ Foreign(q)' = Foreign(q)
  BY DEF SameRun, Iface, Guarded, Foreign
<1>2. touched'[q] = (touched[q] \/ (Staging(q) /\ staged[Iface(q)] # live[Iface(q)]))
  BY <1>0 DEF Discard, Note, PveTyped
<1>5. \A j \in Ifaces : owner'[j] # q
  BY NetworkAssumption DEF Discard
<1>6. (Control(q) /\ Owned(q) /\ Told(q))'
  BY <1>2, <1>5 DEF SameRun, RunInv, Control, Owned, Told
<1>7. AsAsked(q)'
  <2>1. CASE staged[Iface(q)] # live[Iface(q)]
    BY <2>1, <1>2 DEF SameRun, RunInv, AsAsked, Staging
  <2>2. CASE staged[Iface(q)] = live[Iface(q)]
    <3>2. Matches(q, staged[Iface(q)])' <=> Matches(q, staged[Iface(q)])
      BY <1>1, <2>2 DEF SameRun, Matches, Discard
    <3> QED
      BY <1>2, <2>2, <3>2 DEF SameRun, RunInv, AsAsked
  <2> QED
    BY <2>1, <2>2
<1>8. ForeignSeen(q)'
  BY DEF ForeignSeen, Discard
<1> QED
  BY <1>6, <1>7, <1>8 DEF RunInv

\* and by a reload that takes all that is staged.
LEMMA SameConsumed ==
  ASSUME LocalsTyped, PveTyped, NEW q \in Runs, RunInv(q), SameRun(q),
         NEW ok \in BOOLEAN, Consume(ok),
         touched'[q] = touched[q] \/ touched'[q] = TRUE
  PROVE  RunInv(q)'
<1>1. Iface(q)' = Iface(q) /\ (q \in Guarded' <=> q \in Guarded) /\ Foreign(q)' = Foreign(q)
  BY DEF SameRun, Iface, Guarded, Foreign
<1>2. applied[q] => applied'[q]
  BY DEF Consume, PveTyped
<1>3. touched[q] => touched'[q]
  OBVIOUS
<1>5. \A j \in Ifaces : owner'[j] # q
  BY NetworkAssumption DEF Consume
<1>6. (Control(q) /\ Owned(q) /\ Told(q))'
  BY <1>2, <1>3, <1>5 DEF SameRun, RunInv, Control, Owned, Told
<1>7. AsAsked(q)'
  <2>2. Matches(q, staged[Iface(q)])' <=> Matches(q, staged[Iface(q)])
    BY <1>1 DEF SameRun, Matches, Consume
  <2> QED
    BY <1>2, <1>3, <2>2 DEF SameRun, RunInv, AsAsked
<1>8. ForeignSeen(q)'
  BY DEF ForeignSeen, Consume
<1> QED
  BY <1>6, <1>7, <1>8 DEF RunInv

-----------------------------------------------------------------------------
(* What a run makes of itself                                              *)

\* A step of p that keeps the other runs' part keeps the invariant if it keeps p's.
LEMMA WholeStep ==
  ASSUME NetworkInv, NEW p \in Runs, LocalsTyped', PveTyped', Leaves(p),
         \A q \in Runs \ {p} : RunInv(q)', RunInv(p)',
         HoldsNode(p)' => HoldsNode(p) \/ \A q \in Runs : ~HoldsNode(q)
  PROVE  NetworkInv'
<1>1. \A q \in Runs \ {p} : HoldsNode(q)' <=> HoldsNode(q)
  BY DEF Leaves, HoldsNode
<1>2. Alone'
  BY <1>1, InvParts DEF Alone
<1>3. \A q \in Runs : RunInv(q)'
  OBVIOUS
<1>4. TypeOK'
  BY DEF TypeOK, LocalsTyped, PveTyped, Labels, Requests
<1>5. NothingLeftBehind' /\ ReportsRealChange'
  BY <1>3 DEF RunInv, Told, NothingLeftBehind, ReportsRealChange
<1> QED
  BY <1>2, <1>3, <1>4, <1>5 DEF NetworkInv, RunInv

\* Without a change at PVE, only the acting run's part is at stake.
LEMMA QuietStep ==
  ASSUME NetworkInv, NEW p \in Runs, LocalsTyped', UNCHANGED pve, Leaves(p), RunInv(p)',
         HoldsNode(p)' => HoldsNode(p) \/ \A q \in Runs : ~HoldsNode(q)
  PROVE  NetworkInv'
<1>1. PveTyped'
  BY InvParts DEF PveTyped, pve
<1>2. ASSUME NEW q \in Runs \ {p} PROVE RunInv(q)'
  <2>1. SameRun(q)
    BY DEF Leaves, SameRun, pve
  <2> QED
    BY <2>1, InvParts, SameQuiet DEF pve
<1> QED
  BY <1>1, <1>2, WholeStep

\* The part of a run that ends: a task it leaves running, and what it leaves
\* staged, are in its result.
LEMMA OwnEnds ==
  ASSUME NetworkInv, NEW p \in Runs, NEW o \in Results, Ends(p, o),
         UNCHANGED <<task, live, applied>>,
         task[p] = "running" =>
            /\ o \in {"unseen", "uncertain", "left", "killed"}
            /\ staged' = live \/ (staged' = staged /\ strange' = strange),
         \A i \in Ifaces : owner'[i] = p =>
            /\ task[p] \in {"none", "running"}
            /\ o \in {"unstaged", "left", "killed", "unseen"},
         o = "changed" => applied[p] \/ touched'[p]
  PROVE  RunInv(p)'
<1>1. /\ LocalsTyped' /\ Leaves(p) /\ pc'[p] = "done" /\ result'[p] = o
      /\ task[p] = "running" => cmd'[p] = cmd[p] /\ pre'[p] = pre[p]
  BY InvParts, EndsFacts
<1>2. Control(p)'
  BY <1>1, InvParts DEF RunInv, Control
<1>3. Owned(p)' /\ Told(p)'
  BY <1>1 DEF Owned, Told
<1>4. AsAsked(p)'
  BY <1>1 DEF AsAsked
<1>5. ForeignSeen(p)'
  <2> SUFFICES ASSUME task[p] = "running", staged' # live PROVE ForeignSeen(p)'
    BY <1>1 DEF ForeignSeen, Guarded
  <2>1. p \in Guarded /\ Foreign(p)' = Foreign(p)
    BY <1>1 DEF Guarded, Foreign, Iface
  <2>2. ForeignSeen(p)
    BY InvParts DEF RunInv
  <2> QED
    BY <1>1, <2>1, <2>2 DEF ForeignSeen
<1> QED
  BY <1>2, <1>3, <1>4, <1>5 DEF RunInv

\* An end that leaves PVE alone.
LEMMA QuietEnds ==
  ASSUME NetworkInv, NEW p \in Runs, NEW o \in Results, Ends(p, o), UNCHANGED pve,
         task[p] = "running" => o \in {"unseen", "uncertain", "left", "killed"},
         \A i \in Ifaces : owner[i] = p => o \in {"unstaged", "left", "killed", "unseen"},
         o = "changed" => applied[p] \/ touched[p]
  PROVE  NetworkInv'
<1>1. LocalsTyped' /\ Leaves(p) /\ pc'[p] = "done"
  BY InvParts, EndsFacts
<1>2. \A i \in Ifaces : owner'[i] = p =>
         task[p] \in {"none", "running"} /\ o \in {"unstaged", "left", "killed", "unseen"}
  BY InvParts DEF RunInv, Owned, pve
<1>3. RunInv(p)'
  BY <1>2, OwnEnds DEF pve
<1>4. ~HoldsNode(p)'
  BY <1>1 DEF HoldsNode
<1> QED
  BY <1>1, <1>3, <1>4, QuietStep

LEMMA StartKeeps == ASSUME NetworkInv, NEW p \in Runs, Start(p) PROVE NetworkInv'
<1>1. PICK k \in Kinds, i \in Ifaces, a \in BOOLEAN, v \in Values :
         cmd' = [cmd EXCEPT ![p] = [kind |-> k, iface |-> i, auto |-> a, field |-> v]]
  BY DEF Start
<1>2. [kind |-> k, iface |-> i, auto |-> a, field |-> v] \in Requests
  BY DEF Requests
<1> DEFINE c == [kind |-> k, iface |-> i, auto |-> a, field |-> v]
<1>3. c.kind \in Kinds /\ c.field \in Values
  OBVIOUS
<1> HIDE DEF c
<1>4. LocalsTyped' /\ Leaves(p) /\ pc'[p] = "lock" /\ cmd'[p] = c
  <2>1. cmd \in [Runs -> Requests] /\ pc \in [Runs -> Labels]
    BY InvParts DEF LocalsTyped
  <2>2. cmd' = [cmd EXCEPT ![p] = c] /\ c \in Requests
    BY <1>1, <1>2 DEF c
  <2>3. cmd' \in [Runs -> Requests] /\ pc' \in [Runs -> Labels] /\ cmd'[p] = c /\ pc'[p] = "lock"
    BY <2>1, <2>2 DEF Start, Goto, Labels
  <2>4. LocalsTyped'
    BY <2>3, InvParts DEF Start, LocalsTyped
  <2> QED
    BY <2>1, <2>2, <2>3, <2>4 DEF Start, Goto, Leaves
<1>5. RunInv(p)'
  <2>1. RunInv(p) /\ pc[p] = "idle"
    BY InvParts DEF Start
  <2>2. task'[p] = "none" /\ result'[p] = "none" /\ \A j \in Ifaces : owner'[j] # p
    BY <2>1 DEF Start, RunInv, Control, Owned, pve
  <2> QED
    BY <1>3, <1>4, <2>2 DEF RunInv, Control, Owned, AsAsked, ForeignSeen, Told, Guarded
<1>6. ~HoldsNode(p)'
  BY <1>4 DEF HoldsNode
<1> QED
  BY <1>4, <1>5, <1>6, QuietStep DEF Start

\* Moving on to a label before the guard, with the lock held or free.
LEMMA EarlyMove ==
  ASSUME NetworkInv, NEW p \in Runs, NEW l \in {"read", "pre", "stage"},
         pc[p] \in {"lock", "read", "pre"}, LocalsTyped', Leaves(p), pc'[p] = l, UNCHANGED pve,
         cmd'[p] = cmd[p], result'[p] = result[p],
         HoldsNode(p) \/ \A q \in Runs : ~HoldsNode(q)
  PROVE  NetworkInv'
<1>1. RunInv(p)
  BY InvParts
<1>2. task'[p] = "none" /\ result'[p] = "none" /\ (\A j \in Ifaces : owner'[j] # p)
      /\ cmd'[p].kind \in Kinds /\ cmd'[p].field \in Values
  BY <1>1 DEF RunInv, Control, Owned, pve
<1>3. RunInv(p)'
  BY <1>2 DEF RunInv, Control, Owned, AsAsked, ForeignSeen, Told, Guarded
<1> QED
  BY <1>3, QuietStep

\* Before the stage nothing is owned and no task runs.
LEMMA EarlyEnds ==
  ASSUME NetworkInv, NEW p \in Runs, pc[p] \in {"lock", "read", "pre", "stage"},
         NEW o \in {"refused", "unchanged", "unstaged", "killed"}, Ends(p, o), UNCHANGED pve
  PROVE  NetworkInv'
<1>1. task[p] = "none" /\ \A j \in Ifaces : owner[j] # p
  BY InvParts DEF RunInv, Control, Owned
<1> QED
  BY <1>1, QuietEnds DEF Results

LEMMA LockKeeps == ASSUME NetworkInv, NEW p \in Runs, Lock(p) PROVE NetworkInv'
<1>1. CASE (\A q \in Runs : ~HoldsNode(q)) /\ Moves(p, "read")
  BY <1>1, InvParts, MovesFacts, EarlyMove DEF Lock, Labels
<1>2. CASE Ends(p, "refused")
  BY <1>2, EarlyEnds DEF Lock
<1> QED
  BY <1>1, <1>2 DEF Lock

LEMMA ReadKeeps == ASSUME NetworkInv, NEW p \in Runs, Read(p) PROVE NetworkInv'
<1>1. CASE Moves(p, "pre")
  BY <1>1, InvParts, MovesFacts, EarlyMove DEF Read, Labels, HoldsNode
<1>2. CASE Ends(p, "refused") \/ Ends(p, "unchanged")
  BY <1>2, EarlyEnds DEF Read
<1> QED
  BY <1>1, <1>2 DEF Read

LEMMA SnapshotKeeps == ASSUME NetworkInv, NEW p \in Runs, Snapshot(p) PROVE NetworkInv'
<1>1. CASE Ends(p, "refused")
  BY <1>1, EarlyEnds DEF Snapshot
<1>2. CASE /\ pre' = [pre EXCEPT ![p] = staged]
           /\ preLink' = [preLink EXCEPT ![p] = LinkExists(Mgmt)]
           /\ Goto(p, "stage")
           /\ UNCHANGED <<cmd, failing, result>>
  <2>1. LocalsTyped' /\ Leaves(p) /\ pc'[p] = "stage"
    BY <1>2, InvParts DEF LocalsTyped, PveTyped, Leaves, Goto, Labels, LinkExists
  <2> QED
    BY <1>2, <2>1, EarlyMove DEF Snapshot, HoldsNode
<1> QED
  BY <1>1, <1>2 DEF Snapshot

\* What a run stages is a stanza, and what it was asked for.
LEMMA WantedType ==
  ASSUME NetworkInv, NEW p \in Runs, pc[p] = "stage", cmd[p].kind = "set" => staged[Iface(p)] # None
  PROVE  Wanted(p) \in Stanzas \cup {None} /\ Matches(p, Wanted(p)) /\ Iface(p) \in Ifaces
<1>1. /\ cmd[p] \in Requests /\ Iface(p) \in Ifaces /\ staged[Iface(p)] \in Stanzas \cup {None}
      /\ cmd[p].kind \in Kinds /\ cmd[p].field \in Values /\ cmd[p].auto \in BOOLEAN
  BY InvParts DEF LocalsTyped, PveTyped, Configs, Requests, Iface, RunInv, Control
<1>2. CASE cmd[p].kind = "destroy"
  BY <1>1, <1>2 DEF Wanted, Matches
<1>3. CASE cmd[p].kind = "create"
  <2>1. [type |-> "bridge", auto |-> cmd[p].auto, field |-> cmd[p].field] \in Stanzas
    BY <1>1 DEF Stanzas
  <2> QED
    BY <1>1, <1>3, <2>1, NetworkAssumption DEF Wanted, Matches
<1>4. CASE cmd[p].kind = "set"
  <2> DEFINE s == staged[Iface(p)]
             v == cmd[p].field
  <2>1. s \in Stanzas /\ v \in Values
    BY <1>1, <1>4
  <2> HIDE DEF s, v
  <2>2. [s EXCEPT !.field = v] \in Stanzas /\ [s EXCEPT !.field = v].field = v
    BY <2>1 DEF Stanzas
  <2>3. Wanted(p) = [s EXCEPT !.field = v]
    BY <1>4 DEF Wanted, s, v
  <2>4. Wanted(p) # None /\ Wanted(p).field = cmd[p].field
    BY <2>2, <2>3, NetworkAssumption DEF v
  <2> QED
    BY <1>1, <1>4, <2>2, <2>3, <2>4 DEF Matches
<1> QED
  BY <1>1, <1>2, <1>3, <1>4 DEF Kinds

\* A stanza is staged, whether or not its answer arrives.
LEMMA StageKeeps == ASSUME NetworkInv, NEW p \in Runs, Stage(p) PROVE NetworkInv'
<1> DEFINE i == Iface(p)
           s == Wanted(p)
<1>0. /\ task[p] = "none" /\ (\A j \in Ifaces : owner[j] # p) /\ result[p] = "none"
      /\ cmd[p].kind \in Kinds /\ cmd[p].field \in Values /\ HoldsNode(p)
  BY InvParts DEF RunInv, Control, Owned, Stage, HoldsNode
<1>1. CASE Ends(p, "unstaged") /\ UNCHANGED <<staged, owner, touched, strange>>
  BY <1>1, EarlyEnds DEF Stage, pve
<1>2. CASE /\ cmd[p].kind = "set" => staged[Iface(p)] # None
           /\ StageAs(p, Iface(p), Wanted(p))
           /\ Moves(p, "guard") \/ Ends(p, "unstaged")
  <2>1. s \in Stanzas \cup {None} /\ Matches(p, s) /\ i \in Ifaces
    BY <1>2, WantedType DEF Stage
  <2>2. LocalsTyped' /\ Leaves(p)
    BY <1>2, InvParts, MovesFacts, EndsFacts DEF Labels, Results
  <2>3. PveTyped'
    <3>1. staged' \in Configs /\ owner' \in [Ifaces -> Runs \cup {Web, None}]
      BY <1>2, <2>1, InvParts DEF StageAs, PveTyped, Configs
    <3>2. touched' \in [Runs -> BOOLEAN] /\ strange' \in [Runs -> SUBSET Ifaces]
      BY <1>2, <2>1, InvParts DEF StageAs, Note, PveTyped
    <3> QED
      BY <3>1, <3>2, InvParts DEF Stage, PveTyped
  <2>4. ASSUME NEW q \in Runs \ {p} PROVE RunInv(q)'
    <3>1. SameRun(q)
      BY <2>2 DEF Leaves, SameRun, Stage
    <3> QED
      BY <1>2, <2>1, <3>1, InvParts, SameStaged DEF Stage
  <2>5. RunInv(p)'
    <3>1. CASE Moves(p, "guard")
      <4>1. pc'[p] = "guard" /\ UNCHANGED <<cmd, pre, failing, result>> /\ task'[p] = "none"
        BY <1>0, <3>1, InvParts, MovesFacts DEF Labels, Stage
      <4>2. Matches(p, staged[Iface(p)])'
        <5>1. staged'[i] = s
          BY <1>2, <2>1, InvParts DEF StageAs, PveTyped, Configs
        <5> QED
          BY <2>1, <4>1, <5>1 DEF Matches, Iface
      <4> QED
        BY <1>0, <4>1, <4>2 DEF RunInv, Control, Owned, AsAsked, ForeignSeen, Told, Guarded
    <3>2. CASE Ends(p, "unstaged")
      BY <1>0, <3>2, OwnEnds DEF Results, Stage
    <3> QED
      BY <1>2, <3>1, <3>2
  <2> QED
    BY <1>0, <2>2, <2>3, <2>4, <2>5, WholeStep
<1> QED
  BY <1>1, <1>2 DEF Stage

\* The guard compares what is staged with what the run read before it.
LEMMA GuardKeeps == ASSUME NetworkInv, NEW p \in Runs, Guard(p) PROVE NetworkInv'
<1>0. /\ task[p] = "none" /\ result[p] = "none" /\ RunInv(p)
      /\ cmd[p].kind \in Kinds /\ cmd[p].field \in Values /\ HoldsNode(p)
  BY InvParts DEF RunInv, Control, Guard, HoldsNode
<1>1. CASE /\ IF cmd[p].kind = "set" THEN OthersUnchanged(p) ELSE MgmtUnchanged(p)
           /\ Moves(p, "commit")
  <2>1. LocalsTyped' /\ Leaves(p) /\ pc'[p] = "commit" /\ UNCHANGED <<cmd, pre, failing, result>>
    BY <1>1, InvParts, MovesFacts DEF Labels
  <2>2. Control(p)' /\ Owned(p)' /\ Told(p)'
    BY <1>0, <2>1 DEF RunInv, Control, Owned, Told, Guard, pve
  <2>3. AsAsked(p)'
    <3>1. touched'[p] \/ Matches(p, staged[Iface(p)])'
      BY <1>0, <2>1 DEF RunInv, AsAsked, Guard, Matches, Iface, pve
    <3> QED
      BY <2>1, <3>1 DEF AsAsked
  <2>4. ForeignSeen(p)'
    BY <1>1, <2>1 DEF ForeignSeen, Foreign, OthersUnchanged, MgmtUnchanged, Guard, Iface, pve
  <2>5. RunInv(p)'
    BY <2>2, <2>3, <2>4 DEF RunInv
  <2> QED
    BY <1>0, <2>1, <2>5, QuietStep DEF Guard
<1>2. CASE GivesUp(p, "aborted")
  <2>1. LocalsTyped' /\ Leaves(p) /\ pc'[p] = "revert" /\ UNCHANGED <<cmd, pre, result>>
    BY <1>2, InvParts, GivesUpFacts
  <2>2. RunInv(p)'
    BY <1>0, <2>1 DEF RunInv, Control, Owned, AsAsked, ForeignSeen, Guarded, Told, Guard, pve
  <2> QED
    BY <1>0, <2>1, <2>2, QuietStep DEF Guard
<1> QED
  BY <1>1, <1>2 DEF Guard

\* The reload is asked for; when its answer is lost the task may run.
LEMMA CommitKeeps == ASSUME NetworkInv, NEW p \in Runs, Commit(p) PROVE NetworkInv'
<1>0. /\ task[p] = "none" /\ result[p] = "none" /\ RunInv(p) /\ pc[p] = "commit"
      /\ cmd[p].kind \in Kinds /\ cmd[p].field \in Values /\ HoldsNode(p)
  BY InvParts DEF RunInv, Control, Commit, HoldsNode
<1>1. /\ LocalsTyped' /\ Leaves(p) /\ UNCHANGED <<cmd, pre, result>>
      /\ \/ pc'[p] = "wait" /\ task'[p] = "running"
         \/ pc'[p] = "revert" /\ failing'[p] = "uncertain" /\ task'[p] \in {"none", "running"}
  <2>1. CASE Moves(p, "wait") /\ task' = [task EXCEPT ![p] = "running"]
    BY <2>1, InvParts, MovesFacts DEF Labels, PveTyped
  <2>2. CASE GivesUp(p, "uncertain") /\ task' = [task EXCEPT ![p] = "running"]
    BY <2>2, InvParts, GivesUpFacts DEF PveTyped
  <2>3. CASE GivesUp(p, "uncertain") /\ UNCHANGED task
    BY <1>0, <2>3, InvParts, GivesUpFacts
  <2> QED
    BY <2>1, <2>2, <2>3 DEF Commit
<1>2. PveTyped' /\ \A q \in Runs \ {p} : task'[q] = task[q]
  BY InvParts DEF Commit, PveTyped
<1>3. ASSUME NEW q \in Runs \ {p} PROVE RunInv(q)'
  <2>1. SameRun(q)
    BY <1>1, <1>2 DEF Leaves, SameRun
  <2> QED
    BY <2>1, InvParts, SameQuiet DEF Commit
<1>4. UNCHANGED <<live, staged, owner, touched, strange, applied>>
  BY DEF Commit
<1>5. Control(p)' /\ Owned(p)' /\ Told(p)'
  BY <1>0, <1>1, <1>4 DEF RunInv, Control, Owned, Told
<1>6. AsAsked(p)'
  <2>1. touched'[p] \/ Matches(p, staged[Iface(p)])'
    BY <1>0, <1>1, <1>4 DEF RunInv, AsAsked, Matches, Iface
  <2> QED
    BY <1>1, <2>1 DEF AsAsked
<1>7. ForeignSeen(p)'
  BY <1>0, <1>1, <1>4 DEF RunInv, ForeignSeen, Foreign, Guarded, Iface
<1>8. RunInv(p)'
  BY <1>5, <1>6, <1>7 DEF RunInv
<1> QED
  BY <1>0, <1>1, <1>2, <1>3, <1>8, WholeStep

\* A revert and a reload keep the types.
LEMMA DiscardType ==
  ASSUME PveTyped, NEW who, Discard(who), UNCHANGED <<live, kernel, task, applied>>,
         web' \in 0 .. MaxWeb
  PROVE  PveTyped'
<1>1. staged' \in Configs /\ owner' \in [Ifaces -> Runs \cup {Web, None}]
  BY DEF Discard, PveTyped
<1>2. touched' \in [Runs -> BOOLEAN] /\ strange' \in [Runs -> SUBSET Ifaces]
  BY DEF Discard, Note, PveTyped
<1> QED
  BY <1>1, <1>2 DEF PveTyped

\* The revert drops all that is staged, or leaves it and says so.
LEMMA RevertKeeps == ASSUME NetworkInv, NEW p \in Runs, Revert(p) PROVE NetworkInv'
<1>0. RunInv(p) /\ pc[p] = "revert" /\ failing[p] \in Results \ {"changed"}
  BY InvParts DEF Revert, LocalsTyped, Results
<1>1. CASE Ends(p, "left") /\ UNCHANGED <<staged, owner, touched, strange>>
  BY <1>1, QuietEnds DEF Revert, pve, Results
<1>2. ASSUME NEW o \in {failing[p], "left"}, Discard(p), Ends(p, o) PROVE NetworkInv'
  <2>0. o \in Results \ {"changed"}
    BY <1>0 DEF Results
  <2>1. LocalsTyped' /\ Leaves(p) /\ pc'[p] = "done"
    BY <1>2, <2>0, InvParts, EndsFacts
  <2>2. PveTyped'
    BY <1>2, InvParts, DiscardType DEF Revert, PveTyped
  <2>3. ASSUME NEW q \in Runs \ {p} PROVE RunInv(q)'
    <3>1. SameRun(q)
      BY <2>1 DEF Leaves, SameRun, Revert
    <3> QED
      BY <1>2, <3>1, InvParts, SameDiscarded DEF Revert
  <2>4. RunInv(p)'
    <3>1. task[p] = "running" => o \in {"uncertain", "left"}
      BY <1>0 DEF RunInv, Control
    <3>2. \A j \in Ifaces : owner'[j] # p
      BY <1>2, NetworkAssumption DEF Discard
    <3>3. staged' = live
      BY <1>2 DEF Discard
    <3> QED
      BY <1>2, <2>0, <3>1, <3>2, <3>3, OwnEnds DEF Revert
  <2>5. ~HoldsNode(p)'
    BY <2>1 DEF HoldsNode
  <2> QED
    BY <2>1, <2>2, <2>3, <2>4, <2>5, WholeStep
<1> QED
  BY <1>1, <1>2 DEF Revert

LEMMA WaitKeeps == ASSUME NetworkInv, NEW p \in Runs, WaitForTask(p) PROVE NetworkInv'
<1>0. RunInv(p) /\ pc[p] = "wait" /\ HoldsNode(p)
  BY InvParts DEF WaitForTask, HoldsNode
<1>1. CASE task[p] = "ok" /\ Moves(p, "verify")
  <2>1. LocalsTyped' /\ Leaves(p) /\ pc'[p] = "verify" /\ UNCHANGED <<cmd, pre, failing, result>>
    BY <1>1, InvParts, MovesFacts DEF Labels
  <2>2. RunInv(p)'
    BY <1>0, <1>1, <2>1 DEF RunInv, Control, Owned, AsAsked, ForeignSeen, Guarded, Told,
                               WaitForTask, pve
  <2> QED
    BY <1>0, <2>1, <2>2, QuietStep DEF WaitForTask
<1>2. CASE task[p] = "failed" /\ Ends(p, "failed")
  <2>1. \A j \in Ifaces : owner[j] # p
    BY <1>0, <1>2 DEF RunInv, Owned
  <2> QED
    BY <1>2, <2>1, QuietEnds DEF WaitForTask, Results
<1>3. CASE Ends(p, "unseen")
  BY <1>3, QuietEnds DEF WaitForTask, Results
<1> QED
  BY <1>1, <1>2, <1>3 DEF WaitForTask

LEMMA VerifyKeeps == ASSUME NetworkInv, NEW p \in Runs, Verify(p) PROVE NetworkInv'
<1>1. RunInv(p) /\ pc[p] = "verify"
  BY InvParts DEF Verify
<1>2. task[p] = "ok" /\ (\A j \in Ifaces : owner[j] # p) /\ (touched[p] \/ applied[p])
  BY <1>1 DEF RunInv, Control, Owned, AsAsked
<1> QED
  BY <1>2, QuietEnds DEF Verify, Results

LEMMA KilledKeeps == ASSUME NetworkInv, NEW p \in Runs, Killed(p) PROVE NetworkInv'
  BY QuietEnds DEF Killed, Results

LEMMA ConsumeType ==
  ASSUME PveTyped, NEW ok \in BOOLEAN, Consume(ok)
  PROVE  /\ live' \in Configs /\ staged' \in Configs /\ kernel' \subseteq Ifaces
         /\ owner' \in [Ifaces -> Runs \cup {Web, None}] /\ applied' \in [Runs -> BOOLEAN]
<1>1. applied' \in [Runs -> BOOLEAN]
  BY DEF Consume, PveTyped, Busy, Matches
<1> QED
  BY <1>1 DEF Consume, PveTyped, Reloaded

\* A reload task ends: what it applied is the run's, or was touched.
LEMMA LandsKeeps ==
  ASSUME NetworkInv, NEW p \in Runs, NEW ok \in BOOLEAN, CommitLands(p, ok) PROVE NetworkInv'
<1>0. RunInv(p) /\ task[p] = "running" /\ Consume(ok)
      /\ UNCHANGED <<web, touched, strange, locals, pc>>
  BY InvParts DEF CommitLands
<1>1. LocalsTyped'
  BY InvParts DEF CommitLands, LocalsTyped, locals
<1>2. task' \in [Runs -> {"none", "running", "ok", "failed"}] /\ task'[p] \in {"ok", "failed"}
      /\ \A q \in Runs \ {p} : task'[q] = task[q]
  BY InvParts DEF CommitLands, PveTyped
<1>3. PveTyped'
  <2>1. PveTyped
    BY InvParts
  <2> QED
    BY <1>0, <1>2, <2>1, ConsumeType DEF PveTyped
<1>4. ASSUME NEW q \in Runs \ {p} PROVE RunInv(q)'
  <2>1. SameRun(q)
    BY <1>2, <1>0 DEF SameRun, locals
  <2> QED
    BY <1>0, <2>1, InvParts, SameConsumed
<1>5. RunInv(p)'
  <2>1. \A j \in Ifaces : owner'[j] # p
    BY <1>0, NetworkAssumption DEF Consume
  <2>2. pc[p] = "wait" => touched'[p] \/ applied'[p]
    BY <1>0, InvParts DEF Consume, PveTyped, RunInv, AsAsked, Busy
  <2>3. applied[p] => applied'[p]
    BY <1>0, InvParts DEF Consume, PveTyped
  <2>4. Control(p)' /\ Owned(p)' /\ AsAsked(p)' /\ Told(p)'
    BY <1>0, <1>2, <2>1, <2>2, <2>3 DEF RunInv, Control, Owned, AsAsked, Told, locals
  <2>5. ForeignSeen(p)'
    BY <1>0 DEF ForeignSeen, Consume
  <2> QED
    BY <2>4, <2>5 DEF RunInv
<1>6. HoldsNode(p)' <=> HoldsNode(p)
  BY <1>0 DEF HoldsNode
<1>7. Leaves(p)
  BY <1>0 DEF Leaves, locals
<1> QED
  BY <1>1, <1>3, <1>4, <1>5, <1>6, <1>7, WholeStep

\* The web UI stages, reverts or applies.
LEMMA WebKeeps == ASSUME NetworkInv, WebUI PROVE NetworkInv'
<1>1. LocalsTyped' /\ \A q \in Runs : SameRun(q)
  BY InvParts DEF WebUI, LocalsTyped, locals, SameRun
<1>2. web' \in 0 .. MaxWeb
  BY InvParts, NetworkAssumption DEF WebUI, PveTyped
<1>3. PveTyped' /\ \A q \in Runs : RunInv(q)'
  <2>1. ASSUME NEW i \in Ifaces, NEW s \in Stanzas \cup {None}, StageAs(Web, i, s),
               UNCHANGED <<live, kernel, applied>>
        PROVE  PveTyped' /\ \A q \in Runs : RunInv(q)'
    <3>1. staged' \in Configs /\ owner' \in [Ifaces -> Runs \cup {Web, None}]
      BY <2>1, InvParts DEF StageAs, PveTyped, Configs
    <3>2. touched' \in [Runs -> BOOLEAN] /\ strange' \in [Runs -> SUBSET Ifaces]
      BY <2>1, InvParts DEF StageAs, Note, PveTyped
    <3>3. PveTyped'
      BY <1>2, <2>1, <3>1, <3>2, InvParts DEF WebUI, PveTyped
    <3> QED
      BY <1>1, <2>1, <3>3, InvParts, SameStaged, NetworkAssumption DEF Web
  <2>2. CASE Discard(Web) /\ UNCHANGED <<live, kernel, applied>>
    BY <1>1, <1>2, <2>2, InvParts, DiscardType, SameDiscarded, NetworkAssumption DEF Web, WebUI
  <2>3. CASE Consume(TRUE) /\ Note(Web, {i \in Ifaces : staged[i] # live[i]})
    <3>1. touched' \in [Runs -> BOOLEAN] /\ strange' \in [Runs -> SUBSET Ifaces]
      BY <2>3, InvParts DEF Note, PveTyped
    <3>2. \A q \in Runs : touched'[q] = touched[q] \/ touched'[q] = TRUE
      BY <2>3, InvParts DEF Note, PveTyped
    <3>3. PveTyped'
      BY <1>2, <2>3, <3>1, InvParts, ConsumeType DEF WebUI, PveTyped
    <3> QED
      BY <1>1, <2>3, <3>2, <3>3, InvParts, SameConsumed
  <2> QED
    BY <2>1, <2>2, <2>3 DEF WebUI
<1>4. Alone'
  BY InvParts DEF WebUI, Alone, HoldsNode
<1>5. TypeOK'
  BY <1>1, <1>3 DEF TypeOK, LocalsTyped, PveTyped, Labels, Requests
<1>6. NothingLeftBehind' /\ ReportsRealChange'
  BY <1>3 DEF RunInv, Told, NothingLeftBehind, ReportsRealChange
<1> QED
  BY <1>3, <1>4, <1>5, <1>6 DEF NetworkInv, RunInv

\* Every step of a run, of its task and of the web UI keeps the invariant.
LEMMA StepNetwork == NetworkInv /\ [Next]_vars => NetworkInv'
<1> SUFFICES ASSUME NetworkInv, [Next]_vars PROVE NetworkInv'
  OBVIOUS
<1>1. ASSUME NEW p \in Runs, Start(p) \/ Step(p) \/ Killed(p) PROVE NetworkInv'
  BY <1>1, StartKeeps, LockKeeps, ReadKeeps, SnapshotKeeps, StageKeeps, GuardKeeps, CommitKeeps,
     RevertKeeps, WaitKeeps, VerifyKeeps, KilledKeeps DEF Step
<1>2. ASSUME NEW p \in Runs, NEW ok \in BOOLEAN, CommitLands(p, ok) PROVE NetworkInv'
  BY <1>2, LandsKeeps
<1>3. CASE WebUI
  BY <1>3, WebKeeps
<1>4. CASE UNCHANGED vars
  <2>1. LocalsTyped' /\ PveTyped' /\ \A q \in Runs : SameRun(q)
    BY <1>4, InvParts DEF vars, pve, locals, LocalsTyped, PveTyped, SameRun
  <2>2. \A q \in Runs : RunInv(q)'
    BY <1>4, <2>1, InvParts, SameQuiet DEF vars, pve
  <2>3. Alone'
    BY <1>4, InvParts DEF vars, Alone, HoldsNode
  <2>4. TypeOK'
    BY <2>1 DEF TypeOK, LocalsTyped, PveTyped, Labels, Requests
  <2>5. NothingLeftBehind' /\ ReportsRealChange'
    BY <2>2 DEF RunInv, Told, NothingLeftBehind, ReportsRealChange
  <2> QED
    BY <2>2, <2>3, <2>4, <2>5 DEF NetworkInv, RunInv
<1> QED
  BY <1>1, <1>2, <1>3, <1>4 DEF Next

\* What a network command leaves pending is never left in silence, and a change it
\* reports was real, whatever the other runs and the web UI do meanwhile.
THEOREM NetworkInvariant == Spec => []NetworkInv
<1>1. Init => NetworkInv
  BY InitNetwork
<1>2. NetworkInv /\ [Next]_vars => NetworkInv'
  BY StepNetwork
<1> QED
  BY <1>1, <1>2, PTL DEF Spec

\* A commit never changes what its guard was to protect, but for what somebody changed
\* after the guard had looked.
THEOREM SweepsOnlyTheSeen == Spec => SweepsNothingUnseen
<1>1. NetworkInv /\ [Next]_vars =>
        [\A p \in Runs, i \in Ifaces :
          /\ task[p] = "running" /\ task'[p] # "running"
          /\ IF cmd[p].kind = "set" THEN i # Iface(p) ELSE i = Mgmt
          => staged[i] \in {pre[p][i], live[i]} \/ i \in strange[p]]_vars
  <2> SUFFICES ASSUME NetworkInv, NEW p \in Runs, NEW i \in Ifaces, task[p] = "running",
                      IF cmd[p].kind = "set" THEN i # Iface(p) ELSE i = Mgmt
               PROVE  staged[i] \in {pre[p][i], live[i]} \/ i \in strange[p]
    OBVIOUS
  <2>1. p \in Guarded /\ i \in Foreign(p)
    BY DEF Guarded, Foreign
  <2> QED
    BY <2>1 DEF NetworkInv, ForeignSeen
<1> QED
  BY <1>1, NetworkInvariant, PTL DEF Spec, SweepsNothingUnseen

\* When one run's commit takes another's staged change along, one of the two has ended
\* with a report of not knowing.
THEOREM SweepsOnlyBlindly == Spec => SweepsBlindly
<1>1. NetworkInv /\ [Next]_vars =>
        [\A p, q \in Runs, i \in Ifaces :
          /\ task[p] = "running" /\ task'[p] # "running"
          /\ owner[i] = q /\ p # q
          => \/ result[p] \in {"unseen", "uncertain", "left", "killed"}
             \/ result[q] \in {"unstaged", "left", "killed", "unseen"}]_vars
  <2> SUFFICES ASSUME NetworkInv, NEW p \in Runs, NEW q \in Runs, NEW i \in Ifaces,
                      task[p] = "running", owner[i] = q, p # q
               PROVE  \/ result[p] \in {"unseen", "uncertain", "left", "killed"}
                      \/ result[q] \in {"unstaged", "left", "killed", "unseen"}
    OBVIOUS
  <2>1. CASE pc[q] = "done"
    BY <2>1 DEF NetworkInv, NothingLeftBehind
  <2>2. CASE pc[q] # "done"
    <3>1. HoldsNode(q)
      BY <2>2 DEF NetworkInv, Owned, HoldsNode
    <3>2. ~HoldsNode(p)
      BY <3>1 DEF NetworkInv, Alone
    <3> QED
      BY <3>2 DEF NetworkInv, Control, HoldsNode
  <2> QED
    BY <2>1, <2>2
<1> QED
  BY <1>1, NetworkInvariant, PTL DEF Spec, SweepsBlindly
=============================================================================
