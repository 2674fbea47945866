---------------------------- MODULE HostTrustProofs ----------------------------
(***************************************************************************)
(* TrustInv is inductive, for any number of processes, hosts, TLS keys,    *)
(* command lines and outside changes.  A step of one run, or a hand edit,   *)
(* leaves every other run Calm: only the lock's holder stores a pin, a key  *)
(* is placed and taken back by its own run alone, and whatever a person     *)
(* removes is noted.  What a run's own step does is shown action by action. *)
(***************************************************************************)
EXTENDS HostTrust, TLAPS

-----------------------------------------------------------------------------
(* Types                                                                   *)

Outs == {"ok", "refused", "failed", "killed", None}

\* Every label that a step names is one.
LEMMA LabelNames ==
    /\ "start" \in PCs /\ "authorized" \in PCs /\ "done" \in PCs /\ "prepare" \in PCs
    /\ "lock" \in PCs /\ "load" \in PCs /\ "password" \in PCs /\ "reconnect" \in PCs
    /\ "install" \in PCs /\ "dial" \in PCs /\ "capture" \in PCs /\ "served" \in PCs
    /\ "write" \in PCs /\ "persist" \in PCs /\ "droppw" \in PCs /\ "drop" \in PCs
    /\ "token" \in PCs /\ "pinlock" \in PCs /\ "pinload" \in PCs
BY DEF PCs, BootstrapSteps, PinTLSSteps

\* What a step that only moves a run leaves of it.
SameSession(r) ==
    /\ run'[r].cmd = run[r].cmd /\ run'[r].insecure = run[r].insecure
    /\ run'[r].old = run[r].old /\ run'[r].seen = run[r].seen
    /\ run'[r].offered = run[r].offered /\ run'[r].unsettled = run[r].unsettled
    /\ run'[r].held = run[r].held /\ run'[r].unparsed = run[r].unparsed

OthersSame(r) == \A q \in Runs \ {r} : run'[q] = run[q]

LEMMA GotoRun ==
    ASSUME TypeOK, NEW r \in Runs, NEW l \in PCs, Goto(r, l)
    PROVE  /\ run' \in [Runs -> RunStates] /\ OthersSame(r)
           /\ run'[r].pc = l /\ SameSession(r)
           /\ run'[r].host = run[r].host /\ run'[r].pin = run[r].pin
           /\ run'[r].persisted = run[r].persisted
           /\ run'[r].told = run[r].told /\ run'[r].out = run[r].out
<1>1. run[r] \in RunStates
    BY DEF TypeOK
<1>2. [run[r] EXCEPT !.pc = l] \in RunStates
    BY <1>1 DEF RunStates
<1>3. run' = [run EXCEPT ![r] = [run[r] EXCEPT !.pc = l]]
    BY DEF Goto
<1>4. run'[r] = [run[r] EXCEPT !.pc = l]
    BY <1>3 DEF TypeOK
<1>5. run' \in [Runs -> RunStates] /\ OthersSame(r)
    BY <1>2, <1>3 DEF TypeOK, OthersSame
<1> QED
    BY <1>1, <1>4, <1>5 DEF RunStates, SameSession

\* What is left of a run that ends.
LEMMA BlankFields ==
    /\ Blank.cmd = None /\ Blank.old = None /\ Blank.seen = None /\ Blank.host = None
    /\ Blank.pin = None /\ Blank.held = {} /\ Blank.unparsed = FALSE
    /\ Blank.unsettled = {} /\ Blank.offered = {} /\ Blank.persisted = FALSE
    /\ Blank.pc = "start" /\ Blank.insecure = FALSE /\ Blank.told = FALSE
    /\ Blank.out = None /\ Blank \in RunStates
<1>1. Blank \in RunStates
    BY LabelNames DEF Blank, RunStates
<1> QED
    BY <1>1 DEF Blank

LEMMA EndedFields ==
    ASSUME TypeOK, NEW r \in Runs, NEW out \in Outs, NEW told \in BOOLEAN
    PROVE  LET e == Ended(r, out, told)
           IN  /\ e \in RunStates
               /\ e.pc = "done" /\ e.out = out /\ e.told = told
               /\ e.persisted = run[r].persisted /\ e.insecure = run[r].insecure
               /\ e.seen = None /\ e.offered = {} /\ e.unsettled = {}
<1>1. Blank \in RunStates /\ run[r] \in RunStates
    BY BlankFields DEF TypeOK
<1>2. run[r].persisted \in BOOLEAN /\ run[r].insecure \in BOOLEAN
    BY <1>1 DEF RunStates
<1> DEFINE p == run[r].persisted
           i == run[r].insecure
           e == [Blank EXCEPT !.pc = "done", !.out = out, !.told = told,
                              !.persisted = p, !.insecure = i]
<1>3. e = Ended(r, out, told)
    BY DEF Ended
<1> HIDE DEF p, i
<1>4. p \in BOOLEAN /\ i \in BOOLEAN
    BY <1>2 DEF p, i
<1>5. [Blank EXCEPT !.pc = "done", !.out = out] \in RunStates
    BY <1>1, LabelNames DEF RunStates, Outs
<1>6. \A x \in RunStates : [x EXCEPT !.told = told, !.persisted = p, !.insecure = i] \in RunStates
    BY <1>4 DEF RunStates
<1>7. e = [[Blank EXCEPT !.pc = "done", !.out = out]
              EXCEPT !.told = told, !.persisted = p, !.insecure = i]
    BY <1>1 DEF RunStates
<1>8. e \in RunStates
    BY <1>5, <1>6, <1>7
<1>9. /\ e.pc = "done" /\ e.out = out /\ e.told = told /\ e.persisted = p /\ e.insecure = i
      /\ e.seen = Blank.seen /\ e.offered = Blank.offered /\ e.unsettled = Blank.unsettled
    BY <1>1 DEF RunStates
<1> QED
    BY <1>3, <1>8, <1>9, BlankFields DEF p, i

LEMMA EndsRun ==
    ASSUME TypeOK, NEW r \in Runs, NEW out \in Outs, NEW told \in BOOLEAN, Ends(r, out, told)
    PROVE  /\ run' \in [Runs -> RunStates] /\ OthersSame(r)
           /\ run'[r].pc = "done" /\ run'[r].out = out /\ run'[r].told = told
           /\ run'[r].persisted = run[r].persisted /\ run'[r].insecure = run[r].insecure
           /\ run'[r].seen = None /\ run'[r].offered = {} /\ run'[r].unsettled = {}
           /\ lock' = (IF lock = r THEN None ELSE lock) /\ lock' \in Runs \cup {None}
<1>1. run' = [run EXCEPT ![r] = Ended(r, out, told)]
    BY DEF Ends
<1>2. run'[r] = Ended(r, out, told)
    BY <1>1 DEF TypeOK
<1>3. run' \in [Runs -> RunStates] /\ OthersSame(r)
    BY <1>1, EndedFields DEF TypeOK, OthersSame
<1>4. lock' = (IF lock = r THEN None ELSE lock)
    BY DEF Ends
<1> QED
    BY <1>2, <1>3, <1>4, EndedFields DEF TypeOK

\* A run's record is replaced by another.
LEMMA EditRun ==
    ASSUME TypeOK, NEW r \in Runs, NEW new \in RunStates, run' = [run EXCEPT ![r] = new]
    PROVE  run' \in [Runs -> RunStates] /\ OthersSame(r) /\ run'[r] = new
BY DEF TypeOK, OthersSame

\* The fields of a run that a step does not name stay as they are.
SameKnowledge(r) ==
    /\ run'[r].offered = run[r].offered /\ run'[r].unsettled = run[r].unsettled
    /\ run'[r].held = run[r].held /\ run'[r].unparsed = run[r].unparsed
    /\ run'[r].told = run[r].told /\ run'[r].out = run[r].out

\* A command line is taken up.
LEMMA AskedRun ==
    ASSUME TypeOK, NEW r \in Runs, NEW l \in PCs, NEW c \in Commands,
           run' = [run EXCEPT ![r].pc = l, ![r].cmd = c]
    PROVE  /\ run' \in [Runs -> RunStates] /\ OthersSame(r) /\ SameKnowledge(r)
           /\ run'[r].pc = l /\ run'[r].cmd = c
           /\ run'[r].seen = run[r].seen /\ run'[r].persisted = run[r].persisted
           /\ run'[r].insecure = run[r].insecure
<1> DEFINE new == [run[r] EXCEPT !.pc = l, !.cmd = c]
<1>1. run[r] \in RunStates
    BY DEF TypeOK
<1>2. new \in RunStates
    BY <1>1 DEF RunStates
<1>3. run' = [run EXCEPT ![r] = new]
    OBVIOUS
<1>4. run' \in [Runs -> RunStates] /\ OthersSame(r) /\ run'[r] = new
    BY <1>2, <1>3, EditRun
<1> QED
    BY <1>1, <1>4 DEF RunStates, SameKnowledge

\* A session is open: the host it reaches is noted.
LEMMA DialledRun ==
    ASSUME TypeOK, NEW r \in Runs, NEW l \in PCs, NEW h \in Hosts,
           \/ run' = [run EXCEPT ![r].pc = l, ![r].host = h]
           \/ run' = [run EXCEPT ![r].host = h, ![r].pc = l]
    PROVE  /\ run' \in [Runs -> RunStates] /\ OthersSame(r) /\ SameSession(r)
           /\ SameKnowledge(r) /\ run'[r].pc = l /\ run'[r].host = h
           /\ run'[r].persisted = run[r].persisted
<1> DEFINE new == [run[r] EXCEPT !.pc = l, !.host = h]
<1>1. run[r] \in RunStates
    BY DEF TypeOK
<1>2. new \in RunStates
    BY <1>1 DEF RunStates
<1>3. new = [run[r] EXCEPT !.host = h, !.pc = l]
    BY <1>1 DEF RunStates
<1>4. run' = [run EXCEPT ![r] = new]
    BY <1>3
<1>5. run' \in [Runs -> RunStates] /\ OthersSame(r) /\ run'[r] = new
    BY <1>2, <1>4, EditRun
<1> QED
    BY <1>1, <1>5 DEF RunStates, SameKnowledge, SameSession

-----------------------------------------------------------------------------
(* What the others do to a run                                             *)

\* A step after which what a run has found still stands: the run itself and its
\* key on the hosts are as they were; what is gone from the roster a person has
\* removed, the SSH block from under every run that was only checked; no SSH pin appears under the lock a bootstrap holds; and a key that
\* appears there is one of a run that has not ended.
Calm(q) ==
    /\ run'[q] = run[q]
    /\ \A h \in Hosts : q \in auth'[h] <=> q \in auth[h]
    /\ q \in removed.ssh => q \in removed'.ssh
    /\ target # None => target' # None
    /\ HasTLS => HasTLS'
    /\ q \in CheckedOnly /\ storedSSHPin => storedSSHPin' \/ q \in removed'.ssh
    /\ run[q].pc \in Loaded \ {"token"} /\ Kind(q) = "bootstrap"
          => (storedSSHPin' => storedSSHPin)
    /\ heldSSHBlock' =>
          \/ heldSSHBlock /\ target'.ssh.key = target.ssh.key
          \/ target'.ssh.key \in Runs /\ run[target'.ssh.key].pc # "done"
    /\ \A p \in Runs : run'[p].pc # "done" => run[p].pc # "done"

\* A step that leaves a run calm leaves all that is true of it.
LEMMA CalmKeeps ==
    ASSUME TypeOK, NEW q \in Runs, RunInv(q), Calm(q)
    PROVE  RunInv(q)'
<1>1. Kind(q)' = Kind(q) /\ BranchOf(q)' = BranchOf(q) /\ MayWrite(q)' = MayWrite(q)
      /\ captureTLS(q)' = captureTLS(q)
    BY DEF Calm, Kind, BranchOf, Branch, ReprovisionsSSH, MayWrite, captureTLS
<1>2. Control(q)'
    BY <1>1 DEF RunInv, Control, Calm, PinOf
<1>3. HostVouched(q)'
    BY <1>1 DEF RunInv, HostVouched, Calm
<1>4. TrustGiven(q)'
    BY <1>1 DEF RunInv, TrustGiven, Calm, CheckedOnly, Loaded
<1>5. PinOnFile(q)'
    BY DEF RunInv, PinOnFile, Calm
<1>6. NoPinUnder(q)'
    BY <1>1 DEF RunInv, NoPinUnder, Calm
<1>7. KeyPlaced(q)'
    BY <1>1 DEF RunInv, KeyPlaced, Control, Calm
<1>8. Told(q)'
    BY DEF RunInv, Told, Calm
<1>9. ReportKnows(q)'
    BY DEF RunInv, ReportKnows, Calm
<1> QED
    BY <1>2, <1>3, <1>4, <1>5, <1>6, <1>7, <1>8, <1>9 DEF RunInv

-----------------------------------------------------------------------------
(* What a run's own step does                                              *)

\* A run that ends keeps what is asked of one that has: it has said so when its
\* key is somewhere and not in the roster.
LEMMA EndsKeep ==
    ASSUME TypeOK, NEW r \in Runs, RunInv(r), NEW out \in Outs, NEW told \in BOOLEAN,
           Ends(r, out, told), HasTLS => HasTLS',
           \/ out = "killed" \/ told \/ run[r].persisted
           \/ \A h \in Hosts : r \notin auth'[h]
    PROVE  RunInv(r)'
<1>1. /\ run'[r].pc = "done" /\ run'[r].out = out /\ run'[r].told = told
      /\ run'[r].persisted = run[r].persisted /\ run'[r].insecure = run[r].insecure
      /\ run'[r].seen = None /\ run'[r].offered = {} /\ run'[r].unsettled = {}
    BY EndsRun
<1>2. Control(r)'
    BY <1>1 DEF Control, Loaded, KeySteps, CaptureSteps
<1>3. HostVouched(r)' /\ TrustGiven(r)' /\ NoPinUnder(r)'
    BY <1>1 DEF HostVouched, TrustGiven, NoPinUnder, Loaded, KeySteps, CaptureSteps
<1>4. PinOnFile(r)'
    BY <1>1 DEF RunInv, PinOnFile
<1>5. KeyPlaced(r)'
    BY <1>1 DEF KeyPlaced, KeySteps, CaptureSteps
<1>6. Told(r)'
    BY <1>1 DEF Told
<1>7. ReportKnows(r)'
    BY <1>1 DEF ReportKnows
<1> QED
    BY <1>2, <1>3, <1>4, <1>5, <1>6, <1>7 DEF RunInv

\* Away from the steps of its own key, a run that has not persisted it has none
\* anywhere.
LEMMA NoKeyOut ==
    ASSUME NEW r \in Runs, RunInv(r), run[r].pc # "done",
           \/ run[r].pc \notin KeySteps \cup CaptureSteps
           \/ Kind(r) # "bootstrap" \/ BranchOf(r) # "install"
    PROVE  run[r].persisted \/ \A h \in Hosts : r \notin auth[h]
BY DEF RunInv, KeyPlaced

\* What depends on a run's session alone.
LEMMA SessionKeeps ==
    ASSUME NEW r \in Runs, SameSession(r)
    PROVE  /\ Kind(r)' = Kind(r) /\ BranchOf(r)' = BranchOf(r)
           /\ MayWrite(r)' = MayWrite(r) /\ captureTLS(r)' = captureTLS(r)
BY DEF SameSession, Kind, BranchOf, Branch, ReprovisionsSSH, MayWrite, captureTLS

\* A move within the lock, with the stored SSH pin as it was, keeps what was
\* found, what was trusted and what a report knows.
LEMMA MoveKeeps ==
    ASSUME TypeOK, NEW r \in Runs, RunInv(r), SameSession(r), OthersSame(r),
           run[r].pc \in Loaded \ {"token"}, run'[r].pc \in Loaded,
           storedSSHPin' <=> storedSSHPin, removed' = removed
    PROVE  TrustGiven(r)' /\ NoPinUnder(r)' /\ Told(r)' /\ ReportKnows(r)'
<1>1. TrustGiven(r)'
    BY SessionKeeps DEF RunInv, TrustGiven, SameSession, Loaded
<1>2. NoPinUnder(r)'
    BY SessionKeeps DEF RunInv, NoPinUnder, SameSession
<1>3. Told(r)'
    BY DEF Told, Loaded
<1>4. ReportKnows(r)'
    <2>1. run[r].offered = {} /\ run'[r].offered = {}
        BY DEF RunInv, Control, SameSession, Loaded
    <2> QED
        BY <2>1 DEF ReportKnows, Loaded
<1> QED
    BY <1>1, <1>2, <1>3, <1>4

\* The rest of the state is as it was.
SharedSame == UNCHANGED <<at, proxy, tlsKey, auth, target, outside, removed>>

\* A run that fails, is refused or is killed with the world as it was.
LEMMA EndsAlone ==
    ASSUME TypeOK, NEW r \in Runs, RunInv(r), NEW out \in Outs, NEW told \in BOOLEAN,
           Ends(r, out, told), SharedSame,
           \/ out = "killed" \/ told \/ run[r].persisted
           \/ \A h \in Hosts : r \notin auth[h]
    PROVE  TypeOK' /\ RunInv(r)'
<1>1. TypeOK'
    BY EndsRun DEF TypeOK, SharedSame
<1>2. HasTLS => HasTLS'
    BY DEF SharedSame, HasTLS
<1>3. RunInv(r)'
    BY <1>2, EndsKeep DEF SharedSame
<1> QED
    BY <1>1, <1>3

LEMMA KillOwn ==
    ASSUME TypeOK, NEW r \in Runs, RunInv(r), Kill(r)
    PROVE  TypeOK' /\ RunInv(r)'
BY EndsAlone DEF Kill, Outs, SharedSame, node

LEMMA CheckBeforePromptOwn ==
    ASSUME TypeOK, NEW r \in Runs, RunInv(r), CheckBeforePrompt(r)
    PROVE  TypeOK' /\ RunInv(r)'
<1>1. SharedSame /\ run[r].pc = "start"
    BY DEF CheckBeforePrompt, SharedSame, node, Asked
<1>2. CASE Refused(r)
    BY <1>1, <1>2, EndsAlone, NoKeyOut DEF Refused, Outs, KeySteps, CaptureSteps
<1>3. ASSUME NEW c \in Commands, c.kind = "bootstrap",
             run' = [run EXCEPT ![r].pc = "prepare", ![r].cmd = c], lock' = lock
      PROVE  TypeOK' /\ RunInv(r)'
    <2>1. /\ run' \in [Runs -> RunStates] /\ OthersSame(r) /\ SameKnowledge(r)
          /\ run'[r].pc = "prepare" /\ run'[r].cmd = c
          /\ run'[r].seen = run[r].seen /\ run'[r].persisted = run[r].persisted
          /\ run'[r].insecure = run[r].insecure
        BY <1>3, AskedRun, LabelNames
    <2>2. TypeOK'
        BY <1>1, <1>3, <2>1 DEF TypeOK, SharedSame
    <2>3. run[r].persisted # TRUE /\ run[r].offered = {}
        BY <1>1 DEF RunInv, Control
    <2>4. run[r].persisted = FALSE
        BY <2>3 DEF TypeOK, RunStates
    <2>5. Control(r)'
        BY <1>3, <2>1, <2>3, <2>4 DEF Control, Kind, Loaded, KeySteps, CaptureSteps, SameKnowledge
    <2>6. HostVouched(r)' /\ TrustGiven(r)' /\ NoPinUnder(r)' /\ Told(r)' /\ ReportKnows(r)'
        BY <2>1, <2>3 DEF HostVouched, TrustGiven, NoPinUnder, Told, ReportKnows, Loaded,
                          KeySteps, CaptureSteps, SameKnowledge
    <2>7. PinOnFile(r)'
        BY <1>1, <2>1, <2>4 DEF RunInv, PinOnFile, SharedSame, HasTLS
    <2>8. KeyPlaced(r)'
        BY <1>1, <2>1, <2>4, NoKeyOut DEF KeyPlaced, KeySteps, CaptureSteps, SharedSame
    <2> QED
        BY <2>2, <2>5, <2>6, <2>7, <2>8 DEF RunInv
<1> QED
    BY <1>2, <1>3 DEF CheckBeforePrompt, Asked

LEMMA PrepareOwn ==
    ASSUME TypeOK, NEW r \in Runs, RunInv(r), Prepare(r)
    PROVE  TypeOK' /\ RunInv(r)'
<1>1. SharedSame /\ run[r].pc = "prepare"
    BY DEF Prepare, SharedSame, node
<1>2. CASE Refused(r)
    BY <1>1, <1>2, EndsAlone, NoKeyOut DEF Refused, Outs, KeySteps, CaptureSteps
<1> DEFINE c == run[r].cmd
<1>3. ASSUME NEW i \in BOOLEAN, NEW b, i = ResolvedInsecure(c),
             b = IF target = None THEN None ELSE target.tls,
             checkCaptureTrust(c), lock' = lock,
             run' = [run EXCEPT ![r].pc = "lock", ![r].insecure = i, ![r].seen = b]
      PROVE  TypeOK' /\ RunInv(r)'
    <2>1. c \in Commands /\ c.kind = "bootstrap"
        BY <1>1 DEF RunInv, Control, Kind
    <2>2. c \in Bootstraps
        BY <2>1, HostTrustAssumption DEF Bootstraps, PinTLSs, KeyReports
    <2>3. b \in TLSBlocks \cup {None}
        BY <1>3, <2>2 DEF TypeOK, Target
    <2>4. checkCaptureTrust(c) /\ i = ResolvedInsecure(c)
          /\ (b # None => target # None /\ target.tls = b)
        BY <1>3
    <2>5. /\ run' \in [Runs -> RunStates] /\ OthersSame(r) /\ SameKnowledge(r)
          /\ run'[r].pc = "lock" /\ run'[r].cmd = run[r].cmd /\ run'[r].insecure = i
          /\ run'[r].seen = b /\ run'[r].persisted = run[r].persisted
        <3> DEFINE new == [run[r] EXCEPT !.pc = "lock", !.insecure = i, !.seen = b]
        <3>1. run[r] \in RunStates
            BY DEF TypeOK
        <3>2. new \in RunStates
            BY <2>3, <3>1, LabelNames DEF RunStates
        <3>3. run' = [run EXCEPT ![r] = new]
            BY <1>3
        <3>4. run' \in [Runs -> RunStates] /\ OthersSame(r) /\ run'[r] = new
            BY <3>2, <3>3, EditRun
        <3> QED
            BY <3>1, <3>4 DEF RunStates, SameKnowledge
    <2>6. TypeOK'
        BY <1>1, <1>3, <2>5 DEF TypeOK, SharedSame
    <2>7. run[r].persisted # TRUE /\ run[r].offered = {}
        BY <1>1 DEF RunInv, Control
    <2>8. run[r].persisted = FALSE
        BY <2>7 DEF TypeOK, RunStates
    <2>9. Control(r)'
        BY <2>1, <2>5, <2>7, <2>8 DEF Control, Kind, Loaded, KeySteps, CaptureSteps, SameKnowledge
    <2>10. HostVouched(r)' /\ NoPinUnder(r)' /\ Told(r)' /\ ReportKnows(r)'
        BY <2>5, <2>7 DEF HostVouched, NoPinUnder, Told, ReportKnows, Loaded,
                          KeySteps, CaptureSteps, SameKnowledge
    <2>11. TrustGiven(r)'
        <3>1. /\ c.reprovisioned => c.fp # None
              /\ ~c.reprovisioned /\ i /\ c.fp = None /\ ~c.tofu
                    => ~c.noKey /\ storedSSHPin
            BY <2>2, <2>4 DEF checkCaptureTrust, CheckReprovision, Bootstraps
        <3> QED
            BY <1>1, <2>5, <3>1 DEF TrustGiven, Loaded, SharedSame, storedSSHPin
    <2>12. PinOnFile(r)'
        BY <1>1, <2>4, <2>5, <2>8 DEF PinOnFile, SharedSame, HasTLS
    <2>13. KeyPlaced(r)'
        BY <1>1, <2>5, <2>8, NoKeyOut DEF KeyPlaced, KeySteps, CaptureSteps, SharedSame
    <2> QED
        BY <2>6, <2>9, <2>10, <2>11, <2>12, <2>13 DEF RunInv
<1>4. ResolvedInsecure(c) \in BOOLEAN
    BY Zenon DEF ResolvedInsecure
<1> QED
    BY <1>2, <1>3, <1>4 DEF Prepare

LEMMA LockOwn ==
    ASSUME TypeOK, NEW r \in Runs, RunInv(r), Lock(r) \/ PinLock(r)
    PROVE  TypeOK' /\ RunInv(r)'
<1>1. PICK from \in {"lock", "pinlock"}, to \in {"load", "pinload"} :
         Locked(r, from, to) /\ (from = "lock" <=> to = "load")
    BY DEF Lock, PinLock
<1>2. SharedSame /\ run[r].pc = from
    BY <1>1 DEF Locked, SharedSame, node
<1>3. CASE Failed(r)
    BY <1>2, <1>3, EndsAlone, NoKeyOut DEF Failed, Outs, KeySteps, CaptureSteps
<1>4. CASE lock' = r /\ Goto(r, to)
    <2>1. /\ run' \in [Runs -> RunStates] /\ OthersSame(r)
          /\ run'[r].pc = to /\ SameSession(r)
          /\ run'[r].host = run[r].host /\ run'[r].pin = run[r].pin
          /\ run'[r].persisted = run[r].persisted
        BY <1>4, GotoRun, LabelNames
    <2>2. TypeOK'
        BY <1>2, <1>4, <2>1 DEF TypeOK, SharedSame
    <2>3. run[r].persisted = FALSE /\ run[r].offered = {}
        BY <1>2 DEF RunInv, Control, TypeOK, RunStates
    <2>4. Control(r)'
        BY <1>1, <1>2, <2>1, <2>3, SessionKeeps
           DEF RunInv, Control, Loaded, KeySteps, CaptureSteps, SameSession, SharedSame
    <2>5. HostVouched(r)' /\ NoPinUnder(r)' /\ Told(r)' /\ ReportKnows(r)'
        BY <2>1, <2>3 DEF HostVouched, NoPinUnder, Told, ReportKnows, Loaded,
                          KeySteps, CaptureSteps, SameSession
    <2>6. TrustGiven(r)'
        BY <1>1, <1>2, <2>1, SessionKeeps
           DEF RunInv, TrustGiven, Loaded, SharedSame, SameSession, storedSSHPin
    <2>7. PinOnFile(r)'
        BY <1>2, <2>1, <2>3 DEF RunInv, PinOnFile, SharedSame, HasTLS, SameSession
    <2>8. KeyPlaced(r)'
        BY <1>2, <2>1, <2>3, NoKeyOut DEF KeyPlaced, KeySteps, CaptureSteps, SharedSame
    <2> QED
        BY <2>2, <2>4, <2>5, <2>6, <2>7, <2>8 DEF RunInv
<1> QED
    BY <1>1, <1>3, <1>4 DEF Locked

\* The entry that a bootstrap makes sure of is one, and takes nothing away.
LEMMA EnsuredTarget ==
    ASSUME TypeOK, NEW r \in Runs
    PROVE  LET t == ensureTargetExists(r)
           IN  /\ t \in Target /\ t # None /\ (target # None => t = target)
               /\ target = None => t.ssh = None /\ t.tls = None
<1>1. run[r].insecure \in BOOLEAN
    BY DEF TypeOK, RunStates
<1>2. \A i \in BOOLEAN :
         [insecure |-> i, token |-> FALSE, ssh |-> None, tls |-> None] \in Target
    BY DEF Target
<1>3. None \notin Target /\ target \in Target \cup {None}
    BY HostTrustAssumption DEF TypeOK
<1>4. CASE target # None
    BY <1>3, <1>4 DEF ensureTargetExists
<1>5. CASE target = None
    BY <1>1, <1>2, <1>3, <1>5 DEF ensureTargetExists
<1> QED
    BY <1>4, <1>5

\* The pinned SSH block, if there is one.
LEMMA LoadedAuth ==
    ASSUME TypeOK
    PROVE  /\ loadExistingSSHAuth \in SSHBlocks \cup {None}
           /\ loadExistingSSHAuth # None <=> storedSSHPin
           /\ loadExistingSSHAuth # None
                 => loadExistingSSHAuth = target.ssh /\ target.ssh.fp \in Hosts
<1>1. storedSSHPin => target.ssh \in SSHBlocks /\ target.ssh.fp \in Hosts
    BY DEF storedSSHPin, TypeOK, Target, SSHBlocks
<1> QED
    BY <1>1, HostTrustAssumption DEF loadExistingSSHAuth, storedSSHPin

LEMMA LoadOwn ==
    ASSUME TypeOK, NEW r \in Runs, RunInv(r), Load(r)
    PROVE  TypeOK' /\ RunInv(r)'
<1> DEFINE c == run[r].cmd
           t == ensureTargetExists(r)
           o == loadExistingSSHAuth
           b == Branch(c, o)
<1>1. /\ run[r].pc = "load" /\ auth' = auth /\ removed' = removed /\ outside' = outside
      /\ at' = at /\ proxy' = proxy /\ tlsKey' = tlsKey
    BY DEF Load, node
<1>2. /\ t \in Target /\ t # None /\ (target # None => t = target)
      /\ target = None => t.ssh = None /\ t.tls = None
    BY EnsuredTarget
<1>3. CASE Refused(r) /\ target' \in {target, t}
    <2>1. TypeOK'
        BY <1>1, <1>2, <1>3, EndsRun DEF TypeOK, Refused, Outs
    <2>2. HasTLS => HasTLS'
        BY <1>1, <1>2, <1>3 DEF HasTLS
    <2>3. RunInv(r)'
        BY <1>1, <1>3, <2>2, EndsKeep, NoKeyOut DEF Refused, Outs, KeySteps, CaptureSteps
    <2> QED
        BY <2>1, <2>3
<1>4. ASSUME target' = t, lock' = lock,
             run' = [run EXCEPT ![r].pc = b, ![r].old = o, ![r].seen = t.tls]
      PROVE  TypeOK' /\ RunInv(r)'
    <2>1. o \in SSHBlocks \cup {None} /\ (o # None <=> storedSSHPin)
        BY LoadedAuth
    <2>2. /\ b \in {"password", "reconnect", "install"} /\ b \in PCs
          /\ t.tls \in TLSBlocks \cup {None}
        BY <1>2, LabelNames DEF Branch, Target
    <2>3. b = "reconnect" => o # None
        BY DEF Branch
    <2>4. b = "password" => c.noKey
        BY DEF Branch
    <2>5. PICK l \in {"password", "reconnect", "install"}, oo \in SSHBlocks \cup {None},
               tls \in TLSBlocks \cup {None} : l = b /\ oo = o /\ tls = t.tls
        BY <2>1, <2>2
    <2> HIDE DEF b, o
    <2>6. /\ run' \in [Runs -> RunStates] /\ OthersSame(r) /\ SameKnowledge(r)
          /\ run'[r].pc = l /\ run'[r].cmd = run[r].cmd
          /\ run'[r].insecure = run[r].insecure /\ run'[r].old = oo
          /\ run'[r].seen = tls /\ run'[r].persisted = run[r].persisted
        <3>1. l \in PCs /\ run' = [run EXCEPT ![r].pc = l, ![r].old = oo, ![r].seen = tls]
            BY <1>4, <2>2, <2>5
        <3> DEFINE new == [run[r] EXCEPT !.pc = l, !.old = oo, !.seen = tls]
        <3>2. run[r] \in RunStates
            BY DEF TypeOK
        <3>3. new \in RunStates
            BY <3>1, <3>2 DEF RunStates
        <3>4. run' = [run EXCEPT ![r] = new]
            BY <3>1
        <3>5. run' \in [Runs -> RunStates] /\ OthersSame(r) /\ run'[r] = new
            BY <3>3, <3>4, EditRun
        <3> QED
            BY <3>2, <3>5 DEF RunStates, SameKnowledge
    <2>7. TypeOK'
        BY <1>1, <1>2, <1>4, <2>6 DEF TypeOK
    <2>8. run[r].persisted = FALSE /\ run[r].offered = {}
        BY <1>1 DEF RunInv, Control, TypeOK, RunStates
    <2>9. c \in Commands /\ c.kind = "bootstrap"
        BY <1>1 DEF RunInv, Control, Kind
    <2>10. Kind(r)' = "bootstrap" /\ BranchOf(r)' = l
        BY <2>5, <2>6, <2>9 DEF Kind, BranchOf, b, o
    <2>11. Control(r)'
        BY <1>2, <1>4, <2>3, <2>5, <2>6, <2>8, <2>9, <2>10
           DEF Control, Loaded, KeySteps, CaptureSteps, SameKnowledge
    <2>12. HostVouched(r)' /\ Told(r)' /\ ReportKnows(r)'
        BY <2>6, <2>8 DEF HostVouched, Told, ReportKnows,
                          KeySteps, CaptureSteps, SameKnowledge
    <2>13. NoPinUnder(r)'
        BY <1>2, <1>4, <2>1, <2>5, <2>6 DEF NoPinUnder, storedSSHPin
    <2>14. TrustGiven(r)'
        BY <1>1, <2>1, <2>5, <2>6, <2>9 DEF RunInv, TrustGiven, Loaded, Kind
    <2>15. PinOnFile(r)'
        BY <1>2, <1>4, <2>5, <2>6, <2>8 DEF PinOnFile, HasTLS
    <2>16. KeyPlaced(r)'
        BY <1>1, <2>6, <2>8, NoKeyOut DEF KeyPlaced, KeySteps, CaptureSteps
    <2> QED
        BY <2>7, <2>11, <2>12, <2>13, <2>14, <2>15, <2>16 DEF RunInv
<1> QED
    BY <1>3, <1>4 DEF Load

LEMMA FreshMeans ==
    ASSUME NEW r \in Runs
    PROVE  Fresh(r) <=> Kind(r) = "bootstrap" /\ BranchOf(r) = "install"
BY DEF Fresh, Kind, BranchOf

\* A bootstrap whose session is open goes on to the capture, the roster or the
\* token, with its key where the session is.
LEMMA AfterDialOwn ==
    ASSUME TypeOK, NEW r \in Runs, RunInv(r), SameSession(r), OthersSame(r), SharedSame,
           run'[r].persisted = run[r].persisted, run'[r].pc = AfterDial(r),
           run[r].pc \in {"password", "reconnect", "dial"}, Kind(r) = "bootstrap",
           run'[r].host \in Hosts,
           run[r].pc = "dial" => run'[r].host = run[r].host,
           IF BranchOf(r) = "reconnect" THEN run'[r].host = run[r].old.fp
           ELSE run[r].cmd.fp \in {None, run'[r].host}
    PROVE  RunInv(r)'
<1>1. /\ run'[r].pc \in {"capture", "persist", "token"}
      /\ run'[r].pc = "capture" <=> captureTLS(r)
      /\ run'[r].pc = "persist" => Fresh(r)
      /\ run'[r].pc = "token" => ~Fresh(r)
    BY DEF AfterDial
<1>2. run[r].persisted = FALSE /\ run[r].offered = {}
    BY DEF RunInv, Control, TypeOK, RunStates
<1>3. run[r].cmd \in Commands /\ target # None
      /\ BranchOf(r) = (CASE run[r].pc = "password" -> "password"
                          [] run[r].pc = "reconnect" -> "reconnect"
                          [] run[r].pc = "dial" -> "install")
    BY DEF RunInv, Control, Loaded, KeySteps
<1>4. TrustGiven(r)' /\ NoPinUnder(r)' /\ Told(r)' /\ ReportKnows(r)'
    BY <1>1, MoveKeeps DEF SharedSame, Loaded, storedSSHPin
<1>5. Control(r)'
    BY <1>1, <1>2, <1>3, SessionKeeps, FreshMeans
       DEF Control, Loaded, KeySteps, CaptureSteps, SameSession, SharedSame
<1>6. HostVouched(r)'
    BY <1>1, SessionKeeps DEF HostVouched, SameSession
<1>7. PinOnFile(r)'
    BY <1>1, <1>2 DEF RunInv, PinOnFile, captureTLS, SameSession, SharedSame, HasTLS
<1>8. KeyPlaced(r)'
    BY <1>1, <1>2, <1>3, SessionKeeps, FreshMeans
       DEF RunInv, KeyPlaced, KeySteps, CaptureSteps, SharedSame
<1> QED
    BY <1>4, <1>5, <1>6, <1>7, <1>8 DEF RunInv

LEMMA AfterDialLabel ==
    ASSUME NEW r \in Runs
    PROVE  AfterDial(r) \in PCs
BY LabelNames DEF AfterDial

LEMMA DialWithPasswordOwn ==
    ASSUME TypeOK, NEW r \in Runs, RunInv(r), DialWithPassword(r)
    PROVE  TypeOK' /\ RunInv(r)'
<1>1. SharedSame /\ run[r].pc = "password"
    BY DEF DialWithPassword, SharedSame, node
<1>2. CASE Failed(r)
    BY <1>1, <1>2, EndsAlone, NoKeyOut DEF Failed, Outs, KeySteps, CaptureSteps
<1>3. CASE /\ HostKeyAccepted(run[r].cmd.fp) /\ lock' = lock
           /\ run' = [run EXCEPT ![r].pc = AfterDial(r), ![r].host = at]
    <2>1. PICK l \in PCs, h \in Hosts : l = AfterDial(r) /\ h = at
        BY AfterDialLabel DEF TypeOK
    <2>2. run' = [run EXCEPT ![r].pc = l, ![r].host = h]
        BY <1>3, <2>1
    <2>3. /\ run' \in [Runs -> RunStates] /\ OthersSame(r) /\ SameSession(r)
          /\ run'[r].pc = l /\ run'[r].host = h /\ run'[r].persisted = run[r].persisted
        BY <2>2, DialledRun
    <2>4. TypeOK'
        BY <1>1, <1>3, <2>3 DEF TypeOK, SharedSame
    <2>5. Kind(r) = "bootstrap" /\ BranchOf(r) = "password"
        BY <1>1 DEF RunInv, Control
    <2>6. RunInv(r)'
        BY <1>1, <1>3, <2>1, <2>3, <2>5, AfterDialOwn DEF HostKeyAccepted
    <2> QED
        BY <2>4, <2>6
<1> QED
    BY <1>2, <1>3 DEF DialWithPassword

LEMMA ReconnectOwn ==
    ASSUME TypeOK, NEW r \in Runs, RunInv(r), ReconnectWithPinnedKey(r)
    PROVE  TypeOK' /\ RunInv(r)'
<1>1. SharedSame /\ run[r].pc = "reconnect"
    BY DEF ReconnectWithPinnedKey, SharedSame, node
<1>2. CASE Failed(r)
    BY <1>1, <1>2, EndsAlone, NoKeyOut DEF Failed, Outs, KeySteps, CaptureSteps
<1> DEFINE next == IF run[r].cmd.kind = "pin-tls" THEN "capture" ELSE AfterDial(r)
<1>3. ASSUME dialPinned(run[r].old.key, run[r].old.fp), lock' = lock,
             run' = [run EXCEPT ![r].host = at, ![r].pc = next]
      PROVE  TypeOK' /\ RunInv(r)'
    <2>1. PICK l \in PCs, h \in Hosts : l = next /\ h = at
        BY AfterDialLabel, LabelNames DEF TypeOK
    <2>2. run' = [run EXCEPT ![r].host = h, ![r].pc = l]
        BY <1>3, <2>1
    <2>3. /\ run' \in [Runs -> RunStates] /\ OthersSame(r) /\ SameSession(r)
          /\ run'[r].pc = l /\ run'[r].host = h /\ run'[r].persisted = run[r].persisted
        BY <2>2, DialledRun
    <2>4. TypeOK'
        BY <1>1, <1>3, <2>3 DEF TypeOK, SharedSame
    <2>5. /\ run[r].old # None /\ run[r].cmd \in Commands /\ target # None
          /\ Kind(r) = "bootstrap" => BranchOf(r) = "reconnect"
          /\ Kind(r) \in {"bootstrap", "pin-tls"}
        BY <1>1 DEF RunInv, Control, Loaded
    <2>6. h = run[r].old.fp
        BY <1>3, <2>1 DEF dialPinned
    <2>7. CASE Kind(r) = "bootstrap"
        BY <1>1, <2>1, <2>3, <2>4, <2>5, <2>6, <2>7, AfterDialOwn DEF Kind
    <2>8. CASE Kind(r) = "pin-tls"
        <3>1. l = "capture"
            BY <2>1, <2>8 DEF Kind
        <3>2. run[r].persisted = FALSE /\ run[r].offered = {}
            BY <1>1 DEF RunInv, Control, TypeOK, RunStates
        <3>3. TrustGiven(r)' /\ NoPinUnder(r)' /\ Told(r)' /\ ReportKnows(r)'
            BY <1>1, <2>3, <3>1, MoveKeeps DEF SharedSame, Loaded, storedSSHPin
        <3>4. Control(r)'
            BY <1>1, <2>3, <2>5, <2>8, <3>1, <3>2, SessionKeeps
               DEF Control, Loaded, KeySteps, CaptureSteps, SameSession, SharedSame
        <3>5. HostVouched(r)'
            BY <2>3, <2>5, <2>6, <2>8, SessionKeeps DEF HostVouched, SameSession
        <3>6. PinOnFile(r)'
            BY <1>1, <2>3, <3>1, <3>2 DEF RunInv, PinOnFile, SameSession, SharedSame, HasTLS
        <3>7. KeyPlaced(r)'
            BY <1>1, <2>3, <2>8, <3>1, <3>2, SessionKeeps, NoKeyOut
               DEF KeyPlaced, KeySteps, CaptureSteps, SharedSame
        <3> QED
            BY <2>4, <3>3, <3>4, <3>5, <3>6, <3>7 DEF RunInv
    <2> QED
        BY <2>5, <2>7, <2>8
<1> QED
    BY <1>2, <1>3 DEF ReconnectWithPinnedKey

\* The hosts' key files hold keys, whatever is added to or taken from one.
LEMMA AuthType ==
    ASSUME TypeOK, NEW r \in Runs, NEW h \in Hosts
    PROVE  /\ [auth EXCEPT ![h] = @ \cup {r}] \in [Hosts -> SUBSET Keypairs]
           /\ RemoveAuthorizedKey(h, r) \in [Hosts -> SUBSET Keypairs]
BY DEF TypeOK, Keypairs, RemoveAuthorizedKey

LEMMA InstallOwn ==
    ASSUME TypeOK, NEW r \in Runs, RunInv(r), InstallPubkeyViaPassword(r)
    PROVE  TypeOK' /\ RunInv(r)'
<1> DEFINE installed == [auth EXCEPT ![at] = @ \cup {r}]
<1>1. /\ run[r].pc = "install" /\ target' = target /\ removed' = removed
      /\ outside' = outside /\ at' = at /\ proxy' = proxy /\ tlsKey' = tlsKey
    BY DEF InstallPubkeyViaPassword, node
<1>2. /\ run[r].persisted = FALSE /\ run[r].offered = {}
      /\ \A h \in Hosts : r \notin auth[h]
    <2>1. run[r].persisted = FALSE /\ run[r].offered = {}
        BY <1>1 DEF RunInv, Control, TypeOK, RunStates
    <2> QED
        BY <1>1, <2>1, NoKeyOut DEF KeySteps, CaptureSteps
<1>3. HasTLS => HasTLS'
    BY <1>1 DEF HasTLS
<1>4. CASE Failed(r) /\ UNCHANGED auth
    BY <1>1, <1>2, <1>4, EndsAlone DEF Failed, Outs, SharedSame
<1>5. CASE auth' \in {auth, installed} /\ keyLeftBehind(r)
    <2>1. TypeOK'
        <3>1. auth' \in [Hosts -> SUBSET Keypairs]
            <4>1. at \in Hosts /\ auth \in [Hosts -> SUBSET Keypairs]
                BY DEF TypeOK
            <4>2. installed \in [Hosts -> SUBSET Keypairs]
                BY <4>1, AuthType
            <4> HIDE DEF installed
            <4> QED
                BY <1>5, <4>1, <4>2
        <3>2. run' \in [Runs -> RunStates] /\ lock' \in Runs \cup {None}
            BY <1>5, EndsRun DEF keyLeftBehind, Outs
        <3> QED
            BY <1>1, <3>1, <3>2 DEF TypeOK
    <2>2. RunInv(r)'
        BY <1>3, <1>5, EndsKeep DEF keyLeftBehind, Outs
    <2> QED
        BY <2>1, <2>2
<1>6. ASSUME HostKeyAccepted(run[r].cmd.fp), auth' = installed, lock' = lock,
             run' = [run EXCEPT ![r].pc = "dial", ![r].host = at]
      PROVE  TypeOK' /\ RunInv(r)'
    <2>1. PICK h \in Hosts : h = at
        BY DEF TypeOK
    <2>2. run' = [run EXCEPT ![r].pc = "dial", ![r].host = h]
        BY <1>6, <2>1
    <2>3. /\ run' \in [Runs -> RunStates] /\ OthersSame(r) /\ SameSession(r)
          /\ run'[r].pc = "dial" /\ run'[r].host = h
          /\ run'[r].persisted = run[r].persisted
        BY <2>2, DialledRun, LabelNames
    <2>4. TypeOK'
        BY <1>1, <1>6, <2>3, AuthType DEF TypeOK
    <2>5. /\ Kind(r) = "bootstrap" /\ BranchOf(r) = "install"
          /\ run[r].cmd \in Commands /\ target # None
        BY <1>1 DEF RunInv, Control, Loaded
    <2>6. TrustGiven(r)' /\ NoPinUnder(r)' /\ Told(r)' /\ ReportKnows(r)'
        BY <1>1, <2>3, MoveKeeps DEF Loaded, storedSSHPin
    <2>7. Control(r)'
        BY <1>1, <1>2, <2>3, <2>5, SessionKeeps
           DEF Control, Loaded, KeySteps, CaptureSteps, SameSession
    <2>8. HostVouched(r)'
        BY <1>6, <2>1, <2>3, <2>5, SessionKeeps DEF HostVouched, SameSession, HostKeyAccepted
    <2>9. PinOnFile(r)'
        BY <1>1, <1>2, <2>3 DEF RunInv, PinOnFile, SameSession, HasTLS
    <2>10. /\ r \in auth'[h]
           /\ \A g \in Hosts : r \in auth'[g] => g = h
        BY <1>2, <1>6, <2>1 DEF TypeOK
    <2>11. KeyPlaced(r)'
        BY <2>3, <2>5, <2>10, SessionKeeps DEF KeyPlaced, KeySteps
    <2> QED
        BY <2>4, <2>6, <2>7, <2>8, <2>9, <2>11 DEF RunInv
<1> QED
    BY <1>4, <1>5, <1>6 DEF InstallPubkeyViaPassword

\* A bootstrap that has a key of its own goes on to take it back.
LEMMA TakeBackOwn ==
    ASSUME TypeOK, NEW r \in Runs, RunInv(r), SharedSame, lock' = lock, Fresh(r),
           run[r].pc \in KeySteps \cup CaptureSteps,
           NEW l \in {"droppw", "drop"}, Goto(r, l)
    PROVE  TypeOK' /\ RunInv(r)'
<1>1. /\ run' \in [Runs -> RunStates] /\ OthersSame(r)
      /\ run'[r].pc = l /\ SameSession(r)
      /\ run'[r].host = run[r].host /\ run'[r].pin = run[r].pin
      /\ run'[r].persisted = run[r].persisted
    BY GotoRun, LabelNames
<1>2. TypeOK'
    BY <1>1 DEF TypeOK, SharedSame
<1>3. Kind(r) = "bootstrap" /\ BranchOf(r) = "install"
    BY FreshMeans
<1>4. /\ run[r].cmd \in Commands /\ run[r].persisted = FALSE /\ run[r].offered = {}
      /\ target # None /\ run[r].host \in Hosts
    BY <1>3 DEF RunInv, Control, TypeOK, RunStates, KeySteps, CaptureSteps, Loaded
<1>5. TrustGiven(r)' /\ NoPinUnder(r)' /\ Told(r)' /\ ReportKnows(r)'
    BY <1>1, MoveKeeps DEF SharedSame, Loaded, storedSSHPin, KeySteps, CaptureSteps
<1>6. Control(r)'
    BY <1>1, <1>3, <1>4, SessionKeeps
       DEF Control, Loaded, KeySteps, CaptureSteps, SameSession, SharedSame
<1>7. HostVouched(r)'
    BY <1>1, <1>3, SessionKeeps DEF RunInv, HostVouched, SameSession, KeySteps, CaptureSteps
<1>8. PinOnFile(r)'
    BY <1>1, <1>4 DEF RunInv, PinOnFile, SameSession, SharedSame, HasTLS
<1>9. KeyPlaced(r)'
    BY <1>1, <1>3, <1>4, SessionKeeps
       DEF RunInv, KeyPlaced, KeySteps, CaptureSteps, SharedSame
<1> QED
    BY <1>2, <1>5, <1>6, <1>7, <1>8, <1>9 DEF RunInv

LEMMA DialWithKeyOwn ==
    ASSUME TypeOK, NEW r \in Runs, RunInv(r), DialWithKey(r)
    PROVE  TypeOK' /\ RunInv(r)'
<1>1. SharedSame /\ run[r].pc = "dial" /\ lock' = lock
    BY DEF DialWithKey, SharedSame, node
<1>2. Kind(r) = "bootstrap" /\ BranchOf(r) = "install" /\ run[r].host \in Hosts
    BY <1>1 DEF RunInv, Control, KeySteps
<1>3. CASE Goto(r, "droppw")
    BY <1>1, <1>2, <1>3, TakeBackOwn, FreshMeans DEF KeySteps
<1>4. CASE Goto(r, AfterDial(r))
    <2>1. PICK l \in PCs : l = AfterDial(r)
        BY AfterDialLabel
    <2>2. /\ run' \in [Runs -> RunStates] /\ OthersSame(r)
          /\ run'[r].pc = l /\ SameSession(r)
          /\ run'[r].host = run[r].host /\ run'[r].persisted = run[r].persisted
        BY <1>4, <2>1, GotoRun
    <2>3. TypeOK'
        BY <1>1, <2>2 DEF TypeOK, SharedSame
    <2>4. run[r].cmd.fp \in {None, run[r].host}
        BY <1>1, <1>2 DEF RunInv, HostVouched, KeySteps
    <2>5. RunInv(r)'
        BY <1>1, <1>2, <2>1, <2>2, <2>4, AfterDialOwn
    <2> QED
        BY <2>3, <2>5
<1> QED
    BY <1>3, <1>4 DEF DialWithKey

\* A capture that fails ends the run, or makes it take its key back.
LEMMA CaptureFailsOwn ==
    ASSUME TypeOK, NEW r \in Runs, RunInv(r), SharedSame,
           run[r].pc \in CaptureSteps, CaptureFails(r)
    PROVE  TypeOK' /\ RunInv(r)'
<1>1. CASE Fresh(r)
    BY <1>1, TakeBackOwn DEF CaptureFails
<1>2. CASE ~Fresh(r)
    BY <1>2, EndsAlone, NoKeyOut, FreshMeans DEF CaptureFails, Failed, Outs, CaptureSteps
<1> QED
    BY <1>1, <1>2

LEMMA capturePinOwn ==
    ASSUME TypeOK, NEW r \in Runs, RunInv(r), capturePin(r)
    PROVE  TypeOK' /\ RunInv(r)'
<1>1. SharedSame /\ run[r].pc = "capture"
    BY DEF capturePin, SharedSame, node
<1>2. CASE CaptureFails(r)
    BY <1>1, <1>2, CaptureFailsOwn DEF CaptureSteps
<1>3. ASSUME run' = [run EXCEPT ![r].pc = "served", ![r].pin = tlsKey[run[r].host]],
             lock' = lock
      PROVE  TypeOK' /\ RunInv(r)'
    <2>1. /\ run[r].host \in Hosts /\ run[r].cmd \in Commands /\ target # None
          /\ Kind(r) \in {"bootstrap", "pin-tls"}
          /\ Kind(r) = "bootstrap" => captureTLS(r)
          /\ run[r].persisted = FALSE /\ run[r].offered = {}
        BY <1>1 DEF RunInv, Control, Loaded, KeySteps, CaptureSteps, TypeOK, RunStates
    <2>2. PICK k \in TLSKeys : k = tlsKey[run[r].host]
        BY <2>1 DEF TypeOK
    <2>3. run' = [run EXCEPT ![r].pc = "served", ![r].pin = k]
        BY <1>3, <2>2
    <2>4. /\ run' \in [Runs -> RunStates] /\ OthersSame(r) /\ SameSession(r)
          /\ run'[r].pc = "served" /\ run'[r].pin = k
          /\ run'[r].host = run[r].host /\ run'[r].persisted = run[r].persisted
        <3> DEFINE new == [run[r] EXCEPT !.pc = "served", !.pin = k]
        <3>1. run[r] \in RunStates
            BY DEF TypeOK
        <3>2. new \in RunStates
            BY <3>1, LabelNames DEF RunStates
        <3>3. run' = [run EXCEPT ![r] = new]
            BY <2>3
        <3>4. run' \in [Runs -> RunStates] /\ OthersSame(r) /\ run'[r] = new
            BY <3>2, <3>3, EditRun
        <3> QED
            BY <3>1, <3>4 DEF RunStates, SameSession
    <2>5. TypeOK'
        BY <1>1, <1>3, <2>4 DEF TypeOK, SharedSame
    <2>6. TrustGiven(r)' /\ NoPinUnder(r)' /\ Told(r)' /\ ReportKnows(r)'
        BY <1>1, <2>4, MoveKeeps DEF SharedSame, Loaded, storedSSHPin
    <2>7. Control(r)'
        BY <1>1, <2>1, <2>4, SessionKeeps
           DEF Control, Loaded, KeySteps, CaptureSteps, SameSession, SharedSame
    <2>8. HostVouched(r)'
        <3>1. Kind(r) = "pin-tls" => run[r].old # None /\ run[r].host = run[r].old.fp
            BY <1>1, <2>1, HostTrustAssumption DEF RunInv, HostVouched, CaptureSteps
        <3> QED
            BY <1>1, <2>1, <2>4, <3>1, SessionKeeps
               DEF RunInv, HostVouched, SameSession, CaptureSteps
    <2>9. PinOnFile(r)'
        BY <1>1, <2>1, <2>4 DEF RunInv, PinOnFile, SameSession, SharedSame, HasTLS
    <2>10. KeyPlaced(r)'
        BY <1>1, <2>1, <2>4, SessionKeeps
           DEF RunInv, KeyPlaced, KeySteps, CaptureSteps, SharedSame
    <2> QED
        BY <2>5, <2>6, <2>7, <2>8, <2>9, <2>10 DEF RunInv
<1> QED
    BY <1>2, <1>3 DEF capturePin

\* With the TLS pin on file, a pin-tls is over and a bootstrap goes on.
LEMMA AfterCaptureOwn ==
    ASSUME TypeOK, NEW r \in Runs, RunInv(r), AfterCapture(r),
           run[r].pc \in {"served", "write"}, auth' = auth, removed' = removed,
           storedSSHPin' <=> storedSSHPin, target' # None, HasTLS'
    PROVE  /\ run' \in [Runs -> RunStates] /\ lock' \in Runs \cup {None}
           /\ RunInv(r)'
<1>1. /\ run[r].cmd \in Commands /\ Kind(r) \in {"bootstrap", "pin-tls"}
      /\ Kind(r) = "bootstrap" => run[r].host \in Hosts
      /\ run[r].persisted = FALSE /\ run[r].offered = {}
    BY DEF RunInv, Control, Loaded, KeySteps, CaptureSteps, TypeOK, RunStates
<1>2. CASE Kind(r) = "pin-tls"
    <2>1. Ends(r, "ok", FALSE)
        BY <1>2 DEF AfterCapture, Kind
    <2> QED
        BY <1>1, <1>2, <2>1, EndsRun, EndsKeep, NoKeyOut DEF Outs
<1>3. CASE Kind(r) = "bootstrap"
    <2>1. PICK l \in {"persist", "token"} :
             l = (IF Fresh(r) THEN "persist" ELSE "token") /\ Goto(r, l) /\ lock' = lock
        BY <1>3 DEF AfterCapture, Kind
    <2>2. /\ run' \in [Runs -> RunStates] /\ OthersSame(r)
          /\ run'[r].pc = l /\ SameSession(r)
          /\ run'[r].host = run[r].host /\ run'[r].pin = run[r].pin
          /\ run'[r].persisted = run[r].persisted
        BY <2>1, GotoRun, LabelNames
    <2>3. l = "persist" <=> BranchOf(r) = "install"
        BY <1>3, <2>1, FreshMeans
    <2>4. TrustGiven(r)' /\ NoPinUnder(r)' /\ Told(r)' /\ ReportKnows(r)'
        BY <2>2, MoveKeeps DEF Loaded
    <2>5. Control(r)'
        BY <1>1, <1>3, <2>2, <2>3, SessionKeeps
           DEF Control, Loaded, KeySteps, CaptureSteps, SameSession
    <2>6. HostVouched(r)'
        BY <1>3, <2>2, <2>3, SessionKeeps
           DEF RunInv, HostVouched, SameSession, KeySteps, CaptureSteps
    <2>7. PinOnFile(r)'
        BY DEF PinOnFile
    <2>8. KeyPlaced(r)'
        BY <1>1, <1>3, <2>2, <2>3, SessionKeeps DEF RunInv, KeyPlaced, KeySteps, CaptureSteps
    <2> QED
        BY <2>1, <2>2, <2>4, <2>5, <2>6, <2>7, <2>8 DEF RunInv, TypeOK
<1> QED
    BY <1>1, <1>2, <1>3

LEMMA checkServedOwn ==
    ASSUME TypeOK, NEW r \in Runs, RunInv(r), checkServed(r)
    PROVE  TypeOK' /\ RunInv(r)'
<1>1. SharedSame /\ run[r].pc = "served"
    BY DEF checkServed, SharedSame, node
<1>2. /\ run[r].cmd \in Commands /\ Kind(r) \in {"bootstrap", "pin-tls"}
      /\ Kind(r) = "bootstrap" => run[r].host \in Hosts /\ captureTLS(r)
      /\ run[r].pin \in TLSKeys /\ target # None
      /\ run[r].persisted = FALSE /\ run[r].offered = {}
    BY <1>1 DEF RunInv, Control, Loaded, KeySteps, CaptureSteps, TypeOK, RunStates
<1>3. CASE CaptureFails(r)
    BY <1>1, <1>3, CaptureFailsOwn DEF CaptureSteps
<1>4. CASE PinOf(run[r].seen) = run[r].pin /\ AfterCapture(r)
    <2>1. run[r].seen # None
        BY <1>2, <1>4, HostTrustAssumption DEF PinOf
    <2>2. HasTLS'
        BY <1>1, <2>1 DEF RunInv, PinOnFile, SharedSame, HasTLS
    <2>3. storedSSHPin' <=> storedSSHPin
        BY <1>1 DEF SharedSame, storedSSHPin
    <2>4. run' \in [Runs -> RunStates] /\ lock' \in Runs \cup {None} /\ RunInv(r)'
        BY <1>1, <1>2, <1>4, <2>2, <2>3, AfterCaptureOwn DEF SharedSame
    <2>5. TypeOK'
        BY <1>1, <2>4 DEF TypeOK, SharedSame
    <2> QED
        BY <2>4, <2>5
<1>5. CASE Kind(r) = "pin-tls" /\ Ends(r, "ok", FALSE)
    BY <1>1, <1>5, EndsAlone, NoKeyOut DEF Outs
<1>6. CASE /\ PinOf(run[r].seen) # run[r].pin /\ MayWrite(r)
           /\ ~(Kind(r) = "pin-tls" /\ run[r].cmd.print)
           /\ Goto(r, "write") /\ UNCHANGED lock
    <2>1. /\ run' \in [Runs -> RunStates] /\ OthersSame(r)
          /\ run'[r].pc = "write" /\ SameSession(r)
          /\ run'[r].host = run[r].host /\ run'[r].pin = run[r].pin
          /\ run'[r].persisted = run[r].persisted
        BY <1>6, GotoRun, LabelNames
    <2>2. TypeOK'
        BY <1>1, <1>6, <2>1 DEF TypeOK, SharedSame
    <2>3. TrustGiven(r)' /\ NoPinUnder(r)' /\ Told(r)' /\ ReportKnows(r)'
        BY <1>1, <2>1, MoveKeeps DEF SharedSame, Loaded, storedSSHPin
    <2>4. Control(r)'
        BY <1>1, <1>2, <1>6, <2>1, SessionKeeps
           DEF Control, Loaded, KeySteps, CaptureSteps, SameSession, SharedSame, PinOf
    <2>5. HostVouched(r)'
        BY <1>1, <2>1, SessionKeeps
           DEF RunInv, HostVouched, SameSession, KeySteps, CaptureSteps
    <2>6. PinOnFile(r)'
        BY <1>1, <1>2, <2>1 DEF RunInv, PinOnFile, SameSession, SharedSame, HasTLS
    <2>7. KeyPlaced(r)'
        BY <1>1, <1>2, <2>1, SessionKeeps
           DEF RunInv, KeyPlaced, KeySteps, CaptureSteps, SharedSame
    <2> QED
        BY <2>2, <2>3, <2>4, <2>5, <2>6, <2>7 DEF RunInv
<1> QED
    BY <1>3, <1>4, <1>5, <1>6 DEF checkServed, AgainstStored, Kind

LEMMA WriteTLSPinOwn ==
    ASSUME TypeOK, NEW r \in Runs, RunInv(r), WriteTLSPin(r)
    PROVE  TypeOK' /\ RunInv(r)'
<1>1. /\ run[r].pc = "write" /\ auth' = auth /\ removed' = removed /\ outside' = outside
      /\ at' = at /\ proxy' = proxy /\ tlsKey' = tlsKey
    BY DEF WriteTLSPin, node
<1>2. run[r].pin \in TLSKeys /\ target # None
    BY <1>1 DEF RunInv, Control, Loaded
<1>3. CASE CaptureFails(r) /\ UNCHANGED target
    BY <1>1, <1>3, CaptureFailsOwn DEF CaptureSteps, SharedSame
<1> DEFINE b == [pin |-> run[r].pin, source |-> captureSource(r)]
<1>4. CASE target' = [target EXCEPT !.tls = b] /\ AfterCapture(r)
    <2>1. b \in TLSBlocks /\ b # None
        <3>1. b \in TLSBlocks
            BY <1>2 DEF TLSBlocks, Sources, captureSource
        <3> QED
            BY <3>1, HostTrustAssumption
    <2> HIDE DEF b
    <2>2. target \in Target
        BY <1>2 DEF TypeOK
    <2>3. target' \in Target /\ target'.tls = b /\ target'.ssh = target.ssh
        BY <1>4, <2>1, <2>2 DEF Target
    <2>4. target' # None
        BY <2>3, HostTrustAssumption
    <2>5. HasTLS' /\ (storedSSHPin' <=> storedSSHPin)
        BY <1>2, <2>1, <2>3, <2>4 DEF HasTLS, storedSSHPin
    <2>6. run' \in [Runs -> RunStates] /\ lock' \in Runs \cup {None} /\ RunInv(r)'
        BY <1>1, <1>4, <2>4, <2>5, AfterCaptureOwn
    <2>7. TypeOK'
        BY <1>1, <2>3, <2>6 DEF TypeOK
    <2> QED
        BY <2>6, <2>7
<1> QED
    BY <1>3, <1>4 DEF WriteTLSPin

\* The block that a bootstrap writes.
LEMMA PersistedBlock ==
    ASSUME TypeOK, NEW r \in Runs, RunInv(r), run[r].pc = "persist"
    PROVE  LET b == [key |-> r, fp |-> run[r].host, parses |-> TRUE,
                     source |-> sshSource(run[r].cmd)]
           IN  /\ b \in SSHBlocks /\ b # None
               /\ [target EXCEPT !.ssh = b] \in Target
               /\ [target EXCEPT !.ssh = b].ssh = b
               /\ [target EXCEPT !.ssh = b].tls = target.tls
               /\ [target EXCEPT !.ssh = b] # None /\ target # None
<1> DEFINE b == [key |-> r, fp |-> run[r].host, parses |-> TRUE,
                 source |-> sshSource(run[r].cmd)]
<1>1. run[r].host \in Hosts /\ target # None
    BY DEF RunInv, Control, KeySteps, Loaded
<1>2. b \in SSHBlocks
    BY <1>1 DEF SSHBlocks, sshSource, Keypairs
<1>3. b # None
    BY <1>2, HostTrustAssumption
<1> HIDE DEF b
<1>4. target \in Target
    BY <1>1 DEF TypeOK
<1>5. /\ [target EXCEPT !.ssh = b] \in Target
      /\ [target EXCEPT !.ssh = b].ssh = b
      /\ [target EXCEPT !.ssh = b].tls = target.tls
    BY <1>2, <1>4 DEF Target
<1>6. [target EXCEPT !.ssh = b] # None
    BY <1>5, HostTrustAssumption
<1> QED
    BY <1>1, <1>2, <1>3, <1>5, <1>6 DEF b

LEMMA PersistSSHAuthOwn ==
    ASSUME TypeOK, NEW r \in Runs, RunInv(r), PersistSSHAuth(r)
    PROVE  TypeOK' /\ RunInv(r)'
<1>1. /\ run[r].pc = "persist" /\ auth' = auth /\ removed' = removed /\ outside' = outside
      /\ at' = at /\ proxy' = proxy /\ tlsKey' = tlsKey /\ lock' = lock
    BY DEF PersistSSHAuth, node
<1>2. /\ Kind(r) = "bootstrap" /\ BranchOf(r) = "install" /\ run[r].host \in Hosts
      /\ run[r].cmd \in Commands /\ run[r].offered = {}
    BY <1>1 DEF RunInv, Control, KeySteps, Loaded
<1>3. CASE Goto(r, "drop") /\ UNCHANGED target
    BY <1>1, <1>2, <1>3, TakeBackOwn, FreshMeans DEF KeySteps, SharedSame
<1> DEFINE b == [key |-> r, fp |-> run[r].host, parses |-> TRUE,
                 source |-> sshSource(run[r].cmd)]
<1>4. ASSUME target' = [target EXCEPT !.ssh = b],
             run' = [run EXCEPT ![r].pc = "token", ![r].persisted = TRUE]
      PROVE  TypeOK' /\ RunInv(r)'
    <2>1. /\ target' \in Target /\ target' # None /\ target'.tls = target.tls
          /\ target # None
        BY <1>1, <1>4, PersistedBlock
    <2>2. /\ run' \in [Runs -> RunStates] /\ OthersSame(r) /\ SameSession(r)
          /\ run'[r].pc = "token" /\ run'[r].persisted = TRUE
        <3> DEFINE new == [run[r] EXCEPT !.pc = "token", !.persisted = TRUE]
        <3>1. run[r] \in RunStates
            BY DEF TypeOK
        <3>2. new \in RunStates
            BY <3>1, LabelNames DEF RunStates
        <3>3. run' = [run EXCEPT ![r] = new]
            BY <1>4
        <3>4. run' \in [Runs -> RunStates] /\ OthersSame(r) /\ run'[r] = new
            BY <3>2, <3>3, EditRun
        <3> QED
            BY <3>1, <3>4 DEF RunStates, SameSession
    <2>3. TypeOK'
        BY <1>1, <2>1, <2>2 DEF TypeOK
    <2>4. TrustGiven(r)'
        BY <1>1, <2>2, SessionKeeps DEF RunInv, TrustGiven, Loaded, SameSession
    <2>5. NoPinUnder(r)' /\ Told(r)' /\ HostVouched(r)'
        BY <2>2 DEF NoPinUnder, Told, HostVouched, KeySteps, CaptureSteps
    <2>6. ReportKnows(r)'
        BY <1>2, <2>2 DEF ReportKnows, SameSession
    <2>7. Control(r)'
        BY <1>2, <2>1, <2>2, SessionKeeps
           DEF Control, Loaded, KeySteps, CaptureSteps, SameSession
    <2>8. PinOnFile(r)'
        BY <1>1, <2>1, <2>2 DEF RunInv, PinOnFile, SameSession, HasTLS
    <2>9. KeyPlaced(r)'
        BY <2>2 DEF KeyPlaced, KeySteps, CaptureSteps
    <2> QED
        BY <2>3, <2>4, <2>5, <2>6, <2>7, <2>8, <2>9 DEF RunInv
<1> QED
    BY <1>3, <1>4 DEF PersistSSHAuth

LEMMA DropKeyOwn ==
    ASSUME TypeOK, NEW r \in Runs, RunInv(r), dropKeyOverPassword(r) \/ dropKeyOver(r)
    PROVE  TypeOK' /\ RunInv(r)'
<1>1. run[r].pc \in {"droppw", "drop"}
    BY DEF dropKeyOverPassword, dropKeyOver
<1>2. /\ Kind(r) = "bootstrap" /\ BranchOf(r) = "install" /\ run[r].host \in Hosts
      /\ run[r].persisted = FALSE
    BY <1>1 DEF RunInv, Control, KeySteps, TypeOK, RunStates
<1>3. CASE dropKeyOverPassword(r)
    <2>1. SharedSame
        BY <1>3 DEF dropKeyOverPassword, SharedSame, node
    <2>2. CASE Goto(r, "drop") /\ UNCHANGED lock
        BY <1>1, <1>2, <2>1, <2>2, TakeBackOwn, FreshMeans DEF KeySteps
    <2>3. CASE keyLeftBehind(r)
        BY <2>1, <2>3, EndsAlone DEF keyLeftBehind, Outs
    <2> QED
        BY <1>3, <2>2, <2>3 DEF dropKeyOverPassword
<1>4. CASE dropKeyOver(r)
    <2> DEFINE gone == RemoveAuthorizedKey(run[r].host, r)
    <2>1. /\ target' = target /\ removed' = removed /\ outside' = outside
          /\ at' = at /\ proxy' = proxy /\ tlsKey' = tlsKey
          /\ auth' \in {auth, gone}
        BY <1>4 DEF dropKeyOver, node
    <2>2. auth' \in [Hosts -> SUBSET Keypairs]
        BY <1>2, <2>1, AuthType DEF TypeOK
    <2>3. PICK told \in BOOLEAN :
             Ends(r, "failed", told) /\ (told \/ auth' = gone)
        BY <1>4 DEF dropKeyOver, Failed, keyLeftBehind
    <2>4. TypeOK'
        <3>1. run' \in [Runs -> RunStates] /\ lock' \in Runs \cup {None}
            BY <2>3, EndsRun DEF Outs
        <3> QED
            BY <2>1, <2>2, <3>1 DEF TypeOK
    <2>5. auth' = gone => \A h \in Hosts : r \notin auth'[h]
        BY <1>1, <1>2 DEF RunInv, KeyPlaced, RemoveAuthorizedKey, TypeOK
    <2>6. HasTLS => HasTLS'
        BY <2>1 DEF HasTLS
    <2>7. RunInv(r)'
        BY <2>3, <2>5, <2>6, EndsKeep DEF Outs
    <2> QED
        BY <2>4, <2>7
<1> QED
    BY <1>3, <1>4

\* What the token phase writes is a target with the blocks it had.
LEMMA TokenTarget ==
    ASSUME TypeOK, NEW r \in Runs, RunInv(r), run[r].pc = "token", TokenPhase(r)
    PROVE  /\ target' \in Target /\ target' # None /\ target # None
           /\ target'.ssh = target.ssh /\ target'.tls = target.tls
<1>1. target \in Target /\ target # None
    BY DEF RunInv, Control, Loaded, TypeOK
<1>2. run[r].insecure \in BOOLEAN
    BY DEF TypeOK, RunStates
<1>3. \A i \in BOOLEAN, k \in BOOLEAN :
         LET t == [[target EXCEPT !.insecure = i] EXCEPT !.token = k]
         IN  t \in Target /\ t.ssh = target.ssh /\ t.tls = target.tls
    BY <1>1 DEF Target
<1>4. \A k \in BOOLEAN :
         LET t == [target EXCEPT !.token = k]
         IN  t \in Target /\ t.ssh = target.ssh /\ t.tls = target.tls
    BY <1>1 DEF Target
<1>5. \/ \E i \in BOOLEAN : target' = [[target EXCEPT !.insecure = i] EXCEPT !.token = TRUE]
      \/ \E k \in BOOLEAN : target' = [target EXCEPT !.token = k]
    BY <1>2 DEF TokenPhase, persistTargetMeta
<1>6. target' \in Target /\ target'.ssh = target.ssh /\ target'.tls = target.tls
    BY <1>3, <1>4, <1>5
<1> QED
    BY <1>1, <1>6, HostTrustAssumption

LEMMA TokenPhaseOwn ==
    ASSUME TypeOK, NEW r \in Runs, RunInv(r), TokenPhase(r)
    PROVE  TypeOK' /\ RunInv(r)'
<1>1. /\ run[r].pc = "token" /\ auth' = auth /\ removed' = removed /\ outside' = outside
      /\ at' = at /\ proxy' = proxy /\ tlsKey' = tlsKey
    BY DEF TokenPhase, node
<1>2. /\ target' \in Target /\ target' # None /\ target # None
      /\ target'.ssh = target.ssh /\ target'.tls = target.tls
    BY <1>1, TokenTarget
<1>3. PICK out \in {"ok", "failed"} : Ends(r, out, FALSE)
    BY DEF TokenPhase, Failed
<1>4. TypeOK'
    <2>1. run' \in [Runs -> RunStates] /\ lock' \in Runs \cup {None}
        BY <1>3, EndsRun DEF Outs
    <2> QED
        BY <1>1, <1>2, <2>1 DEF TypeOK
<1>5. HasTLS => HasTLS'
    BY <1>1, <1>2 DEF HasTLS
<1>6. run[r].persisted \/ \A h \in Hosts : r \notin auth'[h]
    BY <1>1, NoKeyOut DEF KeySteps, CaptureSteps
<1>7. RunInv(r)'
    BY <1>3, <1>5, <1>6, EndsKeep DEF Outs
<1> QED
    BY <1>4, <1>7

LEMMA CheckPinTLSOwn ==
    ASSUME TypeOK, NEW r \in Runs, RunInv(r), CheckPinTLS(r)
    PROVE  TypeOK' /\ RunInv(r)'
<1>1. SharedSame /\ run[r].pc = "start"
    BY DEF CheckPinTLS, SharedSame, node, Asked
<1>2. CASE Refused(r)
    BY <1>1, <1>2, EndsAlone, NoKeyOut DEF Refused, Outs, KeySteps, CaptureSteps
<1>3. ASSUME NEW c \in Commands, c.kind = "pin-tls", target # None, lock' = lock,
             NEW l \in {"pinload", "pinlock"},
             run' = [run EXCEPT ![r].cmd = c, ![r].pc = l]
      PROVE  TypeOK' /\ RunInv(r)'
    <2>1. /\ run' \in [Runs -> RunStates] /\ OthersSame(r)
          /\ run'[r].pc = l /\ run'[r].cmd = c /\ run'[r].offered = run[r].offered
          /\ run'[r].seen = run[r].seen /\ run'[r].persisted = run[r].persisted
          /\ run'[r].insecure = run[r].insecure
        <3> DEFINE new == [run[r] EXCEPT !.cmd = c, !.pc = l]
        <3>1. run[r] \in RunStates
            BY DEF TypeOK
        <3>2. new \in RunStates
            BY <3>1, LabelNames DEF RunStates
        <3>3. run' = [run EXCEPT ![r] = new]
            BY <1>3
        <3>4. run' \in [Runs -> RunStates] /\ OthersSame(r) /\ run'[r] = new
            BY <3>2, <3>3, EditRun
        <3> QED
            BY <3>1, <3>4 DEF RunStates
    <2>2. TypeOK'
        BY <1>1, <1>3, <2>1 DEF TypeOK, SharedSame
    <2>3. run[r].persisted = FALSE /\ run[r].offered = {}
        BY <1>1 DEF RunInv, Control, TypeOK, RunStates
    <2>4. Control(r)'
        BY <1>1, <1>3, <2>1, <2>3
           DEF Control, Kind, Loaded, KeySteps, CaptureSteps, SharedSame
    <2>5. HostVouched(r)' /\ TrustGiven(r)' /\ NoPinUnder(r)' /\ Told(r)' /\ ReportKnows(r)'
        BY <2>1, <2>3 DEF HostVouched, TrustGiven, NoPinUnder, Told, ReportKnows, Loaded,
                          KeySteps, CaptureSteps
    <2>6. PinOnFile(r)'
        BY <1>1, <2>1, <2>3 DEF RunInv, PinOnFile, SharedSame, HasTLS
    <2>7. KeyPlaced(r)'
        BY <1>1, <2>1, <2>3, NoKeyOut DEF KeyPlaced, KeySteps, CaptureSteps, SharedSame
    <2> QED
        BY <2>2, <2>4, <2>5, <2>6, <2>7 DEF RunInv
<1> QED
    BY <1>2, <1>3 DEF CheckPinTLS, Asked

LEMMA PinTLSOwn ==
    ASSUME TypeOK, NEW r \in Runs, RunInv(r), PinTLS(r)
    PROVE  TypeOK' /\ RunInv(r)'
<1>1. SharedSame /\ run[r].pc = "pinload"
    BY DEF PinTLS, SharedSame, node
<1>2. CASE Refused(r)
    BY <1>1, <1>2, EndsAlone, NoKeyOut DEF Refused, Outs, KeySteps, CaptureSteps
<1> DEFINE c == run[r].cmd
           over == target.insecure /\ storedSSHPin
<1>3. ASSUME checkPinTLSMode(c), lock' = lock,
             run' = [run EXCEPT ![r].pc = IF over THEN "reconnect" ELSE "served",
                                ![r].old = loadExistingSSHAuth,
                                ![r].seen = target.tls, ![r].pin = c.expect]
      PROVE  TypeOK' /\ RunInv(r)'
    <2>1. /\ c \in Commands /\ c.kind = "pin-tls" /\ target # None
          /\ run[r].persisted = FALSE /\ run[r].offered = {}
        BY <1>1 DEF RunInv, Control, Kind, TypeOK, RunStates
    <2>2. c \in PinTLSs
        BY <2>1, HostTrustAssumption DEF Bootstraps, PinTLSs, KeyReports
    <2>3. c.expect \in TLSKeys \cup {None} /\ target.tls \in TLSBlocks \cup {None}
        BY <2>1, <2>2 DEF PinTLSs, TypeOK, Target
    <2>4. /\ over => loadExistingSSHAuth # None
          /\ ~over => c.expect \in TLSKeys /\ ~c.repin
        BY <1>3, <2>3, LoadedAuth DEF checkPinTLSMode
    <2>5. PICK l \in {"reconnect", "served"}, o \in SSHBlocks \cup {None},
               b \in TLSBlocks \cup {None}, k \in TLSKeys \cup {None} :
             /\ l = (IF over THEN "reconnect" ELSE "served")
             /\ o = loadExistingSSHAuth /\ b = target.tls /\ k = c.expect
        BY <2>3, LoadedAuth
    <2>6. run' = [run EXCEPT ![r].pc = l, ![r].old = o, ![r].seen = b, ![r].pin = k]
        BY <1>3, <2>5
    <2>7. /\ run' \in [Runs -> RunStates] /\ OthersSame(r)
          /\ run'[r].pc = l /\ run'[r].cmd = c /\ run'[r].offered = run[r].offered
          /\ run'[r].old = o /\ run'[r].seen = b /\ run'[r].pin = k
          /\ run'[r].persisted = run[r].persisted
        <3> DEFINE mid == [run[r] EXCEPT !.pc = l, !.old = o]
                   new == [mid EXCEPT !.seen = b, !.pin = k]
        <3>1. run[r] \in RunStates
            BY DEF TypeOK
        <3>2. mid \in RunStates
            BY <3>1, LabelNames DEF RunStates
        <3>3. run' = [run EXCEPT ![r] = new]
            BY <2>6, <3>1 DEF RunStates
        <3>4. /\ mid.pc = l /\ mid.old = o /\ mid.cmd = c
              /\ mid.offered = run[r].offered /\ mid.persisted = run[r].persisted
            BY <3>1 DEF RunStates
        <3> HIDE DEF mid
        <3>5. /\ new \in RunStates /\ new.pc = mid.pc /\ new.old = mid.old
              /\ new.cmd = mid.cmd /\ new.offered = mid.offered
              /\ new.persisted = mid.persisted /\ new.seen = b /\ new.pin = k
            BY <3>2 DEF RunStates
        <3>6. run' \in [Runs -> RunStates] /\ OthersSame(r) /\ run'[r] = new
            BY <3>3, <3>5, EditRun
        <3> QED
            BY <3>4, <3>5, <3>6
    <2>8. TypeOK'
        BY <1>1, <1>3, <2>7 DEF TypeOK, SharedSame
    <2>9. Control(r)'
        BY <1>1, <2>1, <2>4, <2>5, <2>7
           DEF Control, Kind, Loaded, KeySteps, CaptureSteps, SharedSame
    <2>10. HostVouched(r)'
        BY <2>1, <2>4, <2>5, <2>7 DEF HostVouched, Kind, KeySteps, CaptureSteps
    <2>11. TrustGiven(r)' /\ NoPinUnder(r)' /\ Told(r)' /\ ReportKnows(r)'
        BY <2>1, <2>7 DEF TrustGiven, NoPinUnder, Told, ReportKnows, Kind
    <2>12. PinOnFile(r)'
        BY <1>1, <2>1, <2>5, <2>7 DEF PinOnFile, SharedSame, HasTLS
    <2>13. KeyPlaced(r)'
        BY <1>1, <2>1, <2>7, NoKeyOut DEF KeyPlaced, KeySteps, CaptureSteps, SharedSame, Kind
    <2> QED
        BY <2>8, <2>9, <2>10, <2>11, <2>12, <2>13 DEF RunInv
<1> QED
    BY <1>2, <1>3 DEF PinTLS

LEMMA LoadRosterKeysOwn ==
    ASSUME TypeOK, NEW r \in Runs, RunInv(r), LoadRosterKeys(r)
    PROVE  TypeOK' /\ RunInv(r)'
<1>1. SharedSame /\ run[r].pc = "start" /\ lock' = lock
    BY DEF LoadRosterKeys, SharedSame, node, Asked
<1> DEFINE qs == {q \in Runs : run[q].pc # "done"}
<1>2. PICK c \in Commands :
         /\ c.kind = "keys"
         /\ run' = [run EXCEPT ![r].pc = "authorized", ![r].cmd = c,
                               ![r].held = RosterKeysOf,
                               ![r].unparsed = heldSSHBlock /\ ~target.ssh.parses,
                               ![r].unsettled = qs]
    BY DEF LoadRosterKeys, Asked
<1>3. RosterKeysOf \in SUBSET Keypairs
    BY DEF RosterKeysOf, heldSSHBlock, TypeOK, Target, SSHBlocks
<1>4. (heldSSHBlock /\ ~target.ssh.parses) \in BOOLEAN
    OBVIOUS
<1>5. PICK ks \in SUBSET Keypairs, u \in BOOLEAN :
         ks = RosterKeysOf /\ u = (heldSSHBlock /\ ~target.ssh.parses)
    BY <1>3, <1>4
<1>6. run' = [run EXCEPT ![r].pc = "authorized", ![r].cmd = c, ![r].held = ks,
                         ![r].unparsed = u, ![r].unsettled = qs]
    BY <1>2, <1>5
<1>7. qs \in SUBSET Runs
    OBVIOUS
<1> HIDE DEF qs
<1>8. /\ run' \in [Runs -> RunStates] /\ OthersSame(r)
      /\ run'[r].pc = "authorized" /\ run'[r].cmd = c /\ run'[r].held = ks
      /\ run'[r].unparsed = u /\ run'[r].unsettled = qs
      /\ run'[r].seen = run[r].seen /\ run'[r].persisted = run[r].persisted
      /\ run'[r].insecure = run[r].insecure /\ run'[r].offered = run[r].offered
    <2> DEFINE mid == [run[r] EXCEPT !.pc = "authorized", !.cmd = c]
               new == [mid EXCEPT !.held = ks, !.unparsed = u, !.unsettled = qs]
    <2>1. run[r] \in RunStates
        BY DEF TypeOK
    <2>2. mid \in RunStates
        BY <2>1, LabelNames DEF RunStates
    <2>3. run' = [run EXCEPT ![r] = new]
        BY <1>6, <2>1 DEF RunStates
    <2>4. /\ mid.pc = "authorized" /\ mid.cmd = c /\ mid.seen = run[r].seen
          /\ mid.persisted = run[r].persisted /\ mid.insecure = run[r].insecure
          /\ mid.offered = run[r].offered
        BY <2>1 DEF RunStates
    <2> HIDE DEF mid
    <2>5. new \in RunStates
        BY <1>7, <2>2 DEF RunStates
    <2>6. /\ new.pc = mid.pc /\ new.cmd = mid.cmd /\ new.seen = mid.seen
          /\ new.persisted = mid.persisted /\ new.insecure = mid.insecure
          /\ new.offered = mid.offered /\ new.held = ks /\ new.unparsed = u
          /\ new.unsettled = qs
        BY <2>2 DEF RunStates
    <2>7. run' \in [Runs -> RunStates] /\ OthersSame(r) /\ run'[r] = new
        BY <2>3, <2>5, EditRun
    <2> QED
        BY <2>4, <2>6, <2>7
<1>9. TypeOK'
    BY <1>1, <1>8 DEF TypeOK, SharedSame
<1>10. run[r].persisted = FALSE /\ run[r].offered = {}
    BY <1>1 DEF RunInv, Control, TypeOK, RunStates
<1>11. Control(r)'
    BY <1>2, <1>8, <1>10 DEF Control, Kind, Loaded, KeySteps, CaptureSteps
<1>12. HostVouched(r)' /\ TrustGiven(r)' /\ NoPinUnder(r)' /\ Told(r)'
    BY <1>8 DEF HostVouched, TrustGiven, NoPinUnder, Told, Loaded, KeySteps, CaptureSteps
<1>13. PinOnFile(r)'
    BY <1>1, <1>8, <1>10 DEF RunInv, PinOnFile, SharedSame, HasTLS
<1>14. KeyPlaced(r)'
    BY <1>1, <1>8, <1>10, NoKeyOut DEF KeyPlaced, KeySteps, CaptureSteps, SharedSame
<1>15. ReportKnows(r)'
    <2>1. {q \in Runs : run'[q].pc # "done"} \subseteq qs
        BY <1>1, <1>8 DEF qs, OthersSame
    <2>2. heldSSHBlock => target.ssh.key \in ks \/ u
        BY <1>5 DEF RosterKeysOf
    <2>3. heldSSHBlock' <=> heldSSHBlock
        BY <1>1 DEF SharedSame, heldSSHBlock
    <2> QED
        BY <1>1, <1>8, <1>10, <2>1, <2>2, <2>3 DEF ReportKnows, SharedSame
<1> QED
    BY <1>9, <1>11, <1>12, <1>13, <1>14, <1>15 DEF RunInv

LEMMA AuthorizedKeysOwn ==
    ASSUME TypeOK, NEW r \in Runs, RunInv(r), AuthorizedKeys(r)
    PROVE  TypeOK' /\ RunInv(r)'
<1>1. SharedSame /\ run[r].pc = "authorized"
    BY DEF AuthorizedKeys, SharedSame, node
<1>2. CASE Failed(r)
    BY <1>1, <1>2, EndsAlone, NoKeyOut DEF Failed, Outs, KeySteps, CaptureSteps
<1>3. ASSUME run' = [run EXCEPT ![r] = [Ended(r, "ok", FALSE) EXCEPT
                        !.offered = KeyReport(r), !.unsettled = run[r].unsettled]],
             lock' = lock
      PROVE  TypeOK' /\ RunInv(r)'
    <2>1. KeyReport(r) \in SUBSET Keypairs /\ run[r].unsettled \in SUBSET Runs
        <3>1. auth[at] \in SUBSET Keypairs
            BY DEF TypeOK
        <3>2. run[r].unsettled \in SUBSET Runs
            BY DEF TypeOK, RunStates
        <3> QED
            BY <3>1, <3>2 DEF KeyReport
    <2>2. PICK ks \in SUBSET Keypairs, qs \in SUBSET Runs :
             ks = KeyReport(r) /\ qs = run[r].unsettled
        BY <2>1
    <2>3. run' = [run EXCEPT ![r] = [Ended(r, "ok", FALSE) EXCEPT
                                        !.offered = ks, !.unsettled = qs]]
        BY <1>3, <2>2
    <2>4. /\ run' \in [Runs -> RunStates] /\ OthersSame(r)
          /\ run'[r].pc = "done" /\ run'[r].seen = None
          /\ run'[r].persisted = run[r].persisted
          /\ run'[r].offered = ks /\ run'[r].unsettled = qs
        <3> DEFINE e == Ended(r, "ok", FALSE)
                   new == [e EXCEPT !.offered = ks, !.unsettled = qs]
        <3>1. /\ e \in RunStates /\ e.pc = "done" /\ e.seen = None
              /\ e.persisted = run[r].persisted
            BY EndedFields DEF Outs
        <3>2. run' = [run EXCEPT ![r] = new]
            BY <2>3
        <3> HIDE DEF e
        <3>3. /\ new \in RunStates /\ new.pc = e.pc /\ new.seen = e.seen
              /\ new.persisted = e.persisted /\ new.offered = ks /\ new.unsettled = qs
            BY <3>1 DEF RunStates
        <3>4. run' \in [Runs -> RunStates] /\ OthersSame(r) /\ run'[r] = new
            BY <3>2, <3>3, EditRun
        <3> QED
            BY <3>1, <3>3, <3>4
    <2>5. TypeOK'
        BY <1>1, <1>3, <2>4 DEF TypeOK, SharedSame
    <2>6. run[r].persisted = FALSE /\ \A h \in Hosts : r \notin auth[h]
        <3>1. run[r].persisted = FALSE
            BY <1>1 DEF RunInv, Control, TypeOK, RunStates
        <3> QED
            BY <1>1, <3>1, NoKeyOut DEF KeySteps, CaptureSteps
    <2>7. Control(r)'
        BY <2>4, <2>6 DEF Control, Loaded, KeySteps, CaptureSteps
    <2>8. HostVouched(r)' /\ TrustGiven(r)' /\ NoPinUnder(r)'
        BY <2>4 DEF HostVouched, TrustGiven, NoPinUnder, Loaded, KeySteps, CaptureSteps
    <2>9. PinOnFile(r)'
        BY <2>4, <2>6 DEF PinOnFile
    <2>10. KeyPlaced(r)' /\ Told(r)'
        BY <1>1, <2>4, <2>6 DEF KeyPlaced, Told, KeySteps, CaptureSteps, SharedSame
    <2>11. ReportKnows(r)'
        <3>1. {q \in Runs : run'[q].pc # "done"} \subseteq {q \in Runs : run[q].pc # "done"}
            BY <2>4 DEF OthersSame
        <3>2. heldSSHBlock /\ target.ssh.key \notin qs => target.ssh.key \notin ks
            BY <1>1, <2>2 DEF RunInv, ReportKnows, KeyReport
        <3>3. heldSSHBlock' <=> heldSSHBlock
            BY <1>1 DEF SharedSame, heldSSHBlock
        <3> QED
            BY <1>1, <2>2, <2>4, <3>1, <3>2, <3>3 DEF RunInv, ReportKnows, SharedSame
    <2> QED
        BY <2>5, <2>7, <2>8, <2>9, <2>10, <2>11 DEF RunInv
<1> QED
    BY <1>2, <1>3 DEF AuthorizedKeys

\* What a run's own step does to it, whichever it is.
LEMMA StepOwn ==
    ASSUME TypeOK, NEW r \in Runs, RunInv(r), Step(r) \/ Kill(r)
    PROVE  TypeOK' /\ RunInv(r)'
BY KillOwn, CheckBeforePromptOwn, PrepareOwn, LockOwn, LoadOwn, DialWithPasswordOwn,
   ReconnectOwn, InstallOwn, DialWithKeyOwn, capturePinOwn, checkServedOwn, WriteTLSPinOwn,
   PersistSSHAuthOwn, DropKeyOwn, TokenPhaseOwn, CheckPinTLSOwn, PinTLSOwn,
   LoadRosterKeysOwn, AuthorizedKeysOwn
   DEF Step, BootstrapStep

-----------------------------------------------------------------------------
(* What a step leaves alone                                                *)

\* A step of a run is one of a run that has not ended, and moves no other.
LEMMA StepMovesOne ==
    ASSUME TypeOK, NEW r \in Runs, Step(r) \/ Kill(r)
    PROVE  OthersSame(r) /\ run[r].pc # "done" /\ removed' = removed
<1>1. \A out, told : Ends(r, out, told) => OthersSame(r)
    BY DEF Ends, OthersSame, TypeOK
<1>2. \A l : Goto(r, l) => OthersSame(r)
    BY DEF Goto, OthersSame, TypeOK
<1>3. Refused(r) \/ Failed(r) \/ keyLeftBehind(r) \/ CaptureFails(r) \/ AfterCapture(r)
         => OthersSame(r)
    BY <1>1, <1>2 DEF Refused, Failed, keyLeftBehind, CaptureFails, AfterCapture
<1>4. ASSUME NEW new, run' = [run EXCEPT ![r] = new] PROVE OthersSame(r)
    BY <1>4 DEF OthersSame, TypeOK
<1>5. CASE Kill(r)
    BY <1>1, <1>5 DEF Kill
<1>6. CASE CheckBeforePrompt(r)
    BY <1>3, <1>4, <1>6 DEF CheckBeforePrompt, Asked
<1>7. CASE Prepare(r)
    BY <1>3, <1>4, <1>7 DEF Prepare
<1>8. CASE Lock(r) \/ PinLock(r)
    BY <1>2, <1>3, <1>8 DEF Lock, PinLock, Locked
<1>9. CASE Load(r)
    BY <1>3, <1>4, <1>9 DEF Load
<1>10. CASE DialWithPassword(r)
    BY <1>3, <1>4, <1>10 DEF DialWithPassword
<1>11. CASE ReconnectWithPinnedKey(r)
    BY <1>3, <1>4, <1>11 DEF ReconnectWithPinnedKey
<1>12. CASE InstallPubkeyViaPassword(r)
    BY <1>3, <1>4, <1>12 DEF InstallPubkeyViaPassword
<1>13. CASE DialWithKey(r)
    BY <1>2, <1>13 DEF DialWithKey
<1>14. CASE capturePin(r)
    BY <1>3, <1>4, <1>14 DEF capturePin
<1>15. CASE checkServed(r)
    BY <1>1, <1>2, <1>3, <1>15 DEF checkServed, AgainstStored
<1>16. CASE WriteTLSPin(r)
    BY <1>3, <1>16 DEF WriteTLSPin
<1>17. CASE PersistSSHAuth(r)
    BY <1>2, <1>4, <1>17 DEF PersistSSHAuth
<1>18. CASE dropKeyOverPassword(r) \/ dropKeyOver(r)
    BY <1>2, <1>3, <1>18 DEF dropKeyOverPassword, dropKeyOver
<1>19. CASE TokenPhase(r)
    BY <1>1, <1>3, <1>19 DEF TokenPhase
<1>20. CASE CheckPinTLS(r)
    BY <1>3, <1>4, <1>20 DEF CheckPinTLS, Asked
<1>21. CASE PinTLS(r)
    BY <1>3, <1>4, <1>21 DEF PinTLS
<1>22. CASE LoadRosterKeys(r)
    BY <1>4, <1>22 DEF LoadRosterKeys, Asked
<1>23. CASE AuthorizedKeys(r)
    BY <1>3, <1>4, <1>23 DEF AuthorizedKeys
<1> QED
    BY <1>5, <1>6, <1>7, <1>8, <1>9, <1>10, <1>11, <1>12, <1>13, <1>14, <1>15, <1>16,
       <1>17, <1>18, <1>19, <1>20, <1>21, <1>22, <1>23 DEF Step, BootstrapStep

\* A key is placed and taken back by its own run alone, and only by the install
\* and by the removal.
LEMMA StepKeys ==
    ASSUME TypeOK, NEW r \in Runs, RunInv(r), Step(r) \/ Kill(r)
    PROVE  /\ \A h \in Hosts, k \in Keypairs \ {r} : k \in auth'[h] <=> k \in auth[h]
           /\ auth' # auth => run[r].pc \in {"install", "drop"}
           /\ \A h \in Hosts : r \in auth[h] /\ r \notin auth'[h] => run[r].pc = "drop"
<1> DEFINE G == /\ \A h \in Hosts, k \in Keypairs \ {r} : k \in auth'[h] <=> k \in auth[h]
                /\ auth' # auth => run[r].pc \in {"install", "drop"}
                /\ \A h \in Hosts : r \in auth[h] /\ r \notin auth'[h] => run[r].pc = "drop"
<1>1. CASE auth' = auth
    BY <1>1
<1>2. CASE InstallPubkeyViaPassword(r)
    <2>1. run[r].pc = "install" /\ auth' \in {auth, [auth EXCEPT ![at] = @ \cup {r}]}
        BY <1>2 DEF InstallPubkeyViaPassword
    <2> QED
        BY <2>1 DEF TypeOK
<1>3. CASE dropKeyOver(r)
    <2>1. run[r].pc = "drop" /\ auth' \in {auth, [auth EXCEPT ![run[r].host] = @ \ {r}]}
        BY <1>3 DEF dropKeyOver, RemoveAuthorizedKey
    <2> QED
        BY <2>1 DEF TypeOK
<1>4. ~InstallPubkeyViaPassword(r) /\ ~dropKeyOver(r) => auth' = auth
    BY DEF Step, BootstrapStep, Kill, CheckBeforePrompt, Prepare, Lock, PinLock, Locked, Load,
           DialWithPassword, ReconnectWithPinnedKey, DialWithKey, capturePin, checkServed,
           WriteTLSPin, PersistSSHAuth, dropKeyOverPassword, TokenPhase, CheckPinTLS, PinTLS,
           LoadRosterKeys, AuthorizedKeys
<1> QED
    BY <1>1, <1>2, <1>3, <1>4

\* What every step but the write of an SSH block leaves of the roster.
RosterKept ==
    /\ target # None => target' # None
    /\ HasTLS => HasTLS'
    /\ storedSSHPin' <=> storedSSHPin
    /\ heldSSHBlock' => /\ heldSSHBlock /\ target'.ssh.key = target.ssh.key
                        /\ target'.ssh.fp = target.ssh.fp

\* The write itself.
Persists(r) ==
    LET c == run[r].cmd
    IN  /\ run[r].pc = "persist"
        /\ ReprovisionsSSH(c, run[r].old)
              => storedSSHPin /\ target.ssh.fp = run[r].old.fp
        /\ target' = [target EXCEPT !.ssh = [key |-> r, fp |-> run[r].host, parses |-> TRUE,
                                             source |-> sshSource(c)]]
        /\ run' = [run EXCEPT ![r].pc = "token", ![r].persisted = TRUE]
        /\ auth' = auth

LEMMA StepRoster ==
    ASSUME TypeOK, NEW r \in Runs, RunInv(r), Step(r) \/ Kill(r)
    PROVE  RosterKept \/ Persists(r)
<1>0. removed' = removed
    BY StepMovesOne
<1>1. CASE target' = target
    BY <1>0, <1>1 DEF RosterKept, HasTLS, storedSSHPin, heldSSHBlock
<1>2. CASE Load(r)
    <2>1. target' \in {target, ensureTargetExists(r)}
        BY <1>2 DEF Load
    <2> QED
        BY <1>0, <1>1, <2>1, EnsuredTarget DEF RosterKept, HasTLS, storedSSHPin, heldSSHBlock
<1>3. CASE WriteTLSPin(r)
    <2>1. run[r].pin \in TLSKeys /\ target # None
        BY <1>3 DEF WriteTLSPin, RunInv, Control, Loaded
    <2>2. target \in Target
        BY <2>1 DEF TypeOK
    <2> DEFINE b == [pin |-> run[r].pin, source |-> captureSource(r)]
    <2>3. target' = target \/ target' = [target EXCEPT !.tls = b]
        BY <1>3 DEF WriteTLSPin
    <2>4. b \in TLSBlocks /\ b # None
        <3>1. b \in TLSBlocks
            BY <2>1 DEF TLSBlocks, Sources, captureSource
        <3> QED
            BY <3>1, HostTrustAssumption
    <2> HIDE DEF b
    <2>5. CASE target' = [target EXCEPT !.tls = b]
        <3>1. target' \in Target /\ target'.tls = b /\ target'.ssh = target.ssh
            BY <2>2, <2>4, <2>5 DEF Target
        <3>2. target' # None
            BY <3>1, HostTrustAssumption
        <3> QED
            BY <2>1, <2>4, <3>1, <3>2 DEF RosterKept, HasTLS, storedSSHPin, heldSSHBlock
    <2> QED
        BY <1>1, <2>3, <2>5
<1>4. CASE TokenPhase(r)
    <2>1. /\ target' # None /\ target # None
          /\ target'.ssh = target.ssh /\ target'.tls = target.tls
        BY <1>4, TokenTarget DEF TokenPhase
    <2> QED
        BY <1>0, <2>1 DEF RosterKept, HasTLS, storedSSHPin, heldSSHBlock
<1>5. CASE PersistSSHAuth(r)
    BY <1>1, <1>5 DEF PersistSSHAuth, Persists
<1>6. ~Load(r) /\ ~WriteTLSPin(r) /\ ~TokenPhase(r) /\ ~PersistSSHAuth(r) => target' = target
    BY DEF Step, BootstrapStep, Kill, CheckBeforePrompt, Prepare, Lock, PinLock, Locked,
           DialWithPassword, ReconnectWithPinnedKey, DialWithKey, capturePin, checkServed,
           InstallPubkeyViaPassword, dropKeyOver, dropKeyOverPassword, CheckPinTLS, PinTLS,
           LoadRosterKeys, AuthorizedKeys
<1> QED
    BY <1>1, <1>2, <1>3, <1>4, <1>5, <1>6

\* What the write of an SSH block makes of the roster.
LEMMA PersistsRoster ==
    ASSUME TypeOK, NEW r \in Runs, RunInv(r), Persists(r)
    PROVE  /\ target # None /\ target' # None /\ target'.tls = target.tls
           /\ target'.ssh # None /\ target'.ssh.key = r /\ target'.ssh.fp = run[r].host
           /\ run[r].host \in Hosts /\ storedSSHPin' /\ heldSSHBlock'
           /\ run'[r].persisted
<1> DEFINE b == [key |-> r, fp |-> run[r].host, parses |-> TRUE,
                 source |-> sshSource(run[r].cmd)]
<1>1. /\ b # None /\ target # None /\ target' # None
      /\ target'.ssh = b /\ target'.tls = target.tls
    BY PersistedBlock DEF Persists
<1>2. run[r].host \in Hosts /\ run[r].host # None
    BY HostTrustAssumption DEF Persists, RunInv, Control, KeySteps
<1>3. run'[r].persisted
    BY DEF Persists, TypeOK, RunStates
<1> QED
    BY <1>1, <1>2, <1>3 DEF storedSSHPin, heldSSHBlock

\* A step of one run leaves every other calm.
LEMMA StepCalm ==
    ASSUME TypeOK, NEW r \in Runs, RunInv(r), Locking, Step(r) \/ Kill(r),
           NEW q \in Runs \ {r}, RunInv(q)
    PROVE  Calm(q)
<1>1. /\ run'[q] = run[q] /\ removed' = removed
      /\ \A p \in Runs : run'[p].pc # "done" => run[p].pc # "done"
    BY StepMovesOne DEF OthersSame
<1>2. \A h \in Hosts : q \in auth'[h] <=> q \in auth[h]
    BY StepKeys DEF Keypairs
<1>3. CASE RosterKept
    BY <1>1, <1>2, <1>3 DEF Calm, RosterKept
<1>4. CASE Persists(r)
    <2>1. /\ target # None /\ target' # None /\ target'.tls = target.tls
          /\ target'.ssh.key = r /\ storedSSHPin'
        BY <1>4, PersistsRoster
    <2>2. HasTLS => HasTLS'
        BY <1>1, <2>1 DEF HasTLS
    <2>3. lock = r
        BY <1>4 DEF Persists, Locking, HoldsLock, Loaded, RunInv, Control, KeySteps
    <2>4. ~(run[q].pc \in Loaded \ {"token"} /\ Kind(q) = "bootstrap")
        BY <2>3 DEF Locking, HoldsLock
    <2> QED
        BY <1>1, <1>2, <1>4, <2>1, <2>2, <2>4 DEF Calm, Persists
<1> QED
    BY <1>3, <1>4, StepRoster

\* So does the world outside.
LEMMA OutsideCalm ==
    ASSUME TypeOK, AnotherHost \/ RenewKey \/ Front \/ HandEdit
    PROVE  (\A q \in Runs : Calm(q)) /\ TypeOK' /\ run' = run /\ auth' = auth /\ lock' = lock
           /\ (heldSSHBlock' => /\ heldSSHBlock /\ target'.ssh.key = target.ssh.key
                                /\ target'.ssh.fp = target.ssh.fp)
<1>1. run' = run /\ auth' = auth /\ lock' = lock /\ outside' \in 0..MaxOutside
    BY HostTrustAssumption DEF AnotherHost, RenewKey, Front, HandEdit, Outside, TypeOK
<1>2. CASE AnotherHost \/ RenewKey \/ Front
    <2>1. target' = target /\ removed' = removed
        BY <1>2 DEF AnotherHost, RenewKey, Front
    <2>2. TypeOK'
        BY <1>1, <1>2, <2>1 DEF TypeOK, AnotherHost, RenewKey, Front
    <2> QED
        BY <1>1, <2>1, <2>2 DEF Calm, HasTLS, storedSSHPin, heldSSHBlock
<1>3. CASE HandEdit
    <2> DEFINE noSSH == [removed EXCEPT !.ssh = @ \cup CheckedOnly]
               noTLS == [removed EXCEPT !.tls = TRUE]
               Removals == [tls : BOOLEAN, ssh : SUBSET Runs]
    <2>0. /\ removed \in Removals /\ noSSH \in Removals /\ noTLS \in Removals
          /\ noSSH.tls = removed.tls /\ noSSH.ssh = removed.ssh \cup CheckedOnly
          /\ noTLS.tls /\ noTLS.ssh = removed.ssh
        BY DEF TypeOK, CheckedOnly
    <2>1. target # None /\ target \in Target
        BY <1>3 DEF HandEdit, TypeOK
    <2>2. \/ /\ target' = [target EXCEPT !.ssh = None] /\ removed' = noSSH
          \/ /\ target' = [target EXCEPT !.tls = None] /\ removed' = noTLS
          \/ /\ target' = [target EXCEPT !.token = FALSE] /\ removed' = removed
          \/ /\ target.ssh # None /\ removed' = removed
             /\ target' = [target EXCEPT !.ssh.parses = FALSE]
        BY <1>3 DEF HandEdit
    <2> HIDE DEF noSSH, noTLS
    <2>3. /\ target' \in Target /\ removed' \in Removals
          /\ removed.ssh \subseteq removed'.ssh /\ (removed.tls => removed'.tls)
          /\ target'.tls = target.tls \/ removed'.tls
          /\ \/ target'.ssh = None /\ CheckedOnly \subseteq removed'.ssh
             \/ target'.ssh = target.ssh
             \/ /\ target.ssh # None /\ target'.ssh # None
                /\ target'.ssh.key = target.ssh.key /\ target'.ssh.fp = target.ssh.fp
        <3>1. CASE target' = [target EXCEPT !.ssh = None] /\ removed' = noSSH
            BY <2>0, <2>1, <3>1 DEF Target
        <3>2. CASE target' = [target EXCEPT !.tls = None] /\ removed' = noTLS
            BY <2>0, <2>1, <3>2 DEF Target
        <3>3. CASE target' = [target EXCEPT !.token = FALSE] /\ removed' = removed
            BY <2>0, <2>1, <3>3 DEF Target
        <3>4. CASE /\ target.ssh # None /\ removed' = removed
                   /\ target' = [target EXCEPT !.ssh.parses = FALSE]
            <4> DEFINE b == [target.ssh EXCEPT !.parses = FALSE]
            <4>1. target.ssh \in SSHBlocks
                BY <2>1, <3>4 DEF Target
            <4>2. b \in SSHBlocks /\ b.key = target.ssh.key /\ b.fp = target.ssh.fp
                BY <4>1 DEF SSHBlocks
            <4>3. b # None
                BY <4>2, HostTrustAssumption
            <4>4. target' = [target EXCEPT !.ssh = b]
                BY <3>4
            <4> HIDE DEF b
            <4>5. target' \in Target /\ target'.ssh = b /\ target'.tls = target.tls
                BY <2>1, <4>2, <4>4 DEF Target
            <4> QED
                BY <2>0, <3>4, <4>2, <4>3, <4>5
        <3> QED
            BY <2>2, <3>1, <3>2, <3>3, <3>4
    <2>4. target' # None
        BY <2>3, HostTrustAssumption
    <2>5. TypeOK'
        BY <1>1, <1>3, <2>3 DEF TypeOK, HandEdit, node
    <2> QED
        BY <1>1, <2>1, <2>3, <2>4, <2>5 DEF Calm, HasTLS, storedSSHPin, heldSSHBlock
<1> QED
    BY <1>2, <1>3

\* The lock goes from free to its taker and back, and a run is where it needs the
\* lock only while it is the holder.
LockMoves(r) ==
    /\ HoldsLock(r)' => lock' = r
    /\ \/ lock' = lock
       \/ lock = None /\ lock' = r
       \/ lock = r /\ lock' = None

LEMMA StepLock ==
    ASSUME TypeOK, NEW r \in Runs, RunInv(r), Locking, Step(r) \/ Kill(r)
    PROVE  LockMoves(r)
<1> DEFINE Where == Loaded \cup {"load", "pinload"}
<1>0. run[r] \in RunStates
    BY DEF TypeOK
<1>1. ASSUME NEW out, NEW told, Ends(r, out, told) PROVE LockMoves(r)
    <2>1. run'[r] = Ended(r, out, told) /\ lock' = (IF lock = r THEN None ELSE lock)
        BY <1>1 DEF Ends, TypeOK
    <2>2. run'[r].pc = "done"
        BY <2>1 DEF Ended, Blank
    <2> QED
        BY <2>1, <2>2 DEF LockMoves, HoldsLock, Loaded
<1>2. ASSUME lock' = lock, run'[r].pc \notin Where PROVE LockMoves(r)
    BY <1>2 DEF LockMoves, HoldsLock
<1>3. ASSUME lock' = lock, run[r].pc \in Where, run'[r].cmd = run[r].cmd PROVE LockMoves(r)
    BY <1>3 DEF LockMoves, HoldsLock, Locking, Kind
<1>4. ASSUME NEW l, Goto(r, l) PROVE run'[r].pc = l /\ run'[r].cmd = run[r].cmd
    BY <1>0, <1>4 DEF Goto, TypeOK, RunStates
<1>5. Refused(r) \/ Failed(r) \/ keyLeftBehind(r) => LockMoves(r)
    BY <1>1 DEF Refused, Failed, keyLeftBehind
<1>6. run[r].pc \in CaptureSteps /\ (CaptureFails(r) \/ AfterCapture(r)) => LockMoves(r)
    BY <1>1, <1>3, <1>4, <1>5 DEF CaptureFails, AfterCapture, CaptureSteps, Loaded
<1>7. CASE Kill(r)
    BY <1>1, <1>7 DEF Kill
<1>8. CASE CheckBeforePrompt(r)
    <2>1. CASE Refused(r)
        BY <1>5, <2>1
    <2>2. ASSUME NEW c, run' = [run EXCEPT ![r].pc = "prepare", ![r].cmd = c], lock' = lock
          PROVE  LockMoves(r)
        BY <1>0, <1>2, <2>2 DEF TypeOK, RunStates, Loaded
    <2> QED
        BY <1>8, <2>1, <2>2 DEF CheckBeforePrompt
<1>9. CASE Prepare(r)
    <2>1. CASE Refused(r)
        BY <1>5, <2>1
    <2>2. ASSUME NEW i, NEW b, lock' = lock,
                 run' = [run EXCEPT ![r].pc = "lock", ![r].insecure = i, ![r].seen = b]
          PROVE  LockMoves(r)
        BY <1>0, <1>2, <2>2 DEF TypeOK, RunStates, Loaded
    <2> QED
        BY <1>9, <2>1, <2>2 DEF Prepare
<1>10. CASE Lock(r) \/ PinLock(r)
    BY <1>5, <1>10 DEF Lock, PinLock, Locked, LockMoves
<1>11. CASE Load(r)
    <2>1. CASE Refused(r)
        BY <1>5, <2>1
    <2>2. ASSUME NEW l, NEW o, NEW b, lock' = lock,
                 run' = [run EXCEPT ![r].pc = l, ![r].old = o, ![r].seen = b]
          PROVE  LockMoves(r)
        <3>1. run'[r].cmd = run[r].cmd
            BY <1>0, <2>2 DEF TypeOK, RunStates
        <3> QED
            BY <1>3, <1>11, <2>2, <3>1 DEF Load
    <2> QED
        BY <1>11, <2>1, <2>2 DEF Load
<1>12. CASE DialWithPassword(r) \/ ReconnectWithPinnedKey(r) \/ InstallPubkeyViaPassword(r)
    <2>1. run[r].pc \in Where
        BY <1>12 DEF DialWithPassword, ReconnectWithPinnedKey, InstallPubkeyViaPassword, Loaded
    <2>2. CASE Failed(r) \/ keyLeftBehind(r)
        BY <1>5, <2>2
    <2>3. ASSUME NEW l, NEW h, lock' = lock,
                 \/ run' = [run EXCEPT ![r].pc = l, ![r].host = h]
                 \/ run' = [run EXCEPT ![r].host = h, ![r].pc = l]
          PROVE  LockMoves(r)
        <3>1. run'[r].cmd = run[r].cmd
            BY <1>0, <2>3 DEF TypeOK, RunStates
        <3> QED
            BY <1>3, <2>1, <2>3, <3>1
    <2> QED
        BY <1>12, <2>2, <2>3
           DEF DialWithPassword, ReconnectWithPinnedKey, InstallPubkeyViaPassword
<1>13. CASE DialWithKey(r)
    BY <1>3, <1>4, <1>13 DEF DialWithKey, Loaded
<1>14. CASE capturePin(r)
    <2>1. run[r].pc \in Where /\ run[r].pc \in CaptureSteps
        BY <1>14 DEF capturePin, Loaded, CaptureSteps
    <2>2. CASE CaptureFails(r)
        BY <1>6, <2>1, <2>2
    <2>3. ASSUME NEW k, run' = [run EXCEPT ![r].pc = "served", ![r].pin = k], lock' = lock
          PROVE  LockMoves(r)
        <3>1. run'[r].cmd = run[r].cmd
            BY <1>0, <2>3 DEF TypeOK, RunStates
        <3> QED
            BY <1>3, <2>1, <2>3, <3>1
    <2> QED
        BY <1>14, <2>2, <2>3 DEF capturePin
<1>15. CASE checkServed(r)
    BY <1>1, <1>3, <1>4, <1>6, <1>15 DEF checkServed, AgainstStored, Loaded, CaptureSteps
<1>16. CASE WriteTLSPin(r)
    BY <1>6, <1>16 DEF WriteTLSPin, CaptureSteps
<1>17. CASE PersistSSHAuth(r)
    <2>1. run[r].pc \in Where /\ lock' = lock
        BY <1>17 DEF PersistSSHAuth, Loaded
    <2>2. run'[r].cmd = run[r].cmd
        BY <1>0, <1>4, <1>17 DEF PersistSSHAuth, TypeOK, RunStates
    <2> QED
        BY <1>3, <2>1, <2>2
<1>18. CASE dropKeyOverPassword(r) \/ dropKeyOver(r)
    BY <1>3, <1>4, <1>5, <1>18 DEF dropKeyOverPassword, dropKeyOver, Loaded
<1>19. CASE TokenPhase(r)
    BY <1>1, <1>5, <1>19 DEF TokenPhase
<1>20. CASE CheckPinTLS(r)
    <2>1. CASE Refused(r)
        BY <1>5, <2>1
    <2>2. ASSUME NEW c, c.kind = "pin-tls", lock' = lock,
                 run' = [run EXCEPT ![r].cmd = c,
                            ![r].pc = IF c.print THEN "pinload" ELSE "pinlock"]
          PROVE  LockMoves(r)
        <3>1. run'[r].cmd = c /\ run'[r].pc = IF c.print THEN "pinload" ELSE "pinlock"
            BY <1>0, <2>2 DEF TypeOK, RunStates
        <3> QED
            BY <2>2, <3>1 DEF LockMoves, HoldsLock, Kind, Loaded
    <2> QED
        BY <1>20, <2>1, <2>2 DEF CheckPinTLS, Asked
<1>21. CASE PinTLS(r)
    <2>1. CASE Refused(r)
        BY <1>5, <2>1
    <2>2. CASE ~Refused(r)
        <3>1. run'[r].cmd = run[r].cmd /\ lock' = lock /\ run[r].pc = "pinload"
            BY <1>0, <1>21, <2>2 DEF PinTLS, TypeOK, RunStates
        <3> QED
            BY <1>3, <3>1
    <2> QED
        BY <2>1, <2>2
<1>22. CASE LoadRosterKeys(r)
    <2>1. run'[r].pc = "authorized" /\ lock' = lock
        BY <1>0, <1>22 DEF TypeOK, RunStates, LoadRosterKeys
    <2> QED
        BY <1>2, <2>1 DEF Loaded
<1>23. CASE AuthorizedKeys(r)
    <2>1. CASE Failed(r)
        BY <1>5, <2>1
    <2>2. ASSUME NEW ks, NEW qs, lock' = lock,
                 run' = [run EXCEPT ![r] = [Ended(r, "ok", FALSE) EXCEPT
                                               !.offered = ks, !.unsettled = qs]]
          PROVE  LockMoves(r)
        <3>1. run'[r].pc = "done"
            BY <2>2 DEF TypeOK, Ended, Blank
        <3> QED
            BY <1>2, <2>2, <3>1 DEF Loaded
    <2> QED
        BY <1>23, <2>1, <2>2 DEF AuthorizedKeys
<1> QED
    BY <1>7, <1>8, <1>9, <1>10, <1>11, <1>12, <1>13, <1>14, <1>15, <1>16,
       <1>17, <1>18, <1>19, <1>20, <1>21, <1>22, <1>23 DEF Step, BootstrapStep

\* A key that is on file stays one its run persisted, and stays on its host.
LEMMA StepKeyStored ==
    ASSUME TypeOK, NEW r \in Runs, \A q \in Runs : RunInv(q), KeyStored, Step(r) \/ Kill(r)
    PROVE  KeyStored'
<1>1. RunInv(r)
    OBVIOUS
<1>2. run[r].persisted => run'[r].persisted /\ run[r].pc # "drop"
    <2>1. CASE run[r].persisted
        <3>1. run[r].pc = "token"
            BY <1>1, <2>1, StepMovesOne DEF RunInv, Control
        <3>2. TokenPhase(r) \/ Kill(r)
            BY <3>1 DEF Step, BootstrapStep, CheckBeforePrompt, Prepare, Lock, PinLock, Locked,
                        Load, DialWithPassword, ReconnectWithPinnedKey, DialWithKey,
                        capturePin, checkServed, InstallPubkeyViaPassword, WriteTLSPin,
                        PersistSSHAuth, dropKeyOver, dropKeyOverPassword, CheckPinTLS, PinTLS,
                        LoadRosterKeys, AuthorizedKeys, Asked
        <3>3. PICK out \in {"ok", "failed", "killed"} : Ends(r, out, FALSE)
            BY <3>2 DEF TokenPhase, Kill, Failed
        <3>4. run'[r].persisted = run[r].persisted
            BY <3>3, EndsRun DEF Outs
        <3> QED
            BY <2>1, <3>1, <3>4
    <2> QED
        BY <2>1
<1>3. CASE RosterKept
    <2>1. SUFFICES ASSUME heldSSHBlock', target'.ssh.key \in Runs
                   PROVE  /\ run'[target'.ssh.key].persisted
                          /\ target'.ssh.fp \in Hosts
                          /\ target'.ssh.key \in auth'[target'.ssh.fp]
        BY DEF KeyStored
    <2>2. PICK k \in Runs, h \in Hosts :
             /\ k = target'.ssh.key /\ h = target'.ssh.fp
             /\ run[k].persisted /\ k \in auth[h]
        BY <1>3, <2>1 DEF RosterKept, KeyStored
    <2>3. run'[k].persisted
        BY <1>2, <2>2, StepMovesOne DEF OthersSame
    <2>4. k \in auth'[h]
        BY <1>1, <1>2, <2>2, StepKeys DEF Keypairs
    <2> QED
        BY <2>2, <2>3, <2>4
<1>4. CASE Persists(r)
    <2>1. /\ target'.ssh.key = r /\ target'.ssh.fp = run[r].host /\ run[r].host \in Hosts
          /\ run'[r].persisted
        BY <1>1, <1>4, PersistsRoster
    <2>2. r \in auth'[run[r].host]
        BY <1>1, <1>4 DEF Persists, RunInv, Control, KeyPlaced, KeySteps
    <2> QED
        BY <2>1, <2>2 DEF KeyStored
<1> QED
    BY <1>1, <1>3, <1>4, StepRoster

-----------------------------------------------------------------------------
(* The invariant                                                           *)

\* The parts that the others rest on; the rest of TrustInv follows from them.
Inductive ==
    TypeOK /\ Locking /\ KeyStored /\ \A r \in Runs : RunInv(r)

LEMMA InductiveEnough == Inductive => TrustInv
<1> SUFFICES ASSUME Inductive PROVE CapturedBeforePersisted /\ SettledKeyKept
    BY DEF Inductive, TrustInv
<1>1. CapturedBeforePersisted
    BY DEF Inductive, CapturedBeforePersisted, RunInv, PinOnFile, HasTLS
<1>2. SettledKeyKept
    BY DEF Inductive, SettledKeyKept, RunInv, ReportKnows
<1> QED
    BY <1>1, <1>2

LEMMA InitInductive == Init => Inductive
<1> SUFFICES ASSUME Init PROVE Inductive
    OBVIOUS
<1>1. \A r \in Runs : run[r] = Blank
    BY DEF Init
<1>2. TypeOK
    BY BlankFields, HostTrustAssumption DEF Init, TypeOK, Keypairs
<1>3. Locking
    BY <1>1, BlankFields DEF Locking, HoldsLock, Loaded
<1>4. KeyStored
    BY HostTrustAssumption DEF Init, KeyStored, heldSSHBlock
<1>5. ASSUME NEW r \in Runs PROVE RunInv(r)
    <2>1. /\ run[r].pc = "start" /\ run[r].seen = None /\ run[r].persisted = FALSE
          /\ run[r].offered = {}
        BY <1>1, BlankFields
    <2>2. \A h \in Hosts : r \notin auth[h]
        BY HostTrustAssumption DEF Init
    <2>3. Control(r)
        BY <2>1 DEF Control, Loaded, KeySteps, CaptureSteps
    <2>4. HostVouched(r) /\ TrustGiven(r) /\ NoPinUnder(r) /\ Told(r) /\ ReportKnows(r)
        BY <2>1 DEF HostVouched, TrustGiven, NoPinUnder, Told, ReportKnows, Loaded,
                    KeySteps, CaptureSteps
    <2>5. PinOnFile(r) /\ KeyPlaced(r)
        BY <2>1, <2>2 DEF PinOnFile, KeyPlaced, KeySteps, CaptureSteps
    <2> QED
        BY <2>3, <2>4, <2>5 DEF RunInv
<1> QED
    BY <1>2, <1>3, <1>4, <1>5 DEF Inductive

LEMMA NextInductive == Inductive /\ [Next]_vars => Inductive'
<1> SUFFICES ASSUME Inductive, [Next]_vars PROVE Inductive'
    OBVIOUS
<1>1. TypeOK /\ Locking /\ KeyStored /\ \A q \in Runs : RunInv(q)
    BY DEF Inductive
<1>2. ASSUME NEW r \in Runs, Step(r) \/ Kill(r) PROVE Inductive'
    <2>1. TypeOK' /\ RunInv(r)'
        BY <1>1, <1>2, StepOwn
    <2>2. ASSUME NEW q \in Runs \ {r} PROVE RunInv(q)'
        <3>1. Calm(q)
            BY <1>1, <1>2, StepCalm
        <3> QED
            BY <1>1, <3>1, CalmKeeps
    <2>3. Locking'
        <3>1. SUFFICES ASSUME NEW q \in Runs, HoldsLock(q)' PROVE lock' = q
            BY DEF Locking
        <3>2. LockMoves(r)
            BY <1>1, <1>2, StepLock
        <3>3. CASE q = r
            BY <3>1, <3>2, <3>3 DEF LockMoves
        <3>4. CASE q # r
            <4>1. run'[q] = run[q]
                BY <1>1, <1>2, <3>4, StepMovesOne DEF OthersSame
            <4>2. HoldsLock(q)
                BY <3>1, <4>1 DEF HoldsLock, Kind
            <4>3. lock = q /\ lock # None
                BY <1>1, <4>2, HostTrustAssumption DEF Locking, Keypairs
            <4> QED
                BY <3>2, <3>4, <4>3 DEF LockMoves
        <3> QED
            BY <3>3, <3>4
    <2>4. KeyStored'
        BY <1>1, <1>2, StepKeyStored
    <2> QED
        BY <2>1, <2>2, <2>3, <2>4 DEF Inductive
<1>3. ASSUME AnotherHost \/ RenewKey \/ Front \/ HandEdit PROVE Inductive'
    <2>1. ASSUME NEW q \in Runs PROVE RunInv(q)'
        BY <1>1, <1>3, OutsideCalm, CalmKeeps
    <2>2. /\ TypeOK' /\ run' = run /\ auth' = auth /\ lock' = lock
          /\ heldSSHBlock' => /\ heldSSHBlock /\ target'.ssh.key = target.ssh.key
                              /\ target'.ssh.fp = target.ssh.fp
        BY <1>1, <1>3, OutsideCalm
    <2>3. Locking'
        BY <1>1, <2>2 DEF Locking, HoldsLock, Kind
    <2>4. KeyStored'
        BY <1>1, <2>2 DEF KeyStored
    <2> QED
        BY <2>1, <2>2, <2>3, <2>4 DEF Inductive
<1>4. ASSUME UNCHANGED vars PROVE Inductive'
    <2>1. ASSUME NEW q \in Runs PROVE RunInv(q)'
        <3>1. Calm(q)
            BY <1>4 DEF vars, Calm, HasTLS, storedSSHPin, heldSSHBlock
        <3> QED
            BY <1>1, <3>1, CalmKeeps
    <2>2. TypeOK' /\ Locking' /\ KeyStored'
        BY <1>1, <1>4 DEF vars, TypeOK, Locking, HoldsLock, Kind, KeyStored, heldSSHBlock
    <2> QED
        BY <2>1, <2>2 DEF Inductive
<1> QED
    BY <1>2, <1>3, <1>4 DEF Next

\* What the roster and the key report rest on holds of every number of runs:
\* under the target's lock, no interleaving of bootstraps, pin-tls runs, kills
\* and hand edits stores SSH auth ahead of its TLS pin or offers a settled key.
THEOREM TrustInvariant == Spec => []TrustInv
<1>1. Spec => []Inductive
    BY InitInductive, NextInductive, PTL DEF Spec
<1> QED
    BY <1>1, InductiveEnough, PTL

\* A keypair that a bootstrap stored logs in at the host stored with it, whatever
\* any later run, failure or takeover of the address does.
THEOREM StoredKeyWorks == Spec => []PersistedKeyWorks
<1>1. TrustInv => PersistedKeyWorks
    BY DEF TrustInv, KeyStored, PersistedKeyWorks, heldSSHBlock
<1> QED
    BY <1>1, TrustInvariant, PTL

\* A bootstrap that returns with its key left on a host, and not in the roster,
\* has said so, whichever of its steps failed.
THEOREM LeftKeyIsTold == Spec => []LeftKeyTold
<1>1. TrustInv => LeftKeyTold
    BY DEF TrustInv, RunInv, Told, LeftKeyTold
<1> QED
    BY <1>1, TrustInvariant, PTL

-----------------------------------------------------------------------------
(* Re-pinning                                                              *)

\* The run that writes a TLS pin has been told, by the roster or the operator,
\* which host to trust for it.
LEMMA WriteVouched ==
    ASSUME TypeOK, NEW r \in Runs, RunInv(r), run[r].pc = "write", target # None,
           PinOf(target.tls) = PinOf(run[r].seen)
    PROVE  Vouched(r) \/ r \in removed.ssh
<1> DEFINE c == run[r].cmd
           s == run[r]
           first == target.tls = None
<1>1. /\ target.tls \in TLSBlocks \cup {None} /\ s.seen \in TLSBlocks \cup {None}
      /\ None \notin TLSKeys
    BY HostTrustAssumption DEF TypeOK, Target, RunStates
<1>2. first <=> s.seen = None
    <2>1. \A b \in TLSBlocks : b.pin \in TLSKeys
        BY DEF TLSBlocks
    <2> QED
        BY <1>1, <2>1 DEF PinOf
<1>3. MayWrite(r) /\ Kind(r) \in {"bootstrap", "pin-tls"} /\ c \in Commands
      /\ (Kind(r) = "bootstrap" => captureTLS(r))
    BY DEF RunInv, Control, CaptureSteps
<1>4. CASE Kind(r) = "pin-tls"
    <2>1. first \/ c.repin
        BY <1>2, <1>3, <1>4 DEF MayWrite, Kind
    <2>2. \/ s.old # None /\ s.host = s.old.fp
          \/ s.pin = c.expect /\ ~c.repin
        BY <1>4 DEF RunInv, HostVouched, CaptureSteps
    <2> QED
        BY <1>4, <2>1, <2>2 DEF Vouched, Kind
<1>5. CASE Kind(r) = "bootstrap"
    <2>1. first \/ c.reprovisioned
        BY <1>2, <1>3, <1>5 DEF MayWrite, Kind
    <2>2. IF BranchOf(r) = "reconnect" THEN s.host = s.old.fp ELSE c.fp \in {None, s.host}
        BY <1>5 DEF RunInv, HostVouched, CaptureSteps
    <2>3. /\ c.reprovisioned => c.fp # None
          /\ ~c.reprovisioned /\ s.insecure /\ c.fp = None /\ ~c.tofu
                => ~c.noKey /\ (s.old # None \/ r \in removed.ssh)
        BY <1>5 DEF RunInv, TrustGiven, Loaded
    <2>4. CASE BranchOf(r) = "reconnect"
        <3>1. s.old # None /\ ~ReprovisionsSSH(c, s.old)
            BY <2>4 DEF BranchOf, Branch
        <3> QED
            BY <1>5, <2>1, <2>2, <2>4, <3>1 DEF Vouched, ReprovisionsSSH, Kind
    <2>5. CASE BranchOf(r) # "reconnect" /\ c.fp = s.host
        BY <1>5, <2>1, <2>5 DEF Vouched, Kind
    <2>6. CASE BranchOf(r) # "reconnect" /\ c.fp = None
        <3>1. ~c.reprovisioned /\ first
            BY <2>1, <2>3, <2>6
        <3>2. s.insecure
            BY <1>2, <1>3, <1>5, <3>1 DEF captureTLS
        <3>3. CASE c.tofu
            BY <1>5, <3>1, <3>3 DEF Vouched, Kind
        <3>4. CASE ~c.tofu
            <4>1. ~c.noKey /\ (s.old # None \/ r \in removed.ssh)
                BY <2>3, <2>6, <3>1, <3>2, <3>4
            <4>2. s.old = None
                BY <2>6, <3>1, <4>1 DEF BranchOf, Branch, ReprovisionsSSH
            <4> QED
                BY <4>1, <4>2
        <3> QED
            BY <3>3, <3>4
    <2> QED
        BY <2>2, <2>4, <2>5, <2>6
<1> QED
    BY <1>3, <1>4, <1>5

\* Which steps change a TLS block that is or comes to be there.
LEMMA TLSWriters ==
    ASSUME TypeOK, [Next]_vars, \A q \in Runs : RunInv(q),
           target # None, target' # None, target'.tls \notin {target.tls, None}
    PROVE  \E r \in Runs :
              /\ run[r].pc = "write" /\ PinOf(target.tls) = PinOf(run[r].seen)
              /\ PinOf(target'.tls) = run[r].pin
<1>0. target \in Target
    BY DEF TypeOK
<1>1. ASSUME NEW r \in Runs, Step(r) \/ Kill(r)
      PROVE  /\ run[r].pc = "write" /\ PinOf(target.tls) = PinOf(run[r].seen)
             /\ PinOf(target'.tls) = run[r].pin
    <2>1. CASE WriteTLSPin(r)
        <3> DEFINE b == [pin |-> run[r].pin, source |-> captureSource(r)]
        <3>1. /\ PinOf(target.tls) = PinOf(run[r].seen) /\ run[r].pc = "write"
              /\ target' = [target EXCEPT !.tls = b]
            BY <2>1 DEF WriteTLSPin
        <3>2. target'.tls = b
            BY <1>0, <3>1 DEF Target
        <3> QED
            BY <3>1, <3>2 DEF PinOf
    <2>2. ~Load(r)
        BY EnsuredTarget DEF Load
    <2>3. ~TokenPhase(r)
        BY TokenTarget DEF TokenPhase
    <2>4. ~PersistSSHAuth(r)
        BY PersistsRoster, PersistedBlock DEF PersistSSHAuth, Persists
    <2>5. WriteTLSPin(r)
        BY <1>1, <2>2, <2>3, <2>4
           DEF Step, BootstrapStep, Kill, CheckBeforePrompt, Prepare, Lock, PinLock, Locked,
               DialWithPassword, ReconnectWithPinnedKey, DialWithKey, capturePin, checkServed,
               InstallPubkeyViaPassword, dropKeyOver, dropKeyOverPassword, CheckPinTLS, PinTLS,
               LoadRosterKeys, AuthorizedKeys
    <2> QED
        BY <2>1, <2>5
<1>2. ~(AnotherHost \/ RenewKey \/ Front \/ UNCHANGED vars)
    BY DEF AnotherHost, RenewKey, Front, vars
<1>3. ~HandEdit
    BY <1>0 DEF HandEdit, Target
<1> QED
    BY <1>1, <1>2, <1>3 DEF Next

\* A TLS pin is written or replaced only for a host that was vouched for, and an
\* SSH pin gives way only to the fingerprint that a reprovision was given; two
\* runs of one target never re-pin it between each other's reads and writes.
THEOREM PinsAreVouched == Spec => PinsVouched
<1>1. ASSUME Inductive, [Next]_vars, target # None, target' # None,
             target'.tls \notin {target.tls, None}
      PROVE  /\ PinOf(target'.tls) # PinOf(target.tls)
             /\ \E r \in Runs : run[r].pc = "write" /\ (Vouched(r) \/ r \in removed.ssh)
    <2>1. PICK r \in Runs : /\ run[r].pc = "write"
                            /\ PinOf(target.tls) = PinOf(run[r].seen)
                            /\ PinOf(target'.tls) = run[r].pin
        BY <1>1, TLSWriters DEF Inductive
    <2>2. PinOf(run[r].seen) # run[r].pin
        BY <1>1, <2>1 DEF Inductive, RunInv, Control
    <2>3. Vouched(r) \/ r \in removed.ssh
        BY <1>1, <2>1, WriteVouched DEF Inductive
    <2> QED
        BY <2>1, <2>2, <2>3
<1>2. ASSUME Inductive, [Next]_vars, target' # None, storedSSHPin, target'.ssh # None,
             target'.ssh.fp # target.ssh.fp
      PROVE  \E r \in Runs : /\ run[r].pc = "persist" /\ run[r].cmd.reprovisioned
                             /\ run[r].cmd.fp = target'.ssh.fp
    <2>1. heldSSHBlock'
        BY <1>2 DEF heldSSHBlock
    <2>2. ~(AnotherHost \/ RenewKey \/ Front \/ HandEdit)
        BY <1>2, <2>1, OutsideCalm DEF Inductive
    <2>3. PICK r \in Runs : Step(r) \/ Kill(r)
        BY <1>2, <2>2 DEF Next, vars
    <2>4. TypeOK /\ RunInv(r)
        BY <1>2 DEF Inductive
    <2>5. Persists(r)
        BY <1>2, <2>1, <2>3, <2>4, StepRoster DEF RosterKept
    <2>6. target'.ssh.fp = run[r].host
        BY <2>4, <2>5, PersistsRoster
    <2>7. /\ run[r].pc = "persist" /\ Kind(r) = "bootstrap" /\ BranchOf(r) = "install"
        BY <2>4, <2>5 DEF Persists, RunInv, Control, KeySteps
    <2>8. run[r].old # None
        BY <1>2, <2>4, <2>7 DEF RunInv, NoPinUnder, Loaded
    <2>9. run[r].cmd.reprovisioned
        BY <2>7, <2>8 DEF BranchOf, Branch, ReprovisionsSSH
    <2>10. run[r].cmd.fp # None /\ run[r].cmd.fp \in {None, run[r].host}
        BY <2>4, <2>7, <2>9 DEF RunInv, TrustGiven, HostVouched, Loaded, KeySteps
    <2> QED
        BY <2>6, <2>7, <2>9, <2>10
<1>3. Inductive /\ [Next]_vars =>
         (target # None /\ target' # None =>
            /\ target'.tls \notin {target.tls, None} =>
                 /\ PinOf(target'.tls) # PinOf(target.tls)
                 /\ \E r \in Runs : /\ run[r].pc = "write"
                                    /\ Vouched(r) \/ r \in removed.ssh
            /\ /\ storedSSHPin
               /\ target'.ssh # None
               /\ target'.ssh.fp # target.ssh.fp
               => \E r \in Runs : /\ run[r].pc = "persist"
                                  /\ run[r].cmd.reprovisioned
                                  /\ run[r].cmd.fp = target'.ssh.fp)
    BY <1>1, <1>2
<1> QED
    BY <1>3, InitInductive, NextInductive, PTL DEF Spec, PinsVouched

=============================================================================
