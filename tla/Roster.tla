------------------------------- MODULE Roster -------------------------------
(***************************************************************************)
(* internal/roster as pveforge processes run it: every writer takes        *)
(* <roster>.lock, reads the file, composes the new file from what it read, *)
(* and renames it into place.  Readers take no lock: the rename makes the  *)
(* file they see one that some writer completed.  A process may be killed  *)
(* anywhere; an operator may edit the file by hand, without the lock.      *)
(***************************************************************************)
EXTENDS RosterFile, Naturals

CONSTANTS Procs,         \* pveforge processes sharing the roster
          NoProc,        \* "nobody"
          StartRosters,  \* the rosters a run may find
          NoRoster,      \* no file read or composed
          MaxEdits       \* bound on hand edits

ASSUME ProcessAssumption ==
    /\ NoProc \notin Procs
    /\ NoRoster \notin Rosters
    /\ MaxEdits \in Nat
    /\ StartRosters \subseteq Rosters
    /\ \A r \in StartRosters : OnePassphrase(r) /\ OneSecretEach(r)

VARIABLES file,   \* the roster on disk
          lock,   \* holder of <roster>.lock, or NoProc
          stage,  \* where each process is in its current roster call
          req,    \* the call
          pass,   \* the passphrase the process was given
          proof,  \* Passphrase.proof: the ciphertext it is known to open
          data,   \* the roster the call read under the lock
          draft,  \* the file it composed
          edits   \* hand edits left

rosterVars == <<file, lock, stage, req, pass, proof, data, draft, edits>>

S == INSTANCE RosterStore

RosterPhases == {"idle", "wantLock", "locked", "composed", "checked", "written", "refused"}

NoRequest == [op |-> "none"]

RosterInit ==
    /\ file \in StartRosters
    /\ lock = NoProc
    /\ stage = [p \in Procs |-> "idle"]
    /\ req = [p \in Procs |-> NoRequest]
    /\ pass \in [Procs -> Passphrases]
    /\ proof = [p \in Procs |-> {}]
    /\ data = [p \in Procs |-> NoRoster]
    /\ draft = [p \in Procs |-> NoRoster]
    /\ edits = MaxEdits

GotoStage(p, from, to) == stage[p] = from /\ stage' = [stage EXCEPT ![p] = to]

\* The call's frame is gone.
Forget(p) ==
    /\ req' = [req EXCEPT ![p] = NoRequest]
    /\ data' = [data EXCEPT ![p] = NoRoster]
    /\ draft' = [draft EXCEPT ![p] = NoRoster]

\* ProvePassphrase, or the decrypt of a stored secret, before any write: an
\* unlocked read whose proof the writers may use later.
EarlyProve(p, t) ==
    /\ stage[p] = "idle"
    /\ \E pf \in ProofsAfter(file, t, pass[p], proof[p]) :
          proof' = [proof EXCEPT ![p] = pf]
    /\ UNCHANGED <<file, lock, stage, req, pass, data, draft, edits>>

\* A writer is called.  Rekey returns at once when the new passphrase is the
\* current one.
Call(p, q) ==
    /\ q.op = "Rekey" => q.next # pass[p]
    /\ GotoStage(p, "idle", "wantLock")
    /\ req' = [req EXCEPT ![p] = q]
    /\ UNCHANGED <<file, lock, pass, proof, data, draft, edits>>

\* Fault: the lock is not exclusive.
TakeLockAnyway(p) ==
    /\ GotoStage(p, "wantLock", "locked")
    /\ lock' = p
    /\ UNCHANGED <<file, req, pass, proof, data, draft, edits>>

TakeLock(p) ==
    /\ GotoStage(p, "wantLock", "locked")
    /\ lock = NoProc
    /\ lock' = p
    /\ UNCHANGED <<file, req, pass, proof, data, draft, edits>>

\* Fault: a wait that timed out goes on as if it had the lock.
LockTimesOutGoesOn(p) ==
    /\ GotoStage(p, "wantLock", "locked")
    /\ lock # NoProc
    /\ UNCHANGED <<file, lock, req, pass, proof, data, draft, edits>>

\* Ten seconds behind another pveforge process: the call gives up.
LockTimesOut(p) ==
    /\ GotoStage(p, "wantLock", "idle")
    /\ lock # NoProc
    /\ Forget(p)
    /\ UNCHANGED <<file, lock, pass, proof, edits>>

\* The proof a call that gets past Passphrase.prove leaves behind.
Proven(p, pf) ==
    IF req[p].op \in Proving
    THEN pf \in ProofsAfter(file, req[p].target, pass[p], proof[p])
    ELSE pf = proof[p]

\* The call reads the file, passes its checks and composes the new file.
Compose(p) ==
    /\ GotoStage(p, "locked", "composed")
    /\ \E pf \in {proof[p]} \cup {{c} : c \in Ciphertexts} :
          Proven(p, pf) /\ proof' = [proof EXCEPT ![p] = pf]
    /\ Allowed(file, req[p], pass[p])
    /\ ~NothingToDo(file, req[p])
    /\ data' = [data EXCEPT ![p] = file]
    /\ draft' = [draft EXCEPT ![p] = Composed(file, req[p], pass[p])]
    /\ UNCHANGED <<file, lock, req, pass, edits>>

\* The call reads the file and is refused, or finds nothing to write; one
\* that got past prove keeps the proof.
Refuse(p) ==
    /\ GotoStage(p, "locked", "refused")
    /\ \/ /\ req[p].op \in Proving
          /\ MayRefuseProof(file, req[p].target, pass[p], proof[p])
          /\ UNCHANGED proof
       \/ /\ ~Allowed(file, req[p], pass[p]) \/ NothingToDo(file, req[p])
          /\ \E pf \in {proof[p]} \cup {{c} : c \in Ciphertexts} :
                Proven(p, pf) /\ proof' = [proof EXCEPT ![p] = pf]
    /\ UNCHANGED <<file, lock, req, pass, data, draft, edits>>

\* Rekey alone reads the file again: it must still be the bytes it read.
Recheck(p) ==
    /\ req[p].op = "Rekey"
    /\ GotoStage(p, "composed", IF file = data[p] THEN "checked" ELSE "refused")
    /\ UNCHANGED <<file, lock, req, pass, proof, data, draft, edits>>

MayWrite(p) == stage[p] = (IF req[p].op = "Rekey" THEN "checked" ELSE "composed")

\* atomicWrite: temp file, fsync, rename.
AtomicWrite(p) ==
    /\ MayWrite(p)
    /\ file' = draft[p]
    /\ stage' = [stage EXCEPT ![p] = "written"]
    /\ UNCHANGED <<lock, req, pass, proof, data, draft, edits>>

\* Fault: the file is rewritten in place, and a failure leaves it cut short.
WriteFailsInPlace(p) ==
    /\ MayWrite(p)
    /\ stage' = [stage EXCEPT ![p] = "refused"]
    /\ file' = [file EXCEPT !.secrets = {}]
    /\ UNCHANGED <<lock, req, pass, proof, data, draft, edits>>

\* A step of atomicWrite before the rename fails: the old file stays.
WriteFails(p) ==
    /\ MayWrite(p)
    /\ stage' = [stage EXCEPT ![p] = "refused"]
    /\ UNCHANGED <<file, lock, req, pass, proof, data, draft, edits>>

\* The deferred unlock; a writer that sealed a secret remembers it.
Return(p) ==
    /\ stage[p] \in {"written", "refused"}
    /\ stage' = [stage EXCEPT ![p] = "idle"]
    /\ lock' = NoProc
    /\ proof' = IF stage[p] = "written" /\ req[p].op \in Sealing
                THEN [proof EXCEPT ![p] = {[pass |-> pass[p], plain |-> req[p].plain]}]
                ELSE proof
    /\ Forget(p)
    /\ UNCHANGED <<file, pass, edits>>

\* The process dies, or one command ends and the next one starts with a
\* passphrase of its own: nothing is remembered across processes.
Restart(p, w) ==
    /\ stage' = [stage EXCEPT ![p] = "idle"]
    /\ lock' = IF lock = p THEN NoProc ELSE lock
    /\ pass' = [pass EXCEPT ![p] = w]
    /\ proof' = [proof EXCEPT ![p] = {}]
    /\ Forget(p)
    /\ UNCHANGED <<file, edits>>

RosterStep(p) ==
    \/ \E t \in Targets : EarlyProve(p, t)
    \/ \E q \in Requests : Call(p, q)
    \/ TakeLock(p)
    \/ LockTimesOut(p)
    \/ Compose(p)
    \/ Refuse(p)
    \/ Recheck(p)
    \/ AtomicWrite(p)
    \/ WriteFails(p)
    \/ Return(p)
    \/ \E w \in Passphrases : Restart(p, w)

\* An editor that ignores the lock changes a target's plain fields.
HandEdit(t, m) ==
    /\ edits > 0
    /\ t \in file.targets
    /\ file.meta[t] # m
    /\ file' = [file EXCEPT !.meta[t] = m]
    /\ edits' = edits - 1
    /\ UNCHANGED <<lock, stage, req, pass, proof, data, draft>>

LockedNext == \E p \in Procs : RosterStep(p)

EditedNext == LockedNext \/ \E t \in Targets, m \in Metas : HandEdit(t, m)

\* Every writer takes the lock.
RosterSpec == RosterInit /\ [][LockedNext]_rosterVars

\* The same with an operator editing the file beside them.
EditedSpec == RosterInit /\ [][EditedNext]_rosterVars

-----------------------------------------------------------------------------
(* Properties                                                              *)

\* Types: what is on disk, read or composed is always a whole roster.
RosterTypeOK ==
    /\ file \in Rosters
    /\ lock \in Procs \cup {NoProc}
    /\ stage \in [Procs -> RosterPhases]
    /\ req \in [Procs -> Requests \cup {NoRequest}]
    /\ pass \in [Procs -> Passphrases]
    /\ proof \in [Procs -> SUBSET Ciphertexts]
    /\ data \in [Procs -> Rosters \cup {NoRoster}]
    /\ draft \in [Procs -> Rosters \cup {NoRoster}]
    /\ edits \in 0..MaxEdits

\* A proof is of a secret that the process's own passphrase opens.
HonestProofs ==
    \A p \in Procs : \A c \in proof[p] : c.pass = pass[p] /\ c.plain \notin Unreadable

\* A process in a call has its request, and past TakeLock holds the lock
\* until it returns.
Locked ==
    \A p \in Procs :
        /\ stage[p] # "idle" => req[p] \in Requests
        /\ stage[p] \notin {"idle", "wantLock"} => lock = p

\* No file a writer is about to rename into place is split, or holds two
\* ciphertexts for one subtable.
SoundDrafts ==
    \A p \in Procs : stage[p] \in {"composed", "checked"} =>
        /\ draft[p] \in Rosters
        /\ OnePassphrase(draft[p])
        /\ OneSecretEach(draft[p])

\* The roster is never split across two passphrases, whoever wrote first,
\* rekeyed in between, died, or relied on a proof made before the lock; and
\* no subtable ends up with two ciphertexts or outside its target.
Unsplit == OnePassphrase(file) /\ OneSecretEach(file)

\* The inductive invariant of the roster processes.
RosterInv == RosterTypeOK /\ HonestProofs /\ Locked /\ SoundDrafts /\ Unsplit

\* While it holds the lock a writer's draft is what its call makes of the
\* file now on disk, not of a file somebody has replaced since.
FreshDrafts ==
    \A p \in Procs : stage[p] \in {"composed", "checked"} =>
        /\ req[p].op \in Proving => Opens(file, pass[p])
        /\ Allowed(file, req[p], pass[p])
        /\ ~NothingToDo(file, req[p])
        /\ draft[p] = Composed(file, req[p], pass[p])

\* A recorded TLS pin is replaced only by a WriteTLSPin that named it as the
\* pin it expects, and keeps the source it was first obtained from.
PinReplacedKnowingly ==
    [][\A t \in Targets :
          LET was == file.tls[t]
              now == file'.tls[t]
          IN  was.pin # NoPin /\ now # was =>
                /\ now.pin # was.pin
                /\ \E p \in Procs :
                      /\ stage[p] = "composed" /\ stage'[p] = "written"
                      /\ req[p].op = "WriteTLSPin"
                      /\ req[p].target = t
                      /\ req[p].old = was.pin]_rosterVars

\* Locked read-modify-write cycles are single operations on the roster: no
\* write is lost, and every write is judged against the roster it replaces.
ImplementsStore == S!StoreSpec
=============================================================================
