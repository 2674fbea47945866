------------------------- MODULE RosterTokenProofs --------------------------
(***************************************************************************)
(* Theorems about Roster, for any set of processes, targets and            *)
(* passphrases, and about TokenRotation, which persists its tokens in a    *)
(* roster: what a report says of the previous token and which secrets are  *)
(* stored, for any rosters; and, for a token that one roster holds, what   *)
(* is left behind, what is announced, and which tokens die.                *)
(***************************************************************************)
EXTENDS Roster, TokenRotation, TLAPS

-----------------------------------------------------------------------------
(***************************************************************************)
(* The roster                                                              *)
(***************************************************************************)

\* A proof that acceptance leaves behind is of a secret the passphrase opens,
\* and the passphrase opens the roster, or the roster has no secret.
LEMMA ProofsAfterHonest ==
    ASSUME NEW r \in Rosters, NEW t \in Targets, NEW w \in Passphrases,
           NEW pf0 \in SUBSET Ciphertexts,
           \A c \in pf0 : c.pass = w /\ c.plain \notin Unreadable,
           NEW pf \in ProofsAfter(r, t, w, pf0)
    PROVE  /\ pf \in SUBSET Ciphertexts
           /\ \A c \in pf : c.pass = w /\ c.plain \notin Unreadable
           /\ Opens(r, w)
<1>1. CASE ProofStands(r, pf0)
  <2>1. pf = pf0
    BY <1>1 DEF ProofsAfter
  <2>2. ASSUME NEW s \in r.secrets, Armored(s) \in pf0 PROVE Readable(s) /\ s.pass = w
    BY <2>2 DEF Armored, Readable
  <2>3. Opens(r, w)
    BY <1>1, <2>2 DEF ProofStands, Opens
  <2> QED
    BY <2>1, <2>3
<1>2. CASE ~ProofStands(r, pf0)
  <2>1. PICK s \in Deciding(r, t) : s.pass = w /\ pf = {Armored(s)}
    BY <1>2 DEF ProofsAfter
  <2>2. s \in r.secrets /\ Readable(s) /\ s \in SecretRefs
    BY <2>1 DEF Deciding, OwnReadable, Rosters
  <2>3. Opens(r, w)
    BY <2>1, <2>2 DEF Opens
  <2>4. Armored(s) \in Ciphertexts /\ Armored(s).pass = w /\ Armored(s).plain \notin Unreadable
    BY <2>1, <2>2 DEF Armored, Readable, Ciphertexts, SecretRefs
  <2> QED
    BY <2>1, <2>3, <2>4
<1> QED
  BY <1>1, <1>2

\* What any writer composes from a roster is a roster.
LEMMA ComposedIsRoster ==
    ASSUME NEW r \in Rosters, NEW q \in Requests, NEW w \in Passphrases
    PROVE  Composed(r, q, w) \in Rosters
<1> USE DEF Rosters
<1>0. ASSUME NEW t \in Targets, NEW what \in Subtables, NEW plain \in Written
      PROVE  Seal(r, t, what, w, plain) \in Rosters
  <2>1. [target |-> t, what |-> what, pass |-> w, plain |-> plain] \in SecretRefs
    BY DEF SecretRefs, Written
  <2>2. SecretsAt(r, t, what) \subseteq SecretRefs
    BY DEF SecretsAt
  <2> QED
    BY <2>1, <2>2 DEF Seal
<1>1. CASE q \in TokenWrites
  BY <1>0, <1>1 DEF TokenWrites, Composed, Subtables
<1>2. CASE q \in SSHWrites \cup SSHReplaces
  <2> DEFINE n == Seal(r, q.target, "ssh", w, q.plain)
  <2>1. q.pin \in Pins /\ q.target \in Targets /\ n \in Rosters
    BY <1>0, <1>2 DEF SSHWrites, SSHReplaces, Subtables
  <2>2. Composed(r, q, w) = [n EXCEPT !.hostKey[q.target] = q.pin]
    BY <1>2 DEF SSHWrites, SSHReplaces, Composed, WriteSSH
  <2> HIDE DEF n
  <2>3. [n.hostKey EXCEPT ![q.target] = q.pin] \in [Targets -> Pins \cup {NoPin}]
    BY <2>1
  <2> QED
    BY <2>1, <2>2, <2>3
<1>3. CASE q \in PinWrites
  BY <1>3 DEF PinWrites, Composed
<1>4. CASE q \in Appends
  BY <1>4 DEF Appends, Composed, Appended
<1>5. CASE q \in FieldUpdates
  BY <1>5 DEF FieldUpdates, Composed, FieldsUpdated
<1>6. CASE q \in Clears
  BY <1>6 DEF Clears, Composed, TokenCleared, SecretsAt
<1>7. CASE q \in Rekeys
  <2>1. \A s \in r.secrets : [s EXCEPT !.pass = q.next] \in SecretRefs
    BY <1>7 DEF Rekeys, SecretRefs
  <2> QED
    BY <1>7, <2>1 DEF Rekeys, Composed, Rekeyed
<1> QED
  BY <1>1, <1>2, <1>3, <1>4, <1>5, <1>6, <1>7 DEF Requests

\* No operation splits a roster that was not split: a sealing one only after
\* the passphrase opened a secret that speaks for all of them.
LEMMA ComposedUnsplit ==
    ASSUME NEW r \in Rosters, NEW q \in Requests, NEW w \in Passphrases,
           OnePassphrase(r), OneSecretEach(r),
           q.op \in Proving => Opens(r, w),
           Allowed(r, q, w)
    PROVE  OnePassphrase(Composed(r, q, w)) /\ OneSecretEach(Composed(r, q, w))
<1> USE DEF OnePassphrase, OneSecretEach
<1>1. ASSUME NEW t \in Targets, NEW what \in Subtables, NEW plain \in Written,
             t \in r.targets, Opens(r, w)
      PROVE  LET n == Seal(r, t, what, w, plain)
             IN  OnePassphrase(n) /\ OneSecretEach(n) /\ n \in Rosters
  <2> DEFINE new == [target |-> t, what |-> what, pass |-> w, plain |-> plain]
             n == Seal(r, t, what, w, plain)
  <2>1. new \in SecretRefs
    BY DEF SecretRefs, Written
  <2>2. n \in Rosters /\ n.targets = r.targets
    BY <2>1 DEF Seal, SecretsAt, Rosters
  <2>3. n.secrets = (r.secrets \ SecretsAt(r, t, what)) \cup {new}
    BY DEF Seal, Rosters
  <2>4. \A s \in r.secrets : s.pass = w
    BY <1>1 DEF Opens
  <2>5. \A s \in n.secrets : s.pass = w
    BY <2>3, <2>4
  <2>6. \A s \in n.secrets : s # new => s \in r.secrets /\ ~(s.target = t /\ s.what = what)
    BY <2>3 DEF SecretsAt
  <2> QED
    BY <1>1, <2>2, <2>5, <2>6
<1>2. CASE q \in TokenWrites
  <2>1. q.op = "WriteTokenAuth" /\ q.target \in Targets /\ q.plain \in Written
    BY <1>2 DEF TokenWrites
  <2>2. q.target \in r.targets /\ Opens(r, w)
    BY <2>1 DEF Allowed, Proving
  <2>3. Composed(r, q, w) = Seal(r, q.target, "token", w, q.plain)
    BY <2>1 DEF Composed
  <2> QED
    BY <1>1, <2>1, <2>2, <2>3 DEF Subtables
<1>3. CASE q \in SSHWrites \cup SSHReplaces
  <2>1. LET n == Seal(r, q.target, "ssh", w, q.plain)
        IN  OnePassphrase(n) /\ OneSecretEach(n) /\ n \in Rosters
    BY <1>1, <1>3 DEF SSHWrites, SSHReplaces, Proving, Allowed, Subtables
  <2>2. Composed(r, q, w) = WriteSSH(r, q, w)
    BY <1>3 DEF SSHWrites, SSHReplaces, Composed
  <2> QED
    BY <2>1, <2>2 DEF WriteSSH, Rosters
<1>4. CASE q \in PinWrites
  BY <1>4 DEF PinWrites, Composed, Rosters
<1>5. CASE q \in Appends
  BY <1>5 DEF Appends, Composed, Appended, Rosters
<1>6. CASE q \in FieldUpdates
  BY <1>6 DEF FieldUpdates, Composed, FieldsUpdated, Rosters
<1>7. CASE q \in Clears
  BY <1>7 DEF Clears, Composed, TokenCleared, SecretsAt, Rosters
<1>8. CASE q \in Rekeys
  BY <1>8 DEF Rekeys, Composed, Rekeyed, Allowed, Rosters, SecretRefs
<1> QED
  BY <1>2, <1>3, <1>4, <1>5, <1>6, <1>7, <1>8 DEF Requests

-----------------------------------------------------------------------------
(* The invariant                                                           *)

LEMMA InitRosterInv == RosterInit => RosterInv
  BY ProcessAssumption
     DEF RosterInit, RosterInv, RosterTypeOK, HonestProofs, Locked, SoundDrafts, Unsplit,
         RosterPhases, NoRequest

\* Every step of a roster call, and every restart, preserves the invariant.
LEMMA StepRosterInv ==
    ASSUME RosterInv, NEW p \in Procs, RosterStep(p) PROVE RosterInv'
<1> USE ProcessAssumption
    DEF RosterInv, RosterTypeOK, HonestProofs, Locked, SoundDrafts, Unsplit, RosterPhases
<1>1. ASSUME NEW t \in Targets, EarlyProve(p, t) PROVE RosterInv'
  <2>1. PICK pf \in ProofsAfter(file, t, pass[p], proof[p]) :
           proof' = [proof EXCEPT ![p] = pf]
    BY <1>1 DEF EarlyProve
  <2>2. pf \in SUBSET Ciphertexts /\ \A c \in pf : c.pass = pass[p] /\ c.plain \notin Unreadable
    BY <2>1, ProofsAfterHonest
  <2> QED
    BY <1>1, <2>1, <2>2 DEF EarlyProve
<1>2. ASSUME NEW q \in Requests, Call(p, q) PROVE RosterInv'
  BY <1>2 DEF Call, GotoStage
<1>3. CASE TakeLock(p)
  BY <1>3 DEF TakeLock, GotoStage
<1>4. CASE LockTimesOut(p)
  BY <1>4 DEF LockTimesOut, GotoStage, Forget
<1>5. ASSUME NEW pf \in {proof[p]} \cup {{c} : c \in Ciphertexts}, Proven(p, pf),
             req[p] \in Requests
      PROVE  /\ pf \in SUBSET Ciphertexts
             /\ \A c \in pf : c.pass = pass[p] /\ c.plain \notin Unreadable
             /\ req[p].op \in Proving => Opens(file, pass[p])
  <2>1. CASE req[p].op \in Proving
    <3>1. req[p].target \in Targets
      BY <1>5, <2>1 DEF Requests, TokenWrites, SSHWrites, SSHReplaces, PinWrites, Appends,
                        FieldUpdates, Clears, Rekeys, Proving
    <3>2. pf \in ProofsAfter(file, req[p].target, pass[p], proof[p])
      BY <1>5, <2>1 DEF Proven
    <3> QED
      BY <3>1, <3>2, ProofsAfterHonest
  <2>2. CASE req[p].op \notin Proving
    BY <1>5, <2>2 DEF Proven
  <2> QED
    BY <2>1, <2>2
<1>6. CASE Compose(p)
  <2>1. PICK pf \in {proof[p]} \cup {{c} : c \in Ciphertexts} :
           Proven(p, pf) /\ proof' = [proof EXCEPT ![p] = pf]
    BY <1>6 DEF Compose
  <2>2. req[p] \in Requests /\ Allowed(file, req[p], pass[p])
    BY <1>6 DEF Compose, GotoStage
  <2> DEFINE n == Composed(file, req[p], pass[p])
  <2>3. n \in Rosters
    BY <2>2, ComposedIsRoster
  <2>4. OnePassphrase(n) /\ OneSecretEach(n)
    BY <1>5, <2>1, <2>2, ComposedUnsplit
  <2>5. draft' = [draft EXCEPT ![p] = n]
    BY <1>6 DEF Compose
  <2> HIDE DEF n
  <2> QED
    BY <1>5, <1>6, <2>1, <2>2, <2>3, <2>4, <2>5 DEF Compose, GotoStage
<1>7. CASE Refuse(p)
  <2>1. req[p] \in Requests
    BY <1>7 DEF Refuse, GotoStage
  <2>2. CASE UNCHANGED proof
    BY <1>7, <2>2 DEF Refuse, GotoStage
  <2>3. CASE \E pf \in {proof[p]} \cup {{c} : c \in Ciphertexts} :
                Proven(p, pf) /\ proof' = [proof EXCEPT ![p] = pf]
    BY <1>5, <1>7, <2>1, <2>3 DEF Refuse, GotoStage
  <2> QED
    BY <1>7, <2>2, <2>3 DEF Refuse
<1>8. CASE Recheck(p)
  BY <1>8 DEF Recheck, GotoStage
<1>9. CASE AtomicWrite(p)
  BY <1>9 DEF AtomicWrite, MayWrite
<1>10. CASE WriteFails(p)
  BY <1>10 DEF WriteFails, MayWrite
<1>11. CASE Return(p)
  <2>1. req[p].op \in Sealing => [pass |-> pass[p], plain |-> req[p].plain] \in Ciphertexts
                                 /\ req[p].plain \notin Unreadable
    BY <1>11 DEF Return, Sealing, Requests, TokenWrites, SSHWrites, SSHReplaces, PinWrites,
                 Appends, FieldUpdates, Clears, Rekeys, Written, Ciphertexts
  <2> QED
    BY <1>11, <2>1 DEF Return, Forget
<1>12. ASSUME NEW w \in Passphrases, Restart(p, w) PROVE RosterInv'
  BY <1>12 DEF Restart, Forget
<1> QED
  BY <1>1, <1>2, <1>3, <1>4, <1>6, <1>7, <1>8, <1>9, <1>10, <1>11, <1>12 DEF RosterStep

\* A hand edit of plain fields preserves it too.
LEMMA EditRosterInv ==
    ASSUME RosterInv, NEW t \in Targets, NEW m \in Metas, HandEdit(t, m) PROVE RosterInv'
<1>1. /\ file' \in Rosters
      /\ file'.targets = file.targets /\ file'.secrets = file.secrets
  BY DEF HandEdit, RosterInv, RosterTypeOK, Rosters
<1>2. edits' \in 0..MaxEdits
  BY ProcessAssumption DEF HandEdit, RosterInv, RosterTypeOK
<1> QED
  BY <1>1, <1>2
     DEF HandEdit, RosterInv, RosterTypeOK, HonestProofs, Locked, SoundDrafts, Unsplit,
         OnePassphrase, OneSecretEach

LEMMA StutterRosterInv == RosterInv /\ UNCHANGED rosterVars => RosterInv'
  BY DEF rosterVars, RosterInv, RosterTypeOK, HonestProofs, Locked, SoundDrafts, Unsplit

\* Lock, proofs, drafts and file stay consistent, hand edits or not.
THEOREM RosterInvariant == EditedSpec => []RosterInv
<1>1. RosterInv /\ [EditedNext]_rosterVars => RosterInv'
  BY StepRosterInv, EditRosterInv, StutterRosterInv DEF EditedNext, LockedNext
<1> QED
  BY <1>1, InitRosterInv, PTL DEF EditedSpec

\* No interleaving of writers, rekeys, crashes and hand edits of plain fields
\* splits the roster across two passphrases.
THEOREM NeverSplit == EditedSpec => []Unsplit
<1>1. RosterInv => Unsplit
  BY DEF RosterInv
<1> QED
  BY <1>1, RosterInvariant, PTL

LEMMA LockedInvariant == RosterSpec => []RosterInv
<1>1. RosterInv /\ [LockedNext]_rosterVars => RosterInv'
  BY StepRosterInv, StutterRosterInv DEF LockedNext
<1> QED
  BY <1>1, InitRosterInv, PTL DEF RosterSpec

-----------------------------------------------------------------------------
(* Drafts are fresh, so a rename is one operation on the roster            *)

LEMMA StepFreshDrafts ==
    ASSUME RosterInv, FreshDrafts, NEW p \in Procs, RosterStep(p) PROVE FreshDrafts'
<1> USE ProcessAssumption DEF FreshDrafts
<1>1. ASSUME NEW t \in Targets, EarlyProve(p, t) PROVE FreshDrafts'
  BY <1>1 DEF EarlyProve
<1>2. ASSUME NEW q \in Requests, Call(p, q) PROVE FreshDrafts'
  BY <1>2 DEF Call, GotoStage, RosterInv, RosterTypeOK
<1>3. CASE TakeLock(p)
  BY <1>3 DEF TakeLock, GotoStage, RosterInv, RosterTypeOK
<1>4. CASE LockTimesOut(p)
  BY <1>4 DEF LockTimesOut, GotoStage, Forget, RosterInv, RosterTypeOK
<1>5. CASE Compose(p)
  <2>1. req[p].op \in Proving => Opens(file, pass[p])
    <3>1. ASSUME req[p].op \in Proving PROVE Opens(file, pass[p])
      <4>1. req[p] \in Requests
        BY <1>5 DEF Compose, GotoStage, RosterInv, Locked
      <4>2. req[p].target \in Targets
        BY <3>1, <4>1 DEF Requests, TokenWrites, SSHWrites, SSHReplaces, PinWrites, Appends,
                          FieldUpdates, Clears, Rekeys, Proving
      <4>3. PICK pf : pf \in ProofsAfter(file, req[p].target, pass[p], proof[p])
        BY <1>5, <3>1 DEF Compose, Proven
      <4> QED
        BY <4>2, <4>3, ProofsAfterHonest DEF RosterInv, RosterTypeOK, HonestProofs
    <3> QED
      BY <3>1
  <2>2. draft'[p] = Composed(file, req[p], pass[p])
    BY <1>5 DEF Compose, RosterInv, RosterTypeOK
  <2> QED
    BY <1>5, <2>1, <2>2 DEF Compose, GotoStage, RosterInv, RosterTypeOK
<1>6. CASE Refuse(p)
  BY <1>6 DEF Refuse, GotoStage, RosterInv, RosterTypeOK
<1>7. CASE Recheck(p)
  BY <1>7 DEF Recheck, GotoStage, RosterInv, RosterTypeOK
<1>8. CASE AtomicWrite(p)
  <2>1. \A x \in Procs : stage'[x] \notin {"composed", "checked"}
    BY <1>8 DEF AtomicWrite, MayWrite, RosterInv, RosterTypeOK, Locked
  <2> QED
    BY <2>1
<1>9. CASE WriteFails(p)
  BY <1>9 DEF WriteFails, MayWrite, RosterInv, RosterTypeOK
<1>10. CASE Return(p)
  BY <1>10 DEF Return, Forget, RosterInv, RosterTypeOK
<1>11. ASSUME NEW w \in Passphrases, Restart(p, w) PROVE FreshDrafts'
  BY <1>11 DEF Restart, Forget, RosterInv, RosterTypeOK
<1> QED
  BY <1>1, <1>2, <1>3, <1>4, <1>5, <1>6, <1>7, <1>8, <1>9, <1>10, <1>11 DEF RosterStep

\* Under the lock, what a writer is about to rename into place is its call
\* applied to the file on disk.
THEOREM DraftsStayFresh == RosterSpec => []FreshDrafts
<1>1. RosterInit => FreshDrafts
  BY DEF RosterInit, FreshDrafts
<1>2. RosterInv /\ FreshDrafts /\ UNCHANGED rosterVars => FreshDrafts'
  BY DEF rosterVars, FreshDrafts
<1>3. RosterInv /\ FreshDrafts /\ [LockedNext]_rosterVars => FreshDrafts'
  BY <1>2, StepFreshDrafts DEF LockedNext
<1> QED
  BY <1>1, <1>3, LockedInvariant, PTL DEF RosterSpec

\* The store is stated with the same operators as the processes.
LEMMA SameOperators ==
    ASSUME NEW r, NEW q, NEW w
    PROVE  /\ S!Opens(r, w) = Opens(r, w)
           /\ S!Allowed(r, q, w) = Allowed(r, q, w)
           /\ S!NothingToDo(r, q) = NothingToDo(r, q)
           /\ S!Composed(r, q, w) = Composed(r, q, w)
           /\ S!Proving = Proving
           /\ S!Requests = Requests
<1>1. S!Opens(r, w) = Opens(r, w) /\ S!Proving = Proving
  BY DEF S!Opens, Opens, S!Readable, Readable, S!Proving, Proving
<1>2. S!Allowed(r, q, w) = Allowed(r, q, w)
  BY DEF S!Allowed, Allowed, S!Readable, Readable
<1>3. S!NothingToDo(r, q) = NothingToDo(r, q)
  BY DEF S!NothingToDo, NothingToDo, S!SecretsAt, SecretsAt
<1>4. S!Composed(r, q, w) = Composed(r, q, w)
  BY DEF S!Composed, Composed, S!WriteSSH, WriteSSH, S!Seal, Seal, S!SecretsAt, SecretsAt,
         S!Appended, Appended, S!FieldsUpdated, FieldsUpdated, S!TokenCleared, TokenCleared,
         S!Rekeyed, Rekeyed
<1>5. S!Requests = Requests
  BY DEF S!Requests, Requests, S!TokenWrites, TokenWrites, S!SSHWrites, SSHWrites,
         S!SSHReplaces, SSHReplaces, S!PinWrites, PinWrites, S!Appends, Appends,
         S!FieldUpdates, FieldUpdates, S!Clears, Clears, S!Rekeys, Rekeys, S!Written, Written
<1> QED
  BY <1>1, <1>2, <1>3, <1>4, <1>5

\* Only the rename changes the file.
LEMMA OthersKeepFile ==
    ASSUME NEW p \in Procs, RosterStep(p), ~AtomicWrite(p) PROVE file' = file
  BY DEF RosterStep, EarlyProve, Call, TakeLock, LockTimesOut, Compose, Refuse, Recheck,
         WriteFails, Return, Restart

\* Every rename is one whole operation of the abstract store, and nothing
\* else changes the roster: no locked write is lost or judged on a stale file.
THEOREM StoreRefinement == RosterSpec => ImplementsStore
<1>1. RosterInit => S!StoreInit
  BY DEF RosterInit, S!StoreInit
<1>2. ASSUME RosterInv, FreshDrafts, NEW p \in Procs, AtomicWrite(p) PROVE S!StoreNext
  <2>1. stage[p] \in {"composed", "checked"} /\ file' = draft[p]
    BY <1>2 DEF AtomicWrite, MayWrite
  <2>2. req[p] \in Requests /\ pass[p] \in Passphrases
    BY <1>2, <2>1 DEF RosterInv, RosterTypeOK, Locked
  <2>3. /\ req[p].op \in Proving => Opens(file, pass[p])
        /\ Allowed(file, req[p], pass[p])
        /\ ~NothingToDo(file, req[p])
        /\ file' = Composed(file, req[p], pass[p])
    BY <1>2, <2>1 DEF FreshDrafts
  <2>4. S!Operate(req[p], pass[p])
    BY <2>3, SameOperators DEF S!Operate
  <2> QED
    BY <2>2, <2>4, SameOperators DEF S!StoreNext
<1>3. RosterInv /\ FreshDrafts /\ [LockedNext]_rosterVars => [S!StoreNext]_file
  BY <1>2, OthersKeepFile DEF LockedNext, rosterVars
<1> QED
  BY <1>1, <1>3, LockedInvariant, DraftsStayFresh, PTL
     DEF RosterSpec, ImplementsStore, S!StoreSpec

\* A recorded TLS pin is never replaced by a writer that did not name it.
THEOREM PinsReplacedKnowingly == RosterSpec => PinReplacedKnowingly
<1> DEFINE Knowing ==
      \A t \in Targets :
          LET was == file.tls[t]
              now == file'.tls[t]
          IN  was.pin # NoPin /\ now # was =>
                /\ now.pin # was.pin
                /\ \E p \in Procs :
                      /\ stage[p] = "composed" /\ stage'[p] = "written"
                      /\ req[p].op = "WriteTLSPin"
                      /\ req[p].target = t
                      /\ req[p].old = was.pin
<1>1. ASSUME RosterInv, FreshDrafts, NEW p \in Procs, AtomicWrite(p) PROVE Knowing
  <2>1. stage[p] \in {"composed", "checked"} /\ file' = draft[p] /\ stage'[p] = "written"
    BY <1>1 DEF AtomicWrite, MayWrite, RosterInv, RosterTypeOK
  <2>2. req[p] \in Requests /\ file \in Rosters
    BY <1>1, <2>1 DEF RosterInv, RosterTypeOK, Locked
  <2>3. CASE req[p].op = "WriteTLSPin"
    <3>1. /\ file.tls[req[p].target].pin = req[p].old
          /\ file.tls[req[p].target].pin # req[p].next
          /\ file' = [file EXCEPT !.tls[req[p].target] =
                         [pin |-> req[p].next, source |-> req[p].source]]
      BY <1>1, <2>1, <2>3 DEF FreshDrafts, Allowed, NothingToDo, Composed
    <3>2. stage[p] = "composed"
      BY <1>1, <2>3 DEF AtomicWrite, MayWrite
    <3>3. ASSUME NEW t \in Targets, t # req[p].target PROVE file'.tls[t] = file.tls[t]
      BY <2>2, <3>1, <3>3 DEF Rosters
    <3>4. req[p].target \in Targets =>
             file'.tls[req[p].target] = [pin |-> req[p].next, source |-> req[p].source]
      BY <2>2, <3>1 DEF Rosters
    <3> QED
      BY <2>1, <2>3, <3>1, <3>2, <3>3, <3>4
  <2>4. CASE req[p].op # "WriteTLSPin"
    <3>1. file' = Composed(file, req[p], pass[p])
      BY <1>1, <2>1 DEF FreshDrafts
    <3>2. file'.tls = file.tls
      BY <2>2, <2>4, <3>1
         DEF Composed, WriteSSH, Seal, Rosters, Requests, TokenWrites, SSHWrites, SSHReplaces,
             PinWrites, Appends, FieldUpdates, Clears, Rekeys,
             Appended, FieldsUpdated, TokenCleared, Rekeyed
    <3> QED
      BY <3>2
  <2> QED
    BY <2>3, <2>4
<1>2. file' = file => Knowing
  OBVIOUS
<1> HIDE DEF Knowing
<1>3. RosterInv /\ FreshDrafts /\ [LockedNext]_rosterVars => [Knowing]_rosterVars
  BY <1>1, <1>2, OthersKeepFile DEF LockedNext
<1> USE DEF Knowing
<1> QED
  BY <1>3, LockedInvariant, DraftsStayFresh, PTL DEF RosterSpec, PinReplacedKnowingly

-----------------------------------------------------------------------------
(***************************************************************************)
(* Token rotation                                                          *)
(***************************************************************************)

-----------------------------------------------------------------------------
(* A run's variables, one assignment at a time                             *)

\* What no assignment after a run's start changes.
Same(l, m) == m \in Locals /\ m.importing = l.importing /\ m.was = l.was

\* And what its steps on PVE's answers leave alone.
Alike(l, m) == Same(l, m) /\ m.secret = l.secret /\ m.saw = l.saw /\ m.attempt = l.attempt

LEMMA SetPresent ==
    ASSUME NEW l \in Locals, NEW b \in BOOLEAN, NEW m, m = [l EXCEPT !.present = b]
    PROVE  Alike(l, m) /\ m.present = b /\ m.err = l.err /\ m.outcome = l.outcome
           /\ m.leftover = l.leftover /\ m.prior = l.prior /\ m.roster = l.roster
BY DEF Locals, Alike, Same

LEMMA SetOutcome ==
    ASSUME NEW l \in Locals, NEW o \in Outcomes, NEW m, m = [l EXCEPT !.outcome = o]
    PROVE  Alike(l, m) /\ m.present = l.present /\ m.err = l.err /\ m.outcome = o
           /\ m.leftover = l.leftover /\ m.prior = l.prior /\ m.roster = l.roster
BY DEF Locals, Alike, Same

LEMMA SetErr ==
    ASSUME NEW l \in Locals, NEW e \in Errors, NEW m, m = [l EXCEPT !.err = e]
    PROVE  Alike(l, m) /\ m.present = l.present /\ m.err = e /\ m.outcome = l.outcome
           /\ m.leftover = l.leftover /\ m.prior = l.prior /\ m.roster = l.roster
BY DEF Locals, Alike, Same

LEMMA SetRoster ==
    ASSUME NEW l \in Locals, NEW v \in {"none", "cleared", "stale"}, NEW m, m = [l EXCEPT !.roster = v]
    PROVE  Alike(l, m) /\ m.present = l.present /\ m.err = l.err /\ m.outcome = l.outcome
           /\ m.leftover = l.leftover /\ m.prior = l.prior /\ m.roster = v
BY DEF Locals, Alike, Same

LEMMA SetLeftover ==
    ASSUME NEW l \in Locals, NEW v \in {"none", "exists", "may_exist"}, NEW m, m = [l EXCEPT !.leftover = v]
    PROVE  Alike(l, m) /\ m.present = l.present /\ m.err = l.err /\ m.outcome = l.outcome
           /\ m.leftover = v /\ m.prior = l.prior /\ m.roster = l.roster
BY DEF Locals, Alike, Same

LEMMA SetSecret ==
    ASSUME NEW l \in Locals, NEW v \in 0 .. MaxMints, NEW m, m = [l EXCEPT !.secret = v]
    PROVE  Same(l, m) /\ m.secret = v /\ m.saw = l.saw /\ m.outcome = l.outcome
           /\ m.leftover = l.leftover /\ m.prior = l.prior /\ m.roster = l.roster
BY DEF Locals, Same

LEMMA SetAttempt ==
    ASSUME NEW l \in Locals, NEW v \in 0 .. Attempts, NEW m, m = [l EXCEPT !.attempt = v]
    PROVE  Same(l, m) /\ m.secret = l.secret /\ m.saw = l.saw /\ m.attempt = v /\ m.outcome = l.outcome
           /\ m.leftover = l.leftover /\ m.prior = l.prior /\ m.roster = l.roster
BY DEF Locals, Same

LEMMA SetRetry ==
    ASSUME NEW l \in Locals, l.attempt + 1 \in 0 .. Attempts,
           NEW m, m = [l EXCEPT !.saw = TRUE, !.attempt = @ + 1]
    PROVE  Same(l, m) /\ m.secret = l.secret /\ m.saw = TRUE /\ m.attempt = l.attempt + 1
           /\ m.outcome = l.outcome
           /\ m.leftover = l.leftover /\ m.prior = l.prior /\ m.roster = l.roster
BY DEF Locals, Same

LEMMA SetRemoved ==
    ASSUME NEW l \in Locals, NEW m, m = Removed(l)
    PROVE  Alike(l, m) /\ m.present = l.present /\ m.err = l.err /\ m.outcome = l.outcome
           /\ m.leftover = l.leftover /\ m.prior = "revoked" /\ m.roster = l.roster
BY DEF Locals, Alike, Same, Removed

LEMMA SetUnknown ==
    ASSUME NEW l \in Locals, NEW v \in {"cleared", "stale"},
           NEW m, m = [l EXCEPT !.removed = TRUE, !.prior = "unknown", !.roster = v]
    PROVE  Alike(l, m) /\ m.leftover = l.leftover /\ m.prior = "unknown" /\ m.roster = v
BY DEF Locals, Alike, Same

LEMMA SetFailed ==
    ASSUME NEW l \in Locals, NEW m, m = Failed(l)
    PROVE  Alike(l, m) /\ m.err = l.err /\ m.outcome \in {"revoked_not_replaced", "discarded"}
           /\ m.leftover = l.leftover /\ m.prior = l.prior /\ m.roster = l.roster
<1>1. (IF l.removed THEN "revoked_not_replaced" ELSE "discarded") \in Outcomes
    BY DEF Outcomes
<1> QED BY <1>1, SetOutcome DEF Failed, Alike

LEMMA NoLocalsType ==
    /\ NoLocals \in Locals /\ ~NoLocals.importing /\ NoLocals.was = 0 /\ NoLocals.secret = 0
    /\ NoLocals.outcome = "none" /\ NoLocals.leftover = "none" /\ NoLocals.prior = "none"
    /\ NoLocals.roster = "none"
BY RotationAssumption DEF NoLocals, Locals, Errors, Outcomes

LEMMA SetStarted ==
    ASSUME NEW v \in 0 .. MaxMints, NEW m, m = [NoLocals EXCEPT !.was = v]
    PROVE  m \in Locals /\ ~m.importing /\ m.was = v /\ m.secret = 0 /\ m.outcome = "none"
           /\ m.leftover = "none" /\ m.prior = "none" /\ m.roster = "none"
<1>1. ASSUME NEW l \in Locals, NEW k, k = [l EXCEPT !.was = v]
      PROVE  k \in Locals /\ k.importing = l.importing /\ k.was = v /\ k.secret = l.secret
             /\ k.outcome = l.outcome /\ k.leftover = l.leftover /\ k.prior = l.prior
             /\ k.roster = l.roster
    BY <1>1 DEF Locals
<1> QED BY <1>1, NoLocalsType

-----------------------------------------------------------------------------
(* What holds for any rosters                                              *)

Base(r) == Control(r) /\ Issued(r) /\ Replaced(r) /\ Unrejected(r) /\ Honest(r)

BaseInv == TypeOK /\ Traced /\ \A r \in Holders : Base(r)

Writes == [cmd : {"add", "remove"}, by : Holders, run : 1..MaxRuns]
Origins == [secret : Secrets, by : Holders, run : 1..MaxRuns]

\* PVE keeps its token, loses it, or has none and issues one as never before.
Turn ==
    /\ issued' \in 1 .. MaxMints /\ pve' \in 0 .. MaxMints
    /\ \/ issued' = issued /\ pve' \in {pve, 0} /\ origin' = origin
       \/ /\ issued' = issued + 1 /\ pve = 0 /\ pve' = issued + 1
          /\ \E h \in Holders, n \in 1 .. MaxRuns :
                n <= run[h] /\ origin' = origin \cup {[secret |-> issued + 1, by |-> h, run |-> n]}

\* The other rosters' runs are where they were.
Apart(r) ==
    \A q \in Holders \ {r} :
        /\ pc'[q] = pc[q] /\ hold'[q] = hold[q] /\ run'[q] = run[q] /\ locals'[q] = locals[q]
        /\ rejected'[q] = rejected[q]

Acts(r) == TypeOK' /\ Traced' /\ Turn /\ Apart(r) /\ Base(r)'

LEMMA Numbers ==
    ASSUME BaseInv, NEW r \in Holders
    PROVE  /\ pve \in Nat /\ issued \in Nat /\ issued >= 1 /\ hold[r] \in Nat /\ run[r] \in Nat
           /\ locals[r] \in Locals /\ locals[r].was \in 0 .. MaxMints
           /\ locals[r].secret \in 0 .. MaxMints /\ locals[r].attempt \in 0 .. Attempts
           /\ MaxMints \in Nat /\ Attempts \in Nat /\ rejected[r] \subseteq Nat
           /\ run[r] # 0 => run[r] \in 1 .. MaxRuns
<1>1. locals[r] \in Locals
    BY DEF BaseInv, TypeOK
<1>2. /\ locals[r].was \in 0 .. MaxMints /\ locals[r].secret \in 0 .. MaxMints
      /\ locals[r].attempt \in 0 .. Attempts
    BY <1>1 DEF Locals
<1> QED BY <1>1, <1>2, RotationAssumption DEF BaseInv, TypeOK, Secrets

\* A secret PVE has moved on from is never accepted again.
LEMMA NeverAgain ==
    ASSUME BaseInv, Turn, NEW r \in Holders, NEW s \in 0 .. MaxMints, s <= issued
    PROVE  /\ s <= issued' /\ pve' <= issued'
           /\ s # 0 /\ s # pve => s # pve'
<1>1. pve <= issued
    BY DEF BaseInv, Base, Issued
<1> QED BY <1>1, Numbers DEF Turn

LEMMA OthersKeep ==
    ASSUME BaseInv, Turn, NEW q \in Holders,
           pc'[q] = pc[q], hold'[q] = hold[q], run'[q] = run[q], locals'[q] = locals[q],
           rejected'[q] = rejected[q]
    PROVE  Base(q)'
<1>1. Base(q)
    BY DEF BaseInv
<1>2. Control(q)'
    BY <1>1 DEF Base, Control, Minting
<1>3. Issued(q)'
    <2>1. hold[q] \in 0 .. MaxMints /\ locals[q].was \in 0 .. MaxMints /\ locals[q].secret \in 0 .. MaxMints
        BY Numbers DEF BaseInv, TypeOK
    <2>2. \A s \in rejected[q] : s \in 0 .. MaxMints
        BY RotationAssumption DEF BaseInv, TypeOK, Secrets
    <2> QED BY <1>1, <2>1, <2>2, NeverAgain DEF Base, Issued
<1>4. locals[q].was # 0 /\ locals[q].was # pve => locals[q].was # pve'
    BY <1>1, NeverAgain, Numbers DEF Base, Issued
<1>5. Replaced(q)'
    BY <1>1, <1>4 DEF Base, Replaced, Minting
<1>6. Unrejected(q)'
    BY <1>1 DEF Base, Unrejected
<1>7. Honest(q)'
    BY <1>1, <1>4 DEF Base, Honest
<1> QED BY <1>2, <1>3, <1>5, <1>6, <1>7 DEF Base

LEMMA ActsKeep ==
    ASSUME BaseInv, NEW r \in Holders, Acts(r)
    PROVE  BaseInv'
BY OthersKeep DEF Acts, Apart, BaseInv

LEMMA StaysTurn ==
    ASSUME BaseInv, UNCHANGED <<pve, issued, origin>>
    PROVE  Turn
BY DEF BaseInv, TypeOK, Turn

LEMMA LandTurn ==
    ASSUME BaseInv, NEW h \in Holders, NEW n \in 1 .. MaxRuns, n <= run[h], NEW cmd,
           Land(cmd, h, n) \/ NoEffect, run' = run
    PROVE  /\ Turn /\ origin' \in SUBSET Origins
           /\ \A o \in origin' : o.secret > 1 /\ o.secret <= issued' /\ o.run <= run'[o.by]
<1>1. CASE NoEffect
    BY <1>1, StaysTurn DEF NoEffect, BaseInv, TypeOK, Origins, Traced
<1>2. CASE pve' = 0 /\ UNCHANGED <<issued, origin>>
    BY <1>2, RotationAssumption DEF BaseInv, TypeOK, Origins, Traced, Turn
<1>3. CASE /\ pve = 0 /\ issued < MaxMints /\ issued' = issued + 1 /\ pve' = issued + 1
           /\ origin' = origin \cup {[secret |-> issued + 1, by |-> h, run |-> n]}
    <2>1. issued \in Nat /\ issued >= 1 /\ issued + 1 \in 1 .. MaxMints /\ MaxMints \in Nat
        BY <1>3, RotationAssumption DEF BaseInv, TypeOK
    <2>2. Turn
        BY <1>3, <2>1 DEF Turn
    <2>3. [secret |-> issued + 1, by |-> h, run |-> n] \in Origins
        BY <2>1 DEF Origins, Secrets
    <2>4. origin \subseteq Origins
        BY DEF BaseInv, TypeOK, Origins
    <2>5. \A o \in origin : o.secret \in Nat /\ o.secret > 1 /\ o.secret <= issued /\ o.run <= run[o.by]
        BY <2>4, RotationAssumption DEF BaseInv, Traced, Origins, Secrets
    <2> QED BY <1>3, <2>1, <2>2, <2>3, <2>4, <2>5
<1> QED BY <1>1, <1>2, <1>3 DEF Land

LEMMA PveumTurn ==
    ASSUME BaseInv, NEW r \in Holders, run[r] # 0, NEW cmd \in {"add", "remove"}, NEW result,
           Pveum(r, cmd, result), run' = run
    PROVE  /\ Turn /\ Traced' /\ origin' \in SUBSET Origins /\ late' \in SUBSET Writes
           /\ crossed' \in BOOLEAN
<1>1. run[r] \in 1 .. MaxRuns /\ run[r] <= run[r]
    BY Numbers
<1>2. Land(cmd, r, run[r]) \/ NoEffect
    BY DEF Pveum
<1>3. /\ Turn /\ origin' \in SUBSET Origins
      /\ \A o \in origin' : o.secret > 1 /\ o.secret <= issued' /\ o.run <= run'[o.by]
    BY <1>1, <1>2, LandTurn
<1>4. late \subseteq Writes /\ \A c \in late : c.run <= run[c.by]
    BY DEF BaseInv, TypeOK, Writes, Traced
<1>5. [cmd |-> cmd, by |-> r, run |-> run[r]] \in Writes
    BY <1>1 DEF Writes
<1>6. late' = late \/ late' = late \cup {[cmd |-> cmd, by |-> r, run |-> run[r]]}
    BY DEF Pveum
<1>7. late' \in SUBSET Writes /\ \A c \in late' : c.run <= run'[c.by]
    BY <1>1, <1>4, <1>5, <1>6
<1>8. crossed' \in BOOLEAN
    BY DEF Pveum, BaseInv, TypeOK
<1> QED BY <1>3, <1>7, <1>8 DEF Traced

\* A step that moves r's run on is a step of r, if what is said of r still holds.
LEMMA ShapeActs ==
    ASSUME BaseInv, NEW r \in Holders, NEW label \in Phases, NEW new \in Locals,
           pc' = [pc EXCEPT ![r] = label], locals' = [locals EXCEPT ![r] = new],
           hold' \in [Holders -> 0 .. MaxMints], \A q \in Holders \ {r} : hold'[q] = hold[q],
           run' \in [Holders -> 0 .. MaxRuns], \A q \in Holders \ {r} : run'[q] = run[q],
           rejected' \in [Holders -> SUBSET Secrets],
           \A q \in Holders \ {r} : rejected'[q] = rejected[q],
           other' \in [Holders -> BOOLEAN], judged' \in [Holders -> 0 .. MaxMints],
           told' \in SUBSET (0 .. MaxMints), crossed' \in BOOLEAN,
           Turn, Traced', origin' \in SUBSET Origins, late' \in SUBSET Writes,
           Base(r)'
    PROVE  Acts(r)
<1>1. pc' \in [Holders -> Phases] /\ locals' \in [Holders -> Locals]
    BY DEF BaseInv, TypeOK
<1>2. TypeOK'
    BY <1>1 DEF TypeOK, Turn, Writes, Origins
<1>3. Apart(r)
    BY DEF Apart, BaseInv, TypeOK
<1> QED BY <1>2, <1>3 DEF Acts

LEMMA LocalsStay ==
    ASSUME BaseInv, NEW r \in Holders
    PROVE  locals = [locals EXCEPT ![r] = locals[r]] /\ locals[r] \in Locals
BY DEF BaseInv, TypeOK

\* A step that changes nothing but where r's run is and what it knows.
LEMMA QuietActs ==
    ASSUME BaseInv, NEW r \in Holders, NEW label \in Phases, NEW new \in Locals,
           pc' = [pc EXCEPT ![r] = label], locals' = [locals EXCEPT ![r] = new],
           UNCHANGED <<pve, issued, late, hold, other, run, history>>,
           pc'[r] = label /\ locals'[r] = new => Base(r)'
    PROVE  Acts(r)
<1>1. pc'[r] = label /\ locals'[r] = new
    BY DEF BaseInv, TypeOK
<1>2. Turn /\ Traced'
    BY StaysTurn DEF history, BaseInv, Traced
<1> QED BY <1>1, <1>2, ShapeActs DEF BaseInv, TypeOK, history, Writes, Origins

\* What a run at its end needs, with its roster and its variables as they were.
LEMMA RefuseActs ==
    ASSUME BaseInv, NEW r \in Holders, NEW phase \in {"preflight", "classify"}, RefuseFrom(r, phase)
    PROVE  Acts(r)
<1>1. /\ pc[r] = phase /\ pc' = [pc EXCEPT ![r] = "done"]
      /\ locals' = [locals EXCEPT ![r] = locals[r]] /\ locals[r] \in Locals
      /\ UNCHANGED <<pve, issued, late, hold, other, run, history>>
    BY LocalsStay DEF RefuseFrom, Goto
<1>2. Base(r)
    BY DEF BaseInv
<1>3. ASSUME pc'[r] = "done", locals'[r] = locals[r] PROVE Base(r)'
    BY <1>1, <1>2, <1>3 DEF Base, Control, Issued, Replaced, Unrejected, Honest, Minting, history, Phases
<1>4. "done" \in Phases
    BY DEF Phases
<1> QED BY <1>1, <1>3, <1>4, QuietActs

LEMMA StartActs ==
    ASSUME BaseInv, NEW r \in Holders, Start(r)
    PROVE  Acts(r)
<1> DEFINE new == [NoLocals EXCEPT !.was = hold[r]]
<1>1. hold[r] \in 0 .. MaxMints /\ hold[r] <= issued /\ run[r] \in Nat /\ Base(r)
    BY Numbers DEF BaseInv, TypeOK, Base, Issued
<1>2. /\ new \in Locals /\ ~new.importing /\ new.was = hold[r] /\ new.secret = 0 /\ new.outcome = "none"
      /\ new.leftover = "none" /\ new.prior = "none" /\ new.roster = "none"
    BY <1>1, SetStarted
<1>3. /\ pc' = [pc EXCEPT ![r] = "preflight"] /\ locals' = [locals EXCEPT ![r] = new]
      /\ run' = [run EXCEPT ![r] = run[r] + 1] /\ run[r] + 1 \in 0 .. MaxRuns
      /\ UNCHANGED <<pve, issued, late, hold, other, origin, judged, rejected, told>>
    BY <1>1, RotationAssumption DEF Start, Goto, Set
<1> HIDE DEF new
<1>4. Turn
    BY <1>3, StaysTurn
<1>5. run' \in [Holders -> 0 .. MaxRuns] /\ run'[r] = run[r] + 1 /\ \A q \in Holders \ {r} : run'[q] = run[q]
    BY <1>3 DEF BaseInv, TypeOK
<1>6. Traced'
    <2>1. \A q \in Holders : run[q] \in Nat /\ run[q] <= run'[q] /\ run'[q] \in Nat
        BY <1>1, <1>5, Numbers, RotationAssumption
    <2>2. \A o \in origin : o.by \in Holders /\ o.run \in Nat
        BY RotationAssumption DEF BaseInv, TypeOK
    <2>3. \A c \in late : c.by \in Holders /\ c.run \in Nat
        BY RotationAssumption DEF BaseInv, TypeOK
    <2> QED BY <1>3, <2>1, <2>2, <2>3 DEF BaseInv, Traced
<1>7. pc'[r] = "preflight" /\ locals'[r] = new
    BY <1>3 DEF BaseInv, TypeOK
<1>8. Base(r)'
    BY <1>1, <1>2, <1>3, <1>5, <1>7, Numbers
    DEF Base, Control, Issued, Replaced, Unrejected, Honest, Minting, Phases
<1>9. crossed' \in BOOLEAN
    BY DEF Start, BaseInv, TypeOK
<1>10. "preflight" \in Phases
    BY DEF Phases
<1> QED BY <1>2, <1>3, <1>4, <1>5, <1>6, <1>8, <1>9, <1>10, ShapeActs DEF BaseInv, TypeOK, Writes, Origins

LEMMA PreflightActs ==
    ASSUME BaseInv, NEW r \in Holders, Preflight(r)
    PROVE  Acts(r)
<1> DEFINE b == (pve # 0)
<1>1. PICK new : new = [locals[r] EXCEPT !.present = b]
    OBVIOUS
<1>2. /\ pc[r] = "preflight" /\ pc' = [pc EXCEPT ![r] = "classify"]
      /\ locals' = [locals EXCEPT ![r] = new]
      /\ UNCHANGED <<pve, issued, late, hold, other, run, history>>
    BY <1>1 DEF Preflight, Goto, Set
<1>3. /\ Alike(locals[r], new) /\ new.present = (pve # 0) /\ new.outcome = locals[r].outcome
      /\ new.leftover = locals[r].leftover /\ new.prior = locals[r].prior
      /\ new.roster = locals[r].roster
    <2>1. b \in BOOLEAN /\ locals[r] \in Locals
        BY LocalsStay
    <2>2. /\ Alike(locals[r], new) /\ new.present = b /\ new.outcome = locals[r].outcome
          /\ new.leftover = locals[r].leftover /\ new.prior = locals[r].prior
          /\ new.roster = locals[r].roster
        <3> HIDE DEF b
        <3> QED BY <1>1, <2>1, SetPresent
    <2> QED BY <2>2
<1>4. Base(r)
    BY DEF BaseInv
<1>5. ASSUME pc'[r] = "classify", locals'[r] = new PROVE Base(r)'
    BY <1>2, <1>3, <1>4, <1>5
    DEF Base, Control, Issued, Replaced, Unrejected, Honest, Minting, history, Phases, Alike, Same
<1>6. "classify" \in Phases
    BY DEF Phases
<1> QED BY <1>2, <1>3, <1>5, <1>6, QuietActs DEF Alike, Same

LEMMA ToMintActs ==
    ASSUME BaseInv, NEW r \in Holders, ToMint(r)
    PROVE  Acts(r)
<1>1. /\ pc[r] = "classify" /\ pc' = [pc EXCEPT ![r] = "add"] /\ hold[r] = 0
      /\ locals' = [locals EXCEPT ![r] = locals[r]] /\ locals[r] \in Locals
      /\ UNCHANGED <<pve, issued, late, hold, other, run, history>>
    BY LocalsStay DEF ToMint, Goto
<1>2. Base(r)
    BY DEF BaseInv
<1>3. ASSUME pc'[r] = "add", locals'[r] = locals[r] PROVE Base(r)'
    BY <1>1, <1>2, <1>3 DEF Base, Control, Issued, Replaced, Unrejected, Honest, Minting, history, Phases
<1>4. "add" \in Phases
    BY DEF Phases
<1> QED BY <1>1, <1>3, <1>4, QuietActs

LEMMA UndecryptableActs ==
    ASSUME BaseInv, NEW r \in Holders, Undecryptable(r)
    PROVE  Acts(r)
<1>1. PICK label : label = IF locals[r].present THEN "done" ELSE "clear"
    OBVIOUS
<1>2. /\ pc[r] = "classify" /\ pc' = [pc EXCEPT ![r] = label] /\ hold[r] # 0
      /\ locals' = [locals EXCEPT ![r] = locals[r]] /\ locals[r] \in Locals
      /\ UNCHANGED <<pve, issued, late, hold, other, run, history>>
    BY <1>1, LocalsStay DEF Undecryptable, Goto
<1>3. Base(r)
    BY DEF BaseInv
<1>4. ASSUME pc'[r] = label, locals'[r] = locals[r] PROVE Base(r)'
    BY <1>1, <1>2, <1>3, <1>4
    DEF Base, Control, Issued, Replaced, Unrejected, Honest, Minting, history, Phases
<1>5. label \in Phases
    BY <1>1 DEF Phases
<1> QED BY <1>2, <1>4, <1>5, QuietActs

LEMMA ReusedActs ==
    ASSUME BaseInv, NEW r \in Holders, Reused(r)
    PROVE  Acts(r)
<1>1. PICK new : new = [locals[r] EXCEPT !.outcome = "reused"]
    OBVIOUS
<1>2. /\ pc[r] = "classify" /\ pc' = [pc EXCEPT ![r] = "done"]
      /\ locals' = [locals EXCEPT ![r] = new]
      /\ UNCHANGED <<pve, issued, late, hold, other, run, history>>
    BY <1>1 DEF Reused, Goto, Set
<1>3. Alike(locals[r], new) /\ new.outcome = "reused"
    BY <1>1, LocalsStay, SetOutcome DEF Outcomes
<1>4. Base(r)
    BY DEF BaseInv
<1>5. ASSUME pc'[r] = "done", locals'[r] = new PROVE Base(r)'
    BY <1>2, <1>3, <1>4, <1>5
    DEF Base, Control, Issued, Replaced, Unrejected, Honest, Minting, history, Phases, Alike, Same
<1>6. "done" \in Phases
    BY DEF Phases
<1> QED BY <1>2, <1>3, <1>5, <1>6, QuietActs DEF Alike, Same

LEMMA CondemnActs ==
    ASSUME BaseInv, NEW r \in Holders, Condemn(r)
    PROVE  Acts(r)
<1>1. PICK label : label = IF locals[r].present THEN "remove" ELSE "clear"
    OBVIOUS
<1>2. /\ pc[r] = "classify" /\ pc' = [pc EXCEPT ![r] = label] /\ hold[r] # 0
      /\ locals' = [locals EXCEPT ![r] = locals[r]] /\ locals[r] \in Locals
      /\ UNCHANGED <<pve, issued, late, hold, other, run, origin, rejected, told, crossed>>
    BY <1>1, LocalsStay DEF Condemn, Goto
<1>3. judged' \in [Holders -> 0 .. MaxMints]
    BY DEF Condemn, BaseInv, TypeOK
<1>4. Base(r) /\ pc'[r] = label /\ locals'[r] = locals[r]
    BY <1>2 DEF BaseInv, TypeOK
<1>5. Base(r)'
    BY <1>1, <1>2, <1>4
    DEF Base, Control, Issued, Replaced, Unrejected, Honest, Minting, Phases
<1>6. label \in Phases
    BY <1>1 DEF Phases
<1>7. Turn /\ Traced'
    BY <1>2, StaysTurn DEF BaseInv, Traced
<1> QED BY <1>2, <1>3, <1>5, <1>6, <1>7, ShapeActs DEF BaseInv, TypeOK, Writes, Origins

\* A pveum write that moves r's run on.
LEMMA PveumActs ==
    ASSUME BaseInv, NEW r \in Holders, NEW label \in Phases, NEW new \in Locals,
           NEW cmd \in {"add", "remove"}, NEW result, run[r] # 0, Pveum(r, cmd, result),
           pc' = [pc EXCEPT ![r] = label], locals' = [locals EXCEPT ![r] = new],
           UNCHANGED <<hold, other, run, judged, rejected, told>>,
           Turn /\ pc'[r] = label /\ locals'[r] = new => Base(r)'
    PROVE  Acts(r)
<1>1. pc'[r] = label /\ locals'[r] = new
    BY DEF BaseInv, TypeOK
<1>2. /\ Turn /\ Traced' /\ origin' \in SUBSET Origins /\ late' \in SUBSET Writes
      /\ crossed' \in BOOLEAN
    BY PveumTurn
<1> QED BY <1>1, <1>2, ShapeActs DEF BaseInv, TypeOK

\* A run that ends with a report about the token it found.
LEMMA DoneBase ==
    ASSUME BaseInv, Turn, NEW r \in Holders, pc'[r] = "done", NEW new, locals'[r] = new,
           Alike(locals[r], new), ~locals[r].importing,
           hold'[r] \in {0, hold[r]}, run'[r] = run[r], rejected'[r] = rejected[r],
           \/ new.outcome \in {"none", "reused"} \/ new.prior = "unknown"
           \/ locals[r].was = 0 \/ locals[r].was # pve
    PROVE  Base(r)'
<1>1. Base(r)
    BY DEF BaseInv
<1>2. hold[r] \in 0 .. MaxMints /\ locals[r].was \in 0 .. MaxMints /\ locals[r].secret \in 0 .. MaxMints
    BY Numbers DEF BaseInv, TypeOK
<1>3. \A s \in rejected[r] : s \in 0 .. MaxMints
    BY RotationAssumption DEF BaseInv, TypeOK, Secrets
<1>4. Control(r)'
    BY DEF Control, Minting, Alike, Same, Phases
<1>5. Issued(r)'
    BY <1>1, <1>2, <1>3, NeverAgain, Numbers, RotationAssumption DEF Base, Issued, Alike, Same, Turn
<1>6. Replaced(r)' /\ Unrejected(r)'
    BY DEF Replaced, Unrejected, Minting
<1>7. locals[r].was # 0 /\ locals[r].was # pve => locals[r].was # pve'
    BY <1>1, <1>2, NeverAgain DEF Base, Issued
<1>8. Honest(r)'
    BY <1>7 DEF Honest, Alike, Same
<1> QED BY <1>4, <1>5, <1>6, <1>8 DEF Base

\* A run that goes on, its roster as it was, with the held token dead behind it.
LEMMA OnBase ==
    ASSUME BaseInv, Turn, NEW r \in Holders, NEW new, locals'[r] = new,
           pc'[r] \in {"clear", "add", "rereadAdd", "removeFresh", "readFresh"},
           Alike(locals[r], new), ~locals[r].importing, run[r] # 0,
           hold'[r] = hold[r], run'[r] = run[r], rejected'[r] = rejected[r],
           pc'[r] = "clear" => new.outcome = "none" /\ hold[r] # 0 /\ hold[r] = locals[r].was,
           pc'[r] # "clear" => hold[r] = 0, pc'[r] = "rereadAdd" => new.err # "none",
           locals[r].was = 0 \/ locals[r].was # pve \/ pve' = 0
    PROVE  Base(r)'
<1>1. Base(r)
    BY DEF BaseInv
<1>2. hold[r] \in 0 .. MaxMints /\ locals[r].was \in 0 .. MaxMints /\ locals[r].secret \in 0 .. MaxMints
    BY Numbers DEF BaseInv, TypeOK
<1>3. \A s \in rejected[r] : s \in 0 .. MaxMints
    BY RotationAssumption DEF BaseInv, TypeOK, Secrets
<1>4. Control(r)'
    BY DEF Control, Minting, Alike, Same, Phases
<1>5. Issued(r)'
    BY <1>1, <1>2, <1>3, NeverAgain DEF Base, Issued, Alike, Same
<1>6. Unrejected(r)' /\ Honest(r)'
    BY DEF Unrejected, Honest
<1>7. locals[r].was # 0 /\ locals[r].was # pve => locals[r].was # pve'
    BY <1>1, <1>2, NeverAgain DEF Base, Issued
<1>8. Replaced(r)'
    BY <1>7 DEF Replaced, Alike, Same
<1> QED BY <1>4, <1>5, <1>6, <1>8 DEF Base

LEMMA RemoveHeldActs ==
    ASSUME BaseInv, NEW r \in Holders, NEW result, pc[r] = "remove", RemoveHeld(r, result)
    PROVE  Acts(r)
<1>1. /\ Base(r) /\ ~locals[r].importing /\ run[r] # 0 /\ locals[r].was = hold[r] /\ hold[r] # 0
      /\ locals[r].outcome = "none" /\ locals[r] \in Locals
    BY LocalsStay DEF BaseInv, Base, Control, Phases
<1>2. /\ Pveum(r, "remove", result) /\ UNCHANGED <<hold, other, run, judged, rejected, told>>
    BY DEF RemoveHeld
<1>3. {"clear", "done", "rereadRemove"} \subseteq Phases
    BY DEF Phases
<1>4. CASE result = "ok" /\ Goto(r, "remove", "clear") /\ Set(r, Removed(locals[r]))
    <2>1. PICK new : new = Removed(locals[r])
        OBVIOUS
    <2>2. Alike(locals[r], new) /\ new.outcome = "none" /\ new \in Locals
        BY <1>1, <2>1, SetRemoved DEF Alike, Same
    <2>3. pve' = 0
        BY <1>2, <1>4 DEF Pveum, Land
    <2>4. ASSUME Turn, pc'[r] = "clear", locals'[r] = new PROVE Base(r)'
        BY <1>1, <1>2, <2>2, <2>3, <2>4, OnBase
    <2> QED BY <1>1, <1>2, <1>3, <1>4, <2>1, <2>2, <2>4, PveumActs DEF Goto, Set
<1>5. CASE result = "exit" /\ Goto(r, "remove", "done") /\ UNCHANGED locals
    <2>1. locals' = [locals EXCEPT ![r] = locals[r]]
        BY <1>5, LocalsStay
    <2>2. ASSUME Turn, pc'[r] = "done", locals'[r] = locals[r] PROVE Base(r)'
        BY <1>1, <1>2, <2>2, DoneBase DEF Alike, Same
    <2> QED BY <1>1, <1>2, <1>3, <1>5, <2>1, <2>2, PveumActs DEF Goto
<1>6. CASE /\ result \in {"plain", "timeout"} /\ Goto(r, "remove", "rereadRemove")
           /\ Set(r, [locals[r] EXCEPT !.err = result])
    <2>1. PICK new : new = [locals[r] EXCEPT !.err = result]
        OBVIOUS
    <2>2. Alike(locals[r], new) /\ new.outcome = "none" /\ new.err = result /\ new \in Locals
        BY <1>1, <1>6, <2>1, SetErr DEF Alike, Same, Errors
    <2>3. ASSUME Turn, pc'[r] = "rereadRemove", locals'[r] = new PROVE Base(r)'
        <3>1. /\ hold[r] \in 0 .. MaxMints /\ locals[r].was \in 0 .. MaxMints
              /\ locals[r].secret \in 0 .. MaxMints
            BY Numbers DEF BaseInv, TypeOK
        <3>2. \A s \in rejected[r] : s \in 0 .. MaxMints
            BY RotationAssumption DEF BaseInv, TypeOK, Secrets
        <3>3. Control(r)'
            BY <1>1, <1>2, <1>6, <2>2, <2>3 DEF Control, Minting, Alike, Same, Phases
        <3>4. Issued(r)'
            BY <1>1, <1>2, <2>2, <2>3, <3>1, <3>2, NeverAgain DEF Base, Issued, Alike, Same
        <3> QED BY <2>3, <3>3, <3>4 DEF Base, Replaced, Unrejected, Honest, Minting
    <2> QED BY <1>1, <1>2, <1>3, <1>6, <2>1, <2>2, <2>3, PveumActs DEF Goto, Set
<1> QED BY <1>4, <1>5, <1>6 DEF RemoveHeld

LEMMA PriorUnknownActs ==
    ASSUME BaseInv, NEW r \in Holders, NEW cleared \in BOOLEAN, PriorUnknown(r, cleared),
           UNCHANGED <<pve, issued, late, other, run, history>>
    PROVE  Acts(r)
<1>1. /\ Base(r) /\ ~locals[r].importing /\ locals[r] \in Locals /\ pc[r] = "rereadRemove"
    BY LocalsStay DEF BaseInv, Base, Control, Phases, PriorUnknown, FailWith, Goto
<1>2. PICK v \in {"cleared", "stale"} : v = IF cleared THEN "cleared" ELSE "stale"
    OBVIOUS
<1>3. PICK mid : mid = [locals[r] EXCEPT !.removed = TRUE, !.prior = "unknown", !.roster = v]
    OBVIOUS
<1>4. PICK new : new = Failed(mid)
    OBVIOUS
<1>5. /\ pc' = [pc EXCEPT ![r] = "done"] /\ locals' = [locals EXCEPT ![r] = new]
    BY <1>2, <1>3, <1>4 DEF PriorUnknown, FailWith, Goto, Set
<1>6. Alike(locals[r], mid) /\ mid.prior = "unknown" /\ mid \in Locals
    <2>1. ASSUME NEW l \in Locals, NEW m,
                 m = [l EXCEPT !.removed = TRUE, !.prior = "unknown", !.roster = v]
          PROVE  Alike(l, m) /\ m.prior = "unknown"
        BY <2>1, SetUnknown
    <2>2. Alike(locals[r], mid) /\ mid.prior = "unknown"
        BY <1>1, <1>3, <2>1
    <2> QED BY <2>2 DEF Alike, Same
<1>7. Alike(locals[r], new) /\ new.prior = "unknown" /\ new \in Locals
    BY <1>4, <1>6, SetFailed DEF Alike, Same
<1>8. /\ hold' \in [Holders -> 0 .. MaxMints] /\ hold'[r] \in {0, hold[r]}
      /\ \A q \in Holders \ {r} : hold'[q] = hold[q]
    BY RotationAssumption DEF PriorUnknown, BaseInv, TypeOK
<1>9. Turn /\ Traced'
    BY StaysTurn DEF history, BaseInv, Traced
<1>10. pc'[r] = "done" /\ locals'[r] = new
    BY <1>5 DEF BaseInv, TypeOK
<1>11. Base(r)'
    BY <1>1, <1>7, <1>8, <1>9, <1>10, DoneBase DEF history
<1>12. "done" \in Phases
    BY DEF Phases
<1> QED BY <1>5, <1>7, <1>8, <1>9, <1>11, <1>12, ShapeActs DEF BaseInv, TypeOK, history, Writes, Origins

LEMMA RereadRemoveActs ==
    ASSUME BaseInv, NEW r \in Holders, RereadRemove(r)
    PROVE  Acts(r)
<1>1. /\ Base(r) /\ ~locals[r].importing /\ run[r] # 0 /\ locals[r].was = hold[r] /\ hold[r] # 0
      /\ locals[r].outcome = "none" /\ locals[r] \in Locals
    BY LocalsStay DEF BaseInv, Base, Control, Phases, RereadRemove, PriorUnknown, FailWith, Goto
<1>2. UNCHANGED <<pve, issued, late, other, run, history>>
    BY DEF RereadRemove
<1>3. {"clear", "done"} \subseteq Phases /\ Turn
    BY <1>2, StaysTurn DEF Phases, history
<1>4. CASE pve = 0 /\ Goto(r, "rereadRemove", "clear") /\ Set(r, Removed(locals[r])) /\ UNCHANGED hold
    <2>1. PICK new : new = Removed(locals[r])
        OBVIOUS
    <2>2. Alike(locals[r], new) /\ new.outcome = "none" /\ new \in Locals
        BY <1>1, <2>1, SetRemoved DEF Alike, Same
    <2>3. ASSUME pc'[r] = "clear", locals'[r] = new PROVE Base(r)'
        BY <1>1, <1>2, <1>3, <1>4, <2>2, <2>3, OnBase DEF history
    <2> QED BY <1>2, <1>3, <1>4, <2>1, <2>2, <2>3, QuietActs DEF Goto, Set
<1>5. CASE Goto(r, "rereadRemove", "done") /\ UNCHANGED <<hold, locals>>
    <2>1. locals' = [locals EXCEPT ![r] = locals[r]]
        BY <1>5, LocalsStay
    <2>2. ASSUME pc'[r] = "done", locals'[r] = locals[r] PROVE Base(r)'
        BY <1>1, <1>2, <1>3, <1>5, <2>2, DoneBase DEF Alike, Same, history
    <2> QED BY <1>1, <1>2, <1>3, <1>5, <2>1, <2>2, QuietActs DEF Goto
<1>6. CASE \E cleared \in BOOLEAN : PriorUnknown(r, cleared)
    BY <1>2, <1>6, PriorUnknownActs
<1> QED BY <1>4, <1>5, <1>6 DEF RereadRemove, ReadsToken

LEMMA ClearActs ==
    ASSUME BaseInv, NEW r \in Holders, Clear(r)
    PROVE  Acts(r)
<1>1. /\ Base(r) /\ ~locals[r].importing /\ run[r] # 0 /\ locals[r] \in Locals /\ pc[r] = "clear"
    BY LocalsStay DEF BaseInv, Base, Control, Phases, Clear, Goto
<1>2. PICK new : new = [locals[r] EXCEPT !.roster = "cleared"]
    OBVIOUS
<1>3. Alike(locals[r], new) /\ new \in Locals
    BY <1>1, <1>2, SetRoster DEF Alike, Same
<1>4. /\ pc' = [pc EXCEPT ![r] = "add"] /\ locals' = [locals EXCEPT ![r] = new]
      /\ hold' = [hold EXCEPT ![r] = 0] /\ UNCHANGED <<pve, issued, late, other, run, history>>
    BY <1>2 DEF Clear, Goto, Set
<1>5. /\ hold' \in [Holders -> 0 .. MaxMints] /\ hold'[r] = 0
      /\ \A q \in Holders \ {r} : hold'[q] = hold[q]
    BY <1>4, RotationAssumption DEF BaseInv, TypeOK
<1>6. pc'[r] = "add" /\ locals'[r] = new
    BY <1>4 DEF BaseInv, TypeOK
<1>7. Turn /\ Traced'
    BY <1>4, StaysTurn DEF history, BaseInv, Traced
<1>8. Base(r)'
    BY <1>1, <1>3, <1>4, <1>5, <1>6, Numbers
    DEF Base, Control, Issued, Replaced, Unrejected, Honest, Minting, history, Phases, Alike, Same
<1>9. "add" \in Phases
    BY DEF Phases
<1> QED BY <1>3, <1>4, <1>5, <1>7, <1>8, <1>9, ShapeActs DEF BaseInv, TypeOK, history, Writes, Origins

\* A run that fails from where the held token is dead behind it.
LEMMA FailActs ==
    ASSUME BaseInv, NEW r \in Holders, NEW from, NEW mid \in Locals, FailWith(r, from, mid),
           from = "clear" \/ Minting(r), Alike(locals[r], mid), ~locals[r].importing,
           UNCHANGED <<pve, issued, late, hold, other, run, history>>
    PROVE  Acts(r)
<1>1. PICK new : new = Failed(mid)
    OBVIOUS
<1>2. Alike(locals[r], new) /\ new \in Locals
    BY <1>1, SetFailed DEF Alike, Same
<1>3. pc' = [pc EXCEPT ![r] = "done"] /\ locals' = [locals EXCEPT ![r] = new] /\ pc[r] = from
    BY <1>1 DEF FailWith, Goto, Set
<1>4. locals[r].was = 0 \/ locals[r].was # pve
    BY <1>3 DEF BaseInv, Base, Replaced
<1>5. ASSUME pc'[r] = "done", locals'[r] = new PROVE Base(r)'
    BY <1>2, <1>4, <1>5, StaysTurn, DoneBase DEF history
<1>6. "done" \in Phases
    BY DEF Phases
<1> QED BY <1>2, <1>3, <1>5, <1>6, QuietActs

LEMMA ClearFailsActs ==
    ASSUME BaseInv, NEW r \in Holders, ClearFails(r)
    PROVE  Acts(r)
<1>1. ~locals[r].importing /\ locals[r] \in Locals
    BY LocalsStay DEF BaseInv, Base, Control, Phases, ClearFails, FailWith, Goto
<1>2. PICK mid : mid = [locals[r] EXCEPT !.roster = "stale"]
    OBVIOUS
<1>3. Alike(locals[r], mid) /\ mid \in Locals
    BY <1>1, <1>2, SetRoster DEF Alike, Same
<1> QED BY <1>1, <1>2, <1>3, FailActs DEF ClearFails

\* What a run that mints has behind it.
LEMMA MintingKnows ==
    ASSUME BaseInv, NEW r \in Holders, Minting(r)
    PROVE  /\ Base(r) /\ ~locals[r].importing /\ run[r] # 0 /\ hold[r] = 0 /\ locals[r] \in Locals
           /\ locals[r].was = 0 \/ locals[r].was # pve
BY LocalsStay DEF BaseInv, Base, Control, Replaced, Phases, Minting

LEMMA AddActs ==
    ASSUME BaseInv, NEW r \in Holders, NEW result, NEW parsed \in BOOLEAN, pc[r] = "add",
           Add(r, result, parsed)
    PROVE  Acts(r)
<1>1. /\ Base(r) /\ ~locals[r].importing /\ run[r] # 0 /\ hold[r] = 0 /\ locals[r] \in Locals
      /\ locals[r].was = 0 \/ locals[r].was # pve
    BY MintingKnows DEF Minting
<1>2. /\ Pveum(r, "add", result) /\ UNCHANGED <<hold, other, run, judged, rejected, told>>
    BY DEF Add
<1>3. {"grant", "removeFresh", "done", "rereadAdd"} \subseteq Phases
    BY DEF Phases
<1>4. CASE result = "ok" /\ Goto(r, "add", "grant") /\ Set(r, [locals[r] EXCEPT !.secret = pve'])
    <2>1. issued' = issued + 1 /\ pve' = issued + 1
        BY <1>2, <1>4 DEF Pveum, Land
    <2>2. PICK s : s = pve'
        OBVIOUS
    <2>3. s \in 0 .. MaxMints
        BY <1>1, <1>2, <2>2, PveumTurn DEF Turn
    <2>4. PICK new : new = [locals[r] EXCEPT !.secret = s]
        OBVIOUS
    <2>5. Same(locals[r], new) /\ new.secret = s /\ new \in Locals
        BY <1>1, <2>3, <2>4, SetSecret DEF Same
    <2>6. ASSUME Turn, pc'[r] = "grant", locals'[r] = new PROVE Base(r)'
        <3>1. /\ locals[r].was \in 0 .. MaxMints /\ issued \in Nat /\ issued' = issued + 1 /\ s = issued + 1
              /\ s # 0
            BY <2>1, <2>2, Numbers
        <3>2. \A x \in rejected[r] : x \in 0 .. MaxMints /\ x <= issued /\ x \in Nat
            BY <1>1, RotationAssumption DEF BaseInv, TypeOK, Secrets, Base, Issued
        <3>3. Control(r)'
            BY <1>1, <1>2, <2>5, <2>6, <3>1 DEF Control, Minting, Same, Phases
        <3>4. Issued(r)'
            BY <1>1, <1>2, <2>2, <2>5, <2>6, <3>1, <3>2, NeverAgain DEF Base, Issued, Same
        <3>5. Replaced(r)'
            BY <1>1, <2>1, <2>5, <2>6, <3>1 DEF Base, Issued, Replaced, Same
        <3>6. Unrejected(r)' /\ Honest(r)'
            BY <1>2, <2>5, <2>6, <3>1, <3>2 DEF Unrejected, Honest
        <3> QED BY <3>3, <3>4, <3>5, <3>6 DEF Base
    <2>7. pc' = [pc EXCEPT ![r] = "grant"] /\ locals' = [locals EXCEPT ![r] = new]
        BY <1>4, <2>2, <2>4 DEF Goto, Set
    <2> QED BY <1>1, <1>2, <1>3, <2>5, <2>6, <2>7, PveumActs
<1>5. CASE Goto(r, "add", "removeFresh") /\ UNCHANGED locals
    <2>1. locals' = [locals EXCEPT ![r] = locals[r]]
        BY <1>5, LocalsStay
    <2>2. ASSUME Turn, pc'[r] = "removeFresh", locals'[r] = locals[r] PROVE Base(r)'
        BY <1>1, <1>2, <2>2, OnBase DEF Alike, Same
    <2> QED BY <1>1, <1>2, <1>3, <1>5, <2>1, <2>2, PveumActs DEF Goto
<1>6. CASE FailWith(r, "add", locals[r])
    <2>1. PICK new : new = Failed(locals[r])
        OBVIOUS
    <2>2. Alike(locals[r], new) /\ new \in Locals
        BY <1>1, <2>1, SetFailed DEF Alike, Same
    <2>3. ASSUME Turn, pc'[r] = "done", locals'[r] = new PROVE Base(r)'
        BY <1>1, <1>2, <2>2, <2>3, DoneBase
    <2> QED BY <1>1, <1>2, <1>3, <1>6, <2>1, <2>2, <2>3, PveumActs DEF FailWith, Goto, Set
<1>7. CASE /\ result \in {"plain", "timeout"} /\ Goto(r, "add", "rereadAdd")
           /\ Set(r, [locals[r] EXCEPT !.err = result])
    <2>1. PICK new : new = [locals[r] EXCEPT !.err = result]
        OBVIOUS
    <2>2. Alike(locals[r], new) /\ new.err # "none" /\ new \in Locals
        BY <1>1, <1>7, <2>1, SetErr DEF Alike, Same, Errors
    <2>3. ASSUME Turn, pc'[r] = "rereadAdd", locals'[r] = new PROVE Base(r)'
        BY <1>1, <1>2, <2>2, <2>3, OnBase
    <2> QED BY <1>1, <1>2, <1>3, <1>7, <2>1, <2>2, <2>3, PveumActs DEF Goto, Set
<1> QED BY <1>4, <1>5, <1>6, <1>7 DEF Add

LEMMA RereadAddActs ==
    ASSUME BaseInv, NEW r \in Holders, RereadAdd(r)
    PROVE  Acts(r)
<1>1. /\ Minting(r) /\ UNCHANGED <<pve, issued, late, hold, other, run, history>>
    BY DEF RereadAdd, FailWith, Goto, Minting
<1>2. /\ Base(r) /\ ~locals[r].importing /\ run[r] # 0 /\ hold[r] = 0 /\ locals[r] \in Locals
      /\ locals[r].was = 0 \/ locals[r].was # pve
    BY <1>1, MintingKnows
<1>3. CASE Goto(r, "rereadAdd", "removeFresh") /\ UNCHANGED locals
    <2>1. locals' = [locals EXCEPT ![r] = locals[r]] /\ "removeFresh" \in Phases
        BY <1>3, LocalsStay DEF Phases
    <2>2. ASSUME pc'[r] = "removeFresh", locals'[r] = locals[r] PROVE Base(r)'
        BY <1>1, <1>2, <2>2, StaysTurn, OnBase DEF Alike, Same, history
    <2> QED BY <1>1, <1>2, <1>3, <2>1, <2>2, QuietActs DEF Goto
<1>4. CASE FailWith(r, "rereadAdd", [locals[r] EXCEPT !.leftover = "may_exist"])
    <2>1. PICK mid : mid = [locals[r] EXCEPT !.leftover = "may_exist"]
        OBVIOUS
    <2>2. Alike(locals[r], mid) /\ mid \in Locals
        BY <1>2, <2>1, SetLeftover DEF Alike, Same
    <2> QED BY <1>1, <1>2, <1>4, <2>1, <2>2, FailActs
<1>5. CASE FailWith(r, "rereadAdd", locals[r])
    BY <1>1, <1>2, <1>5, FailActs DEF Alike, Same
<1> QED BY <1>3, <1>4, <1>5 DEF RereadAdd

\* From a fresh token's checks to its removal.
LEMMA DropActs ==
    ASSUME BaseInv, NEW r \in Holders, NEW from \in {"grant", "postMint", "persist"}, Goto(r, from, Drop(r)),
           UNCHANGED <<pve, issued, late, hold, other, run, locals, origin, judged, told, crossed>>,
           rejected' \in [Holders -> SUBSET Secrets],
           \A q \in Holders \ {r} : rejected'[q] = rejected[q],
           \A s \in rejected'[r] : s <= issued
    PROVE  Acts(r)
<1>1. /\ pc[r] = from /\ pc' = [pc EXCEPT ![r] = Drop(r)] /\ locals' = [locals EXCEPT ![r] = locals[r]]
      /\ locals[r] \in Locals /\ Drop(r) \in Phases
    BY LocalsStay DEF Goto, Drop, Phases
<1>2. Base(r) /\ pc'[r] = Drop(r) /\ locals'[r] = locals[r]
    BY <1>1 DEF BaseInv, TypeOK
<1>3. Turn /\ Traced'
    BY StaysTurn DEF BaseInv, Traced
<1>4. Base(r)'
    BY <1>1, <1>2
    DEF Base, Control, Issued, Replaced, Unrejected, Honest, Minting, Phases, Drop
<1> QED BY <1>1, <1>3, <1>4, ShapeActs DEF BaseInv, TypeOK, Writes, Origins

LEMMA GrantAllActs ==
    ASSUME BaseInv, NEW r \in Holders, GrantAll(r)
    PROVE  Acts(r)
<1>1. /\ pc[r] = "grant" /\ Minting(r) /\ UNCHANGED <<pve, issued, late, hold, other, run, history>>
    BY DEF GrantAll, Goto, Minting
<1>2. /\ Base(r) /\ ~locals[r].importing /\ locals[r] \in Locals
    BY <1>1, MintingKnows
<1>3. CASE Goto(r, "grant", "postMint") /\ Set(r, [locals[r] EXCEPT !.attempt = 1])
    <2>1. PICK new : new = [locals[r] EXCEPT !.attempt = 1]
        OBVIOUS
    <2>2. 1 \in 0 .. Attempts /\ "postMint" \in Phases
        BY RotationAssumption DEF Phases
    <2>3. Same(locals[r], new) /\ new.secret = locals[r].secret /\ new.saw = locals[r].saw
          /\ new.attempt = 1 /\ new \in Locals
        BY <1>2, <2>1, <2>2, SetAttempt DEF Same
    <2>4. ASSUME pc'[r] = "postMint", locals'[r] = new PROVE Base(r)'
        BY <1>1, <1>2, <2>3, <2>4
        DEF Base, Control, Issued, Replaced, Unrejected, Honest, Minting, Phases, Same, history
    <2> QED BY <1>1, <1>3, <2>1, <2>2, <2>3, <2>4, QuietActs DEF Goto, Set
<1>4. CASE Goto(r, "grant", "removeFresh") /\ UNCHANGED locals
    <2>1. Goto(r, "grant", Drop(r))
        BY <1>2, <1>4 DEF Drop
    <2> QED BY <1>1, <1>4, <2>1, DropActs DEF BaseInv, TypeOK, Base, Issued, history
<1> QED BY <1>3, <1>4 DEF GrantAll

\* What an attempt notes against a secret.
LEMMA RejectedNotes ==
    ASSUME BaseInv, NEW r \in Holders, NEW v, PostMint(r, v)
    PROVE  /\ rejected' \in [Holders -> SUBSET Secrets]
           /\ \A q \in Holders \ {r} : rejected'[q] = rejected[q]
           /\ \A s \in rejected'[r] : s <= issued
           /\ v = "ok" => locals[r].secret \notin rejected'[r]
           /\ v = "plain" => rejected'[r] = rejected[r]
<1>1. locals[r].secret \in Secrets /\ locals[r].secret <= issued /\ \A s \in rejected[r] : s <= issued
    BY Numbers DEF PostMint, Goto, BaseInv, Base, Control, Issued, Secrets
<1>2. PICK R : R = IF v = "ok" THEN rejected[r] \ {locals[r].secret}
                   ELSE IF v = "plain" THEN rejected[r] ELSE rejected[r] \cup {locals[r].secret}
    OBVIOUS
<1>3. rejected' = [rejected EXCEPT ![r] = R]
    BY <1>2 DEF PostMint
<1>4. R \subseteq Secrets
    BY <1>1, <1>2 DEF BaseInv, TypeOK
<1>5. /\ rejected' \in [Holders -> SUBSET Secrets] /\ rejected'[r] = R
      /\ \A q \in Holders \ {r} : rejected'[q] = rejected[q]
    BY <1>3, <1>4 DEF BaseInv, TypeOK
<1> QED BY <1>1, <1>2, <1>5

LEMMA PostMintActs ==
    ASSUME BaseInv, NEW r \in Holders, NEW v, PostMint(r, v)
    PROVE  Acts(r)
<1>1. /\ pc[r] = "postMint" /\ Base(r) /\ locals[r] \in Locals
      /\ UNCHANGED <<pve, issued, late, hold, other, run, origin, judged, told, crossed>>
    BY LocalsStay DEF PostMint, Goto, BaseInv
<1>2. /\ rejected' \in [Holders -> SUBSET Secrets]
      /\ \A q \in Holders \ {r} : rejected'[q] = rejected[q]
      /\ \A s \in rejected'[r] : s <= issued
      /\ v = "ok" => locals[r].secret \notin rejected'[r]
      /\ v = "plain" => rejected'[r] = rejected[r]
    BY RejectedNotes
<1>3. Turn /\ Traced' /\ {"persist", "done", "postMint"} \subseteq Phases
    BY <1>1, StaysTurn DEF BaseInv, Traced, Phases
<1>4. CASE Goto(r, "postMint", Drop(r)) /\ UNCHANGED locals
    BY <1>1, <1>2, <1>4, DropActs
<1>5. CASE /\ UNCHANGED locals
           /\ \/ v = "ok" /\ Goto(r, "postMint", "persist")
              \/ v = "plain" /\ ~locals[r].saw /\ ~locals[r].importing /\ Goto(r, "postMint", "persist")
              \/ v = "plain" /\ locals[r].importing /\ Goto(r, "postMint", "done")
    <2>1. PICK label \in {"persist", "done"} :
              /\ pc' = [pc EXCEPT ![r] = label]
              /\ label = "persist" => v = "ok" \/ (v = "plain" /\ ~locals[r].saw /\ ~locals[r].importing)
              /\ label = "done" => locals[r].importing
        BY <1>5 DEF Goto
    <2>2. locals' = [locals EXCEPT ![r] = locals[r]] /\ locals'[r] = locals[r] /\ pc'[r] = label
        BY <1>5, <2>1, LocalsStay DEF BaseInv, TypeOK
    <2>3. Base(r)'
        BY <1>1, <1>2, <2>1, <2>2
        DEF Base, Control, Issued, Replaced, Unrejected, Honest, Minting, Phases
    <2> QED BY <1>1, <1>2, <1>3, <2>1, <2>2, <2>3, ShapeActs DEF BaseInv, TypeOK, Writes, Origins
<1>6. CASE ~LastAttempt(r) /\ Goto(r, "postMint", "postMint") /\ Retry(r)
    <2>1. PICK new : new = [locals[r] EXCEPT !.saw = TRUE, !.attempt = @ + 1]
        OBVIOUS
    <2>2. locals[r].attempt + 1 \in 0 .. Attempts /\ locals[r].attempt + 1 # 0
        BY <1>6, Numbers DEF LastAttempt
    <2>3. Same(locals[r], new) /\ new.secret = locals[r].secret /\ new.saw = TRUE
          /\ new.attempt = locals[r].attempt + 1 /\ new.leftover = locals[r].leftover
          /\ new.prior = locals[r].prior /\ new.roster = locals[r].roster
        BY <1>1, <2>1, <2>2, SetRetry
    <2>4. /\ pc' = [pc EXCEPT ![r] = "postMint"] /\ locals' = [locals EXCEPT ![r] = new]
          /\ new \in Locals
        BY <1>6, <2>1, <2>3 DEF Goto, Retry, Set, Same
    <2>5. pc'[r] = "postMint" /\ locals'[r] = new
        BY <2>4 DEF BaseInv, TypeOK
    <2>6. Base(r)'
        BY <1>1, <1>2, <2>2, <2>3, <2>5
        DEF Base, Control, Issued, Replaced, Unrejected, Honest, Minting, Phases, Same
    <2> QED BY <1>1, <1>2, <1>3, <2>4, <2>6, ShapeActs DEF BaseInv, TypeOK, Writes, Origins
<1> QED BY <1>4, <1>5, <1>6 DEF PostMint

LEMMA PostMintCancelledActs ==
    ASSUME BaseInv, NEW r \in Holders, PostMintCancelled(r)
    PROVE  Acts(r)
BY DropActs DEF PostMintCancelled, BaseInv, TypeOK, Base, Issued, history

LEMMA PersistFailsActs ==
    ASSUME BaseInv, NEW r \in Holders, PersistFails(r)
    PROVE  Acts(r)
BY DropActs DEF PersistFails, BaseInv, TypeOK, Base, Issued, history

LEMMA PersistActs ==
    ASSUME BaseInv, NEW r \in Holders, Persist(r)
    PROVE  Acts(r)
<1>1. /\ pc[r] = "persist" /\ Base(r) /\ locals[r] \in Locals /\ locals[r].secret \in 0 .. MaxMints
      /\ other[r] \in BOOLEAN
    BY LocalsStay, Numbers DEF Persist, Goto, BaseInv, TypeOK
<1>2. PICK o \in Outcomes :
          o = IF locals[r].importing
              THEN IF locals[r].secret = hold[r] THEN "already_held" ELSE "imported"
              ELSE IF locals[r].was # 0 THEN "replaced" ELSE "minted"
    BY DEF Outcomes
<1>3. PICK new : new = [locals[r] EXCEPT !.orphan = other[r], !.outcome = o]
    OBVIOUS
<1>4. /\ pc' = [pc EXCEPT ![r] = "done"] /\ locals' = [locals EXCEPT ![r] = new]
      /\ hold' = [hold EXCEPT ![r] = locals[r].secret] /\ other' = [other EXCEPT ![r] = FALSE]
      /\ UNCHANGED <<pve, issued, late, run, history>>
    BY <1>2, <1>3 DEF Persist, Goto, Set
<1>5. Alike(locals[r], new) /\ new.leftover = locals[r].leftover /\ new.prior = locals[r].prior
      /\ new.roster = locals[r].roster
    <2>1. PICK b \in BOOLEAN : b = other[r]
        BY <1>1
    <2>2. PICK l \in Locals : l = locals[r]
        BY <1>1
    <2>3. PICK m : m = [l EXCEPT !.orphan = b, !.outcome = o]
        OBVIOUS
    <2>4. Alike(l, m) /\ m.leftover = l.leftover /\ m.prior = l.prior /\ m.roster = l.roster
        BY <2>3 DEF Locals, Alike, Same
    <2>5. new = m
        BY <1>3, <2>1, <2>2, <2>3
    <2> QED BY <2>2, <2>4, <2>5
<1>6. /\ hold' \in [Holders -> 0 .. MaxMints] /\ hold'[r] = locals[r].secret
      /\ \A q \in Holders \ {r} : hold'[q] = hold[q]
      /\ other' \in [Holders -> BOOLEAN]
    BY <1>1, <1>4 DEF BaseInv, TypeOK
<1>7. pc'[r] = "done" /\ locals'[r] = new
    BY <1>4 DEF BaseInv, TypeOK
<1>8. Turn /\ Traced'
    BY <1>4, StaysTurn DEF history, BaseInv, Traced
<1>9. Base(r)'
    BY <1>1, <1>4, <1>5, <1>6, <1>7
    DEF Base, Control, Issued, Replaced, Unrejected, Honest, Minting, Phases, Alike, Same, history
<1>10. "done" \in Phases /\ new \in Locals
    BY <1>5 DEF Phases, Alike, Same
<1> QED BY <1>4, <1>6, <1>8, <1>9, <1>10, ShapeActs DEF BaseInv, TypeOK, history, Writes, Origins

LEMMA RemoveFreshActs ==
    ASSUME BaseInv, NEW r \in Holders, NEW result \in Results, pc[r] = "removeFresh", RemoveFresh(r, result)
    PROVE  Acts(r)
<1>1. /\ Base(r) /\ ~locals[r].importing /\ run[r] # 0 /\ hold[r] = 0 /\ locals[r] \in Locals
      /\ locals[r].was = 0 \/ locals[r].was # pve
    BY MintingKnows DEF Minting
<1>2. /\ Pveum(r, "remove", result) /\ UNCHANGED <<hold, other, run, judged, rejected, told>>
    BY DEF RemoveFresh
<1>3. {"done", "readFresh"} \subseteq Phases
    BY DEF Phases
<1>4. CASE FailWith(r, "removeFresh", locals[r])
    <2>1. PICK new : new = Failed(locals[r])
        OBVIOUS
    <2>2. Alike(locals[r], new) /\ new \in Locals
        BY <1>1, <2>1, SetFailed DEF Alike, Same
    <2>3. ASSUME Turn, pc'[r] = "done", locals'[r] = new PROVE Base(r)'
        BY <1>1, <1>2, <2>2, <2>3, DoneBase
    <2> QED BY <1>1, <1>2, <1>3, <1>4, <2>1, <2>2, <2>3, PveumActs DEF FailWith, Goto, Set
<1>5. CASE /\ result # "ok" /\ Goto(r, "removeFresh", "readFresh")
           /\ Set(r, [locals[r] EXCEPT !.err = IF result = "exit" THEN "none" ELSE result])
    <2>1. PICK e \in Errors : e = IF result = "exit" THEN "none" ELSE result
        BY <1>5 DEF Results, Errors
    <2>2. PICK new : new = [locals[r] EXCEPT !.err = e]
        OBVIOUS
    <2>3. Alike(locals[r], new) /\ new \in Locals
        BY <1>1, <2>2, SetErr DEF Alike, Same
    <2>4. ASSUME Turn, pc'[r] = "readFresh", locals'[r] = new PROVE Base(r)'
        BY <1>1, <1>2, <2>3, <2>4, OnBase
    <2> QED BY <1>1, <1>2, <1>3, <1>5, <2>1, <2>2, <2>3, <2>4, PveumActs DEF Goto, Set
<1> QED BY <1>4, <1>5 DEF RemoveFresh

LEMMA ReadFreshActs ==
    ASSUME BaseInv, NEW r \in Holders, ReadFresh(r)
    PROVE  Acts(r)
<1>1. PICK seen \in {"absent", "present", "unreadable"} :
          FailWith(r, "readFresh",
              [locals[r] EXCEPT
                 !.leftover = IF seen = "absent" THEN "none"
                              ELSE IF seen = "unreadable" \/ locals[r].err = "timeout"
                                   THEN "may_exist" ELSE "exists"])
    BY DEF ReadFresh
<1>2. PICK v \in {"none", "exists", "may_exist"} :
          v = IF seen = "absent" THEN "none"
              ELSE IF seen = "unreadable" \/ locals[r].err = "timeout" THEN "may_exist" ELSE "exists"
    OBVIOUS
<1>3. PICK mid : mid = [locals[r] EXCEPT !.leftover = v]
    OBVIOUS
<1>4. Minting(r)
    BY <1>1 DEF FailWith, Goto, Minting
<1>5. ~locals[r].importing /\ locals[r] \in Locals
    BY <1>4, MintingKnows
<1>6. Alike(locals[r], mid) /\ mid \in Locals
    BY <1>3, <1>5, SetLeftover DEF Alike, Same
<1>7. FailWith(r, "readFresh", mid) /\ UNCHANGED <<pve, issued, late, hold, other, run, history>>
    BY <1>1, <1>2, <1>3 DEF ReadFresh
<1> QED BY <1>4, <1>5, <1>6, <1>7, FailActs

LEMMA ImportActs ==
    ASSUME BaseInv, NEW r \in Holders, NEW s \in Importable, NEW replace, Import(r, s, replace)
    PROVE  Acts(r)
<1>1. s \in 0 .. MaxMints /\ s <= issued /\ s # 0
    <2>1. CASE s = 1
        BY <2>1, Numbers, RotationAssumption DEF BaseInv, TypeOK
    <2>2. CASE s \in {hold[q] : q \in Holders} \ {0}
        BY <2>2 DEF BaseInv, TypeOK, Base, Issued
    <2> QED BY <2>1, <2>2 DEF Importable
<1>2. Base(r) /\ hold[r] \in 0 .. MaxMints
    BY DEF BaseInv, TypeOK
<1>3. PICK new :
          new = [NoLocals EXCEPT !.importing = TRUE, !.secret = s, !.was = hold[r], !.attempt = 1]
    OBVIOUS
<1>4. new \in Locals /\ new.importing /\ new.was = hold[r] /\ new.secret = s /\ new.attempt = 1
      /\ new.leftover = "none" /\ new.prior = "none" /\ new.roster = "none"
    <2>1. PICK t \in 0 .. MaxMints : t = s
        BY <1>1
    <2>2. PICK v \in 0 .. MaxMints : v = hold[r]
        BY <1>2
    <2>3. PICK l \in Locals : l = NoLocals
        BY NoLocalsType
    <2>4. PICK m : m = [l EXCEPT !.importing = TRUE, !.secret = t, !.was = v, !.attempt = 1]
        OBVIOUS
    <2>5. 1 \in 0 .. Attempts
        BY RotationAssumption
    <2>6. m \in Locals /\ m.importing /\ m.was = v /\ m.secret = t /\ m.attempt = 1
          /\ m.leftover = l.leftover /\ m.prior = l.prior /\ m.roster = l.roster
        BY <2>4, <2>5 DEF Locals
    <2>7. new = m
        BY <1>3, <2>1, <2>2, <2>3, <2>4
    <2> QED BY <2>1, <2>2, <2>3, <2>6, <2>7, NoLocalsType
<1>5. /\ pc' = [pc EXCEPT ![r] = "postMint"] /\ locals' = [locals EXCEPT ![r] = new]
      /\ UNCHANGED <<pve, issued, late, hold, other, run, history>>
    BY <1>3 DEF Import, Goto, Set
<1>6. ASSUME pc'[r] = "postMint", locals'[r] = new PROVE Base(r)'
    BY <1>1, <1>2, <1>4, <1>5, <1>6
    DEF Base, Control, Issued, Replaced, Unrejected, Honest, Minting, Phases, history
<1>7. "postMint" \in Phases
    BY DEF Phases
<1> QED BY <1>4, <1>5, <1>6, <1>7, QuietActs

\* The run is over, with or without a report.
LEMMA OverActs ==
    ASSUME BaseInv, NEW r \in Holders, pc' = [pc EXCEPT ![r] = "idle"], Set(r, NoLocals),
           told' \in SUBSET (0 .. MaxMints),
           UNCHANGED <<pve, issued, late, hold, other, run, origin, judged, rejected, crossed>>
    PROVE  Acts(r)
<1>1. pc'[r] = "idle" /\ locals'[r] = NoLocals /\ locals' = [locals EXCEPT ![r] = NoLocals]
    BY DEF Set, BaseInv, TypeOK
<1>2. Turn /\ Traced'
    BY StaysTurn DEF BaseInv, Traced
<1>3. Base(r) /\ issued \in Nat
    BY Numbers DEF BaseInv
<1>4. Base(r)'
    BY <1>1, <1>3, NoLocalsType
    DEF Base, Control, Issued, Replaced, Unrejected, Honest, Minting, Phases
<1>5. "idle" \in Phases
    BY DEF Phases
<1> QED BY <1>1, <1>2, <1>4, <1>5, NoLocalsType, ShapeActs DEF BaseInv, TypeOK, Writes, Origins

LEMMA FreshType ==
    ASSUME BaseInv, NEW r \in Holders
    PROVE  Fresh(r) \subseteq 2 .. issued /\ Fresh(r) \subseteq 0 .. MaxMints
<1>1. \A o \in origin : o.secret \in Secrets /\ o.secret > 1 /\ o.secret <= issued
    BY DEF BaseInv, TypeOK, Traced
<1> QED BY <1>1, Numbers DEF Fresh, Secrets

LEMMA FinishActs ==
    ASSUME BaseInv, NEW r \in Holders, Finish(r)
    PROVE  Acts(r)
<1>1. InDoubt(r) \subseteq 0 .. MaxMints
    BY FreshType, Numbers DEF InDoubt
<1>2. told' \in SUBSET (0 .. MaxMints)
    BY <1>1 DEF Finish, BaseInv, TypeOK
<1> QED BY <1>2, OverActs DEF Finish, Goto

LEMMA CrashActs ==
    ASSUME BaseInv, NEW r \in Holders, Crash(r)
    PROVE  Acts(r)
<1>1. told' \in SUBSET (0 .. MaxMints)
    BY DEF Crash, BaseInv, TypeOK
<1> QED BY <1>1, OverActs DEF Crash

LEMMA RunActs ==
    ASSUME BaseInv, NEW r \in Holders, RunStep(r)
    PROVE  Acts(r)
BY RefuseActs, PreflightActs, ToMintActs, UndecryptableActs, ReusedActs, CondemnActs,
   RemoveHeldActs, RereadRemoveActs, ClearActs, ClearFailsActs, AddActs, RereadAddActs, GrantAllActs,
   PostMintActs, PostMintCancelledActs, PersistActs, PersistFailsActs, RemoveFreshActs,
   ReadFreshActs, FinishActs
DEF RunStep, PreflightFails, NotHeld, NoVerdict

\* PVE's own steps: no run moves.
LEMMA PveKeeps ==
    ASSUME BaseInv, Turn, Traced', origin' \in SUBSET Origins, late' \in SUBSET Writes,
           told' \in SUBSET (0 .. MaxMints), crossed' \in BOOLEAN,
           UNCHANGED <<hold, other, pc, run, locals, judged, rejected>>
    PROVE  BaseInv'
<1>1. TypeOK'
    BY DEF BaseInv, TypeOK, Turn, Writes, Origins
<1>2. \A q \in Holders : Base(q)'
    BY OthersKeep
<1> QED BY <1>1, <1>2 DEF BaseInv

LEMMA LateWriteTurn ==
    ASSUME BaseInv, LateWrite
    PROVE  /\ Turn /\ Traced' /\ origin' \in SUBSET Origins /\ late' \in SUBSET Writes
<1>1. PICK c \in late : late' = late \ {c} /\ (Land(c.cmd, c.by, c.run) \/ NoEffect)
    BY DEF LateWrite
<1>2. c.by \in Holders /\ c.run \in 1 .. MaxRuns /\ c.run <= run[c.by] /\ run' = run
    BY DEF BaseInv, TypeOK, Traced, LateWrite
<1>3. /\ Turn /\ origin' \in SUBSET Origins
      /\ \A o \in origin' : o.secret > 1 /\ o.secret <= issued' /\ o.run <= run'[o.by]
    BY <1>1, <1>2, LandTurn
<1> QED BY <1>1, <1>2, <1>3 DEF BaseInv, TypeOK, Traced, Writes

LEMMA LateWriteKeeps ==
    ASSUME BaseInv, LateWrite
    PROVE  BaseInv'
BY LateWriteTurn, PveKeeps DEF LateWrite, BaseInv, TypeOK

LEMMA OperatorKeeps ==
    ASSUME BaseInv, OperatorRemoves
    PROVE  BaseInv'
<1>1. Turn /\ Traced'
    BY RotationAssumption DEF OperatorRemoves, BaseInv, TypeOK, Turn, Traced
<1>2. told' \in SUBSET (0 .. MaxMints) /\ crossed' \in BOOLEAN
    BY DEF OperatorRemoves, BaseInv, TypeOK
<1> QED BY <1>1, <1>2, PveKeeps DEF OperatorRemoves, BaseInv, TypeOK, Writes, Origins

LEMMA InitBase == Init => BaseInv
<1> SUFFICES ASSUME Init PROVE BaseInv
    OBVIOUS
<1>1. 0 \in 0 .. MaxMints /\ 1 \in 0 .. MaxMints /\ 1 \in 1 .. MaxMints /\ 0 \in 0 .. MaxRuns
    BY RotationAssumption
<1>2. TypeOK
    <2>1. hold \in [Holders -> 0 .. MaxMints] /\ other \in [Holders -> BOOLEAN]
        BY <1>1 DEF Init
    <2>2. locals \in [Holders -> Locals]
        BY NoLocalsType DEF Init
    <2>3. pc \in [Holders -> Phases] /\ run \in [Holders -> 0 .. MaxRuns]
        BY <1>1 DEF Init, Phases
    <2>4. judged \in [Holders -> 0 .. MaxMints] /\ rejected \in [Holders -> SUBSET Secrets]
        BY <1>1 DEF Init
    <2> QED BY <1>1, <2>1, <2>2, <2>3, <2>4 DEF Init, TypeOK
<1>3. Traced
    BY DEF Init, Traced
<1>4. ASSUME NEW r \in Holders PROVE Base(r)
    <2>1. /\ pc[r] = "idle" /\ locals[r] = NoLocals /\ hold[r] \in {0, 1} /\ pve \in {0, 1}
          /\ issued = 1 /\ rejected[r] = {}
        BY DEF Init
    <2> QED BY <2>1, NoLocalsType
            DEF Base, Control, Issued, Replaced, Unrejected, Honest, Minting, Phases
<1> QED BY <1>2, <1>3, <1>4 DEF BaseInv

LEMMA NextBase ==
    ASSUME BaseInv, [Next]_vars
    PROVE  BaseInv'
<1>1. ASSUME NEW r \in Holders, Start(r) \/ RunStep(r) \/ Crash(r) PROVE BaseInv'
    BY <1>1, StartActs, RunActs, CrashActs, ActsKeep
<1>2. ASSUME NEW r \in Holders, NEW s \in Importable, NEW replace \in BOOLEAN, Import(r, s, replace)
      PROVE  BaseInv'
    BY <1>2, ImportActs, ActsKeep
<1>3. CASE UNCHANGED vars
    BY <1>3, StaysTurn, PveKeeps DEF vars, BaseInv, TypeOK, Traced, Writes, Origins
<1> QED BY <1>1, <1>2, <1>3, LateWriteKeeps, OperatorKeeps DEF Next

LEMMA AlwaysBase == Spec => []BaseInv
BY InitBase, NextBase, PTL DEF Spec

\* When a run reports the previous token replaced, revoked or gone, PVE accepts it no
\* more and never will: for any number of rosters that share the token.
THEOREM OutcomesAreHonest == Spec => []HonestOutcome
<1>1. BaseInv => HonestOutcome
    BY DEF BaseInv, Base, HonestOutcome
<1> QED BY <1>1, AlwaysBase, PTL

\* Only the write of the roster puts a secret there.
LEMMA HoldStep ==
    ASSUME BaseInv, [Next]_vars, NEW r \in Holders
    PROVE  hold'[r] \in {0, hold[r]} \/ Persist(r)
<1>1. hold \in [Holders -> 0 .. MaxMints]
    BY DEF BaseInv, TypeOK
<1>2. ASSUME NEW q \in Holders, RunStep(q), ~Persist(q) PROVE hold'[r] \in {0, hold[r]}
    <2>1. UNCHANGED hold \/ RereadRemove(q) \/ Clear(q)
        BY <1>2
        DEF RunStep, PreflightFails, Preflight, NotHeld, ToMint, Undecryptable, Reused, NoVerdict, Condemn,
            RefuseFrom, RemoveHeld, ClearFails, Add, RereadAdd, GrantAll, PostMint, PostMintCancelled,
            PersistFails, RemoveFresh, ReadFresh, Finish
    <2>2. UNCHANGED hold \/ hold' = [hold EXCEPT ![q] = 0]
        BY <2>1 DEF RereadRemove, PriorUnknown, Clear
    <2> QED BY <1>1, <2>2
<1>3. ASSUME NEW q \in Holders, Persist(q), q # r PROVE hold'[r] = hold[r]
    BY <1>1, <1>3 DEF Persist
<1> QED BY <1>1, <1>2, <1>3 DEF Next, vars, Start, Import, Crash, LateWrite, OperatorRemoves

\* A secret whose latest verdict was against it is never written to a roster, however
\* a later attempt failed: for any number of rosters.
THEOREM RejectedIsNotPersisted == Spec => RejectedNotPersisted
<1>1. ASSUME BaseInv, [Next]_vars, NEW r \in Holders, hold'[r] \notin {0, hold[r]}
      PROVE  hold'[r] \notin rejected[r]
    <2>1. Persist(r)
        BY <1>1, HoldStep
    <2>2. hold'[r] = locals[r].secret /\ pc[r] = "persist"
        BY <1>1, <2>1 DEF Persist, Goto, BaseInv, TypeOK
    <2> QED BY <1>1, <2>2 DEF BaseInv, Base, Unrejected
<1>2. BaseInv /\ [Next]_vars =>
          [\A r \in Holders : hold'[r] \notin {0, hold[r]} => hold'[r] \notin rejected[r]]_vars
    BY <1>1
<1> QED BY <1>2, AlwaysBase, PTL DEF Spec, RejectedNotPersisted

-----------------------------------------------------------------------------
(* What holds besides for a token that one roster holds, until a write     *)
(* crosses another                                                         *)

\* LeftoverReported, of the run of r.
Left(r) ==
    pc[r] = "done" /\ ~locals[r].importing
        /\ (pve \in Fresh(r) \/ Pending(r, "add") \in late) /\ hold[r] \notin Fresh(r)
    => locals[r].leftover # "none"

Alone(r) == Flight(r) /\ Accepted(r) /\ Announced(r) /\ Left(r)

LoneInv(r) == BaseInv /\ (~crossed => Alone(r))

\* What a run will say, or will not, of the tokens in doubt.
Speaks(l, m) == m.importing = l.importing /\ m.was = l.was
                /\ m.prior = l.prior /\ m.roster = l.roster /\ m.leftover = l.leftover

LEMMA Still ==
    ASSUME NEW r \in Holders, UNCHANGED <<run, origin>>
    PROVE  Fresh(r)' = Fresh(r) /\ \A cmd : Pending(r, cmd)' = Pending(r, cmd)
BY DEF Fresh, Pending

LEMMA StillDoubt ==
    ASSUME NEW r \in Holders, Fresh(r)' = Fresh(r), told' = told, Speaks(locals[r], locals'[r])
    PROVE  \A s : Known(r, s)' <=> Known(r, s)
BY DEF Known, InDoubt, Speaks

\* Two writes are never in flight together, and they are told apart.
LEMMA OneWrite ==
    ASSUME NEW r \in Holders, Flight(r)
    PROVE  /\ Pending(r, "add") # Pending(r, "remove")
           /\ late = {} \/ late = {Pending(r, "add")} \/ late = {Pending(r, "remove")}
           /\ \A c \in late : c.by = r
<1>1. Pending(r, "add") # Pending(r, "remove")
    <2>1. Pending(r, "add").cmd = "add" /\ Pending(r, "remove").cmd = "remove"
        BY DEF Pending
    <2> QED BY <2>1
<1>2. Pending(r, "add").by = r /\ Pending(r, "remove").by = r
    BY DEF Pending
<1> QED BY <1>1, <1>2 DEF Flight

\* A bootstrap run that has no write in flight goes on.
LEMMA GoesOn ==
    ASSUME NEW r \in Holders, late' = {}, ~locals'[r].importing, Accepted(r)',
           pc'[r] \notin {"idle", "preflight", "classify", "done"}
    PROVE  Alone(r)'
BY DEF Alone, Flight, Announced, Left

\* A run ends; nothing it created is left that it does not name.
LEMMA EndsClean ==
    ASSUME NEW r \in Holders, pc'[r] = "done", late' = {}, ~locals'[r].importing,
           pve' \notin Fresh(r)' \/ hold'[r] \in Fresh(r)' \/ locals'[r].leftover # "none",
           hold'[r] \in {0, pve'} \/ Known(r, hold[r])'
    PROVE  Alone(r)'
BY DEF Alone, Flight, Accepted, Announced, Left, Minting

\* A bootstrap run does not ask before its writes are answered.
LEMMA NothingInFlight ==
    ASSUME NEW r \in Holders, LoneInv(r), ~crossed,
           pc[r] \in {"preflight", "classify", "remove", "clear", "add", "removeFresh"} \/
           pc[r] = "grant" \/ (pc[r] \in {"postMint", "persist"} /\ ~locals[r].importing)
    PROVE  late = {} /\ ~locals[r].importing
<1>1. Control(r) /\ Flight(r)
    BY DEF LoneInv, BaseInv, Base, Alone
<1>2. ~locals[r].importing
    BY <1>1 DEF Control, Phases
<1> QED BY <1>1, <1>2 DEF Flight

LEMMA RefuseLone ==
    ASSUME NEW r \in Holders, LoneInv(r), NEW phase \in {"preflight", "classify"}, RefuseFrom(r, phase),
           ~crossed
    PROVE  Alone(r)'
<1>1. pc[r] = phase /\ pc'[r] = "done" /\ UNCHANGED <<pve, late, hold, run, locals, origin, told, judged>>
    BY DEF RefuseFrom, Goto, history, LoneInv, BaseInv, TypeOK
<1>2. late = {} /\ ~locals[r].importing
    BY <1>1, NothingInFlight
<1>3. Fresh(r)' = Fresh(r) /\ \A s : Known(r, s)' <=> Known(r, s)
    BY <1>1, Still, StillDoubt DEF Speaks
<1>4. Fresh(r) = {} /\ (hold[r] \in {0, pve} \/ Known(r, hold[r]))
    BY <1>1 DEF LoneInv, Alone, Accepted, Announced
<1> QED BY <1>1, <1>2, <1>3, <1>4, EndsClean

LEMMA PreflightLone ==
    ASSUME NEW r \in Holders, LoneInv(r), Preflight(r), ~crossed
    PROVE  Alone(r)'
<1> DEFINE b == (pve # 0)
<1>1. PICK new : new = [locals[r] EXCEPT !.present = b]
    OBVIOUS
<1>2. /\ pc[r] = "preflight" /\ pc'[r] = "classify" /\ locals'[r] = new
      /\ UNCHANGED <<pve, late, hold, run, origin, told, judged>>
    BY <1>1 DEF Preflight, Goto, Set, history, LoneInv, BaseInv, TypeOK
<1>3. Speaks(locals[r], new) /\ (new.present <=> pve # 0)
    <2>1. b \in BOOLEAN /\ locals[r] \in Locals
        BY LocalsStay DEF LoneInv
    <2>2. Speaks(locals[r], new) /\ new.present = b
        <3> HIDE DEF b
        <3> QED BY <1>1, <2>1, SetPresent DEF Alike, Same, Speaks
    <2> QED BY <2>2
<1>4. late = {} /\ ~locals[r].importing
    BY <1>2, NothingInFlight
<1>5. Fresh(r)' = Fresh(r) /\ \A s : Known(r, s)' <=> Known(r, s)
    BY <1>2, <1>3, Still, StillDoubt
<1>6. Fresh(r) = {} /\ (hold[r] \in {0, pve} \/ Known(r, hold[r]))
    BY <1>2 DEF LoneInv, Alone, Accepted, Announced
<1> QED BY <1>2, <1>3, <1>4, <1>5, <1>6 DEF Alone, Flight, Accepted, Announced, Left, Minting, Speaks

LEMMA ToMintLone ==
    ASSUME NEW r \in Holders, LoneInv(r), ToMint(r), ~crossed
    PROVE  Alone(r)'
<1>1. /\ pc[r] = "classify" /\ pc'[r] = "add" /\ ~locals[r].present
      /\ UNCHANGED <<pve, late, hold, run, locals, origin, told, judged>>
    BY DEF ToMint, Goto, history, LoneInv, BaseInv, TypeOK
<1>2. late = {} /\ ~locals[r].importing
    BY <1>1, NothingInFlight
<1>3. Fresh(r)' = Fresh(r) /\ Fresh(r) = {} /\ pve = 0
    BY <1>1, Still DEF LoneInv, Alone, Accepted
<1>4. Accepted(r)'
    BY <1>1, <1>3 DEF Accepted, Minting
<1> QED BY <1>1, <1>2, <1>4, GoesOn

LEMMA UndecryptableLone ==
    ASSUME NEW r \in Holders, LoneInv(r), Undecryptable(r), ~crossed
    PROVE  Alone(r)'
<1>1. /\ pc[r] = "classify" /\ pc'[r] = IF locals[r].present THEN "done" ELSE "clear"
      /\ UNCHANGED <<pve, late, hold, run, locals, origin, told, judged>>
    BY DEF Undecryptable, Goto, history, LoneInv, BaseInv, TypeOK
<1>2. late = {} /\ ~locals[r].importing
    BY <1>1, NothingInFlight
<1>3. Fresh(r)' = Fresh(r) /\ \A s : Known(r, s)' <=> Known(r, s)
    BY <1>1, Still, StillDoubt DEF Speaks
<1>4. /\ Fresh(r) = {} /\ (hold[r] \in {0, pve} \/ Known(r, hold[r]))
      /\ locals[r].present <=> pve # 0
    BY <1>1 DEF LoneInv, Alone, Accepted, Announced
<1>5. CASE locals[r].present
    BY <1>1, <1>2, <1>3, <1>4, <1>5, EndsClean
<1>6. CASE ~locals[r].present
    <2>1. Accepted(r)'
        BY <1>1, <1>3, <1>4, <1>6 DEF Accepted, Minting
    <2> QED BY <1>1, <1>2, <1>6, <2>1, GoesOn
<1> QED BY <1>5, <1>6

LEMMA ReusedLone ==
    ASSUME NEW r \in Holders, LoneInv(r), Reused(r), ~crossed
    PROVE  Alone(r)'
<1>1. PICK new : new = [locals[r] EXCEPT !.outcome = "reused"]
    OBVIOUS
<1>2. /\ pc[r] = "classify" /\ pc'[r] = "done" /\ locals'[r] = new
      /\ UNCHANGED <<pve, late, hold, run, origin, told, judged>>
    BY <1>1 DEF Reused, Goto, Set, history, LoneInv, BaseInv, TypeOK
<1>3. Speaks(locals[r], new)
    BY <1>1, LocalsStay, SetOutcome DEF Outcomes, Alike, Same, Speaks, LoneInv
<1>4. late = {} /\ ~locals[r].importing
    BY <1>2, NothingInFlight
<1>5. Fresh(r)' = Fresh(r) /\ \A s : Known(r, s)' <=> Known(r, s)
    BY <1>2, <1>3, Still, StillDoubt
<1>6. Fresh(r) = {} /\ (hold[r] \in {0, pve} \/ Known(r, hold[r]))
    BY <1>2 DEF LoneInv, Alone, Accepted, Announced
<1> QED BY <1>2, <1>3, <1>4, <1>5, <1>6, EndsClean DEF Speaks

LEMMA CondemnLone ==
    ASSUME NEW r \in Holders, LoneInv(r), Condemn(r), ~crossed
    PROVE  Alone(r)'
<1>1. /\ pc[r] = "classify" /\ pc'[r] = IF locals[r].present THEN "remove" ELSE "clear"
      /\ hold[r] # 0 /\ UNCHANGED <<pve, late, hold, run, locals, origin, told>>
    BY DEF Condemn, Goto, LoneInv, BaseInv, TypeOK
<1>2. late = {} /\ ~locals[r].importing
    BY <1>1, NothingInFlight
<1>3. Fresh(r)' = Fresh(r) /\ Fresh(r) = {} /\ (locals[r].present <=> pve # 0)
    BY <1>1, Still DEF LoneInv, Alone, Accepted
<1>4. (judged'[r] = hold[r] /\ hold[r] = pve) \/ ~locals[r].present
    BY DEF Condemn, Answers, LoneInv, BaseInv, TypeOK
<1>5. Accepted(r)'
    BY <1>1, <1>3, <1>4 DEF Accepted, Minting
<1> QED BY <1>1, <1>2, <1>5, GoesOn

\* The write has run on the node: the token is gone, or there is one and it is r's.
Landed(r, cmd) ==
    \/ cmd = "remove" /\ pve' = 0 /\ Fresh(r)' = Fresh(r)
    \/ cmd = "add" /\ pve' # 0 /\ Fresh(r)' = Fresh(r) \cup {pve'}

LEMMA LandsLone ==
    ASSUME NEW r \in Holders, BaseInv, NEW cmd, Land(cmd, r, run[r]), run' = run
    PROVE  Landed(r, cmd)
<1>1. CASE cmd = "remove" /\ pve' = 0 /\ origin' = origin
    BY <1>1, Still DEF Landed
<1>2. CASE /\ cmd = "add" /\ pve' = issued + 1
           /\ origin' = origin \cup {[secret |-> issued + 1, by |-> r, run |-> run[r]]}
    <2>1. Fresh(r)' = Fresh(r) \cup {issued + 1}
        <3>1. PICK o : o = [secret |-> issued + 1, by |-> r, run |-> run[r]]
            OBVIOUS
        <3>2. o.secret = issued + 1 /\ o.by = r /\ o.run = run[r] /\ origin' = origin \cup {o}
            BY <1>2, <3>1
        <3>3. \A s : s \in Fresh(r)' <=> \E x \in origin' : x.by = r /\ x.run = run[r] /\ s = x.secret
            BY DEF Fresh
        <3>4. \A s : s \in Fresh(r) <=> \E x \in origin : x.by = r /\ x.run = run[r] /\ s = x.secret
            BY DEF Fresh
        <3>5. \A s : s \in Fresh(r)' <=> s \in Fresh(r) \/ s = issued + 1
            BY <3>2, <3>3, <3>4
        <3> QED BY <3>5
    <2> QED BY <1>2, <2>1, Numbers DEF Landed
<1> QED BY <1>1, <1>2 DEF Land

LEMMA PveumLone ==
    ASSUME NEW r \in Holders, BaseInv, NEW cmd, NEW result, Pveum(r, cmd, result), run' = run,
           late = {}, ~crossed'
    PROVE  /\ \A c : Pending(r, c)' = Pending(r, c)
           /\ \/ result # "exit" /\ late' = {} /\ Landed(r, cmd)
              \/ result # "ok" /\ late' = {} /\ pve' = pve /\ Fresh(r)' = Fresh(r)
              \/ /\ result = "timeout" /\ late' = {Pending(r, cmd)}
                 /\ pve' = pve /\ Fresh(r)' = Fresh(r)
<1>1. \A c : Pending(r, c)' = Pending(r, c)
    BY DEF Pending
<1>2. NoEffect => pve' = pve /\ Fresh(r)' = Fresh(r)
    BY Still DEF NoEffect
<1>3. CASE Land(cmd, r, run[r]) /\ late' = late /\ result # "exit"
    BY <1>1, <1>3, LandsLone
<1>4. CASE NoEffect /\ late' = late /\ result # "ok"
    BY <1>1, <1>2, <1>4
<1>5. CASE NoEffect /\ result = "timeout" /\ late' = late \cup {[cmd |-> cmd, by |-> r, run |-> run[r]]}
    BY <1>1, <1>2, <1>5 DEF Pending
<1> QED BY <1>3, <1>4, <1>5 DEF Pveum

LEMMA RemoveHeldLone ==
    ASSUME NEW r \in Holders, LoneInv(r), NEW result, pc[r] = "remove", RemoveHeld(r, result),
           ~crossed, ~crossed'
    PROVE  Alone(r)'
<1>1. /\ locals[r] \in Locals /\ hold[r] # 0 /\ pve = hold[r] /\ judged[r] = hold[r] /\ Fresh(r) = {}
      /\ BaseInv
    BY LocalsStay DEF LoneInv, BaseInv, Base, Control, Alone, Accepted
<1>2. Pveum(r, "remove", result) /\ UNCHANGED <<hold, run, judged, told>>
    BY DEF RemoveHeld
<1>3. late = {} /\ ~locals[r].importing
    BY NothingInFlight
<1>4. /\ \A c : Pending(r, c)' = Pending(r, c)
      /\ \/ result # "exit" /\ late' = {} /\ Landed(r, "remove")
         \/ result # "ok" /\ late' = {} /\ pve' = pve /\ Fresh(r)' = Fresh(r)
         \/ /\ result = "timeout" /\ late' = {Pending(r, "remove")}
            /\ pve' = pve /\ Fresh(r)' = Fresh(r)
    BY <1>1, <1>2, <1>3, PveumLone
<1>5. CASE result = "ok" /\ Goto(r, "remove", "clear") /\ Set(r, Removed(locals[r]))
    <2>1. pc'[r] = "clear" /\ locals'[r] = Removed(locals[r])
        BY <1>1, <1>5 DEF Goto, Set, BaseInv, TypeOK
    <2>2. ~locals'[r].importing
        BY <1>1, <1>3, <2>1, SetRemoved DEF Alike, Same
    <2>3. late' = {} /\ pve' = 0 /\ Fresh(r)' = {}
        BY <1>1, <1>4, <1>5 DEF Landed
    <2>4. Accepted(r)'
        BY <2>1, <2>3 DEF Accepted, Minting
    <2> QED BY <2>1, <2>2, <2>3, <2>4, GoesOn
<1>6. CASE result = "exit" /\ Goto(r, "remove", "done") /\ UNCHANGED locals
    <2>1. pc'[r] = "done" /\ late' = {} /\ pve' = pve /\ Fresh(r)' = {}
        BY <1>1, <1>4, <1>6 DEF Goto, BaseInv, TypeOK
    <2> QED BY <1>1, <1>2, <1>3, <1>6, <2>1, EndsClean
<1>7. CASE /\ result \in {"plain", "timeout"} /\ Goto(r, "remove", "rereadRemove")
           /\ Set(r, [locals[r] EXCEPT !.err = result])
    <2>1. PICK new : new = [locals[r] EXCEPT !.err = result]
        OBVIOUS
    <2>2. new.err = result /\ ~new.importing
        BY <1>1, <1>3, <1>7, <2>1, SetErr DEF Alike, Same, Errors
    <2>3. pc'[r] = "rereadRemove" /\ locals'[r] = new
        BY <1>1, <1>7, <2>1 DEF Goto, Set, BaseInv, TypeOK
    <2>4. pve' \in {0, hold[r]} /\ Fresh(r)' = {}
        BY <1>1, <1>4 DEF Landed
    <2>5. Accepted(r)'
        BY <1>1, <1>2, <2>3, <2>4 DEF Accepted, Minting
    <2>6. late' = {} \/ (late' = {Pending(r, "remove")} /\ pve' # 0 /\ result = "timeout")
        BY <1>1, <1>4
    <2>7. Pending(r, "add") # Pending(r, "remove")
        BY OneWrite DEF LoneInv, Alone
    <2>8. Flight(r)'
        BY <1>4, <2>2, <2>3, <2>6, <2>7 DEF Flight
    <2> QED BY <2>2, <2>3, <2>5, <2>8 DEF Alone, Announced, Left
<1> QED BY <1>5, <1>6, <1>7 DEF RemoveHeld

LEMMA PriorUnknownLone ==
    ASSUME NEW r \in Holders, LoneInv(r), NEW cleared \in BOOLEAN, PriorUnknown(r, cleared), ~crossed,
           UNCHANGED <<pve, issued, late, other, run, history>>
    PROVE  Alone(r)'
<1>1. /\ pc[r] = "rereadRemove" /\ locals[r] \in Locals /\ BaseInv
    BY LocalsStay DEF LoneInv, PriorUnknown, FailWith, Goto
<1>2. /\ ~locals[r].importing /\ locals[r].was = hold[r] /\ pve \in {0, hold[r]} /\ judged[r] = hold[r]
      /\ Fresh(r) = {} /\ Flight(r) /\ Pending(r, "add") \notin late
    BY <1>1 DEF LoneInv, BaseInv, Base, Control, Phases, Alone, Accepted, Flight
<1>3. PICK v \in {"cleared", "stale"} : v = IF cleared THEN "cleared" ELSE "stale"
    OBVIOUS
<1>4. PICK mid : mid = [locals[r] EXCEPT !.removed = TRUE, !.prior = "unknown", !.roster = v]
    OBVIOUS
<1>5. pc'[r] = "done" /\ locals'[r] = Failed(mid) /\ hold'[r] \in {0, hold[r]}
    BY <1>1, <1>3, <1>4 DEF PriorUnknown, FailWith, Goto, Set, BaseInv, TypeOK
<1>6. Alike(locals[r], mid) /\ mid.prior = "unknown" /\ mid \in Locals
    <2>1. ASSUME NEW l \in Locals, NEW m,
                 m = [l EXCEPT !.removed = TRUE, !.prior = "unknown", !.roster = v]
          PROVE  Alike(l, m) /\ m.prior = "unknown"
        BY <2>1, SetUnknown
    <2>2. Alike(locals[r], mid) /\ mid.prior = "unknown"
        BY <1>1, <1>4, <2>1
    <2> QED BY <2>2 DEF Alike, Same
<1>7. ~locals'[r].importing /\ locals'[r].was = hold[r] /\ locals'[r].prior = "unknown"
    BY <1>2, <1>5, <1>6, SetFailed DEF Alike, Same
<1>8. \A c : Pending(r, c)' = Pending(r, c)
    BY DEF Pending
<1>9. hold[r] \in InDoubt(r)' /\ Fresh(r)' = {}
    BY <1>2, <1>7, Still DEF InDoubt, history
<1>10. \A s : s = hold[r] => Known(r, s)'
    BY <1>9 DEF Known
<1>11. Flight(r)' /\ Accepted(r)'
    BY <1>2, <1>5, <1>8 DEF Flight, Accepted, Minting
<1>12. Announced(r)'
    <2>1. Pending(r, "remove") \in late => pve = hold[r]
        BY <1>2 DEF Flight
    <2>2. Pending(r, "remove") \in late => Known(r, pve)'
        BY <1>9, <2>1 DEF Known, history
    <2>3. hold'[r] = 0 \/ Known(r, hold[r])'
        BY <1>5, <1>9 DEF Known
    <2> QED BY <1>2, <1>5, <1>7, <1>8, <2>1, <2>2, <2>3 DEF Announced, history
<1>13. Left(r)'
    BY <1>2, <1>8, <1>9 DEF Left
<1> QED BY <1>11, <1>12, <1>13 DEF Alone

LEMMA RereadRemoveLone ==
    ASSUME NEW r \in Holders, LoneInv(r), RereadRemove(r), ~crossed
    PROVE  Alone(r)'
<1>1. /\ pc[r] = "rereadRemove" /\ locals[r] \in Locals /\ BaseInv
      /\ UNCHANGED <<pve, issued, late, other, run, history>>
    BY LocalsStay DEF LoneInv, RereadRemove, PriorUnknown, FailWith, Goto
<1>2. /\ ~locals[r].importing /\ locals[r].was = hold[r] /\ pve \in {0, hold[r]}
      /\ Fresh(r) = {} /\ Flight(r) /\ Pending(r, "add") \notin late
    BY <1>1 DEF LoneInv, BaseInv, Base, Control, Phases, Alone, Accepted, Flight
<1>3. Fresh(r)' = {}
    BY <1>1, <1>2, Still DEF history
<1>4. CASE pve = 0 /\ Goto(r, "rereadRemove", "clear") /\ Set(r, Removed(locals[r])) /\ UNCHANGED hold
    <2>1. pc'[r] = "clear" /\ locals'[r] = Removed(locals[r])
        BY <1>1, <1>4 DEF Goto, Set, BaseInv, TypeOK
    <2>2. ~locals'[r].importing
        BY <1>1, <1>2, <2>1, SetRemoved DEF Alike, Same
    <2>3. late = {}
        BY <1>2, <1>4 DEF Flight
    <2>4. Accepted(r)'
        BY <1>1, <1>3, <1>4, <2>1 DEF Accepted, Minting
    <2> QED BY <1>1, <2>1, <2>2, <2>3, <2>4, GoesOn
<1>5. CASE /\ pve # 0 /\ locals[r].err = "plain" /\ Goto(r, "rereadRemove", "done")
           /\ UNCHANGED <<hold, locals>>
    <2>1. pc'[r] = "done" /\ late = {}
        BY <1>1, <1>2, <1>5 DEF Goto, Flight, BaseInv, TypeOK
    <2> QED BY <1>1, <1>2, <1>3, <1>5, <2>1, EndsClean
<1>6. CASE \E cleared \in BOOLEAN : PriorUnknown(r, cleared)
    BY <1>1, <1>6, PriorUnknownLone
<1> QED BY <1>4, <1>5, <1>6 DEF RereadRemove, ReadsToken

LEMMA ClearLone ==
    ASSUME NEW r \in Holders, LoneInv(r), Clear(r), ~crossed
    PROVE  Alone(r)'
<1>1. PICK new : new = [locals[r] EXCEPT !.roster = "cleared"]
    OBVIOUS
<1>2. /\ pc[r] = "clear" /\ pc'[r] = "add" /\ locals'[r] = new /\ locals[r] \in Locals
      /\ UNCHANGED <<pve, late, run, origin>>
    BY <1>1, LocalsStay DEF Clear, Goto, Set, history, LoneInv, BaseInv, TypeOK
<1>3. late = {} /\ ~locals[r].importing
    BY <1>2, NothingInFlight
<1>4. ~new.importing
    BY <1>1, <1>2, <1>3, SetRoster DEF Alike, Same
<1>5. Fresh(r)' = {} /\ pve = 0
    BY <1>2, Still DEF LoneInv, Alone, Accepted
<1>6. Accepted(r)'
    BY <1>2, <1>5 DEF Accepted, Minting
<1> QED BY <1>2, <1>3, <1>4, <1>6, GoesOn

LEMMA ClearFailsLone ==
    ASSUME NEW r \in Holders, LoneInv(r), ClearFails(r), ~crossed
    PROVE  Alone(r)'
<1>1. PICK mid : mid = [locals[r] EXCEPT !.roster = "stale"]
    OBVIOUS
<1>2. /\ pc[r] = "clear" /\ pc'[r] = "done" /\ locals'[r] = Failed(mid) /\ locals[r] \in Locals
      /\ UNCHANGED <<pve, late, hold, run, origin>>
    BY <1>1, LocalsStay DEF ClearFails, FailWith, Goto, Set, history, LoneInv, BaseInv, TypeOK
<1>3. late = {} /\ ~locals[r].importing
    BY <1>2, NothingInFlight
<1>4. locals[r].was = hold[r] /\ Fresh(r) = {}
    BY <1>2 DEF LoneInv, BaseInv, Base, Control, Alone, Accepted
<1>5. Alike(locals[r], mid) /\ mid.roster = "stale" /\ mid \in Locals
    BY <1>1, <1>2, SetRoster DEF Alike, Same
<1>6. ~locals'[r].importing /\ locals'[r].was = hold[r] /\ locals'[r].roster = "stale"
    BY <1>2, <1>3, <1>4, <1>5, SetFailed DEF Alike, Same
<1>7. Known(r, hold[r])' /\ Fresh(r)' = {}
    BY <1>2, <1>4, <1>6, Still DEF Known, InDoubt
<1> QED BY <1>2, <1>3, <1>6, <1>7, EndsClean

LEMMA FreshIsNew ==
    ASSUME NEW r \in Holders, BaseInv
    PROVE  0 \notin Fresh(r) /\ 1 \notin Fresh(r)
BY FreshType, Numbers

LEMMA AddLone ==
    ASSUME NEW r \in Holders, LoneInv(r), NEW result, NEW parsed, pc[r] = "add", Add(r, result, parsed),
           ~crossed, ~crossed'
    PROVE  Alone(r)'
<1>1. /\ locals[r] \in Locals /\ hold[r] = 0 /\ pve = 0 /\ Fresh(r) = {} /\ BaseInv
    BY LocalsStay DEF LoneInv, BaseInv, Base, Control, Minting, Alone, Accepted
<1>2. Pveum(r, "add", result) /\ UNCHANGED <<hold, run, judged, told>>
    BY DEF Add
<1>3. late = {} /\ ~locals[r].importing
    BY NothingInFlight
<1>4. /\ \A c : Pending(r, c)' = Pending(r, c)
      /\ \/ result # "exit" /\ late' = {} /\ Landed(r, "add")
         \/ result # "ok" /\ late' = {} /\ pve' = pve /\ Fresh(r)' = Fresh(r)
         \/ /\ result = "timeout" /\ late' = {Pending(r, "add")}
            /\ pve' = pve /\ Fresh(r)' = Fresh(r)
    BY <1>1, <1>2, <1>3, PveumLone
<1>5. CASE result = "ok" /\ Goto(r, "add", "grant") /\ Set(r, [locals[r] EXCEPT !.secret = pve'])
    <2>1. PICK new : new = [locals[r] EXCEPT !.secret = pve']
        OBVIOUS
    <2>2. pve' \in 0 .. MaxMints
        BY <1>1, <1>2, LocalsStay, PveumTurn DEF BaseInv, Base, Control, Turn, Phases
    <2>3. ~new.importing /\ new.secret = pve'
        BY <1>1, <1>3, <2>1, <2>2, SetSecret DEF Same
    <2>4. pc'[r] = "grant" /\ locals'[r] = new
        BY <1>1, <1>5, <2>1 DEF Goto, Set, BaseInv, TypeOK
    <2>5. late' = {} /\ pve' \in Fresh(r)'
        BY <1>4, <1>5 DEF Landed
    <2>6. Accepted(r)'
        BY <2>3, <2>4, <2>5 DEF Accepted, Minting
    <2> QED BY <2>3, <2>4, <2>5, <2>6, GoesOn
<1>6. CASE result = "ok" /\ Goto(r, "add", "removeFresh") /\ UNCHANGED locals
    <2>1. pc'[r] = "removeFresh"
        BY <1>1, <1>6 DEF Goto, BaseInv, TypeOK
    <2>2. late' = {} /\ pve' \in Fresh(r)'
        BY <1>4, <1>6 DEF Landed
    <2>3. Accepted(r)'
        BY <2>1, <2>2 DEF Accepted
    <2> QED BY <1>3, <1>6, <2>1, <2>2, <2>3, GoesOn
<1>7. CASE result = "exit" /\ FailWith(r, "add", locals[r])
    <2>1. pc'[r] = "done" /\ locals'[r] = Failed(locals[r])
        BY <1>1, <1>7 DEF FailWith, Goto, Set, BaseInv, TypeOK
    <2>2. ~locals'[r].importing
        BY <1>1, <1>3, <2>1, SetFailed DEF Alike, Same
    <2>3. late' = {} /\ Fresh(r)' = {} /\ hold'[r] = 0
        BY <1>1, <1>2, <1>4, <1>7
    <2> QED BY <2>1, <2>2, <2>3, EndsClean
<1>8. CASE /\ result \in {"plain", "timeout"} /\ Goto(r, "add", "rereadAdd")
           /\ Set(r, [locals[r] EXCEPT !.err = result])
    <2>1. PICK new : new = [locals[r] EXCEPT !.err = result]
        OBVIOUS
    <2>2. new.err = result /\ ~new.importing
        BY <1>1, <1>3, <1>8, <2>1, SetErr DEF Alike, Same, Errors
    <2>3. pc'[r] = "rereadAdd" /\ locals'[r] = new
        BY <1>1, <1>8, <2>1 DEF Goto, Set, BaseInv, TypeOK
    <2>4. pve' \in {0} \cup Fresh(r)'
        BY <1>1, <1>4 DEF Landed
    <2>5. Accepted(r)'
        BY <2>3, <2>4 DEF Accepted, Minting
    <2>6. late' = {} \/ (late' = {Pending(r, "add")} /\ pve' = 0 /\ result = "timeout")
        BY <1>1, <1>4
    <2>7. Pending(r, "add") # Pending(r, "remove")
        BY OneWrite DEF LoneInv, Alone
    <2>8. Flight(r)'
        BY <1>4, <2>2, <2>3, <2>6, <2>7 DEF Flight
    <2> QED BY <2>2, <2>3, <2>5, <2>8 DEF Alone, Announced, Left
<1> QED BY <1>5, <1>6, <1>7, <1>8 DEF Add

LEMMA RereadAddLone ==
    ASSUME NEW r \in Holders, LoneInv(r), RereadAdd(r), ~crossed
    PROVE  Alone(r)'
<1>1. /\ pc[r] = "rereadAdd" /\ locals[r] \in Locals /\ BaseInv
      /\ UNCHANGED <<pve, issued, late, hold, other, run, history>>
    BY LocalsStay DEF LoneInv, RereadAdd, FailWith, Goto
<1>2. /\ ~locals[r].importing /\ hold[r] = 0 /\ pve \in {0} \cup Fresh(r)
      /\ Flight(r) /\ Pending(r, "remove") \notin late
    BY <1>1 DEF LoneInv, BaseInv, Base, Control, Minting, Phases, Alone, Accepted, Flight
<1>3. Fresh(r)' = Fresh(r) /\ (\A c : Pending(r, c)' = Pending(r, c)) /\ 0 \notin Fresh(r)
    BY <1>1, Still, FreshIsNew DEF history
<1>4. CASE pve # 0 /\ Goto(r, "rereadAdd", "removeFresh") /\ UNCHANGED locals
    <2>1. pc'[r] = "removeFresh" /\ late = {}
        BY <1>1, <1>2, <1>4 DEF Goto, Flight, BaseInv, TypeOK
    <2>2. Accepted(r)'
        BY <1>1, <1>2, <1>3, <1>4, <2>1 DEF Accepted
    <2> QED BY <1>1, <1>2, <1>4, <2>1, <2>2, GoesOn
<1>5. CASE FailWith(r, "rereadAdd", [locals[r] EXCEPT !.leftover = "may_exist"])
    <2>1. PICK mid : mid = [locals[r] EXCEPT !.leftover = "may_exist"]
        OBVIOUS
    <2>2. pc'[r] = "done" /\ locals'[r] = Failed(mid)
        BY <1>1, <1>5, <2>1 DEF FailWith, Goto, Set, BaseInv, TypeOK
    <2>3. Alike(locals[r], mid) /\ mid.leftover = "may_exist" /\ mid \in Locals
        BY <1>1, <2>1, SetLeftover DEF Alike, Same
    <2>4. ~locals'[r].importing /\ locals'[r].leftover = "may_exist"
        BY <1>2, <2>2, <2>3, SetFailed DEF Alike, Same
    <2>5. Flight(r)'
        BY <1>1, <1>2, <1>3, <2>2 DEF Flight
    <2>6. Announced(r)'
        BY <1>1, <1>2, <1>3, <2>2, <2>4 DEF Announced
    <2> QED BY <2>2, <2>4, <2>5, <2>6 DEF Alone, Accepted, Minting, Left
<1>6. CASE pve = 0 /\ locals[r].err = "plain" /\ FailWith(r, "rereadAdd", locals[r])
    <2>1. pc'[r] = "done" /\ locals'[r] = Failed(locals[r]) /\ late = {}
        BY <1>1, <1>2, <1>6 DEF FailWith, Goto, Set, Flight, BaseInv, TypeOK
    <2>2. ~locals'[r].importing
        BY <1>1, <1>2, <2>1, SetFailed DEF Alike, Same
    <2> QED BY <1>1, <1>2, <1>3, <1>6, <2>1, <2>2, EndsClean
<1> QED BY <1>4, <1>5, <1>6 DEF RereadAdd, ReadsToken

\* A run that minted a token drops it, or goes on with it.
LEMMA KeepsFresh ==
    ASSUME NEW r \in Holders, LoneInv(r), ~crossed, Minting(r), NEW new,
           pc[r] \in {"grant", "postMint", "persist"},
           pc'[r] \in {"postMint", "persist", "removeFresh"}, locals'[r] = new,
           ~new.importing, new.secret = locals[r].secret,
           UNCHANGED <<pve, late, run, origin>>
    PROVE  Alone(r)'
<1>1. late = {} /\ pve = locals[r].secret /\ pve \in Fresh(r)
    <2>1. Control(r) /\ Accepted(r)
        BY DEF LoneInv, BaseInv, Base, Alone
    <2>2. ~locals[r].importing
        BY <2>1 DEF Minting, Control, Phases
    <2> QED BY <2>1, <2>2, NothingInFlight DEF Accepted
<1>2. Fresh(r)' = Fresh(r)
    BY Still
<1>3. Accepted(r)'
    BY <1>1, <1>2 DEF Accepted, Minting
<1> QED BY <1>1, <1>3, GoesOn

LEMMA GrantAllLone ==
    ASSUME NEW r \in Holders, LoneInv(r), GrantAll(r), ~crossed
    PROVE  Alone(r)'
<1>1. /\ pc[r] = "grant" /\ locals[r] \in Locals /\ BaseInv /\ UNCHANGED <<pve, late, run, origin>>
    BY LocalsStay DEF LoneInv, GrantAll, Goto, history
<1>2. Minting(r) /\ ~locals[r].importing
    BY <1>1, NothingInFlight DEF Minting
<1>3. CASE Goto(r, "grant", "postMint") /\ Set(r, [locals[r] EXCEPT !.attempt = 1])
    <2>1. PICK new : new = [locals[r] EXCEPT !.attempt = 1]
        OBVIOUS
    <2>2. pc'[r] = "postMint" /\ locals'[r] = new
        BY <1>1, <1>3, <2>1 DEF Goto, Set, BaseInv, TypeOK
    <2>3. ~new.importing /\ new.secret = locals[r].secret
        BY <1>1, <1>2, <2>1, SetAttempt, RotationAssumption DEF Same
    <2> QED BY <1>1, <1>2, <2>2, <2>3, KeepsFresh
<1>4. CASE Goto(r, "grant", "removeFresh") /\ UNCHANGED locals
    <2>1. pc'[r] = "removeFresh"
        BY <1>1, <1>4 DEF Goto, BaseInv, TypeOK
    <2> QED BY <1>1, <1>2, <1>4, <2>1, KeepsFresh
<1> QED BY <1>3, <1>4 DEF GrantAll

\* An import goes on, or forgets its secret; it keeps one only when PVE accepts it.
LEMMA ImportGoesOn ==
    ASSUME NEW r \in Holders, LoneInv(r), ~crossed, pc[r] \in {"postMint", "persist"}, locals[r].importing,
           NEW new, pc'[r] \in {"postMint", "persist", "done"}, locals'[r] = new,
           Speaks(locals[r], new), new.secret = locals[r].secret,
           pc'[r] = "persist" => locals[r].secret = pve,
           UNCHANGED <<pve, late, hold, run, origin, judged, told>>
    PROVE  Alone(r)'
<1>1. Flight(r) /\ Announced(r)
    BY DEF LoneInv, Alone
<1>2. /\ \A c : Pending(r, c)' = Pending(r, c)
      /\ \A s : Known(r, s)' <=> Known(r, s)
      /\ new.importing
    BY Still, StillDoubt DEF Speaks
<1>3. Flight(r)'
    BY <1>1, <1>2 DEF Flight
<1>4. Accepted(r)' /\ Left(r)'
    BY <1>2 DEF Accepted, Minting, Left
<1>5. Announced(r)'
    BY <1>1, <1>2 DEF Announced
<1> QED BY <1>3, <1>4, <1>5 DEF Alone

\* Whatever r checks, it goes on with it or drops it.
LEMMA ChecksLone ==
    ASSUME NEW r \in Holders, LoneInv(r), ~crossed, pc[r] \in {"postMint", "persist"},
           NEW new, locals'[r] = new, Speaks(locals[r], new), new.secret = locals[r].secret,
           pc'[r] \in {"postMint", "persist", Drop(r)},
           pc'[r] = "persist" => ~locals[r].importing \/ locals[r].secret = pve,
           UNCHANGED <<pve, late, hold, run, origin, judged, told>>
    PROVE  Alone(r)'
<1>1. CASE locals[r].importing
    BY <1>1, ImportGoesOn DEF Drop
<1>2. CASE ~locals[r].importing
    BY <1>2, KeepsFresh DEF Drop, Minting, Speaks
<1> QED BY <1>1, <1>2

LEMMA PostMintLone ==
    ASSUME NEW r \in Holders, LoneInv(r), NEW v, PostMint(r, v), ~crossed
    PROVE  Alone(r)'
<1>1. /\ pc[r] = "postMint" /\ locals[r] \in Locals /\ BaseInv
      /\ UNCHANGED <<pve, late, hold, run, origin, judged, told>>
    BY LocalsStay DEF PostMint, Goto, LoneInv
<1>2. CASE /\ UNCHANGED locals
           /\ \/ Goto(r, "postMint", Drop(r))
              \/ v = "ok" /\ Goto(r, "postMint", "persist")
              \/ ~locals[r].importing /\ Goto(r, "postMint", "persist")
              \/ locals[r].importing /\ Goto(r, "postMint", "done")
    <2>1. /\ pc'[r] \in {"persist", Drop(r)}
          /\ pc'[r] = "persist" => ~locals[r].importing \/ v = "ok"
        BY <1>1, <1>2 DEF Goto, Drop, BaseInv, TypeOK
    <2>2. v = "ok" => locals[r].secret = pve
        BY DEF PostMint, Answers
    <2> QED BY <1>1, <1>2, <2>1, <2>2, ChecksLone DEF Speaks
<1>3. CASE ~LastAttempt(r) /\ Goto(r, "postMint", "postMint") /\ Retry(r)
    <2>1. PICK new : new = [locals[r] EXCEPT !.saw = TRUE, !.attempt = @ + 1]
        OBVIOUS
    <2>2. locals[r].attempt + 1 \in 0 .. Attempts
        BY <1>1, <1>3, Numbers DEF LastAttempt
    <2>3. Speaks(locals[r], new) /\ new.secret = locals[r].secret
        BY <1>1, <2>1, <2>2, SetRetry DEF Speaks, Same
    <2>4. pc'[r] = "postMint" /\ locals'[r] = new
        BY <1>1, <1>3, <2>1 DEF Goto, Retry, Set, BaseInv, TypeOK
    <2> QED BY <1>1, <2>3, <2>4, ChecksLone
<1> QED BY <1>2, <1>3 DEF PostMint

LEMMA DropLone ==
    ASSUME NEW r \in Holders, LoneInv(r), PostMintCancelled(r) \/ PersistFails(r), ~crossed
    PROVE  Alone(r)'
<1>1. /\ pc[r] \in {"postMint", "persist"} /\ pc'[r] = Drop(r)
      /\ UNCHANGED <<pve, late, hold, run, locals, origin, judged, told>>
    BY DEF PostMintCancelled, PersistFails, Goto, history, LoneInv, BaseInv, TypeOK
<1>2. Drop(r) # "persist"
    BY DEF Drop
<1> QED BY <1>1, <1>2, ChecksLone DEF Speaks

LEMMA PersistLone ==
    ASSUME NEW r \in Holders, LoneInv(r), Persist(r), ~crossed
    PROVE  Alone(r)'
<1>1. /\ pc[r] = "persist" /\ pc'[r] = "done" /\ locals[r] \in Locals /\ hold'[r] = locals[r].secret
      /\ UNCHANGED <<pve, late, run, origin, judged, told>>
    BY LocalsStay DEF Persist, Goto, history, LoneInv, BaseInv, TypeOK
<1>2. locals'[r].secret = locals[r].secret /\ Speaks(locals[r], locals'[r])
    <2>1. PICK l \in Locals : l = locals[r]
        BY <1>1
    <2>2. PICK o, b : locals'[r] = [l EXCEPT !.orphan = b, !.outcome = o]
        BY <2>1 DEF Persist, Set, LoneInv, BaseInv, TypeOK
    <2>3. PICK m : m = [l EXCEPT !.orphan = b, !.outcome = o]
        OBVIOUS
    <2>4. m.secret = l.secret /\ Speaks(l, m)
        BY <2>3 DEF Locals, Speaks
    <2> QED BY <2>1, <2>2, <2>3, <2>4
<1>3. CASE ~locals[r].importing
    <2>1. late = {} /\ pve = locals[r].secret /\ pve \in Fresh(r)
        BY <1>1, <1>3, NothingInFlight DEF LoneInv, Alone, Accepted, Minting
    <2>2. Fresh(r)' = Fresh(r)
        BY <1>1, Still
    <2> QED BY <1>1, <1>2, <1>3, <2>1, <2>2, EndsClean DEF Speaks
<1>4. CASE locals[r].importing
    <2>1. Flight(r) /\ Announced(r)
        BY DEF LoneInv, Alone
    <2>2. /\ \A c : Pending(r, c)' = Pending(r, c)
          /\ \A s : Known(r, s)' <=> Known(r, s)
          /\ locals'[r].importing
        BY <1>1, <1>2, <1>4, Still, StillDoubt DEF Speaks
    <2>3. Flight(r)'
        BY <1>1, <2>1, <2>2, <1>4 DEF Flight
    <2>4. Accepted(r)' /\ Left(r)'
        BY <1>1, <2>2 DEF Accepted, Minting, Left
    <2>5. Announced(r)'
        BY <1>1, <1>2, <1>4, <2>1, <2>2 DEF Announced
    <2> QED BY <2>3, <2>4, <2>5 DEF Alone
<1> QED BY <1>3, <1>4

LEMMA RemoveFreshLone ==
    ASSUME NEW r \in Holders, LoneInv(r), NEW result, pc[r] = "removeFresh", RemoveFresh(r, result),
           result \in Results, ~crossed, ~crossed'
    PROVE  Alone(r)'
<1>1. /\ locals[r] \in Locals /\ hold[r] = 0 /\ pve \in Fresh(r) /\ BaseInv /\ 0 \notin Fresh(r)
    BY LocalsStay, FreshIsNew DEF LoneInv, BaseInv, Base, Control, Minting, Alone, Accepted
<1>2. Pveum(r, "remove", result) /\ UNCHANGED <<hold, run, judged, told>>
    BY DEF RemoveFresh
<1>3. late = {} /\ ~locals[r].importing
    BY NothingInFlight
<1>4. /\ \A c : Pending(r, c)' = Pending(r, c)
      /\ \/ result # "exit" /\ late' = {} /\ Landed(r, "remove")
         \/ result # "ok" /\ late' = {} /\ pve' = pve /\ Fresh(r)' = Fresh(r)
         \/ /\ result = "timeout" /\ late' = {Pending(r, "remove")}
            /\ pve' = pve /\ Fresh(r)' = Fresh(r)
    BY <1>1, <1>2, <1>3, PveumLone
<1>5. CASE result = "ok" /\ FailWith(r, "removeFresh", locals[r])
    <2>1. pc'[r] = "done" /\ locals'[r] = Failed(locals[r])
        BY <1>1, <1>5 DEF FailWith, Goto, Set, BaseInv, TypeOK
    <2>2. ~locals'[r].importing
        BY <1>1, <1>3, <2>1, SetFailed DEF Alike, Same
    <2>3. late' = {} /\ pve' = 0 /\ 0 \notin Fresh(r)' /\ hold'[r] = 0
        BY <1>1, <1>2, <1>4, <1>5 DEF Landed
    <2> QED BY <2>1, <2>2, <2>3, EndsClean
<1>6. CASE /\ result # "ok" /\ Goto(r, "removeFresh", "readFresh")
           /\ Set(r, [locals[r] EXCEPT !.err = IF result = "exit" THEN "none" ELSE result])
    <2>1. PICK e \in Errors : e = IF result = "exit" THEN "none" ELSE result
        BY <1>6 DEF Errors, Results
    <2>2. PICK new : new = [locals[r] EXCEPT !.err = e]
        OBVIOUS
    <2>3. new.err = e /\ ~new.importing
        BY <1>1, <1>3, <2>2, SetErr DEF Alike, Same
    <2>4. pc'[r] = "readFresh" /\ locals'[r] = new
        BY <1>1, <1>6, <2>1, <2>2 DEF Goto, Set, BaseInv, TypeOK
    <2>5. pve' \in {0} \cup Fresh(r)'
        BY <1>1, <1>4 DEF Landed
    <2>6. Accepted(r)'
        BY <2>4, <2>5 DEF Accepted, Minting
    <2>7. late' = {} \/ (late' = {Pending(r, "remove")} /\ pve' # 0 /\ e = "timeout")
        BY <1>1, <1>4, <2>1
    <2>8. Pending(r, "add") # Pending(r, "remove")
        BY OneWrite DEF LoneInv, Alone
    <2>9. Flight(r)'
        BY <1>4, <2>3, <2>4, <2>7, <2>8 DEF Flight
    <2> QED BY <2>3, <2>4, <2>6, <2>9 DEF Alone, Announced, Left
<1> QED BY <1>5, <1>6 DEF RemoveFresh

LEMMA ReadFreshLone ==
    ASSUME NEW r \in Holders, LoneInv(r), ReadFresh(r), ~crossed
    PROVE  Alone(r)'
<1>1. /\ pc[r] = "readFresh" /\ locals[r] \in Locals /\ BaseInv
      /\ UNCHANGED <<pve, late, hold, run, origin, judged, told>>
    BY LocalsStay DEF LoneInv, ReadFresh, FailWith, Goto, history
<1>2. /\ ~locals[r].importing /\ hold[r] = 0 /\ pve \in {0} \cup Fresh(r)
      /\ Flight(r) /\ Pending(r, "add") \notin late
    BY <1>1 DEF LoneInv, BaseInv, Base, Control, Minting, Phases, Alone, Accepted, Flight
<1>3. Fresh(r)' = Fresh(r) /\ (\A c : Pending(r, c)' = Pending(r, c)) /\ 0 \notin Fresh(r) /\ 1 \notin Fresh(r)
    BY <1>1, Still, FreshIsNew
<1>4. PICK seen \in {"absent", "present", "unreadable"} :
          /\ ReadsToken(seen)
          /\ FailWith(r, "readFresh",
                [locals[r] EXCEPT
                   !.leftover = IF seen = "absent" THEN "none"
                                ELSE IF seen = "unreadable" \/ locals[r].err = "timeout"
                                     THEN "may_exist" ELSE "exists"])
    BY DEF ReadFresh
<1>5. PICK v \in {"none", "exists", "may_exist"} :
          v = IF seen = "absent" THEN "none"
              ELSE IF seen = "unreadable" \/ locals[r].err = "timeout" THEN "may_exist" ELSE "exists"
    OBVIOUS
<1>6. PICK mid : mid = [locals[r] EXCEPT !.leftover = v]
    OBVIOUS
<1>7. pc'[r] = "done" /\ locals'[r] = Failed(mid)
    BY <1>1, <1>4, <1>5, <1>6 DEF FailWith, Goto, Set, BaseInv, TypeOK
<1>8. Alike(locals[r], mid) /\ mid.leftover = v /\ mid \in Locals
    BY <1>1, <1>6, SetLeftover DEF Alike, Same
<1>9. ~locals'[r].importing /\ locals'[r].leftover = v
    BY <1>2, <1>7, <1>8, SetFailed DEF Alike, Same
<1>10. Flight(r)' /\ Accepted(r)'
    BY <1>1, <1>2, <1>3, <1>7 DEF Flight, Accepted, Minting
<1>11. Announced(r)'
    <2>1. Pending(r, "remove") \in late => pve \notin {1, hold[r]}
        BY <1>2, <1>3 DEF Flight
    <2> QED BY <1>1, <1>2, <1>3, <1>7, <1>9, <2>1 DEF Announced
<1>12. Left(r)'
    <2>1. v = "none" => pve = 0
        BY <1>4, <1>5 DEF ReadsToken
    <2> QED BY <1>1, <1>2, <1>3, <1>9, <2>1 DEF Left
<1> QED BY <1>10, <1>11, <1>12 DEF Alone

\* Between runs, and in an import, what is in doubt has been said.
LEMMA Said ==
    ASSUME NEW r \in Holders, BaseInv, pc[r] = "idle" \/ locals[r].importing
    PROVE  InDoubt(r) = {}
<1>1. locals[r].prior = "none" /\ locals[r].roster = "none" /\ locals[r].leftover = "none"
    BY NoLocalsType DEF BaseInv, Base, Control
<1> QED BY <1>1 DEF InDoubt

LEMMA StartLone ==
    ASSUME NEW r \in Holders, LoneInv(r), Start(r), ~crossed, ~crossed'
    PROVE  Alone(r)'
<1>1. PICK new : new = [NoLocals EXCEPT !.was = hold[r]]
    OBVIOUS
<1>2. /\ pc[r] = "idle" /\ pc'[r] = "preflight" /\ locals'[r] = new /\ run'[r] = run[r] + 1 /\ BaseInv
      /\ hold[r] \in 0 .. MaxMints /\ UNCHANGED <<pve, late, hold, origin, judged, told>>
    BY <1>1 DEF Start, Goto, Set, LoneInv, BaseInv, TypeOK
<1>3. ~new.importing
    BY <1>1, <1>2, SetStarted
<1>4. late = {}
    <2>1. ~ \E c \in late : c.by = r
        BY DEF Start
    <2> QED BY <2>1, OneWrite DEF LoneInv, Alone
<1>5. Fresh(r)' = {}
    <2>1. \A o \in origin : o.by = r => o.run # run'[r]
        <3>1. \A o \in origin : o.run \in Nat /\ o.run <= run[o.by]
            BY <1>2, RotationAssumption DEF BaseInv, TypeOK, Traced
        <3>2. run[r] \in Nat
            BY <1>2, Numbers
        <3> QED BY <1>2, <3>1, <3>2
    <2> QED BY <1>2, <2>1 DEF Fresh
<1>6. hold[r] \in {0, pve} \/ hold[r] \in told
    BY <1>2, Said DEF LoneInv, Alone, Announced, Known
<1>7. Accepted(r)'
    BY <1>2, <1>5 DEF Accepted, Minting
<1> QED BY <1>2, <1>3, <1>4, <1>6, <1>7 DEF Alone, Flight, Announced, Known, Left

LEMMA ImportLone ==
    ASSUME NEW r \in Holders, Holders = {r}, LoneInv(r), NEW s \in Importable, NEW replace,
           Import(r, s, replace), ~crossed
    PROVE  Alone(r)'
<1>1. s \in {1, hold[r]} /\ s \in 0 .. MaxMints /\ BaseInv /\ hold[r] \in 0 .. MaxMints
    BY RotationAssumption DEF Importable, LoneInv, BaseInv, TypeOK
<1>2. PICK l \in Locals : l = NoLocals
    BY NoLocalsType
<1>3. PICK v \in 0 .. MaxMints : v = hold[r]
    BY <1>1
<1>4. PICK t \in 0 .. MaxMints : t = s
    BY <1>1
<1>5. PICK new : new = [l EXCEPT !.importing = TRUE, !.secret = t, !.was = v, !.attempt = 1]
    OBVIOUS
<1>6. new.importing /\ new.secret = t
    BY <1>5 DEF Locals
<1>7. /\ pc[r] = "idle" /\ pc'[r] = "postMint" /\ locals'[r] = new
      /\ UNCHANGED <<pve, late, hold, run, origin, judged, told>>
    BY <1>1, <1>2, <1>3, <1>4, <1>5 DEF Import, Goto, Set, history, BaseInv, TypeOK
<1>8. Flight(r) /\ Announced(r) /\ \A c : Pending(r, c)' = Pending(r, c)
    BY <1>7, Still DEF LoneInv, Alone
<1>9. InDoubt(r) = {}
    BY <1>1, <1>7, Said
<1>10. Flight(r)'
    BY <1>6, <1>7, <1>8 DEF Flight
<1>11. Accepted(r)' /\ Left(r)'
    BY <1>6, <1>7 DEF Accepted, Minting, Left
<1>12. Announced(r)'
    BY <1>1, <1>4, <1>6, <1>7, <1>8, <1>9 DEF Announced, Known
<1> QED BY <1>10, <1>11, <1>12 DEF Alone

\* The report says what was in doubt.
LEMMA FinishLone ==
    ASSUME NEW r \in Holders, LoneInv(r), Finish(r), ~crossed
    PROVE  Alone(r)'
<1>1. /\ pc[r] = "done" /\ pc'[r] = "idle" /\ locals'[r] = NoLocals /\ told' = told \cup InDoubt(r)
      /\ UNCHANGED <<pve, late, hold, run, origin, judged>>
    BY DEF Finish, Goto, Set, LoneInv, BaseInv, TypeOK
<1>2. Flight(r) /\ Announced(r) /\ (\A c : Pending(r, c)' = Pending(r, c)) /\ ~locals'[r].importing
    BY <1>1, Still, NoLocalsType DEF LoneInv, Alone
<1>3. Flight(r)'
    BY <1>1, <1>2 DEF Flight
<1>4. Accepted(r)' /\ Left(r)'
    BY <1>1 DEF Accepted, Minting, Left
<1>5. Announced(r)'
    BY <1>1, <1>2 DEF Announced, Known
<1> QED BY <1>3, <1>4, <1>5 DEF Alone

\* A killed run leaves at most a remove of what it held and had condemned, or of what it
\* had itself created; its roster's secret is in doubt from the remove to the clear, is
\* what PVE accepts or known of before, and gone after.
LEMMA CrashLone ==
    ASSUME NEW r \in Holders, LoneInv(r), Crash(r), ~crossed
    PROVE  Alone(r)'
<1>1. /\ pc[r] \notin {"idle", "done"} /\ pc'[r] = "idle" /\ locals'[r] = NoLocals
      /\ told' = told \cup (IF pc[r] \in {"rereadRemove", "clear"} THEN {hold[r]} ELSE {})
      /\ BaseInv
      /\ UNCHANGED <<pve, late, hold, run, origin, judged>>
    BY DEF Crash, Set, LoneInv, BaseInv, TypeOK
<1>2. /\ Flight(r) /\ Announced(r) /\ Accepted(r) /\ Control(r)
      /\ (\A c : Pending(r, c)' = Pending(r, c)) /\ ~locals'[r].importing
    BY <1>1, Still, NoLocalsType DEF LoneInv, Alone, BaseInv, Base
<1>3. Flight(r)'
    BY <1>1, <1>2 DEF Flight
<1>4. Accepted(r)' /\ Left(r)'
    BY <1>1 DEF Accepted, Minting, Left
<1>5. ASSUME Pending(r, "remove") \in late
      PROVE  (judged[r] = pve /\ pve \in told') \/ pve \notin {1, hold[r]}
    <2>1. CASE locals[r].importing
        BY <1>1, <1>2, <1>5, <2>1, Said DEF Announced, Known
    <2>2. CASE pc[r] = "rereadRemove"
        BY <1>1, <1>2, <1>5, <2>2 DEF Accepted, Flight
    <2>3. CASE pc[r] = "readFresh"
        BY <1>1, <1>2, <1>5, <2>3, FreshIsNew DEF Accepted, Flight, Control, Minting
    <2>4. CASE pc[r] = "rereadAdd"
        BY <1>2, <1>5, <2>4 DEF Flight
    <2> QED BY <1>1, <1>2, <1>5, <2>1, <2>2, <2>3, <2>4 DEF Flight
<1>6. hold[r] \in {0, pve} \/ hold[r] \in told'
    <2>1. CASE pc[r] \in {"preflight", "classify"} \/ locals[r].importing
        BY <1>1, <1>2, <2>1 DEF Announced, Known, Control, InDoubt
    <2>2. CASE pc[r] \in {"remove", "rereadRemove", "clear"}
        BY <1>1, <1>2, <2>2 DEF Accepted
    <2>3. CASE pc[r] \notin {"preflight", "classify", "remove", "rereadRemove", "clear"}
               /\ ~locals[r].importing
        BY <1>1, <1>2, <2>3 DEF Control, Minting, Phases, LoneInv, BaseInv, TypeOK
    <2> QED BY <2>1, <2>2, <2>3
<1>7. Announced(r)'
    BY <1>1, <1>2, <1>5, <1>6 DEF Announced, Known
<1> QED BY <1>3, <1>4, <1>7 DEF Alone

\* A write that was given up on lands, or does not.
LEMMA LateWriteLone ==
    ASSUME NEW r \in Holders, LoneInv(r), LateWrite, ~crossed
    PROVE  /\ Alone(r)'
           /\ pve # 0 /\ pve' = 0 /\ hold[r] = pve => judged[r] = pve
<1>1. PICK c \in late : late' = late \ {c} /\ (Land(c.cmd, c.by, c.run) \/ NoEffect)
    BY DEF LateWrite
<1>2. /\ BaseInv /\ UNCHANGED <<hold, other, pc, run, locals, judged, rejected, told, crossed>>
      /\ Flight(r) /\ Announced(r) /\ Accepted(r) /\ Left(r) /\ Control(r)
    BY DEF LateWrite, LoneInv, Alone, BaseInv, Base
<1>3. /\ Pending(r, "add") # Pending(r, "remove")
      /\ late = {} \/ late = {Pending(r, "add")} \/ late = {Pending(r, "remove")}
    BY <1>2, OneWrite
<1>4. late' = {} /\ c \in {Pending(r, "add"), Pending(r, "remove")} /\ late = {c}
    BY <1>1, <1>3
<1>5. \A d : Pending(r, d)' = Pending(r, d)
    BY <1>2 DEF Pending
<1>6. pc[r] \in {"idle", "done", "rereadRemove", "rereadAdd", "readFresh"} \/ locals[r].importing
    BY <1>2, <1>4 DEF Flight
<1>7. Flight(r)'
    BY <1>4 DEF Flight
<1>8. 0 \notin Fresh(r) /\ 1 \notin Fresh(r)
    BY <1>2, FreshIsNew
<1>9. CASE NoEffect
    <2>1. Fresh(r)' = Fresh(r) /\ UNCHANGED <<pve, origin>>
        BY <1>2, <1>9, Still DEF NoEffect
    <2>2. \A s : Known(r, s)' <=> Known(r, s)
        BY <1>2, <2>1, StillDoubt DEF Speaks
    <2>3. Accepted(r)'
        BY <1>2, <2>1 DEF Accepted, Minting
    <2>4. Announced(r)'
        BY <1>2, <1>4, <2>1, <2>2 DEF Announced
    <2>5. Left(r)'
        BY <1>2, <1>4, <2>1 DEF Left
    <2> QED BY <1>7, <2>1, <2>3, <2>4, <2>5 DEF Alone
<1>10. CASE c = Pending(r, "remove") /\ Land(c.cmd, c.by, c.run)
    <2>1. pve # 0 /\ pve' = 0 /\ Fresh(r)' = Fresh(r)
        <3>1. Land("remove", r, run[r])
            BY <1>10 DEF Pending
        <3> QED BY <1>2, <3>1, LandsLone DEF Landed, Land
    <2>2. \A s : Known(r, s)' <=> Known(r, s)
        BY <1>2, <2>1, StillDoubt DEF Speaks
    <2>3. Accepted(r)'
        BY <1>2, <1>4, <1>6, <1>10, <2>1 DEF Accepted, Minting, Control, Phases, Flight
    <2>4. Announced(r)'
        BY <1>2, <1>4, <1>6, <1>10, <2>1, <2>2 DEF Announced, Control, Phases
    <2>5. Left(r)'
        BY <1>4, <1>8, <2>1 DEF Left
    <2>6. hold[r] = pve => judged[r] = pve
        <3>1. CASE pc[r] \in {"idle", "done"} \/ locals[r].importing
            BY <1>2, <1>4, <1>10, <3>1 DEF Announced
        <3>2. CASE pc[r] = "rereadRemove"
            BY <1>2, <3>2 DEF Accepted
        <3>3. CASE pc[r] \in {"rereadAdd", "readFresh"}
            BY <1>2, <2>1, <3>3 DEF Control, Minting
        <3> QED BY <1>6, <3>1, <3>2, <3>3
    <2> QED BY <1>7, <2>3, <2>4, <2>5, <2>6 DEF Alone
<1>11. CASE c = Pending(r, "add") /\ Land(c.cmd, c.by, c.run)
    <2>1. pve = 0 /\ pve' # 0 /\ Fresh(r)' = Fresh(r) \cup {pve'}
        <3>1. Land("add", r, run[r])
            BY <1>11 DEF Pending
        <3> QED BY <1>2, <3>1, LandsLone DEF Landed, Land
    <2>2. \A s : Known(r, s) => Known(r, s)'
        BY <1>2, <2>1 DEF Known, InDoubt
    <2>3. Accepted(r)'
        BY <1>2, <1>4, <1>6, <1>11, <2>1 DEF Accepted, Minting, Control, Phases, Flight
    <2>4. Announced(r)'
        BY <1>2, <1>4, <1>6, <1>11, <2>1, <2>2 DEF Announced, Control, Phases
    <2>5. Left(r)'
        BY <1>2, <1>4, <1>11, <2>1 DEF Left
    <2> QED BY <1>7, <2>1, <2>3, <2>4, <2>5 DEF Alone
<1> QED BY <1>1, <1>4, <1>9, <1>10, <1>11

LEMMA OperatorLone ==
    ASSUME NEW r \in Holders, LoneInv(r), OperatorRemoves, ~crossed'
    PROVE  Alone(r)'
<1>1. /\ late = {} /\ pc[r] = "idle" /\ pve' = 0 /\ told' = told \cup {pve} /\ ~crossed
      /\ UNCHANGED <<late, hold, pc, run, locals, origin, judged>>
    BY DEF OperatorRemoves
<1>2. InDoubt(r) = {} /\ (hold[r] \in {0, pve} \/ Known(r, hold[r]))
    BY <1>1, Said DEF LoneInv, Alone, Announced
<1> QED BY <1>1, <1>2 DEF Alone, Flight, Accepted, Announced, Known, Minting, Left,
                            LoneInv, BaseInv, Base, Control

\* What a run does by itself, when no write crosses another.
LEMMA RunLone ==
    ASSUME NEW r \in Holders, LoneInv(r), RunStep(r), ~crossed, ~crossed'
    PROVE  Alone(r)'
<1>1. CASE PreflightFails(r) \/ NotHeld(r) \/ NoVerdict(r)
    BY <1>1, RefuseLone DEF PreflightFails, NotHeld, NoVerdict
<1>2. CASE Preflight(r) \/ ToMint(r) \/ Undecryptable(r) \/ Reused(r) \/ Condemn(r)
    BY <1>2, PreflightLone, ToMintLone, UndecryptableLone, ReusedLone, CondemnLone
<1>3. CASE \E result \in Results : pc[r] = "remove" /\ RemoveHeld(r, result)
    BY <1>3, RemoveHeldLone
<1>4. CASE RereadRemove(r) \/ Clear(r) \/ ClearFails(r)
    BY <1>4, RereadRemoveLone, ClearLone, ClearFailsLone
<1>5. CASE \E result \in Results, parsed \in BOOLEAN : pc[r] = "add" /\ Add(r, result, parsed)
    BY <1>5, AddLone
<1>6. CASE RereadAdd(r) \/ GrantAll(r)
    BY <1>6, RereadAddLone, GrantAllLone
<1>7. CASE \E v \in {"ok", "tooWide", "wrongScope", "notAuthorized", "plain"} : PostMint(r, v)
    BY <1>7, PostMintLone
<1>8. CASE PostMintCancelled(r) \/ Persist(r) \/ PersistFails(r)
    BY <1>8, DropLone, PersistLone
<1>9. CASE \E result \in Results : pc[r] = "removeFresh" /\ RemoveFresh(r, result)
    BY <1>9, RemoveFreshLone
<1>10. CASE ReadFresh(r) \/ Finish(r)
    BY <1>10, ReadFreshLone, FinishLone
<1> QED BY <1>1, <1>2, <1>3, <1>4, <1>5, <1>6, <1>7, <1>8, <1>9, <1>10 DEF RunStep

\* A write that has crossed another stays crossed.
LEMMA CrossedStays ==
    ASSUME BaseInv, [Next]_vars, ~crossed'
    PROVE  ~crossed
<1>1. ASSUME NEW r \in Holders, RunStep(r) PROVE ~crossed
    <2>1. ASSUME NEW cmd, NEW result, Pveum(r, cmd, result) PROVE ~crossed
        BY <2>1 DEF Pveum
    <2> QED BY <1>1, <2>1
        DEF RunStep, PreflightFails, Preflight, NotHeld, ToMint, Undecryptable, Reused, NoVerdict, Condemn,
            RefuseFrom, RemoveHeld, RereadRemove, Clear, ClearFails, Add, RereadAdd, GrantAll, PostMint,
            PostMintCancelled, Persist, PersistFails, RemoveFresh, ReadFresh, Finish, history
<1> QED BY <1>1 DEF Next, vars, Start, Import, Crash, LateWrite, OperatorRemoves, history

LEMMA InitLone ==
    ASSUME NEW r \in Holders, Init
    PROVE  LoneInv(r)
<1>1. /\ pc[r] = "idle" /\ late = {} /\ pve \in {0, 1} /\ hold[r] \in {0, 1}
      /\ (pve = 0 => told = {1}) /\ locals[r] = NoLocals
    BY DEF Init
<1>2. Alone(r)
    BY <1>1, NoLocalsType DEF Alone, Flight, Accepted, Announced, Known, Minting, Left
<1> QED BY <1>2, InitBase DEF LoneInv

LEMMA NextLone ==
    ASSUME NEW r, Holders = {r}, LoneInv(r), [Next]_vars
    PROVE  LoneInv(r)'
<1>1. r \in Holders /\ BaseInv /\ BaseInv'
    BY NextBase DEF LoneInv
<1> SUFFICES ASSUME ~crossed' PROVE Alone(r)'
    BY <1>1 DEF LoneInv
<1>2. ~crossed
    BY <1>1, CrossedStays
<1>3. CASE Start(r) \/ RunStep(r) \/ Crash(r)
    BY <1>1, <1>2, <1>3, StartLone, RunLone, CrashLone
<1>4. CASE \E s \in Importable, replace \in BOOLEAN : Import(r, s, replace)
    BY <1>1, <1>2, <1>4, ImportLone
<1>5. CASE LateWrite \/ OperatorRemoves
    BY <1>1, <1>2, <1>5, LateWriteLone, OperatorLone
<1>6. CASE UNCHANGED vars
    <2>1. Alone(r)
        BY <1>2 DEF LoneInv
    <2>2. Fresh(r)' = Fresh(r) /\ \A c : Pending(r, c)' = Pending(r, c)
        BY <1>1, <1>6, Still DEF vars
    <2>3. \A s : Known(r, s)' <=> Known(r, s)
        BY <1>1, <1>6, <2>2, StillDoubt DEF vars, Speaks
    <2>4. Flight(r)' /\ Left(r)'
        BY <1>6, <2>1, <2>2 DEF vars, Alone, Flight, Left
    <2>5. Accepted(r)'
        BY <1>6, <2>1, <2>2 DEF vars, Alone, Accepted, Minting
    <2>6. Announced(r)'
        BY <1>6, <2>1, <2>2, <2>3 DEF vars, Alone, Announced
    <2> QED BY <2>4, <2>5, <2>6 DEF Alone
<1> QED BY <1>1, <1>3, <1>4, <1>5, <1>6 DEF Next

\* For a token that one roster holds: a run's report is true, names every token the run
\* created and may have left behind, and no roster is left with a dead secret that nobody
\* was told of, as long as no write has crossed another.
THEOREM RotationInvariant ==
    ASSUME NEW r, Holders = {r}
    PROVE  Spec => []RotationInv
<1>1. LoneInv(r) => RotationInv
    <2> SUFFICES ASSUME LoneInv(r) PROVE RotationInv
        OBVIOUS
    <2>1. r \in Holders /\ BaseInv
        BY DEF LoneInv
    <2>2. TypeOK /\ HonestOutcome /\ Traced
        BY <2>1 DEF BaseInv, Base, HonestOutcome
    <2>3. \A q \in Holders : Control(q) /\ Issued(q) /\ Replaced(q) /\ Unrejected(q)
        BY <2>1 DEF BaseInv, Base
    <2>4. ~crossed => \A q \in Holders : Flight(q) /\ Accepted(q) /\ Announced(q)
        BY DEF LoneInv, Alone
    <2>5. LeftoverReported
        <3>1. ~crossed => Left(r)
            BY DEF LoneInv, Alone
        <3>2. PendingAdd(r) <=> Pending(r, "add") \in late
            BY DEF PendingAdd, Pending
        <3> QED BY <3>1, <3>2 DEF LeftoverReported, Left
    <2>6. NoSilentDangling
        <3>1. ASSUME ~crossed, pc[r] \in {"idle", "done"}, hold[r] \notin {0, pve}
              PROVE  hold[r] \in told \cup (IF pc[r] = "done" THEN InDoubt(r) ELSE {})
            BY <2>1, <3>1, Said DEF LoneInv, Alone, Announced, Known
        <3> QED BY <3>1 DEF NoSilentDangling
    <2> QED BY <2>2, <2>3, <2>4, <2>5, <2>6 DEF RotationInv
<1>2. Init => LoneInv(r)
    BY InitLone
<1>3. LoneInv(r) /\ [Next]_vars => LoneInv(r)'
    BY NextLone
<1> QED BY <1>1, <1>2, <1>3, PTL DEF Spec

\* For a token that one roster holds: no run, and no write it gave up on, kills the token
\* in the roster unless PVE had accepted that secret and found its grants wrong.
THEOREM HeldTokensAreSafe ==
    ASSUME NEW h, Holders = {h}
    PROVE  Spec => HeldTokensSafe
<1>1. ASSUME LoneInv(h), [Next]_vars, ~crossed, pve # 0, pve' = 0, pc' # pc \/ late' # late, hold[h] = pve
      PROVE  judged[h] = pve
    <2>1. h \in Holders /\ BaseInv /\ Control(h) /\ Accepted(h)
        BY <1>1 DEF LoneInv, BaseInv, Base, Alone
    <2>2. CASE LateWrite
        BY <1>1, <2>1, <2>2, LateWriteLone
    <2>3. CASE pc[h] = "remove"
        BY <1>1, <2>1, <2>3 DEF Accepted
    <2>4. CASE pc[h] \in {"add", "removeFresh"}
        BY <1>1, <2>1, <2>4 DEF Control, Minting
    <2>5. CASE OperatorRemoves
        BY <1>1, <2>5 DEF OperatorRemoves
    <2>6. RunStep(h) /\ pc[h] \notin {"remove", "add", "removeFresh"} => pve' = pve
        BY DEF RunStep, PreflightFails, Preflight, NotHeld, ToMint, Undecryptable, Reused, NoVerdict, Condemn,
            RefuseFrom, RereadRemove, Clear, ClearFails, RereadAdd, GrantAll, PostMint,
            PostMintCancelled, Persist, PersistFails, ReadFresh, Finish
    <2> QED BY <1>1, <2>2, <2>3, <2>4, <2>5, <2>6 DEF Next, vars, Start, Import, Crash
<1>2. LoneInv(h) /\ [Next]_vars =>
          [(~crossed /\ pve # 0 /\ pve' = 0 /\ (pc' # pc \/ late' # late) /\ \E r \in Holders : hold[r] = pve)
             => \E r \in Holders : judged[r] = pve]_vars
    BY <1>1
<1>3. Init => LoneInv(h)
    BY InitLone
<1>4. LoneInv(h) /\ [Next]_vars => LoneInv(h)'
    BY NextLone
<1> QED BY <1>2, <1>3, <1>4, PTL DEF Spec, HeldTokensSafe
=============================================================================
