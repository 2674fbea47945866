------------------------------ MODULE HostTrust ------------------------------
(***************************************************************************)
(* How pveforge comes to trust one target of one roster: the SSH keypair    *)
(* and host key pin that `bootstrap` stores, the TLS pin that `bootstrap`   *)
(* and `roster pin-tls` store, and the report of stray keys that `access    *)
(* keys` prints.  The token phase of a bootstrap is one step here           *)
(* (TokenRotation models it).                                               *)
(*                                                                         *)
(* A host is named by its SSH host key and a keypair by the run that       *)
(* generated it (FirstKey is one from before the model starts).  The host   *)
(* that answers at the target's address, and the TLS key a host serves, may *)
(* change at any moment; the roster may be edited by hand.                  *)
(***************************************************************************)
EXTENDS Naturals, FiniteSets

CONSTANTS Runs,        \* pveforge processes
          Hosts,       \* SSH host keys, one per machine
          TLSKeys,     \* the keys a pveproxy, or something before it, serves
          FirstKey,    \* a keypair an earlier bootstrap installed
          None,
          Commands,    \* the command lines a run may be given
          InitTargets, \* the roster entries the model starts from
          MaxOutside   \* changes of the world and hand edits

Keypairs == Runs \cup {FirstKey}

Sources == {"ssh-verified", "ssh-tofu", "ssh-stored", "expect"}

(* [targets.ssh] and [targets.tls]; a block written before fingerprints    *)
(* were stored has none, and `parses` says its public_key reads as a key.   *)
SSHBlocks == [key : Keypairs, fp : Hosts \cup {None}, parses : BOOLEAN,
              source : {"ssh-verified", "ssh-tofu", None}]

TLSBlocks == [pin : TLSKeys, source : Sources]

Target == [insecure : BOOLEAN, token : BOOLEAN,
           ssh : SSHBlocks \cup {None}, tls : TLSBlocks \cup {None}]

Bootstraps == [kind : {"bootstrap"}, noKey : BOOLEAN, insecure : BOOLEAN,
               fp : Hosts \cup {None}, tofu : BOOLEAN,
               reprovisioned : BOOLEAN]

PinTLSs == [kind : {"pin-tls"}, expect : TLSKeys \cup {None},
            repin : BOOLEAN, print : BOOLEAN]

KeyReports == [kind : {"keys"}, noKey : BOOLEAN, fp : Hosts \cup {None}]

ASSUME HostTrustAssumption ==
    /\ None \notin Hosts \cup TLSKeys \cup Keypairs
    /\ None \notin Target \cup SSHBlocks \cup TLSBlocks
    /\ FirstKey \notin Runs
    /\ Hosts # {} /\ TLSKeys # {}
    /\ Commands \subseteq Bootstraps \cup PinTLSs \cup KeyReports
    /\ InitTargets \subseteq Target \cup {None}
    /\ \A t \in InitTargets : t # None /\ t.ssh # None => t.ssh.key = FirstKey
    /\ MaxOutside \in Nat

VARIABLES at,       \* the host that answers at the target's address
          proxy,    \* what the API port serves when something fronts the node
          tlsKey,   \* the TLS key of each host's own pveproxy
          auth,     \* the pveforge keys in each host's authorized_keys
          target,   \* the target's roster entry, None when there is none
          lock,     \* the holder of the target's bootstrap lock
          run,      \* what each process knows and where it is
          outside,  \* changes made outside pveforge so far
          removed   \* what hand edits removed: whether a TLS block, and the
                    \* runs whose SSH block went after they were checked

node == <<at, proxy, tlsKey>>

vars == <<at, proxy, tlsKey, auth, target, lock, run, outside, removed>>

(* What a process knows: `old` is the pinned SSH block it found under the   *)
(* lock, `seen` the TLS block, `host` the machine its session reaches,      *)
(* `pin` the TLS key it captured or was told to expect, `unsettled` the     *)
(* runs that had not ended when a key report loaded the roster.             *)
Blank == [pc |-> "start", cmd |-> None, insecure |-> FALSE, old |-> None,
          seen |-> None, host |-> None, pin |-> None, held |-> {},
          unparsed |-> FALSE, unsettled |-> {}, offered |-> {},
          persisted |-> FALSE, told |-> FALSE, out |-> None]

BootstrapSteps == {"prepare", "lock", "load", "password", "reconnect",
                   "install", "dial", "capture", "served", "write",
                   "persist", "droppw", "drop", "token"}

PinTLSSteps == {"pinlock", "pinload", "reconnect", "capture", "served",
                "write"}

PCs == {"start", "authorized", "done"} \cup BootstrapSteps \cup PinTLSSteps

Init ==
    /\ at \in Hosts
    /\ proxy = None
    /\ tlsKey \in [Hosts -> TLSKeys]
    /\ target \in InitTargets
    /\ auth = [h \in Hosts |->
                 IF target # None /\ target.ssh # None
                 THEN {FirstKey} ELSE {}]
    /\ lock = None
    /\ run = [r \in Runs |-> Blank]
    /\ outside = 0
    /\ removed = [tls |-> FALSE, ssh |-> {}]

-----------------------------------------------------------------------------
(* The world outside pveforge.                                             *)

Outside ==
    /\ outside < MaxOutside
    /\ outside' = outside + 1
    /\ UNCHANGED <<auth, lock, run>>

\* The node is rebuilt, or the address is taken over by another machine.
AnotherHost ==
    /\ Outside
    /\ at' \in Hosts \ {at}
    /\ UNCHANGED <<proxy, tlsKey, target, removed>>

\* A host's certificate is renewed with another key.
RenewKey ==
    /\ Outside
    /\ \E h \in Hosts, k \in TLSKeys : tlsKey' = [tlsKey EXCEPT ![h] = k]
    /\ UNCHANGED <<at, proxy, target, removed>>

\* Something starts, or stops, terminating TLS in front of the API port.
Front ==
    /\ Outside
    /\ proxy' \in (TLSKeys \cup {None}) \ {proxy}
    /\ UNCHANGED <<at, tlsKey, target, removed>>

\* Past the trust checks of Run and not yet at the roster under the lock, which
\* Run reads again without applying the checks again.
CheckedOnly == {r \in Runs : run[r].pc \in {"lock", "load"}}

\* The roster is edited by hand: a block removed, a public_key garbled.
HandEdit ==
    /\ Outside
    /\ target # None
    /\ \/ target.ssh # None /\ target' = [target EXCEPT !.ssh = None]
          /\ removed' = [removed EXCEPT !.ssh = @ \cup CheckedOnly]
       \/ target.tls # None /\ target' = [target EXCEPT !.tls = None]
          /\ removed' = [removed EXCEPT !.tls = TRUE]
       \/ target.token /\ target' = [target EXCEPT !.token = FALSE]
          /\ UNCHANGED removed
       \/ target.ssh # None /\ target' = [target EXCEPT !.ssh.parses = FALSE]
          /\ UNCHANGED removed
    /\ UNCHANGED node

-----------------------------------------------------------------------------
(* Moving on, ending, and being killed.                                    *)

Goto(r, pc) == run' = [run EXCEPT ![r].pc = pc]

\* What is left of a process when it returns; the lock goes with it.
Ended(r, out, told) ==
    [Blank EXCEPT !.pc = "done", !.out = out, !.told = told,
                  !.persisted = run[r].persisted,
                  !.insecure = run[r].insecure]

Ends(r, out, told) ==
    /\ run' = [run EXCEPT ![r] = Ended(r, out, told)]
    /\ lock' = IF lock = r THEN None ELSE lock

Refused(r) == Ends(r, "refused", FALSE)

Failed(r) == Ends(r, "failed", FALSE)

\* keyLeftBehind: the error names the key and how to remove exactly it.
keyLeftBehind(r) == Ends(r, "failed", TRUE)

Kill(r) ==
    /\ run[r].pc \notin {"start", "done"}
    /\ Ends(r, "killed", FALSE)
    /\ UNCHANGED <<node, auth, target, outside, removed>>

\* A command line is given to a process that has not started.
Asked(r, kind, c) ==
    /\ run[r].pc = "start"
    /\ c \in Commands
    /\ c.kind = kind

-----------------------------------------------------------------------------
(* bootstrap: what is refused on the options and the roster alone.         *)

ResolvedInsecure(c) == c.insecure \/ (target # None /\ target.insecure)

storedSSHPin == target # None /\ target.ssh # None /\ target.ssh.fp # None

storedAnyPin == storedSSHPin \/ (target # None /\ target.tls # None)

CheckReprovision(c) == ~c.tofu /\ c.fp # None /\ storedAnyPin

\* Fault: a bootstrap told nothing about the host may trust it all the same.
TrustAssumed(c) ==
    IF c.reprovisioned THEN CheckReprovision(c) ELSE ~(c.tofu /\ c.fp # None)

checkCaptureTrust(c) ==
    IF c.reprovisioned
    THEN CheckReprovision(c)
    ELSE /\ ~(c.tofu /\ c.fp # None)
         /\ IF ~ResolvedInsecure(c) \/ (~c.noKey /\ storedSSHPin)
            THEN ~c.tofu
            ELSE c.fp # None \/ c.tofu

\* heldSSHBlock: a block counts, pinned or not.
heldSSHBlock == target # None /\ target.ssh # None

heldToken == target # None /\ target.token

checkKeylessState(c) ==
    IF c.noKey THEN ~heldSSHBlock
    ELSE heldSSHBlock \/ ~heldToken

checkGivenFingerprint(c, stored) ==
    c.reprovisioned \/ stored = None \/ c.fp \in {None, stored}

CheckBeforePrompt(r) ==
    /\ \E c \in Commands :
         /\ Asked(r, "bootstrap", c)
         /\ \/ /\ checkCaptureTrust(c)
               /\ checkKeylessState(c)
               /\ heldSSHBlock /\ ~c.noKey
                    => checkGivenFingerprint(c, target.ssh.fp)
               /\ run' = [run EXCEPT ![r].pc = "prepare", ![r].cmd = c]
               /\ UNCHANGED lock
            \/ Refused(r)
    /\ UNCHANGED <<node, auth, target, outside, removed>>

\* Run up to its lock: the roster fills in what the options leave unset, its
\* TLS pin included, and the trust rules are applied to that.
Prepare(r) ==
    /\ run[r].pc = "prepare"
    /\ \/ /\ checkCaptureTrust(run[r].cmd)
          /\ run' = [run EXCEPT ![r].pc = "lock",
                       ![r].insecure = ResolvedInsecure(run[r].cmd),
                       ![r].seen = IF target = None THEN None ELSE target.tls]
          /\ UNCHANGED lock
       \/ ~checkCaptureTrust(run[r].cmd) /\ Refused(r)
    /\ UNCHANGED <<node, auth, target, outside, removed>>

Locked(r, from, to) ==
    /\ run[r].pc = from
    /\ \/ lock = None /\ lock' = r /\ Goto(r, to)
       \/ lock # None /\ Failed(r)        \* the lock wait runs out
    /\ UNCHANGED <<node, auth, target, outside, removed>>

Lock(r) == Locked(r, "lock", "load")

-----------------------------------------------------------------------------
(* bootstrap, under the lock.                                              *)

ensureTargetExists(r) ==
    IF target # None THEN target
    ELSE [insecure |-> run[r].insecure, token |-> FALSE,
          ssh |-> None, tls |-> None]

loadExistingSSHAuth == IF storedSSHPin THEN target.ssh ELSE None

PinOf(block) == IF block = None THEN None ELSE block.pin

storedTLSUnderLock(r, t) ==
    run[r].seen = None \/ PinOf(run[r].seen) = PinOf(t.tls)

\* A stored SSH pin that is not the key the operator read on the console.
ReprovisionsSSH(c, old) == c.reprovisioned /\ old # None /\ c.fp # old.fp

Branch(c, old) ==
    IF c.noKey THEN "password"
    ELSE IF old # None /\ ~ReprovisionsSSH(c, old) THEN "reconnect"
    ELSE "install"

\* The roster may also refuse the new target, and the passphrase may fail to
\* open what the roster holds: either ends the run here.  Run's reads of the
\* roster under its lock are one step: only a hand edit could come between.
Load(r) ==
    LET c == run[r].cmd
        t == ensureTargetExists(r)
    IN  /\ run[r].pc = "load"
        /\ \/ /\ checkKeylessState(c)
              /\ storedTLSUnderLock(r, t)
              /\ loadExistingSSHAuth # None /\ ~c.noKey
                   => checkGivenFingerprint(c, loadExistingSSHAuth.fp)
              /\ target' = t
              /\ run' = [run EXCEPT ![r].pc = Branch(c, loadExistingSSHAuth),
                                    ![r].old = loadExistingSSHAuth,
                                    ![r].seen = t.tls]
              /\ UNCHANGED lock
           \/ Refused(r) /\ target' \in {target, t}
        /\ UNCHANGED <<node, auth, outside, removed>>

\* The branch that generates and installs a keypair.
Fresh(r) ==
    /\ run[r].cmd.kind = "bootstrap"
    /\ Branch(run[r].cmd, run[r].old) = "install"

dialsStoredPin(r) ==
    run[r].cmd.kind = "bootstrap"
        => Branch(run[r].cmd, run[r].old) = "reconnect"

captureTLS(r) ==
    \/ run[r].insecure
    \/ run[r].cmd.reprovisioned /\ run[r].seen # None

\* Fault: the keypair is persisted before the TLS pin is captured.
PersistFirst(r) == IF Fresh(r) THEN "persist"
                   ELSE IF captureTLS(r) THEN "capture" ELSE "token"

AfterDial(r) == IF captureTLS(r) THEN "capture"
                ELSE IF Fresh(r) THEN "persist" ELSE "token"

\* ExpectedHostKeyCallback, or trust on first use where no pin is given.
HostKeyAccepted(pin) == pin \in {None, at}

DialWithPassword(r) ==
    /\ run[r].pc = "password"
    /\ \/ /\ HostKeyAccepted(run[r].cmd.fp)
          /\ run' = [run EXCEPT ![r].pc = AfterDial(r), ![r].host = at]
          /\ UNCHANGED lock
       \/ Failed(r)
    /\ UNCHANGED <<node, auth, target, outside, removed>>

\* dialPinned: the host must present the pinned key and accept the keypair.
dialPinned(key, fp) == at = fp /\ key \in auth[at]

ReconnectWithPinnedKey(r) ==
    /\ run[r].pc = "reconnect"
    /\ \/ /\ dialPinned(run[r].old.key, run[r].old.fp)
          /\ run' = [run EXCEPT ![r].host = at,
                       ![r].pc = IF run[r].cmd.kind = "pin-tls"
                                 THEN "capture" ELSE AfterDial(r)]
          /\ UNCHANGED lock
       \/ Failed(r)
    /\ UNCHANGED <<node, auth, target, outside, removed>>

\* Nothing was sent (a failed dial), the outcome is unknown, or it is there.
InstallPubkeyViaPassword(r) ==
    LET installed == [auth EXCEPT ![at] = @ \cup {r}]
    IN  /\ run[r].pc = "install"
        /\ \/ Failed(r) /\ UNCHANGED auth
           \/ /\ HostKeyAccepted(run[r].cmd.fp)
              /\ auth' \in {auth, installed}
              /\ keyLeftBehind(r)
           \/ /\ HostKeyAccepted(run[r].cmd.fp)
              /\ auth' = installed
              /\ run' = [run EXCEPT ![r].pc = "dial", ![r].host = at]
              /\ UNCHANGED lock
        /\ UNCHANGED <<node, target, outside, removed>>

DialWithKey(r) ==
    /\ run[r].pc = "dial"
    /\ \/ dialPinned(r, run[r].host) /\ Goto(r, AfterDial(r))
       \/ Goto(r, "droppw")
    /\ UNCHANGED <<node, auth, target, lock, outside, removed>>

-----------------------------------------------------------------------------
(* The TLS pin: captured over the session, checked against the network,     *)
(* written with the compare-and-set.  bootstrap and pin-tls share it.       *)

\* A first run removes the key it installed; any other just reports.
CaptureFails(r) ==
    IF Fresh(r) THEN Goto(r, "drop") /\ UNCHANGED lock ELSE Failed(r)

AfterCapture(r) ==
    IF run[r].cmd.kind = "pin-tls"
    THEN Ends(r, "ok", FALSE)
    ELSE Goto(r, IF Fresh(r) THEN "persist" ELSE "token") /\ UNCHANGED lock

\* The key the node's own pveproxy serves, read over the session.
capturePin(r) ==
    /\ run[r].pc = "capture"
    /\ \/ /\ run' = [run EXCEPT ![r].pc = "served",
                                ![r].pin = tlsKey[run[r].host]]
          /\ UNCHANGED lock
       \/ CaptureFails(r)
    /\ UNCHANGED <<node, auth, target, outside, removed>>

ServedPin == IF proxy = None THEN tlsKey[at] ELSE proxy

\* Fault: a stored pin is replaced by whatever was captured.
AlwaysWrite(r) == run[r].pc = "served"

\* Whether a pin that is not the stored one may be written.
MayWrite(r) ==
    \/ run[r].seen = None
    \/ IF run[r].cmd.kind = "pin-tls" THEN run[r].cmd.repin
                                      ELSE run[r].cmd.reprovisioned

\* What the stored pin makes of the one captured: keep it, replace it (or
\* write the first one), or refuse.  --print never writes.
AgainstStored(r) ==
    \/ PinOf(run[r].seen) = run[r].pin /\ AfterCapture(r)
    \/ /\ PinOf(run[r].seen) # run[r].pin
       /\ MayWrite(r)
       /\ IF run[r].cmd.kind = "pin-tls" /\ run[r].cmd.print
          THEN Ends(r, "ok", FALSE)
          ELSE Goto(r, "write") /\ UNCHANGED lock
    \/ /\ PinOf(run[r].seen) # run[r].pin
       /\ ~MayWrite(r)
       /\ CaptureFails(r)

\* The address must serve the very key that was captured, or expected.
checkServed(r) ==
    /\ run[r].pc = "served"
    /\ \/ ServedPin = run[r].pin /\ AgainstStored(r)
       \/ CaptureFails(r)
    /\ UNCHANGED <<node, auth, target, outside, removed>>

captureSource(r) ==
    IF run[r].host = None THEN "expect"
    ELSE IF dialsStoredPin(r) THEN "ssh-stored"
    ELSE IF run[r].cmd.fp # None THEN "ssh-verified"
    ELSE "ssh-tofu"

WriteTLSPin(r) ==
    /\ run[r].pc = "write"
    /\ \/ /\ PinOf(target.tls) = PinOf(run[r].seen)
          /\ target' = [target EXCEPT
                          !.tls = [pin |-> run[r].pin,
                                   source |-> captureSource(r)]]
          /\ AfterCapture(r)
       \/ CaptureFails(r) /\ UNCHANGED target
    /\ UNCHANGED <<node, auth, outside, removed>>

-----------------------------------------------------------------------------
(* bootstrap: persisting the keypair, or taking it back.                   *)

sshSource(c) == IF c.fp # None THEN "ssh-verified" ELSE "ssh-tofu"

\* A first write is unconditional; a reprovision's is a compare-and-set
\* against the pin read under the lock.
PersistSSHAuth(r) ==
    LET c == run[r].cmd
    IN  /\ run[r].pc = "persist"
        /\ \/ /\ ReprovisionsSSH(c, run[r].old)
                   => storedSSHPin /\ target.ssh.fp = run[r].old.fp
              /\ target' = [target EXCEPT
                              !.ssh = [key |-> r, fp |-> run[r].host,
                                       parses |-> TRUE,
                                       source |-> sshSource(c)]]
              /\ run' = [run EXCEPT ![r].pc = "token",
                                    ![r].persisted = TRUE]
           \/ Goto(r, "drop") /\ UNCHANGED target
        /\ UNCHANGED <<node, auth, lock, outside, removed>>

\* Fault: a password session that fails too is not reported.
DropSilently(r) ==
    /\ run[r].pc = "droppw"
    /\ \/ at = run[r].host /\ Goto(r, "drop") /\ UNCHANGED lock
       \/ Failed(r)
    /\ UNCHANGED <<node, auth, target, outside, removed>>

\* The fresh key would not log in: a password session, pinned to the host
\* key the install was checked against, is tried instead.
dropKeyOverPassword(r) ==
    /\ run[r].pc = "droppw"
    /\ \/ at = run[r].host /\ Goto(r, "drop") /\ UNCHANGED lock
       \/ keyLeftBehind(r)
    /\ UNCHANGED <<node, auth, target, outside, removed>>

\* The script's snapshot, comparison and rename are one step: a line another
\* writer appends between the last two is lost there (the risk removekey.go
\* accepts), and never here.
RemoveAuthorizedKey(h, key) == [auth EXCEPT ![h] = @ \ {key}]

\* The script answers "removed", or its outcome is in doubt or a refusal.
dropKeyOver(r) ==
    LET gone == RemoveAuthorizedKey(run[r].host, r)
    IN  /\ run[r].pc = "drop"
        /\ \/ auth' = gone /\ Failed(r)
           \/ auth' \in {auth, gone} /\ keyLeftBehind(r)
        /\ UNCHANGED <<node, target, outside, removed>>

\* Fault: a run that fails in its token phase takes its key back.
TokenPhaseDrops(r) ==
    /\ run[r].pc = "token"
    /\ IF Fresh(r) THEN Goto(r, "drop") /\ UNCHANGED lock ELSE Failed(r)
    /\ UNCHANGED <<node, auth, target, outside, removed>>

\* What the run resolved before its lock is written over what is there.
persistTargetMeta(r) == [target EXCEPT !.insecure = run[r].insecure]

\* preflight, the token phase and persistTargetMeta.  A failed rotation may
\* leave the roster with or without a token.
TokenPhase(r) ==
    /\ run[r].pc = "token"
    /\ \/ /\ target' = [persistTargetMeta(r) EXCEPT !.token = TRUE]
          /\ Ends(r, "ok", FALSE)
       \/ /\ \E kept \in BOOLEAN : target' = [target EXCEPT !.token = kept]
          /\ Failed(r)
    /\ UNCHANGED <<node, auth, outside, removed>>

-----------------------------------------------------------------------------
(* roster pin-tls.                                                         *)

\* A target without a pinned host key, or whose chain is its identity, is
\* pinned only to an expected key; any other only over its SSH session.
checkPinTLSMode(c) ==
    IF target.insecure /\ storedSSHPin
    THEN c.expect = None
    ELSE c.expect # None /\ ~c.repin

CheckPinTLS(r) ==
    /\ \E c \in Commands :
         /\ Asked(r, "pin-tls", c)
         /\ \/ /\ target # None
               /\ checkPinTLSMode(c)
               /\ run' = [run EXCEPT ![r].cmd = c,
                            ![r].pc = IF c.print THEN "pinload"
                                                 ELSE "pinlock"]
               /\ UNCHANGED lock
            \/ Refused(r)
    /\ UNCHANGED <<node, auth, target, outside, removed>>

PinLock(r) == Locked(r, "pinlock", "pinload")

PinTLS(r) ==
    /\ run[r].pc = "pinload"
    /\ \/ /\ checkPinTLSMode(run[r].cmd)
          /\ run' = [run EXCEPT
                       ![r].pc = IF target.insecure /\ storedSSHPin
                                 THEN "reconnect" ELSE "served",
                       ![r].old = loadExistingSSHAuth,
                       ![r].seen = target.tls,
                       ![r].pin = run[r].cmd.expect]
          /\ UNCHANGED lock
       \/ Refused(r)
    /\ UNCHANGED <<node, auth, target, outside, removed>>

-----------------------------------------------------------------------------
(* access keys.                                                            *)

\* RosterKeysOf: the key the target holds, or that it does not parse.
RosterKeysOf == IF heldSSHBlock /\ target.ssh.parses
                THEN {target.ssh.key} ELSE {}

LoadRosterKeys(r) ==
    /\ \E c \in Commands :
         /\ Asked(r, "keys", c)
         /\ run' = [run EXCEPT
                      ![r].pc = "authorized", ![r].cmd = c,
                      ![r].held = RosterKeysOf,
                      ![r].unparsed = heldSSHBlock /\ ~target.ssh.parses,
                      ![r].unsettled = {q \in Runs : run[q].pc # "done"}]
    /\ UNCHANGED <<node, auth, target, lock, outside, removed>>

\* The root session: the key of the roster, or with --no-ssh-key the
\* password; the stored pin binds either, the flag's only where none is.
RootSession(c) ==
    /\ target # None
    /\ c.noKey \/ (storedSSHPin /\ target.ssh.key \in auth[at])
    /\ IF storedSSHPin
       THEN at = target.ssh.fp /\ c.fp \in {None, at}
       ELSE c.fp \in {None, at}

\* Fault: a public_key that does not parse is skipped.
SkipsUnparsed(r) == auth[at] \ run[r].held

\* The strays a report gives a removal command for.
KeyReport(r) == IF run[r].unparsed THEN {} ELSE auth[at] \ run[r].held

AuthorizedKeys(r) ==
    /\ run[r].pc = "authorized"
    /\ \/ /\ RootSession(run[r].cmd)
          /\ run' = [run EXCEPT ![r] =
                       [Ended(r, "ok", FALSE) EXCEPT
                          !.offered = KeyReport(r),
                          !.unsettled = run[r].unsettled]]
          /\ UNCHANGED lock
       \/ Failed(r)
    /\ UNCHANGED <<node, auth, target, outside, removed>>

-----------------------------------------------------------------------------
BootstrapStep(r) ==
    \/ CheckBeforePrompt(r) \/ Prepare(r) \/ Lock(r) \/ Load(r)
    \/ DialWithPassword(r) \/ ReconnectWithPinnedKey(r)
    \/ InstallPubkeyViaPassword(r) \/ DialWithKey(r)
    \/ capturePin(r) \/ checkServed(r) \/ WriteTLSPin(r)
    \/ PersistSSHAuth(r) \/ dropKeyOverPassword(r) \/ dropKeyOver(r)
    \/ TokenPhase(r)

Step(r) ==
    \/ BootstrapStep(r)
    \/ CheckPinTLS(r) \/ PinLock(r) \/ PinTLS(r)
    \/ LoadRosterKeys(r) \/ AuthorizedKeys(r)

Next ==
    \/ \E r \in Runs : Step(r) \/ Kill(r)
    \/ AnotherHost \/ RenewKey \/ Front \/ HandEdit

Spec == Init /\ [][Next]_vars

-----------------------------------------------------------------------------
(* Properties.                                                             *)

RunStates ==
    [pc : PCs, cmd : Commands \cup {None}, insecure : BOOLEAN,
     old : SSHBlocks \cup {None}, seen : TLSBlocks \cup {None},
     host : Hosts \cup {None}, pin : TLSKeys \cup {None},
     held : SUBSET Keypairs, unparsed : BOOLEAN,
     unsettled : SUBSET Runs, offered : SUBSET Keypairs,
     persisted : BOOLEAN, told : BOOLEAN,
     out : {"ok", "refused", "failed", "killed", None}]

\* Every variable stays in its domain: the roster entry is a target, the
\* bootstrap lock is free or held by a run, and what a run has found is a
\* block, a host or a key.
TypeOK ==
    /\ at \in Hosts
    /\ proxy \in TLSKeys \cup {None}
    /\ tlsKey \in [Hosts -> TLSKeys]
    /\ auth \in [Hosts -> SUBSET Keypairs]
    /\ target \in Target \cup {None}
    /\ lock \in Runs \cup {None}
    /\ outside \in 0..MaxOutside
    /\ removed \in [tls : BOOLEAN, ssh : SUBSET Runs]
    /\ run \in [Runs -> RunStates]

\* What the operator or the roster says for the host a run's session reaches,
\* or for the TLS key itself: a first pin may also rest on trust on first use
\* that was asked for, a replacement never.
Vouched(r) ==
    LET c == run[r].cmd
        first == target.tls = None
        stored == run[r].old # None /\ run[r].host = run[r].old.fp
    IN  IF c.kind = "pin-tls"
        THEN \/ stored /\ (first \/ c.repin)
             \/ first /\ c.expect = run[r].pin
        ELSE \/ c.fp = run[r].host /\ (first \/ c.reprovisioned)
             \/ first /\ (c.tofu \/ stored)

\* A TLS pin enters the roster, or replaces another, only as a key that the
\* host vouched for served, and the record of how it was first obtained is
\* never rewritten; a stored SSH host key pin gives way only to the
\* fingerprint a reprovision was given.  Nothing two runs of one target do
\* between their reads and their writes may re-pin it silently (the trust
\* checks of Run and PinTLS, and the compare-and-set of their writes).  Excused
\* is only the run that passed those checks on an SSH block which a hand edit
\* removed before the run, under its lock, read the roster: Run applies
\* checkCaptureTrust before its lock and never again.
PinsVouched ==
    [][target # None /\ target' # None =>
         /\ target'.tls \notin {target.tls, None} =>
              /\ PinOf(target'.tls) # PinOf(target.tls)
              /\ \E r \in Runs : /\ run[r].pc = "write"
                                 /\ Vouched(r) \/ r \in removed.ssh
         /\ /\ storedSSHPin
            /\ target'.ssh # None
            /\ target'.ssh.fp # target.ssh.fp
            => \E r \in Runs : /\ run[r].pc = "persist"
                               /\ run[r].cmd.reprovisioned
                               /\ run[r].cmd.fp = target'.ssh.fp]_vars

\* The keypair a bootstrap stored logs in at the host whose key is stored
\* with it, at every later moment and whatever the address does meanwhile: it
\* was proven before it was written, and no later failure of a run of this
\* target takes the roster's live key off the node again.
PersistedKeyWorks ==
    target # None /\ target.ssh # None /\ target.ssh.key \in Runs
        => target.ssh.key \in auth[target.ssh.fp]

\* A bootstrap that ran the target as insecure_tls stored its SSH auth only
\* once the TLS pin was on file, so no failure in between leaves an SSH pin
\* over which a rerun could capture the TLS pin as ssh-stored.
CapturedBeforePersisted ==
    (\E r \in Runs : run[r].persisted /\ run[r].insecure)
        => removed.tls \/ target.tls # None

\* A bootstrap that returns with its own key on some host and not in the
\* roster has said so and named the command that removes it, whichever of
\* the install, the dial, the capture and the roster write failed.
LeftKeyTold ==
    \A r \in Runs :
        /\ run[r].pc = "done"
        /\ run[r].out # "killed"
        /\ ~run[r].persisted
        /\ \E h \in Hosts : r \in auth[h]
        => run[r].told

\* access keys offers a removal command for the key the roster holds only if
\* the bootstrap that generated it was still under way when the report loaded
\* the roster: a public_key that does not parse hides no live key.
SettledKeyKept ==
    \A r \in Runs :
        /\ run[r].offered # {}
        /\ heldSSHBlock
        /\ target.ssh.key \in run[r].offered
        => target.ssh.key \in run[r].unsettled

-----------------------------------------------------------------------------
(* What the properties rest on, step by step                               *)

Kind(r) == run[r].cmd.kind
BranchOf(r) == Branch(run[r].cmd, run[r].old)

\* Where a run holds the target's lock; a pin-tls that only prints takes none.
Loaded == {"password", "reconnect", "install", "dial", "capture", "served",
           "write", "persist", "droppw", "drop", "token"}

HoldsLock(r) ==
    /\ run[r].pc \in Loaded \cup {"load", "pinload"}
    /\ ~(Kind(r) = "pin-tls" /\ run[r].cmd.print)

\* The bootstrap lock is a lock.
Locking == \A r \in Runs : HoldsLock(r) => lock = r

\* The steps of a run that has a keypair of its own.
KeySteps == {"dial", "persist", "droppw", "drop"}

CaptureSteps == {"capture", "served", "write"}

\* What a run is about where it is: the command's steps, the branch under the
\* lock, the target that is there by then, and the host a session reached.
Control(r) ==
    LET s == run[r]
    IN  /\ s.pc \notin {"start", "done"} => s.cmd \in Commands
        /\ s.pc \in {"prepare", "lock", "load", "password", "install", "token"}
                 \cup KeySteps => Kind(r) = "bootstrap"
        /\ s.pc \in {"pinlock", "pinload"} => Kind(r) = "pin-tls"
        /\ s.pc \in {"reconnect"} \cup CaptureSteps
              => Kind(r) \in {"bootstrap", "pin-tls"}
        /\ s.pc = "authorized" => Kind(r) = "keys"
        /\ s.pc \in Loaded \cup {"pinlock", "pinload"} => target # None
        /\ s.pc = "password" => BranchOf(r) = "password"
        /\ s.pc = "reconnect" => s.old # None
        /\ s.pc = "reconnect" /\ Kind(r) = "bootstrap"
              => BranchOf(r) = "reconnect"
        /\ s.pc \in {"install"} \cup KeySteps => BranchOf(r) = "install"
        /\ s.pc \in KeySteps \cup {"capture"} => s.host \in Hosts
        /\ s.pc \in CaptureSteps /\ Kind(r) = "bootstrap"
              => s.host \in Hosts /\ captureTLS(r)
        /\ s.pc \in {"served", "write"} => s.pin \in TLSKeys
        /\ s.pc = "write" =>
              /\ PinOf(s.seen) # s.pin
              /\ MayWrite(r)
              /\ ~(Kind(r) = "pin-tls" /\ s.cmd.print)
        /\ s.persisted => s.pc \in {"token", "done"}
        /\ s.offered # {} => s.pc = "done"

\* The session a TLS pin is captured over reaches the host of the stored pin, or
\* the one whose fingerprint was given, if one was.
HostVouched(r) ==
    LET s == run[r]
    IN  /\ s.pc \in KeySteps \cup CaptureSteps /\ Kind(r) = "bootstrap"
              => IF BranchOf(r) = "reconnect" THEN s.host = s.old.fp
                 ELSE s.cmd.fp \in {None, s.host}
        /\ s.pc \in CaptureSteps /\ Kind(r) = "pin-tls"
              => \/ s.old # None /\ s.host = s.old.fp
                 \/ s.pc # "capture" /\ s.pin = s.cmd.expect /\ ~s.cmd.repin

\* A bootstrap without a fingerprint that may capture a TLS pin was told to trust
\* on first use, or relies on the SSH pin it was checked against.
TrustGiven(r) ==
    LET s == run[r]
        c == s.cmd
        bare == ~c.reprovisioned /\ s.insecure /\ c.fp = None /\ ~c.tofu
    IN  s.pc \in Loaded \cup {"lock", "load"} /\ Kind(r) = "bootstrap" =>
          /\ c.reprovisioned => c.fp # None
          /\ bare => ~c.noKey
          /\ bare /\ s.pc \in {"lock", "load"} => storedSSHPin \/ r \in removed.ssh
          /\ bare /\ s.pc \in Loaded => s.old # None \/ r \in removed.ssh

HasTLS == target # None /\ (target.tls # None \/ removed.tls)

\* A TLS pin that was seen is there, or was removed by hand; one that must be
\* captured first is on file when the SSH auth is written.
PinOnFile(r) ==
    /\ run[r].seen # None => HasTLS
    /\ (run[r].pc = "persist" \/ run[r].persisted) /\ run[r].insecure => HasTLS

\* Nobody stores an SSH pin under a run that found none.
NoPinUnder(r) ==
    /\ run[r].pc \in Loaded \ {"token"}
    /\ Kind(r) = "bootstrap"
    /\ run[r].old = None
    => ~storedSSHPin

\* A run's own key is where the run has put it and nowhere else.
KeyPlaced(r) ==
    LET s == run[r]
        fresh == Kind(r) = "bootstrap" /\ BranchOf(r) = "install"
    IN  /\ \A h \in Hosts : r \in auth[h] =>
              \/ s.pc = "done"
              \/ s.pc \in KeySteps \cup CaptureSteps /\ fresh /\ h = s.host
              \/ s.persisted
        /\ s.pc \in KeySteps \cup CaptureSteps /\ fresh => r \in auth[s.host]
        /\ s.pc = "token" /\ fresh => s.persisted

\* A run that returned with its key left somewhere has said so.
Told(r) ==
    /\ run[r].pc = "done"
    /\ run[r].out # "killed"
    /\ ~run[r].persisted
    /\ \E h \in Hosts : r \in auth[h]
    => run[r].told

\* A key report knows every key it may not offer, and which runs it cannot know.
ReportKnows(r) ==
    LET s == run[r]
    IN  /\ s.pc = "authorized" \/ s.offered # {} =>
              {q \in Runs : run[q].pc # "done"} \subseteq s.unsettled
        /\ heldSSHBlock /\ target.ssh.key \notin s.unsettled =>
              /\ s.pc = "authorized" => target.ssh.key \in s.held \/ s.unparsed
              /\ target.ssh.key \notin s.offered

RunInv(r) ==
    /\ Control(r) /\ HostVouched(r) /\ TrustGiven(r) /\ PinOnFile(r)
    /\ NoPinUnder(r) /\ KeyPlaced(r) /\ Told(r) /\ ReportKnows(r)

\* The key in the roster is one its run persisted, and logs in.
KeyStored ==
    heldSSHBlock /\ target.ssh.key \in Runs =>
        /\ run[target.ssh.key].persisted
        /\ target.ssh.fp \in Hosts
        /\ target.ssh.key \in auth[target.ssh.fp]

\* What the roster and the key report may rest on, together: SSH auth is stored
\* only behind its TLS pin, and a settled key is never offered for removal; with
\* what is true at every step before, which makes it inductive.
TrustInv ==
    /\ TypeOK /\ Locking /\ KeyStored /\ \A r \in Runs : RunInv(r)
    /\ CapturedBeforePersisted /\ SettledKeyKept
=============================================================================
