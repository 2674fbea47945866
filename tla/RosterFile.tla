----------------------------- MODULE RosterFile -----------------------------
(***************************************************************************)
(* internal/roster without its processes: what a roster holds, when a      *)
(* passphrase is proven against it, and what each writer composes from the *)
(* roster it read.  A ciphertext is the passphrase that sealed it and the  *)
(* plaintext; two ciphertexts that agree on both are one, which no check   *)
(* of the code tells apart except byte for byte in a proof, where the      *)
(* answer depends on the passphrase alone.                                 *)
(***************************************************************************)
CONSTANTS Targets,      \* target ids
          Passphrases,  \* roster passphrases operators may type
          Plains,       \* secret plaintexts: token secrets, SSH private keys
          Unreadable,   \* plaintexts whose ciphertext this binary cannot read
          Pins,         \* SSH host key fingerprints and TLS SPKI pins
          NoPin,        \* the empty pin: none recorded
          Sources,      \* how a TLS pin was obtained
          NoSource,     \* source of a pin that is not there
          Metas         \* host, node, api_port, insecure_tls, as one value

ASSUME RosterAssumption ==
    /\ Unreadable \subseteq Plains
    /\ NoPin \notin Pins
    /\ NoSource \notin Sources

Subtables == {"ssh", "token"}

\* secretRef: one encrypted secret of the roster.
SecretRefs == [target : Targets, what : Subtables, pass : Passphrases, plain : Plains]

\* The decoded roster.  An absent target has the initial meta, no secret and
\* no pin.
Rosters ==
    [targets : SUBSET Targets,
     meta    : [Targets -> Metas],
     secrets : SUBSET SecretRefs,
     hostKey : [Targets -> Pins \cup {NoPin}],
     tls     : [Targets -> [pin : Pins \cup {NoPin}, source : Sources \cup {NoSource}]]]

Ciphertexts == [pass : Passphrases, plain : Plains]
Armored(s) == [pass |-> s.pass, plain |-> s.plain]

-----------------------------------------------------------------------------
(* Passphrase.prove                                                        *)

Readable(s) == s.plain \notin Unreadable

OwnReadable(r, t, what) ==
    {s \in r.secrets : Readable(s) /\ s.target = t /\ s.what = what}

\* The secrets that may be the first readable one in proof order: the
\* target's own SSH key, its own token, then any other target's (the file
\* order of the others is left open).
Deciding(r, t) ==
    IF OwnReadable(r, t, "ssh") # {} THEN OwnReadable(r, t, "ssh")
    ELSE IF OwnReadable(r, t, "token") # {} THEN OwnReadable(r, t, "token")
    ELSE {s \in r.secrets : Readable(s)}

\* Fault: a proof counts although its secret has left the roster.
ProofStandsOnceProven(r, proof) == proof # {} \/ r.secrets = {}

\* The proof held is of a secret still in the roster, or there is no secret
\* to check against.
ProofStands(r, proof) ==
    \/ \E s \in r.secrets : Armored(s) \in proof
    \/ r.secrets = {}

\* The proofs that acceptance may leave behind; none when prove must refuse.
ProofsAfter(r, t, pass, proof) ==
    IF ProofStands(r, proof) THEN {proof}
    ELSE {{Armored(s)} : s \in {d \in Deciding(r, t) : d.pass = pass}}

\* ErrWrongPassphrase or ErrNoReadableSecret.
MayRefuseProof(r, t, pass, proof) ==
    /\ ~ProofStands(r, proof)
    /\ Deciding(r, t) = {} \/ \E d \in Deciding(r, t) : d.pass # pass

\* What acceptance establishes: a readable secret opens with pass, or there
\* is none yet and the first writer's passphrase becomes the roster's.
Opens(r, pass) ==
    \/ r.secrets = {}
    \/ \E s \in r.secrets : Readable(s) /\ s.pass = pass

-----------------------------------------------------------------------------
(* The writers                                                             *)

Written == Plains \ Unreadable

TokenWrites  == [op : {"WriteTokenAuth"}, target : Targets, plain : Written]
SSHWrites    == [op : {"WriteSSHAuth"}, target : Targets, plain : Written, pin : Pins]
SSHReplaces  == [op : {"ReplaceSSHAuth"}, target : Targets, plain : Written, pin : Pins, old : Pins]
PinWrites    == [op : {"WriteTLSPin"}, target : Targets, old : Pins \cup {NoPin},
                 next : Pins, source : Sources]
Appends      == [op : {"AppendTarget"}, target : Targets, meta : Metas]
FieldUpdates == [op : {"UpdateTargetFields"}, target : Targets, meta : Metas]
Clears       == [op : {"ClearTokenAuth"}, target : Targets]
Rekeys       == [op : {"Rekey"}, next : Passphrases]

Requests == TokenWrites \cup SSHWrites \cup SSHReplaces \cup PinWrites
            \cup Appends \cup FieldUpdates \cup Clears \cup Rekeys

\* The writers that encrypt, or that prove the passphrase as if they did.
Proving == {"WriteTokenAuth", "WriteSSHAuth", "ReplaceSSHAuth", "WriteTLSPin"}
Sealing == {"WriteTokenAuth", "WriteSSHAuth", "ReplaceSSHAuth"}

\* Fault: a TLS pin is written whatever pin the roster holds.
AllowedAnyPin(r, q, pass) ==
    CASE q.op \in Sealing \cup {"WriteTLSPin", "UpdateTargetFields", "ClearTokenAuth"} ->
            q.target \in r.targets
      [] q.op = "AppendTarget" -> q.target \notin r.targets
      [] q.op = "Rekey" -> r.secrets # {} /\ \A s \in r.secrets : Readable(s) /\ s.pass = pass

\* Every writer's own refusals, judged on the roster as read under the lock.
Allowed(r, q, pass) ==
    CASE q.op \in {"WriteTokenAuth", "WriteSSHAuth"} -> q.target \in r.targets
      [] q.op = "ReplaceSSHAuth" -> q.target \in r.targets /\ r.hostKey[q.target] = q.old
      [] q.op = "WriteTLSPin"    -> q.target \in r.targets /\ r.tls[q.target].pin = q.old
      [] q.op = "AppendTarget"   -> q.target \notin r.targets
      [] q.op \in {"UpdateTargetFields", "ClearTokenAuth"} -> q.target \in r.targets
      [] q.op = "Rekey" -> /\ r.secrets # {}
                           /\ \A s \in r.secrets : Readable(s) /\ s.pass = pass

SecretsAt(r, t, what) == {s \in r.secrets : s.target = t /\ s.what = what}

\* The write would change nothing: the file is not rewritten.
NothingToDo(r, q) ==
    \/ q.op = "WriteTLSPin" /\ r.tls[q.target].pin = q.next
    \/ q.op = "UpdateTargetFields" /\ r.meta[q.target] = q.meta
    \/ q.op = "ClearTokenAuth" /\ SecretsAt(r, q.target, "token") = {}

\* The subtable's ciphertext, replaced or appended.
Seal(r, t, what, pass, plain) ==
    [r EXCEPT !.secrets = (@ \ SecretsAt(r, t, what))
        \cup {[target |-> t, what |-> what, pass |-> pass, plain |-> plain]}]

WriteSSH(r, q, pass) ==
    [Seal(r, q.target, "ssh", pass, q.plain) EXCEPT !.hostKey[q.target] = q.pin]

Appended(r, t, m) == [r EXCEPT !.targets = @ \cup {t}, !.meta[t] = m]

FieldsUpdated(r, t, m) == [r EXCEPT !.meta[t] = m]

TokenCleared(r, t) == [r EXCEPT !.secrets = @ \ SecretsAt(r, t, "token")]

\* Every secret sealed afresh, its plaintext kept.
Rekeyed(r, next) == [r EXCEPT !.secrets = {[s EXCEPT !.pass = next] : s \in @}]

\* The composed file: what the writer's splice, checked by its guard, makes
\* of the roster it read.
Composed(r, q, pass) ==
    CASE q.op = "WriteTokenAuth" -> Seal(r, q.target, "token", pass, q.plain)
      [] q.op \in {"WriteSSHAuth", "ReplaceSSHAuth"} -> WriteSSH(r, q, pass)
      [] q.op = "WriteTLSPin" ->
            [r EXCEPT !.tls[q.target] = [pin |-> q.next, source |-> q.source]]
      [] q.op = "AppendTarget" -> Appended(r, q.target, q.meta)
      [] q.op = "UpdateTargetFields" -> FieldsUpdated(r, q.target, q.meta)
      [] q.op = "ClearTokenAuth" -> TokenCleared(r, q.target)
      [] q.op = "Rekey" -> Rekeyed(r, q.next)

-----------------------------------------------------------------------------
(* What keeps a roster usable                                              *)

\* Every secret of the roster is sealed under one passphrase, the ones this
\* binary cannot read included: otherwise the operator's passphrase opens
\* some targets and not others, and nothing says so until they are used.
OnePassphrase(r) == \A s1, s2 \in r.secrets : s1.pass = s2.pass

\* A subtable holds one ciphertext, and only in a target's block.
OneSecretEach(r) ==
    /\ \A s \in r.secrets : s.target \in r.targets
    /\ \A s1, s2 \in r.secrets :
          s1.target = s2.target /\ s1.what = s2.what => s1 = s2
=============================================================================
