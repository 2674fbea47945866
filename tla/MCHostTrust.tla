----------------------------- MODULE MCHostTrust -----------------------------
(* Instances of HostTrust: two processes, two machines, two TLS keys.      *)
EXTENDS HostTrust, TLC

CONSTANTS h1, h2, k1, k2

Boot(noKey, insecure, fp, tofu, reprovisioned) ==
    [kind |-> "bootstrap", noKey |-> noKey, insecure |-> insecure,
     fp |-> fp, tofu |-> tofu, reprovisioned |-> reprovisioned]

\* First runs and reruns with a verified key, with trust on first use and
\* with neither; without --insecure-tls; keyless ones; reprovisions.
MCBootstraps ==
    {Boot(FALSE, TRUE, h1, FALSE, FALSE), Boot(FALSE, TRUE, None, TRUE, FALSE),
     Boot(FALSE, FALSE, None, FALSE, FALSE), Boot(TRUE, TRUE, h1, FALSE, FALSE),
     Boot(FALSE, FALSE, h2, FALSE, TRUE), Boot(TRUE, FALSE, h2, FALSE, TRUE)}

MCPinTLSs ==
    {[kind |-> "pin-tls", expect |-> None, repin |-> FALSE, print |-> FALSE],
     [kind |-> "pin-tls", expect |-> None, repin |-> TRUE, print |-> FALSE],
     [kind |-> "pin-tls", expect |-> k1, repin |-> FALSE, print |-> FALSE],
     [kind |-> "pin-tls", expect |-> None, repin |-> TRUE, print |-> TRUE]}

\* With the password: a session with the key needs the same, and the key.
MCKeyReports == {[kind |-> "keys", noKey |-> TRUE, fp |-> None]}

RunSymmetry == Permutations(Runs)

MCCommands == MCBootstraps \cup MCPinTLSs \cup MCKeyReports

Entry(insecure, token, ssh, tls) ==
    [insecure |-> insecure, token |-> token, ssh |-> ssh, tls |-> tls]

Pinned == [key |-> FirstKey, fp |-> h1, parses |-> TRUE,
           source |-> "ssh-verified"]

Unpinned == [Pinned EXCEPT !.fp = None, !.source = None]

FirstTLS == [pin |-> k1, source |-> "ssh-verified"]

\* No entry yet, of which bootstrap makes a bare one and, without --insecure-tls,
\* one without a TLS pin; one with both pins, of which a hand edit makes one that
\* lacks either; a keyless one; one older than host key pins.
MCInitTargets ==
    {None, Entry(TRUE, TRUE, Pinned, FirstTLS), Entry(TRUE, TRUE, None, FirstTLS),
     Entry(TRUE, TRUE, Unpinned, None)}

=============================================================================
