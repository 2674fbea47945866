---------------------------- MODULE RosterStore -----------------------------
(***************************************************************************)
(* What internal/roster promises its callers: the roster is one value,     *)
(* changed only by whole operations, each judged against the value it      *)
(* replaces and refused unless the passphrase opens a secret the roster    *)
(* holds.  Roster, with its file lock, snapshots and renames, is shown to  *)
(* implement it.                                                           *)
(***************************************************************************)
EXTENDS RosterFile

CONSTANT StartRosters   \* the rosters a run may find

VARIABLE file

StoreInit == file \in StartRosters

Operate(q, pass) ==
    /\ q.op \in Proving => Opens(file, pass)
    /\ Allowed(file, q, pass)
    /\ ~NothingToDo(file, q)
    /\ file' = Composed(file, q, pass)

StoreNext == \E q \in Requests, pass \in Passphrases : Operate(q, pass)

StoreSpec == StoreInit /\ [][StoreNext]_file
=============================================================================
