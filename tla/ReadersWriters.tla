--------------------------- MODULE ReadersWriters ---------------------------
(***************************************************************************)
(* What internal/lock promises for one object key, without saying how: a   *)
(* readers-writers lock with a gate.  A mutation closes the gate while it  *)
(* waits; a read is admitted only through an open gate; the object is used *)
(* by one mutation alone or by any number of reads.  The promise is the    *)
(* package comment of internal/lock/lock.go; ObjectLock is shown to        *)
(* implement it.                                                           *)
(***************************************************************************)
CONSTANTS Procs,   \* pveforge processes that share one roster
          NoProc   \* "nobody"

VARIABLES gate,      \* the mutation that has closed the gate, or NoProc
          admitted,  \* reads let through the gate and not yet using the object
          readers,   \* reads using the object
          writer     \* the mutation using the object, or NoProc

rwVars == <<gate, admitted, readers, writer>>

RWInit ==
    /\ gate = NoProc
    /\ admitted = {}
    /\ readers = {}
    /\ writer = NoProc

CloseGate(w) ==
    /\ gate = NoProc
    /\ gate' = w
    /\ UNCHANGED <<admitted, readers, writer>>

OpenGate ==
    /\ gate # NoProc
    /\ gate' = NoProc
    /\ UNCHANGED <<admitted, readers, writer>>

\* The gate's closer takes the object, once no read and no mutation uses it.
StartWriting(w) ==
    /\ gate = w
    /\ readers = {}
    /\ writer = NoProc
    /\ writer' = w
    /\ UNCHANGED <<gate, admitted, readers>>

\* A mutation that dies, or fails, may let go of the gate in the same step.
StopWriting ==
    /\ writer # NoProc
    /\ writer' = NoProc
    /\ gate' \in {gate, NoProc}
    /\ UNCHANGED <<admitted, readers>>

Admit(r) ==
    /\ gate = NoProc
    /\ r \notin admitted
    /\ admitted' = admitted \cup {r}
    /\ UNCHANGED <<gate, readers, writer>>

StartReading(r) ==
    /\ r \in admitted
    /\ writer = NoProc
    /\ admitted' = admitted \ {r}
    /\ readers' = readers \cup {r}
    /\ UNCHANGED <<gate, writer>>

\* A read that gives up or dies before it used the object.
Withdraw(r) ==
    /\ r \in admitted
    /\ admitted' = admitted \ {r}
    /\ UNCHANGED <<gate, readers, writer>>

StopReading(r) ==
    /\ r \in readers
    /\ readers' = readers \ {r}
    /\ UNCHANGED <<gate, admitted, writer>>

RWNext ==
    \/ OpenGate
    \/ StopWriting
    \/ \E p \in Procs :
          \/ CloseGate(p)
          \/ StartWriting(p)
          \/ Admit(p)
          \/ StartReading(p)
          \/ Withdraw(p)
          \/ StopReading(p)

RWSpec == RWInit /\ [][RWNext]_rwVars
=============================================================================
