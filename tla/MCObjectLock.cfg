SPECIFICATION BoundedSpec
CONSTANTS
    Procs = {p1, p2, p3}
    NoProc = NoProc
    WaitBound = 2
INVARIANTS LockInv Exclusion
PROPERTIES WriterPriority ImplementsReadersWriters WaitEnds
