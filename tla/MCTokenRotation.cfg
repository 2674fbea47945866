SPECIFICATION FairSpec
CONSTANTS
    Holders = {r1}
    Attempts = 3
    MaxMints = 3
    MaxRuns = 2
    MaxLate = 2
INVARIANTS RotationInv
PROPERTIES RejectedNotPersisted HeldTokensSafe RunEnds
