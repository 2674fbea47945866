SPECIFICATION Spec
CONSTANTS
    Holders = {r1, r2}
    Attempts = 2
    MaxMints = 3
    MaxRuns = 1
    MaxLate = 1
PROPERTIES HeldTokensSafe
