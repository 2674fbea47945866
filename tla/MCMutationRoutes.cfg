SPECIFICATION FairSpec
CONSTANTS
    Runs = {p1}
    RosterOf <- OneRoster
    Fields = {hidden}
    RootOnly = {}
    Refused = {hidden}
    Values = {v}
    Tags = {t1, t2}
    Absent = Absent
    Keep = Keep
    MaxConflictRetries = 2
    MaxLate = 1
INVARIANTS EngineInv
PROPERTIES TagsKept RunEnds
