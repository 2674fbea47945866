SPECIFICATION Spec
CONSTANTS
    Runs = {p1, p2}
    RosterOf <- OneRoster
    Fields = {cores, args}
    RootOnly = {args}
    Refused = {}
    Values = {v}
    Tags = {t1}
    Absent = Absent
    Keep = Keep
    MaxConflictRetries = 3
    MaxLate = 0
INVARIANTS EngineInv
PROPERTIES ConflictIsExternal
