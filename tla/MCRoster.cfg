SPECIFICATION RosterSpec
CONSTANTS
    Procs = {p1, p2}
    NoProc = NoProc
    NoRoster = NoRoster
    Targets = {t1}
    Passphrases = {a, b}
    Plains = {x, bad}
    Unreadable = {bad}
    Pins = {k1, k2}
    NoPin = NoPin
    Sources = {s1, s2}
    NoSource = NoSource
    Metas = {m1}
    StartRosters <- MCStart
    MaxEdits = 0
SYMMETRY Symmetry
INVARIANTS RosterInv FreshDrafts
PROPERTIES ImplementsStore PinReplacedKnowingly
