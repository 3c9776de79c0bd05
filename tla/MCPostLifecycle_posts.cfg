SPECIFICATION Spec
CONSTANTS
    Posts = {p1, p2}
    CreateFiles = {f1}
    Deleters = {d1}
    Editors = {e1}
    Concurrency = 1
    Attempts = 2
    MaxFaults = 1
INVARIANTS
    CountersCover
    MediaIsKept
    NoOrphanFiles
SYMMETRY Symmetry
CONSTRAINT OneOrPlain
CHECK_DEADLOCK FALSE
