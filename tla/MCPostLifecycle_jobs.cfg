SPECIFICATION FairSpec
CONSTANTS
    Posts = {p1, p2}
    CreateFiles = {f1}
    Deleters = {d1, d2}
    Editors = {}
    Concurrency = 1
    Attempts = 1
    MaxFaults = 1
INVARIANTS
    CountedOffOnce
PROPERTIES
    UploadSettles
    CleanupFinishes
CONSTRAINT OneOrCompeting
CHECK_DEADLOCK FALSE
