SPECIFICATION FairSpec
CONSTANTS
    Posts = {p1}
    CreateFiles = {f1}
    Deleters = {d1}
    Editors = {}
    Concurrency = 1
    Attempts = 1
    MaxFaults = 0
PROPERTY
    DeletionFinishes
CHECK_DEADLOCK FALSE
