SPECIFICATION Spec
CONSTANTS
    Requests = {r1, r2}
    RoomProblems = {p1, p2}
    None = None
    RedisEnabled = FALSE
    MaxOverruns = 0
    MaxFaults = 1
SYMMETRY Symmetry
INVARIANTS
    NoLeakedLock
    SelectionAgrees
