SPECIFICATION FairSpec
CONSTANTS
    Requests = {r1, r2}
    RoomProblems = {p1}
    None = None
    RedisEnabled = TRUE
    MaxOverruns = 1
    MaxFaults = 1
INVARIANTS
    TypeOK
    RunMutex
    RunVisible
    NoOrphanRunning
PROPERTIES
    SolvedIsKept
    RunSettles
    RunIsAtomic
