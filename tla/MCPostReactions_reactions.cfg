SPECIFICATION Spec
CONSTANTS
    Users = {u1, u2}
    Requests = {r1, r2}
SYMMETRY Symmetry
INVARIANTS
    CountsCover
    ThreadsAreWhole
    GoneLeavesNothing
    NoTraceLeft
CONSTRAINT TwoActors
CHECK_DEADLOCK FALSE
