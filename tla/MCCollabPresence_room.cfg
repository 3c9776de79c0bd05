SPECIFICATION Spec
CONSTANTS
    Sockets = {s1, s2, s3}
    Users = {u1, u2}
    None = None
    MaxMessages = 3
SYMMETRY Symmetry
CONSTRAINT OneSubject
INVARIANTS
    NobodyStays
    PagesAgree
    CallRings
    LastCodeIsSaved
CHECK_DEADLOCK FALSE
