SPECIFICATION Spec
CONSTANTS
    Posts = {p1, p2}
    Plain = {p2}
    Names = {n1}
    Requests = {r1, r2}
    None = None
    AllSaved = AllSaved
    DefaultCover = DefaultCover
    MaxCollections = 3
    MaxStarts = 5
INVARIANTS
    OneSelected
    SavesHaveCollection
    CoversAreSaved
SYMMETRY Symmetry
CONSTRAINT LongOrMixed
CHECK_DEADLOCK FALSE
