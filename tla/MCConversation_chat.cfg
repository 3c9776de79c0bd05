SPECIFICATION Spec
CONSTANTS
    Users = {u1, u2, u3, u4}
    Requests = {r1, r2}
    None = None
    MaxStarts = 3
    MaxGone = 1
SYMMETRY Symmetry
CONSTRAINT TwoWhenIncomplete
INVARIANTS
    GroupKeepsAdmin
    UnreadIsCounted
    LastMessageIsThere
    OnlyHiddenIsDestroyed
    RoomHasConversation
PROPERTIES
    MembersStay
CHECK_DEADLOCK FALSE
