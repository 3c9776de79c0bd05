SPECIFICATION Spec
CONSTANTS
    Sockets = {s1, s2}
    Users = {u1, u2}
    None = None
    MaxMessages = 2
PROPERTIES
    EditsSurvive
CHECK_DEADLOCK FALSE
