SPECIFICATION Spec
CONSTANTS
    Users = {u1, u2}
    Requests = {r1, r2}
    MaxCrashes = 1
INVARIANTS CountsAgree BlockEndsFollows GoneLeavesNoFollows
PROPERTY AccountsAreRemoved
CHECK_DEADLOCK FALSE
