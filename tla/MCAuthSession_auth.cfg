SPECIFICATION Spec
CONSTANTS
    Tabs = {t1}
    Calls = {c1, c2, c3}
    Fetches = {c1}
    First = first
    None = none
    MaxLost = 1
INVARIANTS
    CookieIsCurrent
    InactiveIsOut
PROPERTIES
    DeactivationTakesEffect
    CallsSettle
CHECK_DEADLOCK FALSE
