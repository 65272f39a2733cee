\* Two tabs with two calls each, three requests at a time, a lock after two failures.
SPECIFICATION SSpec
CONSTANTS
    t1 = t1
    t2 = t2
    Tabs = {t1, t2}
    NoTab = NoTab
    Calls = {c1, c2}
    Slots = {1, 2, 3}
    Threshold = 2
    Scenarios <- MCScenarios
INVARIANTS
    OnlySharedTokensAreMisused
    LockFollowsFailures
PROPERTIES
    CallsSettle
CHECK_DEADLOCK FALSE
