CONSTANTS
    Memory = {m1}
    Celery = {c1}
    NoSession = none
    MaxBlocks = 1
    MaxCrashes = 1
SPECIFICATION Spec
INVARIANT LatestIsMostRecent
CHECK_DEADLOCK FALSE
