CONSTANTS
    Memory = {m1, m2}
    Celery = {c1}
    NoSession = none
    MaxBlocks = 2
    MaxCrashes = 2
SYMMETRY Symmetry
SPECIFICATION Spec
INVARIANTS SavedSurvives ShowsLoneResult
PROPERTY NoGapWhileUp
CHECK_DEADLOCK FALSE
