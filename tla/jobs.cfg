CONSTANTS
    Job = {j1, j2}
    Request = {r1, r2}
    NoJob = none
    PoolSize = 2
    MaxJobs = 1
    TTL = 1
    MaxClock = 2
SYMMETRY Symmetry
SPECIFICATION Spec
INVARIANTS StoredMatchesWorker VerdictIsFinal
PROPERTIES DroppedForGood ImplementsLifecycle
CHECK_DEADLOCK FALSE
