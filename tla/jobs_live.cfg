CONSTANTS
    Job = {j1, j2}
    Request = {r1}
    NoJob = none
    PoolSize = 1
    MaxJobs = 1
    TTL = 1
    MaxClock = 0
SPECIFICATION FairSpec
PROPERTIES AnalysisEnds PollingEnds
CHECK_DEADLOCK FALSE
