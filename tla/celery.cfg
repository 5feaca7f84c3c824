CONSTANTS
    Job = {j1}
    Reader = {r1, r2}
    NoJob = none
    Concurrency = 1
    MaxCrashes = 1
SPECIFICATION FairSpec
INVARIANT AnswersAreWhole
PROPERTIES ImplementsLifecycle PollingEnds
CHECK_DEADLOCK FALSE
