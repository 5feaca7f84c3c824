CONSTANTS
    Id = {i1, i2}
    MaxReports = 2
    MaxOptions = 2
    NumKeys = 3
    MaxRetries = 2
    MaxRemoved = 2
SPECIFICATION FairSpec
INVARIANTS AnsweredOrExplained NothingUnchecked StoredUnderScanned AllKeysTried ViewsAgree BlockedIsVerified
PROPERTY PipelineEnds
CHECK_DEADLOCK FALSE
