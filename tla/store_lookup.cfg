CONSTANTS
    Job = {j1, j2, j3, j4, j5, j6}
    Request = {r1, r2}
    NoJob = none
    MaxJobs = 1
    TTL = 1
    MaxClock = 2
SYMMETRY Symmetry
SPECIFICATION StoreSpec
PROPERTY LookupKeepsItsJob
