\* Two schedulers whose bus has room; a replica may crash.
CONSTANTS
    Instances = {i1, i2}
    Jobs = {j1}
    NoJob = NoJob
    OnceJobs = {}
    Period = 2
    IdleSleep = 1
    LockTTL = 1
    Capacity = 4
    MaxRuns = 2
    MaxCrashes = 1
    MaxFaults = 1
    MaxToggles = 0
    MaxOutages = 0
SPECIFICATION FairSpec
INVARIANT LockExcludes
PROPERTY DueJobFires
\* All the jobs may have run.
CHECK_DEADLOCK FALSE
