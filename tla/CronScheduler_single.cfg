\* One scheduler; it may crash, queries may fail, and a job is edited.
CONSTANTS
    Instances = {i1}
    Jobs = {j1, j2}
    NoJob = NoJob
    OnceJobs = {j1}
    Period = 2
    IdleSleep = 1
    LockTTL = 1
    Capacity = 1
    MaxRuns = 1
    MaxCrashes = 1
    MaxFaults = 1
    MaxToggles = 1
    MaxOutages = 1
SPECIFICATION Spec
INVARIANTS TypeOK OncePerOccurrence SleepsPrecisely
\* All the jobs may have run.
CHECK_DEADLOCK FALSE
