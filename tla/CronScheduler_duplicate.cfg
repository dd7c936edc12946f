\* Two healthy schedulers.
CONSTANTS
    Instances = {i1, i2}
    Jobs = {j1}
    NoJob = NoJob
    OnceJobs = {}
    Period = 2
    IdleSleep = 1
    LockTTL = 1
    Capacity = 4
    MaxRuns = 1
    MaxCrashes = 0
    MaxFaults = 0
    MaxToggles = 0
    MaxOutages = 0
SPECIFICATION Spec
INVARIANT OncePerOccurrence
\* All the jobs may have run.
CHECK_DEADLOCK FALSE
