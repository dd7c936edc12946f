\* The same outage: two replicas receive.
CONSTANTS
    Procs = {p1, p2}
    Nobody = Nobody
    PerProcess = 1
    Redis = FALSE
    TTL = 6
    RenewInterval = 2
    RetryInterval = 2
    MaxFailures = 3
    MaxLatency = 1
    MaxStop = 1
    MaxPoll = 2
SPECIFICATION Spec
INVARIANT OneReceiver
\* Every replica may have shut down for good.
CHECK_DEADLOCK FALSE
