\* The Redis lease, with the least TTL the timing margin allows.
CONSTANTS
    Procs = {p1, p2}
    Nobody = Nobody
    PerProcess = 1
    Redis = TRUE
    TTL = 8
    RenewInterval = 2
    RetryInterval = 2
    MaxFailures = 1
    MaxLatency = 1
    MaxStop = 1
    MaxPoll = 2
SPECIFICATION FairSpec
INVARIANTS TypeOK OneReceiver ReceiverHoldsFreshLease
PROPERTY Takeover
\* Every replica may have shut down for good.
CHECK_DEADLOCK FALSE
