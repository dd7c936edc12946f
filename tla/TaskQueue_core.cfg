\* Handlers may run for longer than IdleTimeout, so chats lose their queue while
\* a task of theirs waits or runs.
CONSTANTS
    Chats = {c1, c2}
    MaxTasks = 3
    MaxConcurrent = 2
    Capacity = 1
    TaskTimeout = 2
    IdleTimeout = 1
    Retention = 2
SPECIFICATION FairSpec
INVARIANTS TypeOK SlotsAccounted NoTaskLost NoSendOnClosed UnfinishedListed
PROPERTIES NoOvertaking EveryTaskFinishes
\* Submissions are bounded: the system stops when all tasks are served.
CHECK_DEADLOCK FALSE
