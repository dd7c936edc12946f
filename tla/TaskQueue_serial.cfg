\* A slot for every chat and handlers no slower than IdleTimeout.
CONSTANTS
    Chats = {c1, c2}
    MaxTasks = 4
    MaxConcurrent = 2
    Capacity = 1
    TaskTimeout = 1
    IdleTimeout = 1
    Retention = 4
SPECIFICATION FairSpec
INVARIANTS SerialPerChat
PROPERTIES ImplementsExecutor
\* Submissions are bounded: the system stops when all tasks are served.
CHECK_DEADLOCK FALSE
