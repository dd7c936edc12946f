\* Three chats share two slots; handlers no slower than IdleTimeout.
CONSTANTS
    Chats = {c1, c2, c3}
    MaxTasks = 4
    MaxConcurrent = 2
    Capacity = 1
    TaskTimeout = 1
    IdleTimeout = 1
    Retention = 4
SPECIFICATION Spec
INVARIANTS SerialPerChat
\* Submissions are bounded: the system stops when all tasks are served.
CHECK_DEADLOCK FALSE
