\* A chat with a worker and one web request at a time.
CONSTANTS
    Worker = Worker
    Webs = {w}
    Capacity = 1
    TokenBudget = 2
    MaxRounds = 2
    MaxInputs = 3
    MaxGoals = 2
    MaxSpent = 2
    MaxFaults = 1
SPECIFICATION FairSpec
INVARIANTS TypeOK NeverOverbilled BilledExactly PromptsAreAccounted
PROPERTIES StatusIsOrderly LoopEnds
\* Users may stop sending.
CHECK_DEADLOCK FALSE
