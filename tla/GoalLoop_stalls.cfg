\* One /goal, nothing fails.
CONSTANTS
    Worker = Worker
    Webs = {}
    Capacity = 2
    TokenBudget = 0
    MaxRounds = 2
    MaxInputs = 1
    MaxGoals = 1
    MaxSpent = 0
    MaxFaults = 0
SPECIFICATION FairSpec
PROPERTY LoopGoesOn
\* Users may stop sending.
CHECK_DEADLOCK FALSE
