\* Inline deployment: every run ends, however its invocations die.
SPECIFICATION FairSpec
CONSTANTS
    Records = {r1}
    Invocations = {i1}
    Batch = 1
    FinalizeBy = 1
    RequestBudget = 1
    MaxDuration = 1
    LockStale = 2
    MaxInterrupted = 2
    KilledAtLimit = TRUE
    MaxDeaths = 3
PROPERTY EventuallyTerminal
