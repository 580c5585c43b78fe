\* Inline deployment: the platform ends an invocation before its claim goes stale.
SPECIFICATION Spec
CONSTANTS
    Records = {r1, r2}
    Invocations = {i1, i2}
    Batch = 2
    FinalizeBy = 1
    RequestBudget = 1
    MaxDuration = 1
    LockStale = 2
    MaxInterrupted = 2
    KilledAtLimit = TRUE
    MaxDeaths = 1
SYMMETRY Symmetry
INVARIANTS
    TypeOK
    ExclusiveHolder
    CountsAreRight
    FinishedIsWhole
PROPERTIES
    FiguresNeverShrink
    ImplementsSoleWorker
