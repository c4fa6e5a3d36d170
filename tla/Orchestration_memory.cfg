CONSTANTS
    Backend = "memory"
    Schedulers = {s1}
    Pipes = {p1}
    RunIds = {1, 2}
    Workers = {w1, w2}
    Period = 2
    Lookback = 2
    StuckAfter = 1
    MaxRetry = 0
    MaxTime = 7
SPECIFICATION FairSpec
CHECK_DEADLOCK FALSE
INVARIANTS
    OneRunPerTick
    RunningMeansExecuting
PROPERTIES
    RunsFinish
