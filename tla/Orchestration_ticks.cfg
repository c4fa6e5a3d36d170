CONSTANTS
    Backend = "postgres"
    Schedulers = {s1}
    Pipes = {p1}
    RunIds = {1}
    Workers = {w1, w2}
    Period = 2
    Lookback = 2
    StuckAfter = 1
    MaxRetry = 1
    MaxTime = 5
SPECIFICATION FairSpec
CHECK_DEADLOCK FALSE
PROPERTY TicksFire
