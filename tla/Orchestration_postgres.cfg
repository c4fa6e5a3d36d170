CONSTANTS
    Backend = "postgres"
    Schedulers = {s1}
    Pipes = {p1}
    RunIds = {1, 2}
    Workers = {w1, w2}
    Period = 2
    Lookback = 2
    StuckAfter = 1
    MaxRetry = 1
    MaxTime = 5
SPECIFICATION Spec
CHECK_DEADLOCK FALSE
INVARIANTS
    NoRunForgotten
    ExecutionShown
