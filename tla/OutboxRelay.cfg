CONSTANTS
    Events = {e1, e2, e3}
    Relays = {r1, r2}
    BatchSize = 2
    Poison = {e3}
    FaultBound = 2
SPECIFICATION FairSpec
CHECK_DEADLOCK FALSE
INVARIANTS
    ProcessedMeansSent
    RepeatsExcused
PROPERTIES
    EveryEventSent
