CONSTANTS
    r1 = r1
    r2 = r2
    Requests = {r1}
    MaxRequests = 3
    MaxFaults = 1
    People <- MCPeople
    Configs <- MCConfigs
    Rows0 = 2
    Conns <- MCConns
    Forms <- MCForms
    Seed <- MCSeed
    BatchSize = 2
    MaxRuns = 2
    MaxCrashes = 1
SPECIFICATION FairSpec
CHECK_DEADLOCK FALSE
INVARIANTS
    TargetFaithful
PROPERTIES
    MigrationEnds
