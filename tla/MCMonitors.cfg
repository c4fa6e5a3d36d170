CONSTANTS
    r1 = r1
    r2 = r2
    w1 = w1
    Down = Down
    Requests = {r1, r2}
    MaxRequests = 3
    MaxFaults = 1
    People <- MCPeople
    Declarations <- MCDeclarations
    Profiles <- MCProfiles
    Window = 1
    Profiled = {1, 2}
    MaxProfiles = 2
    MaxSeconds = 2
    Models <- MCModels
    PriceBook <- Prices
    Warehouses <- MCWarehouses
    Usages <- MCUsages
    Budgets <- MCBudgets
    Cooldown = 2
    MaxHours = 2
    MaxCosts = 3
    Checks <- MCChecks
    Sources = {1}
    Measurements <- MCMeasurements
    Workers = {w1}
    MaxConcurrentPerSource = 1
    MaxRetry = 1
    MaxJobs = 2
SPECIFICATION MCSpec
CHECK_DEADLOCK FALSE
INVARIANTS
    BreachesReported
    AlertsSpaced
    SourcesSpared
    MonitorsApart
SYMMETRY RequestSymmetry
