CONSTANTS
    Backends = {"memory", "postgres"}
    r1 = r1
    r2 = r2
    Requests = {r1, r2}
    MaxRequests = 4
    MaxFaults = 1
    People <- MCPeople
    Bodies <- MCBodies
    Scopes <- MCScopes
    Assets = {1}
    Seed <- MCSeed
    Writers = {"memory", "postgres"}
    Handlers = {r1, r2}
    p1 = p1
    p2 = p2
    Procs = {p1, p2}
    Statuses = {200, 403}
    MaxEvents = 3
    MaxRestarts = 1
    MaxLost = 1
SPECIFICATION MCSpec
SYMMETRY RequestSymmetry
CHECK_DEADLOCK FALSE
INVARIANTS
    DecisionsFollow
    TenantsApart
    ForksExplained
PROPERTIES
    DeletionsSafe
