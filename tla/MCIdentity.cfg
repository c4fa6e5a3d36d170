CONSTANTS
    Backends = {"memory", "postgres"}
    r1 = r1
    r2 = r2
    Requests = {r1, r2}
    Emails = {1, 2}
    Slugs = {"acme", "bolt"}
    Passwords = {1, 2, 3, 4}
    Shape <- MCShape
    RoleLists = {{"viewer"}, {"admin"}}
    Threshold = 2
    MaxRequests = 4
    MaxFaults = 1
    Seed <- MCSeed
    Calls <- MCCalls
    IdentityWired = TRUE
    Secret = "key"
    GatewaySkips = {"verify"}
    SkipAuth = {"login", "verify"}
    Limited = {"login"}
    Minute = 4
    AuthPerMinute = 2
    AuthBurst = 2
    ReadPerMin = 4
    WritePerMin = 2
    MinReadBurst = 2
    MinWriteBurst = 1
    IdleFor = 4
    MaxTicks = 5
    MaxCalls = 4
SPECIFICATION MCSpec
SYMMETRY RequestSymmetry
CHECK_DEADLOCK FALSE
INVARIANTS
    SignInsJustified
    InvitesHold
    ViewsAgree
    RatesExact
