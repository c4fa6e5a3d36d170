CONSTANTS
    n1 = n1
    n2 = n2
    u1 = u1
    u2 = u2
    w1 = w1
    w2 = w2
    None = None
    Exited = Exited
    Stores = {"memory", "postgres"}
    Notices = {n1, n2}
    Event <- MCEvent
    Rules = {u1, u2}
    RuleConfs <- MCRuleConfs
    Workers = {w1, w2}
    QueueSize = 1
SPECIFICATION FairSpec
CHECK_DEADLOCK FALSE
INVARIANTS
    OnePlace
PROPERTIES
    DueIsSettled
