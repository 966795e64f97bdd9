SPECIFICATION MCSpec
CONSTANTS
    Drainers = {d1, d2}
    MaxRow = 2
    Batch = 2
    MaxAttempts = 2
    MaxCrashes = 1
    Nobody = nobody
    Dists = {x1, x2, x3}
    Sentinels = {s1, s2}
    Known = {s1}
    PolicyVersions = {1, 2}
    MaxPosts = 2
    Operators = {o1}
    MaxRedrives = 1
    Txns = {t1, t2}
    Scopes = {k1, k2}
    MaxVersion = 3
    AgentOf <- OneAgent
    Agents = {a1}
INVARIANTS
    OutboxIsExact
    NeverFalseSuccess
    NoStaleEnforcement
    NewestDecisionIsState
    KillsAlternate
PROPERTIES
    ReportsAreFinal
    DecisionsSettle
    DistributedIsEnforced
