SPECIFICATION PipelinesSpec
CONSTANTS
    Candidates = {m1, m2}
    Hooks = {"h1", "h2", "h3"}
    HookWorkers = {w1, w2}
    EventSeverity <- mcEventSeverity
    EventScope <- mcEventScope
    MinSeverity <- mcMinSeverity
    HookScope <- mcHookScope
    AnyScope = "any"
    RetryMax = 3
    MaxReclaims = 4
    MaxFaults = 1
    BatchKeys = {"b1", "b2"}
    Files <- mcFiles
    Submitters = {s1, s2}
    BulkWorkers = {"w1", "w2"}
    Outcomes = {"done"}
    BatchSlots = 1
    FileSlots = 3
    BulkRetryMax = 2
    MaxJobs = 2
    MaxSubmits = 2
    MaxBulkFaults = 1
    Incoming = {"r1", "r2", "r3"}
    VKeys = {"k1", "k2"}
    Rpm = 1
    TeamRpm = 1
    Burst = 2
    MaxStreams = 1
    Window = 3
    MaxLag = 1
    MaxTime = 3
    MaxOutages = 1
    Keys = {"k1", "k2"}
    Contents = {"good", "bad", "other"}
    TenantOf <- mcTenantOf
    UsagePayloads = {"good", "bad"}
    Emitters = {e1, e2}
    Dispatchers = {"d1", "d2"}
    Limit = 2
    MaxForwards = 3
    NoPayload = noPayload
    Events = {"k1", "k2"}
    Handlers = {"g1", "g2"}
    Callers = {"d1", "d2"}
    NoCaller = "nobody"
    BadUsage = {"bad"}
    Chains = {"c1", "c2"}
    Records = {x1}
    Transactions = {"t1", "t2"}
    Value <- mcValue
    Grain <- mcGrain
    PageSize = 1
    MaxAppends = 2
    Nobody = nobody
INVARIANTS
    DeliveriesAreHonest
    BatchesAreExact
    LimitsHold
    IngestIsIdempotent
    UsageIsAccounted
    ReadersAreRight
PROPERTIES
    ChainIsLog
    PipelinesSettle
