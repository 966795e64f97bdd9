SPECIFICATION SentinelSpec
CONSTANTS
    Intakes = {i1, i2}
    Readers = {r1}
    MaxVersion = 2
    MaxEpoch = 3
    Nobody = nobody
    Policies <- mcPolicies
    Model = "m"
    MaxNow = 2
    Never = 99
    Deciders = {o1, o2}
    Requesters = {q1}
    Deadline = 1
    MaxCalls = 2
    NoDecider = nobody
    Chain <- mcChain
    Usable = {"a", "b", "d"}
    MaxFallbacks = 2
    Rate <- mcRate
    Estimate = 2
    Ceiling = 5
    BudgetLeft = 4
    Symbols = {"s", "t", "x"}
    Secret <- mcSecret
    Marker = "*"
    MaxChoices = 2
    Chunks <- mcChunks
    Reported = {0, 3}
    BufLen = 2
    MaxText = 6
    MaxGatewayFaults = 1
    SsoTenants = {"t", "u"}
    Protocols = {"oidc"}
    Providers = {"x", "y"}
    NoProvider = nobody
    Groups = {"g"}
    Subjects = {"s"}
    MaxLogins = 2
    MaxCallbacks = 2
    Operators = {"a"}
    MaxIdpChanges = 1
INVARIANTS
    CurrentIsNewest
    CacheAtMostOneBehind
    AllowedIsJustified
    ChangesAreAudited
    AnswerIsAccounted
    NoSecretDelivered
    OperatorsAreAccounted
PROPERTIES
    RefinesRegister
    ForbiddingNeverWidens
    DenialTakesEffect
