SPECIFICATION MCSpec
CONSTANTS
    Drainers = {d1}
    MaxRow = 1
    Batch = 1
    MaxAttempts = 1
    MaxCrashes = 0
    Nobody = nobody
    Dists = {x1}
    Sentinels = {s1}
    Known = {s1}
    PolicyVersions = {1}
    MaxPosts = 1
    Operators = {o1}
    MaxRedrives = 0
    Txns = {t1, t2}
    Scopes = {k1}
    MaxVersion = 4
    AgentOf <- OneAgent
    Agents = {a1, a2}
PROPERTIES
    AuthorizeSparesAnomalous
