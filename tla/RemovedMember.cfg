SPECIFICATION CollaborationSpec
CONSTANTS
    MailKeys = {k1, k2, k3}
    Senders = {s1, s2}
    MailCap = 2
    InboxPage = 1
    MaxSends = 4
    NoSender = nobody
    StateKeys = {k1, k2}
    Writers = {w1, w2}
    StateCap = 1
    MaxVersion = 3
    NoWriter = nobody
    RuleIds = {"r1", "r2", "r3", "r4"}
    NameOf <- mcNameOf
    Fires <- mcFires
    Authors = {a1, a2}
    AcceptedEvents = {e1, e2}
    RuleCap = 2
    NoAuthor = nobody
    NoRule = noRule
    ApiKeys = {k1, k2}
    Issuers = {i1, i2}
    Partners = {p1, p2}
    KeyCap = 1
    RateLimit = 1
    MaxMinute = 1
    NoIssuer = nobody
    NoKey = noKey
    Fleet = {1, 2}
    Endpoints = {"e1", "e2"}
    Registrars = {"o1", "o2"}
    Cycles = {"c1", "c2"}
    Pushes = {p1}
    Relays = {r1}
    Threshold = 2
    Staleness = 1
    MaxFleetTime = 2
    MaxLinks = 2
    MaxProbeFails = 2
    Feeds = {"identity", "safety"}
    ReportKeys = {"k1", "k2"}
    ReportTenants = {"t1", "t2"}
    Reports = {d1, d2}
    PageRows = 1
    MaxReports = 3
    People = {"u", "v"}
    Sockets = {"s1", "s2"}
    OwnerOf <- mcOwnerOf
    Messages = {"m1", "m2"}
    AuthorOf <- mcAuthorOf
    MaxRoleChanges = 2
    NoMessage = noMessage
    Participants = {"u", "v", "w"}
    Phones = {"c1", "c2", "c3", "c4"}
    PhoneOf <- mcPhoneOf
    Calls = {"h1", "h2"}
    MaxDrops = 1
    NoHuddle = noHuddle
    Families = {f1}
    MaxGeneration = 2
    Presenters = {p1, p2, p3}
    NoPresenter = nobody
INVARIANTS
    RemovedIsDeaf
