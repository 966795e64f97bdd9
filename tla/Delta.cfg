SPECIFICATION DeltaSpec
CONSTANTS
    Budgets = {b1, b2}
    NPeriods = 3
    InitCap <- CapTwo
    Caps = {1, 4}
    MaxRaises = 1
    Scopes <- AnyBudgets
    Costs = {0, 2}
    MaxSpend = 4
    Bands = {50, 95}
    Evaluators = {e1, e2}
    Orders = {"o1", "o2"}
    Committed <- CommittedTwo
    Invoices = {"i1", "i2", "i3"}
    OrderOf <- mcOrderOf
    Billed <- mcBilled
    Payable = {1, 2}
    Clerks = {c1, c2}
    NoClerk = none
    NotYet = notYet
    PaymentKeys = {"k1", "k2", "k3"}
    Amount <- mcAmount
    Payers = {p1, p2}
    DailyCap = 2
    Day = 1
    MaxClock = 2
    Lines = {"l1", "l2"}
    Importers = {i1, i2}
    NoCall = none
    Tasks = {t1, t2, t3}
    Planners = {g1, g2}
    MaxEdges = 2
    NoPlanner = none
SYMMETRY Symmetry
INVARIANTS
    TypeOK
    VersionsGapFree
    EnforcedIsQueued
    DecisionsAlternate
    OrdersAddUp
    PersonalBooksHold
    Acyclic
PROPERTIES
    CommitSettles
