SPECIFICATION Spec
CONSTANTS
    Budgets = {b1}
    NPeriods = 1
    InitCap <- CapTwo
    Caps = {1, 4}
    MaxRaises = 0
    Scopes <- AllBudgets
    Costs = {0, 2}
    MaxSpend = 6
    Bands = {50, 95}
    Evaluators = {e1, e2}
PROPERTIES
    LiftedOnlyWithinCap
