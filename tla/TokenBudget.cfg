CONSTANTS
    r1 = r1
    key1 = key1
    r2 = r2
    Spenders = {r1, r2}
    Everyone = Everyone
    Keys = {key1}
    Label <- MCLabel
    Budget <- MCBudget
    LastDay = 1
    MaxSpent = 2
    Nothing = Nothing
SPECIFICATION BudgetFairSpec
CHECK_DEADLOCK FALSE
INVARIANTS GatesSound
PROPERTIES BudgetEngages
