SPECIFICATION Spec
CONSTANTS
    q1 = q1
    q2 = q2
    Domain = {q1, q2}
    Answer = {0, 1}
    NoAnswer = NoAnswer
    Default = 0
    Seeds <- MCSeeds
    Budgets <- MCBudgets
    CacheFirst = FALSE
    MaxQueries = 5
CHECK_DEADLOCK FALSE
INVARIANTS
    SeedServedInOrder
