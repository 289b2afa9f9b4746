SPECIFICATION Spec
CONSTANTS
    q1 = q1
    q2 = q2
    Domain = {q1, q2}
    Answer = {0, 1}
    NoAnswer = NoAnswer
    i = q1
    qb <- MCBudget
    SeedLists <- MCSeedLists
    None = None
    MaxAsked <- MCMaxAsked
CHECK_DEADLOCK FALSE
INVARIANTS
    SharedAnswers
    DivergesAtFork
    SuccessIsFork
    LiveAfterFork
