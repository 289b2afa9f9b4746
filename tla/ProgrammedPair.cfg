SPECIFICATION PairSpec
CONSTANTS
    Domain = {q1, q2}
    Answer = {0, 1}
    NoAnswer = NoAnswer
    Policies <- MCPolicies
    MaxSideQueries = 3
CHECK_DEADLOCK FALSE
INVARIANTS
    IdenticalUntilBad
    BadIffProgrammedPointAsked
    ConsistentAnswers
