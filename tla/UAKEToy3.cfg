CONSTANTS
    NoMsg = NoMsg
    Bot = Bot
    Pending = Pending
    Msg <- Toy3Msg
    Key <- Toy3Key
    State <- Toy3State
    U <- Toy3U
    T <- Toy3T
    Rounds = 3
    MaxSessions = 3
SPECIFICATION Spec
CHECK_DEADLOCK FALSE
INVARIANTS
    ClockSound
    MatchingIffRelayed
    VerdictByPartners
