CONSTANTS
    NoMsg = NoMsg
    Bot = Bot
    Pending = Pending
    Msg <- Nonce2Msg
    Key <- Nonce2Key
    State <- Nonce2State
    U <- Nonce2U
    T <- Nonce2T
    Rounds = 2
    MaxSessions = 2
SPECIFICATION Spec
CHECK_DEADLOCK FALSE
INVARIANTS
    ChallengeSealed
    PartnersAgree
PROPERTY
    CompletedSessionsFrozen
