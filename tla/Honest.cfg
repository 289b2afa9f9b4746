CONSTANTS
    NoMsg = NoMsg
    Bot = Bot
    Pending = Pending
    Msg <- Flaky5Msg
    Key <- Flaky5Key
    State <- Flaky5State
    Rounds = 5
    U <- Flaky5U
    T <- Flaky5T
    Fuels <- Fuel0To7
SPECIFICATION Spec
CHECK_DEADLOCK FALSE
INVARIANT
    HonestlyCompletes
PROPERTIES
    ImplementsGame
    Terminates
