SPECIFICATION LiveSpec
CONSTANTS
    Clients = {a, b}
    MaxAsks = 3
    MaxKills = 1
CHECK_DEADLOCK FALSE
INVARIANTS
    TypeOK
    RightAnswer
    StillComing
PROPERTIES
    GetReturns
