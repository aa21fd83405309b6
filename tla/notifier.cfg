SPECIFICATION LiveSpec
CONSTANTS
    d = d
    Clients = {a, b}
    Pids = {p, q}
    PidsReused = FALSE
    Daemons = {d, e}
    Names = {m, n}
    FirstDaemons <- OneOrNone
    None = None
    MaxEdits = 3
    MaxKills = 1
CHECK_DEADLOCK FALSE
INVARIANTS
    TypeOK
    NotMine
    InOrder
    

    
