SPECIFICATION Spec
CONSTANTS
    top = top
    sub = sub
    b = b
    other = other
    c = c
    x = x
    y = y
    None = None
    Top = top
    Paths = {top, sub, b, other, c, x, y}
    Up <- Tree
    Sources <- OneTree
    Namesakes <- OneName
    Targets <- Occupied
    Options <- Plain
    MaxFaults = 0
    MaxEdits = 0
CHECK_DEADLOCK FALSE
INVARIANTS MoveKeepsAll
