SPECIFICATION Spec
CONSTANTS
    Names = {1, 2, 3}
    Keys = {1, 2}
    Lazies = {FALSE}
    Watches = {TRUE}
    MaxStale = 1
    MaxChanges = 2
INVARIANTS SameChildrenAlways
