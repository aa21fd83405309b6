SPECIFICATION Spec
CONSTANTS
    Names = {1, 2, 3}
    Keys = {1, 2}
    Lazies = {TRUE, FALSE}
    Watches = {TRUE, FALSE}
    MaxStale = 1
    MaxChanges = 2
INVARIANTS TypeOK SameChildren ShowsTheDelegate
PROPERTIES ReadIsSorted
