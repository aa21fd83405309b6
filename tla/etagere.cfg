SPECIFICATION Spec
CONSTANTS
    Procs = {p, q}
    Names = {m, n}
    NoName = NoName
    MaxId = 2
    MaxChanges = 3
    MaxMail = 1
    MaxCrashes = 1
SYMMETRY Alike
CHECK_DEADLOCK FALSE
INVARIANTS
    TypeOK
    UniqueIds
    LoadIsOneSave
    CleanIsOnDisk
PROPERTIES
    LearnsSaved
