SPECIFICATION Spec
CONSTANTS
    home = home
    away = away
    f = f
    g = g
    Dirs = {home, away}
    UrlOf <- Urls2
    Names = {f, g}
    Files <- FilesUp
    None = None
    NewLine = "n"
    MimeHistorySize = 2
    ListSize = 1
    Patient = TRUE
    MaxSelections = 3
    MaxPastes = 3
    MaxCommands = 6
SYMMETRY Alike
CHECK_DEADLOCK FALSE
INVARIANTS
    TypeOK
    UndoRestores
    NothingLost
    LatestFirst
