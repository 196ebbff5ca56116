SPECIFICATION BothSpec
CONSTANTS
    Tasks = {t1, t2}
    Calls = {c1, c2, c3, c4}
    MaxAtOnce = 3
    Gids = {g1, g2, g3}
    Names = {n1, n2}
    NoRow = NoRow
    NoGid = NoGid
    Last = c4
    MaxTasks = 2
    MaxRuns = 2
    Lossy = TRUE
SYMMETRY Symmetry
INVARIANT DownloadsTypeOK
INVARIANT ActiveRowsAreReal
INVARIANT GidsWired
INVARIANT SingleProcess
INVARIANT AloneAreOwned
CHECK_DEADLOCK FALSE
