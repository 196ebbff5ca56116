SPECIFICATION DownloadsSpec
CONSTANTS
    Tasks = {t1}
    Calls = {c1, c2, c3}
    MaxAtOnce = 2
    Gids = {g1, g2, g3}
    Names = {n1}
    NoRow = NoRow
    NoGid = NoGid
    MaxTasks = 1
    MaxRuns = 1
    Lossy = TRUE
SYMMETRY Symmetry
INVARIANT ShutdownStopsProcess
CHECK_DEADLOCK FALSE
