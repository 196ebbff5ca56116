SPECIFICATION DownloadsFairSpec
CONSTANTS
    Tasks = {t1, t2}
    Calls = {c1, c2}
    MaxAtOnce = 2
    Gids = {g1, g2}
    Names = {n1, n2}
    NoRow = NoRow
    NoGid = NoGid
    MaxTasks = 2
    MaxRuns = 2
    Lossy = TRUE
PROPERTY AddsSettle
PROPERTY CloseSettles
CHECK_DEADLOCK FALSE
