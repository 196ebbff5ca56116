SPECIFICATION DesktopSpec
CONSTANTS
    SsUi = {o1}
    SsSearches = {a1, a2}
    SsResets = {c1, c2}
    MaxSpiderSessions = 3
    MaxRuntimes = 3
    MaxBegun = 4
    PushRequests = {a1, a2, b}
    MaxPending = 2
    MaxQueue = 2
    MaxConfigures = 1
    MaxSessions = 1
    Series = {a1, a2}
    FollowSources = {x, y}
    MaxConcurrentChecks = 1
    MaxEpisode = 1
    Episodes = {a1, a2}
    MaxPosition = 2
    CastCalls = {a1, a2}
    Searches = {a1, a2}
    Sources = {c1, c2}
    FailureThreshold = 1
    LmPaths = {c1, c2}
    LmCalls = {a1, a2, b}
SYMMETRY Symmetry
INVARIANTS
    DesktopTypeOK
    OneLiveRuntime
    ReadyMeansUsable
    PushAccounted
    QueueIsServed
    FollowPaced
    ProgressKept
    BridgeOwned
    SearchIsolated
    ScansAreOwned
CHECK_DEADLOCK FALSE
