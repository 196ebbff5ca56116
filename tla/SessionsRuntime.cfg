SPECIFICATION SsSpec
CONSTANTS
    SsUi = {o1, o2}
    SsSearches = {f1}
    SsResets = {r1}
    MaxSpiderSessions = 3
    MaxRuntimes = 3
INVARIANT FailedRuntimeIsInvalidated
CHECK_DEADLOCK FALSE
