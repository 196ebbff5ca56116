SPECIFICATION PbSpec
CONSTANTS
    PbCalls = {p1, p2, p3}
    PbCandidates = {c1, c2}
    PbMaxAttempts = 2
    PbMaxMedia = 4
INVARIANT StopReleases
CHECK_DEADLOCK FALSE
