SPECIFICATION SettlesSpec
CONSTANTS
    ScRequests = {r1, r2}
    ScStarts = {b1, b2}
    ScDestroys = {d1, d2}
    PbCalls = {p1, p2}
    PbCandidates = {c1, c2}
    PbMaxAttempts = 2
    PbMaxMedia = 6
    Searches = {q1, q2}
    Sources = {a1}
    FailureThreshold = 2
    PxStarts = {t1, t2}
    PxCloses = {k1, k2}
    PxPlayers = {u1}
    PxConns = {n1}
INVARIANTS
    PartsTypeOK
    SidecarLeavesNothing
    ServedIsPlayed
    OldRecoverable
    NoForeignWal
    RestoreIsAtomic
PROPERTIES
    SidecarServes
    PlaybackSettles
    SearchSettles
    StreamsEnd
CHECK_DEADLOCK FALSE
