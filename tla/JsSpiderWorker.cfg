SPECIFICATION Spec
CONSTANTS
    Requests = {r1, r2}
    Starters = {s1, s2}
    Destroyers = {d1, d2}
INVARIANT TypeOK
INVARIANT ThreadOwned
INVARIANT DestroyedIsQuiet
PROPERTY WorkerServes
CHECK_DEADLOCK FALSE
