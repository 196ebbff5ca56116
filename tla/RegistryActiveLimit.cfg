SPECIFICATION Spec
CONSTANTS
  Keys = {k1, k2}
  Sessions = {s1, s2, s3, s4}
  NoEntry = NoEntry
  MaxActive = 1
  IdleMs = 1
  ExplicitDestroy = FALSE
SYMMETRY Symmetry
INVARIANT ActiveLimit
CHECK_DEADLOCK FALSE
