SPECIFICATION LiveSpec
CONSTANTS
  Keys = {k1, k2}
  Sessions = {s1, s2, s3}
  NoEntry = NoEntry
  MaxActive = 1
  IdleMs = 1
  ExplicitDestroy = FALSE
PROPERTIES
  AcquireSettles
  ShutdownCompletes
CHECK_DEADLOCK FALSE
