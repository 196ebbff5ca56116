SPECIFICATION Spec
CONSTANTS
  Keys = {k1, k2}
  Sessions = {s1, s2, s3}
  NoEntry = NoEntry
  MaxActive = 1
  IdleMs = 1
  ExplicitDestroy = TRUE
SYMMETRY Symmetry
INVARIANTS
  TypeOK
  SlotAccounting
  SingleCreation
  LeaseSound
  InitBeforeDestroy
  NoLostWakeup
  CloseCleansUp
CHECK_DEADLOCK FALSE
