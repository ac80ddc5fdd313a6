\* One allocation, two shutdowns one after the other.
SPECIFICATION FairSpec
CONSTANTS
  Closers = {c1, c2}
  Overlap = FALSE
INVARIANTS
  TypeOK
  ShutdownFrees
  NoPanic
PROPERTIES
  OrderlyExit
  ShutdownReturns
  ExitNoticed
CHECK_DEADLOCK FALSE
