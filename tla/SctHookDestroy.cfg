CONSTANTS
  Threads = {t1}
  MaxLoads = 1

SPECIFICATION Spec
CHECK_DEADLOCK FALSE

INVARIANT DestroysStubs
