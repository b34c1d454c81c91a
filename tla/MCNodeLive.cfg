SPECIFICATION LiveSpec
CONSTANTS
  Parts = {"lock", "chain", "store", "keys"}
  None = None
  Thread = {t1, t2, t3}
  MaxRequest = 2
INVARIANTS CountersExact NoLostWakeup
PROPERTIES  ImplementsSharedLock WorkEnds
CHECK_DEADLOCK FALSE
