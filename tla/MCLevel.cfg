SPECIFICATION MCSpec
CONSTANTS
  Writer = {w1, w2, w3, w4}
  SyncWriter = {w1}
  Reader = {"r"}
  write_buffer_size = 0
  MaxGroup = 1
  kL0_CompactionTrigger = 2
  kL0_SlowdownWritesTrigger = 2
  kL0_StopWritesTrigger = 3
  Faults = {}
  MaxFault = 0
  MaxClose = 0
  Parts = {"versions", "snapshots", "log", "torn", "db", "read", "crash", "fail"}
  w1 = w1
  w2 = w2
  w3 = w3
  w4 = w4
  u1 = u1
  u2 = u2
  u3 = u3
INVARIANTS   NothingLost
SYMMETRY WriterSymmetry
CHECK_DEADLOCK FALSE
