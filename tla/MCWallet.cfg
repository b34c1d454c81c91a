SPECIFICATION MCSpec
CONSTANTS
  Key = {"k"}
  Pass = {"p", "q"}
  Signer = {s1, s2}
  Delay = {0, 1, 2}
  MaxClock = 3
  MaxTimer = 3
  MaxStop = 1
  Parts = {"coins", "faults", "keys", "select"}
  CanCrash = TRUE
  CanOverlap = TRUE
  None = None
  s1 = s1
  s2 = s2
INVARIANTS  OpensAfterRestart SelectionRight
PROPERTY NotEarly
SYMMETRY SignerSymmetry
CHECK_DEADLOCK FALSE
