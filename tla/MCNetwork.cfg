SPECIFICATION MCSpec
CONSTANTS
  Peer = {r1, r2}
  Tx = {"t1"}
  MinInv = 1
  MaxInv = 2
  Slow = {r2}
  MaxCalls = 1
  Parts = {"blocks", "bad", "txs", "blockTxs", "recovery", "full", "push"}
  None = None
  p1 = p1
  p2 = p2
  q1 = q1
  q2 = q2
  r1 = r1
  r2 = r2
INVARIANTS RequestsExact NothingStranded  PushOrderly
SYMMETRY PeerSymmetry
CHECK_DEADLOCK FALSE
