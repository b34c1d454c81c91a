SPECIFICATION MCSpec
CONSTANTS
  Genesis = "g"
  Block <- MCBlock
  Parent <- MCParent
  Chain <- MCChain
  Time <- MCTime
  ChainTrust <- MCChainTrust
  Tx <- MCTx
  Out <- MCOut
  Vtx <- MCVtx
  Ins <- MCIns
  Outs <- MCOuts
  Valid <- MCValid
  TxTime <- MCTxTime
  t1 = t1
  t2 = t2
  t3 = t3
  Thread = {t1, t2, t3}
  Pusher = pusher
  None = None
  Free = Free
  SeqStep = 8
  MaxTx = 2
  MaxTxLoad = 3
  Interval = 1
  MaxStop = 1
INVARIANTS CacheValid PoolConsistent Minable WorkServed
PROPERTY CacheStable
SYMMETRY ThreadSymmetry
CHECK_DEADLOCK FALSE
