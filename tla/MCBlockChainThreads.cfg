CONSTANTS
  Block <- MCBlock
  Genesis = "g"
  Parent <- MCParent
  Chain <- MCChain
  Time <- MCTime
  ChainTrust <- MCChainTrust
  Tx <- MCTx
  Out <- MCOut
  Vtx <- MCVtx
  Ins <- MCIns
  Outs <- MCOuts
  Thread = {t1, t2}
  None = None
  MaxCrash = 0
  MaxFault = 1
SYMMETRY ThreadSymmetry
SPECIFICATION Spec
INVARIANTS ForkConsistent ViewCorrect BestChain NoDoubleSpend
