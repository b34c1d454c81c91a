CONSTANTS
  Block <- MCValidBlock
  Genesis = "g"
  Parent <- MCParent
  Chain <- MCChain
  Time <- MCTime
  ChainTrust <- MCChainTrust
  Tx <- MCTx
  Out <- MCOut
  Vtx <- MCVtx
  Ins <- MCIns
  Outs <- MCOuts
  Thread = {t1}
  None = None
  MaxCrash = 2
  MaxFault = 0
SPECIFICATION Spec
INVARIANTS MainChainLinked RepairRestores
PROPERTIES NeverLighter
