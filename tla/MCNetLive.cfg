SPECIFICATION FairSpec
CONSTANTS
  Parts = {"catchUp", "announce", "locate", "stop", "start"}
  None = None
  N = 4
  Kind <- Kinds
  Io <- Ios
  CanFail = {1, 2, 3, 4}
  BadHandler = TRUE
  EarlyStop = TRUE
  MaxQueue = 2
 
PROPERTIES Exchanges 
CHECK_DEADLOCK FALSE
