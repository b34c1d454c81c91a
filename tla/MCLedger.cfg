SPECIFICATION Spec
CONSTANTS
  Parts = {"pledge", "redeem", "reward", "unpaid", "difficulty", "uint", "compact", "series", "faulty", "buffer"}
  BufSize = 4
  Byte = {"x", "y"}
  Eof = "eof"
  SeekFailed = "fail"
   
PROPERTIES TargetsRight IsQueue
CHECK_DEADLOCK FALSE
