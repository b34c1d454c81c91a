SPECIFICATION Spec
CONSTANTS
  Parts = {"unpaid"}
  BufSize = 4
  Byte = {"x", "y"}
  Eof = "eof"
  SeekFailed = "fail"
INVARIANT PaidAfterFailure
CHECK_DEADLOCK FALSE
