SPECIFICATION Spec
CONSTANTS
  IntMax = 127
  Interface = "opencl"
  Shape <- WideShape
  Requests <- LineRequests
  StatusValues <- RestartOnly
  MaxCalls = 1
  Garbage = 77
  Leftover = {TRUE}
  NoCall = NoCall
  NoJob = NoJob
INVARIANTS DoneMeansDone
CHECK_DEADLOCK FALSE
