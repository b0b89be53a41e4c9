SPECIFICATION Spec
CONSTANTS
  IntMax = 127
  Interface = "opencl"
  Shape <- WideShape
  Requests <- IndivisibleRequests
  StatusValues <- RestartOnly
  MaxCalls = 1
  Garbage = 77
  Leftover = {FALSE}
  NoCall = NoCall
  NoJob = NoJob
PROPERTIES EveryItemOnce
CHECK_DEADLOCK FALSE
