SPECIFICATION Spec
CONSTANTS
  IntMax = 127
  Interface = "opencl"
  Shape <- WideShape
  Requests <- DivisibleRequests
  StatusValues <- RestartOnly
  MaxCalls = 4
  Garbage = 77
  Leftover = {FALSE}
  NoCall = NoCall
  NoJob = NoJob
INVARIANTS TypeOK InOrder WgsStaysInside DoneMeansDone
PROPERTIES ArgsStable EveryItemOnce LaunchReturns LaunchAdvances ImplementsPromise
CHECK_DEADLOCK FALSE
