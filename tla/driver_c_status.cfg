SPECIFICATION Spec
CONSTANTS
  IntMax = 127
  Interface = "c"
  Shape <- NarrowShape
  Requests <- CRequests
  StatusValues <- AllStatus
  MaxCalls = 4
  Garbage = 77
  Leftover = {FALSE}
  NoCall = NoCall
  NoJob = NoJob
INVARIANTS DoneMeansDone PollIsAnswered
PROPERTIES ArgsStable LaunchReturns
CHECK_DEADLOCK FALSE
