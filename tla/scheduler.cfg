SPECIFICATION SchedulerSpec
CONSTANTS
  Size = 2
  MaxKernels = 3
  HWSlots = 4
  MaxIOPages = 3
  Libraries <- AllLibraries
  IOCounts = {1, 2}
INVARIANTS SchedulerTypeOK CountInRange ScanIsSound LoadsStartFree PagesCycle
PROPERTIES KeepsServing RoundAdvances FifoIfOrdered
CHECK_DEADLOCK FALSE
