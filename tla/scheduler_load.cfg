SPECIFICATION SchedulerSpec
CONSTANTS
  Size = 2
  MaxKernels = 2
  HWSlots = 4
  MaxIOPages = 3
  Libraries <- AllLibraries
  IOCounts = {1}
INVARIANT LoadsOnlyFree
CHECK_DEADLOCK FALSE
