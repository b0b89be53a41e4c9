SPECIFICATION SchedulerSpec
CONSTANTS
  Size = 2
  MaxKernels = 1
  HWSlots = 4
  MaxIOPages = 3
  Libraries <- WorkingLibraries
  IOCounts = {1}
PROPERTY KernelFinishes
CHECK_DEADLOCK FALSE
