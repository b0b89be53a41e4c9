SPECIFICATION Spec
CONSTANTS
  Size = 3
  MaxKernels = 7
CONSTRAINT Ordered
INVARIANT FifoOrder
CHECK_DEADLOCK FALSE
