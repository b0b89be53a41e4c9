SPECIFICATION Spec
CONSTANTS
  Size = 3
  MaxKernels = 3
CONSTRAINT Exclusive
INVARIANT FifoOrder
CHECK_DEADLOCK FALSE
