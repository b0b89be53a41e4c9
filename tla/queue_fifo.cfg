SPECIFICATION Spec
CONSTANTS
  Kernels = {k1, k2, k3}
  Size = 3
  NoKernel = NoKernel
INVARIANTS TypeOK EndsAgree
PROPERTIES ImplementsFifo
