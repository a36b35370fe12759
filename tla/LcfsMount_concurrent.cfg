CONSTANTS
    Procs = {p1, p2}
    Loops = {l1, l2}
    None = None
    Faults = TRUE
    SharedUserDir = FALSE
    Options <- MCOptionsConcurrent
    Images <- MCImagesConcurrent
    Kernels <- MCKernelsConcurrent
SPECIFICATION Spec
INVARIANT ImageIsolation
INVARIANT NoLeakAtReturn
INVARIANT ResultMatchesMount
PROPERTY MountSpec
