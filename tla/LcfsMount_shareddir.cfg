CONSTANTS
    Procs = {p1, p2}
    Loops = {l1, l2}
    None = None
    Faults = FALSE
    SharedUserDir = TRUE
    Options <- MCOptionsUserDir
    Images <- MCImagesConcurrent
    Kernels <- MCKernelsConcurrent
SPECIFICATION Spec
INVARIANT ResultMatchesMount
