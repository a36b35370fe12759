CONSTANTS
    Procs = {p1}
    Loops = {l1}
    None = None
    Faults = FALSE
    SharedUserDir = FALSE
    Options <- MCOptions
    Images <- MCImages
    Kernels <- MCKernels
SPECIFICATION Spec
PROPERTY Termination
