CONSTANTS
    Procs = {p1}
    Loops = {l1}
    None = None
    Faults = TRUE
    SharedUserDir = FALSE
    Options <- MCOptions
    Images <- MCImages
    Kernels <- MCKernels
SPECIFICATION Spec
INVARIANT TypeOK
INVARIANT NoLeakAtReturn
INVARIANT ResultMatchesMount
INVARIANT VerityHonoured
INVARIANT DataOnlyFallback
INVARIANT IdmapHonoured
PROPERTY MountSpec
