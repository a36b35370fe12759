CONSTANTS
    None = None
    NInodes = 2
    MaxRecursion = 4
    MaxLen = 2
    MaxInterrupts = 1
    MaxInputs = 1
    Faults = TRUE
    Images <- MCImages
SPECIFICATION Spec
INVARIANT NoHandleLeak
