SPECIFICATION Spec
CONSTANTS
    k1 = k1
    k2 = k2
    NoFile = NoFile
    Hole = Hole
    Kernels <- MCKernels
    Names <- MCNames
    MaxBlocks = 2
    MaxCommands = 3
    MaxCrashes = 1
INVARIANTS AppendKept FileAsDocumented
\* The kernels stop once the bounded commands have returned.
CHECK_DEADLOCK FALSE
