SPECIFICATION Spec
CONSTANTS
    k1 = k1
    k2 = k2
    gemini = gemini
    ollama = ollama
    value = value
    None = None
    Settings = {value}
    Kernels <- MCKernels
    Providers = {gemini}
    Keyed <- MCKeyed
    MaxChats = 2
    MaxSaves = 1
    MaxRefreshes = 1
    MaxCrashes = 1
INVARIANTS SeparatorsKept PostsOwnPrompt PostsConfigured
SYMMETRY MCSymmetry
\* The kernels stop once the bounded commands have returned.
CHECK_DEADLOCK FALSE
