SPECIFICATION Spec
CONSTANTS
    k1 = k1
    k2 = k2
    gemini = gemini
    ollama = ollama
    value = value
    None = None
    Settings = {value}
    Kernels = {k1}
    Providers = {gemini}
    Keyed <- MCKeyed
    MaxChats = 1
    MaxSaves = 1
    MaxRefreshes = 1
    MaxCrashes = 0
PROPERTIES RefreshResetsModel
\* The kernels stop once the bounded commands have returned.
CHECK_DEADLOCK FALSE
