SPECIFICATION FairSpec
CONSTANTS
    k1 = k1
    k2 = k2
    gemini = gemini
    ollama = ollama
    value = value
    None = None
    Settings = {value}
    Kernels = {k1}
    Providers = {ollama}
    Keyed = {}
    MaxChats = 2
    MaxSaves = 1
    MaxRefreshes = 1
    MaxCrashes = 1
INVARIANTS TypeOK HistoryWellFormed AnswerFollowsPrompt PostsConfigured
PROPERTIES CommandsEnd
\* The kernels stop once the bounded commands have returned.
CHECK_DEADLOCK FALSE
