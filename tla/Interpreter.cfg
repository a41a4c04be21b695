SPECIFICATION Spec
CONSTANTS
    w1 = w1
    w2 = w2
    Main = Main
    NewLine = NewLine
    Workers = {}
    MaxRequests = 2
    MaxStatements = 3
    MaxWorkerCalls = 0
    MaxLine = 2
INVARIANTS TypeOK SilentUnheard ProgramOrder StreamsApart
    NothingCarriedOver StreamsRestored PromptShown InputOwned
\* The interpreter stops when it is destroyed.
CHECK_DEADLOCK FALSE
