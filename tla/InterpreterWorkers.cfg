SPECIFICATION FairSpec
CONSTANTS
    w1 = w1
    w2 = w2
    Main = Main
    NewLine = NewLine
    Workers <- MCWorkers
    MaxRequests = 2
    MaxStatements = 2
    MaxWorkerCalls = 2
    MaxLine = 2
INVARIANTS WorkersKept OutputBeforeReply
PROPERTIES ImplementsService RequestsEnd
\* The interpreter stops when it is destroyed or a worker ends the process.
CHECK_DEADLOCK FALSE
