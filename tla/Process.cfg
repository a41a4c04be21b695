SPECIFICATION FairProcessSpec
CONSTANTS
    Main = Main
    worker = worker
    Handler = Handler
    a = a
    b = b
    NoThread = NoThread
    Eof = Eof
    Threads <- MCThreads
    Char <- MCChar
    Strings <- MCStrings
    MaxCalls = 3
    MaxSilent = 1
INVARIANTS ProcessTypeOK Conservation SyncPublishesAll ExitHeard InterruptInsideHangs
PROPERTIES ImplementsStream CallsReturn ExitEnds
\* The process exits, or hangs where InterruptInsideHangs says it does.
CHECK_DEADLOCK FALSE
