SPECIFICATION FairSpec
CONSTANTS
    h = h
    k = k
    l = l
    idle = idle
    s1 = s1
    NULL = NULL
    Task <- MCTask
    Idle = idle
    Prio <- MCPrio
    Obj <- MCSem
    InitRun <- MCInitRun
    TimeMod = 4
    Delays = {}
    Timeouts <- MCShortOrNever
    InitTokens = 1
    MaxTokens = 2
    Deletes = TRUE
INVARIANTS NoTokenWhileWaiting TokensConserved
PROPERTIES TimedPendReturns
