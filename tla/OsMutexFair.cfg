SPECIFICATION FairSpec
CONSTANTS
    h = h
    k = k
    l = l
    idle = idle
    m1 = m1
    NULL = NULL
    Task <- MCTask
    Idle = idle
    Prio <- MCPrio
    Obj <- MCOneMutex
    InitRun <- MCInitRun
    TimeMod = 4
    Delays <- MCTick
    Users <- MCTwoUse
    Timeouts <- MCNever
    MaxLevel = 1
    Nested = FALSE
    Deletes = FALSE
    ReleaseGap = FALSE
PROPERTIES UrgentTaskServed
