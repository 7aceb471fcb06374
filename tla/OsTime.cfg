SPECIFICATION FairSpec
CONSTANTS
    h = h
    l1 = l1
    l2 = l2
    idle = idle
    NULL = NULL
    Task <- MCTask
    Idle = idle
    Prio <- MCPrio
    Obj = {}
    InitRun <- MCInitRun
    TimeMod = 6
    Delays <- MCDelays
INVARIANTS SchedConsistent RunningIsReady WokenOnTime
PROPERTIES HeadGetsProcessor
