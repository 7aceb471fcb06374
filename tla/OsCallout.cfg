SPECIFICATION FairSpec
CONSTANTS
    cons = cons
    prod = prod
    idle = idle
    q1 = q1
    e1 = e1
    t1 = t1
    t2 = t2
    NULL = NULL
    Task <- MCTask
    Idle = idle
    Prio <- MCPrio
    Obj = {}
    InitRun <- MCInitRun
    TimeMod = 6
    Delays <- MCTick
    Evq <- MCEvq
    Event <- MCEvent
    EvqOf <- MCEvqOf
    Consumer <- MCConsumer
    Callout <- MCCallout
    Resets <- MCResets
INVARIANTS NoLostWakeup ArmedExactly CalloutOnTime
PROPERTIES EventDelivered
