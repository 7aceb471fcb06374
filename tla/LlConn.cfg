SPECIFICATION FairSpec
CONSTANTS
    mas = mas
    sla = sla
    Master = mas
    Slave = sla
    NONE = NONE
    Scenario <- MCScenario
    TxOctets <- MCTxOctets
    CtrlBufs = 1
    TermTmo = 1
    TimeoutGap = FALSE
INVARIANTS AckedIsHeld EndAfterRx  TerminateHeard 
PROPERTIES Streams
CHECK_DEADLOCK FALSE
