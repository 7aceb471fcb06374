SPECIFICATION Spec
CONSTANTS
    Name <- MCName
    Byte <- MCByte
    Scenario <- MCScenario
    MaxSeq = 1
    MaxGc = 1
INVARIANTS ReadsBack  Mounts GcShrinks  
CHECK_DEADLOCK FALSE
