SPECIFICATION Spec
CONSTANTS
    Name <- MCName
    Byte <- MCByte
    Scenario <- MCGcCut
    MaxSeq = 1
    MaxGc = 1
INVARIANTS Mounts
CHECK_DEADLOCK FALSE
