SPECIFICATION Spec
CONSTANTS
    NULL = NULL
    Hand = {x, y}
    Bytes = 3
    Task = {t1}
    Pkt = {b1, b2, b3, b4}
    DataBufLen = 2
    PktHdr = 1
    UsrHdrs <- MCUsrHdrs
    Spaces <- MCSpaces
    Lens <- MCLens
    Use <- MCUse
    AnyCopy = FALSE
SYMMETRY MCSymmetry
INVARIANTS Contents PktLenIsSum EachBlockOnce InBounds ReadsExact NotStranded
 
