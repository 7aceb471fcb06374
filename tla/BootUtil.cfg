SPECIFICATION FairSpec
CONSTANTS
    SlotLen = 3
    AreaLen = 2
    HdrLen = 1
    Sizes <- MCAligned
    Layouts <- MCAnyLayout
    MaxFaults = 3
    TornStatus = FALSE
INVARIANTS StatusAccurate ImagesKept BootsWholeImage RequestHonoured
PROPERTIES Boots
