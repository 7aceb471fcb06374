SPECIFICATION FairSpec
CONSTANTS
    SlotLen = 3
    AreaLen = 2
    HdrLen = 1
    Sizes <- MCTwoAreas
    Layouts <- MCBoth
    MaxFaults = 1
    TornStatus = FALSE
PROPERTIES AlwaysBoots
