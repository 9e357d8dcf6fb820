SPECIFICATION FairSpec
CONSTANTS
    v1 = v1
    v2 = v2
    Viewer <- OneViewer
    Setups <- EveryFault
PROPERTIES
    DropIsNoticed
CHECK_DEADLOCK FALSE
