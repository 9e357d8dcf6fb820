SPECIFICATION MCSpec
CONSTANTS
    MaxChunks <- ClientOnly
    MaxDrops = 1
    Faults <- MostFaults
PROPERTIES
    EndPropagates
    EndClosesTunnel
    RefusalClosesViewer
CHECK_DEADLOCK FALSE
